----------------------------- MODULE HirMeaning -----------------------------
(***************************************************************************)
(* The reference evaluator: what docs/spec.md says a program does, as a    *)
(* function from the tree, its input and nothing else to what it prints    *)
(* and how it ends.                                                        *)
(*                                                                         *)
(* A run so far is a record: env (names in scope), self (the environment   *)
(* of the running closure), heap, glob, input not read yet, out (printed), *)
(* val (the value just computed) and exit (how control leaves).            *)
(***************************************************************************)
EXTENDS Hir

Normal == <<"normal">>

Value(r, v) == [r EXCEPT !.val = v]
Exit(r, x) == [r EXCEPT !.exit = x]
Goes(r) == r.exit = Normal

Allocate(r, type, cells) ==
    [r EXCEPT !.heap = Append(@, [type |-> type, cells |-> cells]), !.val = Ref(Len(r.heap) + 1)]

\* error(message): a RuntimeException.
Raise(r) ==
    LET s == Allocate(r, "RuntimeException", <<Num(0)>>) IN Exit(s, <<"throw", s.val>>)

Cell(r, v, i) == r.heap[v[2]].cells[i]
SetCell(r, v, i, w) == [r EXCEPT !.heap[v[2]].cells[i] = w]

Bind(env, xs, vs) ==
    [x \in DOMAIN env \cup {xs[i] : i \in 1..Len(xs)} |->
        IF \E i \in 1..Len(xs) : xs[i] = x
        THEN vs[Max({i \in 1..Len(xs) : xs[i] = x})] ELSE env[x]]

EmptyEnv == [x \in {} |-> 0]

\* A block leaves the names around it as they were, except for what it assigned.
LeaveBlock(r, s, names) ==
    [s EXCEPT !.env = [x \in DOMAIN r.env |-> IF x \in names THEN r.env[x] ELSE s.env[x]]]

Arith(r, op, v, w) ==
    IF op \in {"/", "%"} /\ v[1] # "float" /\ w[1] # "float" /\ w[2] = 0 THEN Raise(r)
    ELSE Value(r, <<IF "float" \in {v[1], w[1]} THEN "float" ELSE "int", Compute(op, v[2], w[2])>>)

Compare(op, v, w) ==
    IF "null" \in {v[1], w[1]}
    THEN IF op = "==" THEN v[1] = w[1] ELSE v[1] # w[1]
    ELSE Holds(op, v[2], w[2])

RECURSIVE Eval(_, _, _)
RECURSIVE EvalLoop(_, _, _)
RECURSIVE EvalArms(_, _, _, _, _)

\* The values of es, left to right, in val.
EvalAll(P, es, r) ==
    LET step(q, e) ==
            IF ~Goes(q) THEN q
            ELSE LET s == Eval(P, e, q) IN Value(s, Append(q.val, s.val))
    IN FoldLeft(step, Value(r, <<>>), es)

Invoke(P, f, vs, self, r) ==
    LET fn == P.fns[f]
        s == Eval(P, fn.body, [r EXCEPT !.env = Bind(EmptyEnv, fn.params, vs), !.self = self])
        t == IF s.exit[1] = "return" THEN [s EXCEPT !.val = s.exit[2], !.exit = Normal] ELSE s
    IN [t EXCEPT !.env = r.env, !.self = r.self]

\* Superclass arguments, val and var parameters, field initializers, init blocks.
Construct(P, c, vs, r) ==
    LET cls == P.classes[c]
        o == Allocate([r EXCEPT !.env = Bind(EmptyEnv, [i \in 1..Len(cls.params) |-> cls.params[i].name], vs)],
                      c, [i \in 1..cls.size |-> Num(0)])
        this == [o EXCEPT !.env = Bind(@, <<"this">>, <<o.val>>)]
        fill(q, f) == IF ~Goes(q) THEN q
                      ELSE LET s == Eval(P, f.e, q) IN IF Goes(s) THEN SetCell(s, o.val, f.cell, s.val) ELSE s
        keep(q, i) == IF cls.params[i].cell = 0 THEN q ELSE SetCell(q, o.val, cls.params[i].cell, vs[i])
        A == FoldLeft(fill, this, cls.super)
        B == IF Goes(A) THEN FoldLeft(keep, A, [i \in 1..Len(cls.params) |-> i]) ELSE A
        C == FoldLeft(fill, B, cls.fields)
        D == FoldLeft(LAMBDA q, e : IF Goes(q) THEN Eval(P, e, q) ELSE q, C, cls.inits)
        E == IF Goes(D) THEN Value(D, o.val) ELSE D
    IN [E EXCEPT !.env = r.env]

CallNamed(P, f, vs, r) ==
    CASE f = "print" -> [r EXCEPT !.out = Append(@, vs[1]), !.val = Num(0)]
      [] f = "syscall" /\ vs[1] = Num(99) -> Raise(r)
      [] f = "syscall" -> [r EXCEPT !.val = Num(IF r.input = <<>> THEN -1 ELSE Head(r.input)),
                                    !.input = IF @ = <<>> THEN @ ELSE Tail(@)]
      [] f = "alloc" -> Allocate(r, "raw", [i \in 1..(vs[1][2] \div 9) |-> Num(0)])
      [] f = "hload" -> Value(r, Cell(r, vs[1], vs[2][2] \div 9 + 1))
      [] f = "hstore" -> Value(SetCell(r, vs[1], vs[2][2] \div 9 + 1, vs[3]), Num(0))
      [] f \in {"itof", "ftoi"} -> Value(r, <<IF f = "itof" THEN "float" ELSE "int", vs[1][2]>>)
      [] f = "fneg" -> Value(r, Flt(-vs[1][2]))
      [] f = "fadd" -> Value(r, Flt(vs[1][2] + vs[2][2]))
      [] f = "fsub" -> Value(r, Flt(vs[1][2] - vs[2][2]))
      [] f = "fmul" -> Value(r, Flt(vs[1][2] * vs[2][2]))
      [] f = "fdiv" -> Value(r, Flt(Quotient(vs[1][2], vs[2][2])))
      [] f \in DOMAIN P.fns -> Invoke(P, f, vs, NullValue, r)
      [] OTHER -> Construct(P, CHOOSE c \in DOMAIN P.classes : P.classes[c].ctor = f, vs, r)

\* A closure's environment holds the function and the captured values.
CallAny(P, v, vs, r) ==
    IF v[1] = "ref" THEN Invoke(P, Cell(r, v, 1)[2], vs, v, r) ELSE Invoke(P, v[2], vs, NullValue, r)

\* The implementation of method slot for the receiver's class.
Target(P, o, iface, slot) ==
    LET cls == P.classes[o.type]
    IN cls.vtable[IF iface = "" THEN slot ELSE cls.itables[iface][slot]]

ReadPlace(r, p) ==
    IF p.k = "global" THEN r.glob[p.slot]
    ELSE IF p.capture > 0 THEN Cell(r, r.self, p.capture + 1) ELSE r.env[p.name]

WritePlace(r, p, v) ==
    IF p.k = "global" THEN [r EXCEPT !.glob[p.slot] = v]
    ELSE IF p.capture > 0 THEN SetCell(r, r.self, p.capture + 1, v)
    ELSE [r EXCEPT !.env[p.name] = v]

InBounds(r, a, i) == i[2] >= 0 /\ i[2] < Len(r.heap[a[2]].cells) - 1

\* An assignment: the parts of the place, then the value, then the store.
EvalAssign(P, e, r) ==
    LET parts == CASE e.lhs.k = "field" -> <<e.lhs.obj, e.rhs>>
                   [] e.lhs.k = "index" -> <<e.lhs.obj, e.lhs.idx, e.rhs>>
                   [] OTHER -> <<e.rhs>>
        s == EvalAll(P, parts, r)
        at == IF e.lhs.k = "field" THEN e.lhs.at ELSE s.val[2][2] + 2
        old == IF e.lhs.k \in {"field", "index"} THEN Cell(s, s.val[1], at) ELSE ReadPlace(s, e.lhs)
        t == IF e.op = "set" THEN Value(s, Last(s.val)) ELSE Arith(s, e.op, old, Last(s.val))
    IN CASE ~Goes(s) -> s
         [] e.lhs.k = "index" /\ ~InBounds(s, s.val[1], s.val[2]) -> Raise(s)
         [] ~Goes(t) -> t
         [] e.lhs.k \in {"field", "index"} -> Value(SetCell(t, s.val[1], at, t.val), Num(0))
         [] OTHER -> Value(WritePlace(t, e.lhs, t.val), Num(0))

\* A loop absorbs the break or continue meant for it and passes the others on.
EvalLoop(P, e, r) ==
    LET c == IF e.k = "while" THEN Eval(P, e.cond, r) ELSE Value(r, Num(1))
        go == Eval(P, e.body, c)
        mine == {"", e.label}
    IN CASE ~Goes(c) -> c
         [] c.val # Num(1) -> Value(c, Num(0))
         [] go.exit[1] = "break" /\ go.exit[2] \in mine -> Value(Exit(go, Normal), Num(0))
         [] Goes(go) \/ (go.exit[1] = "continue" /\ go.exit[2] \in mine) -> EvalLoop(P, e, Exit(go, Normal))
         [] OTHER -> go

\* The i-th arm on; the else arm comes last wherever it is written.
EvalArms(P, e, i, v, r) ==
    LET else == {j \in 1..Len(e.arms) : e.arms[j].k = "else"}
        arm == e.arms[i]
        c == Eval(P, arm.cond, r)
        named == [j \in 1..Len(arm.names) |-> Cell(r, v, j + 1)]
    IN CASE i > Len(e.arms) -> IF else = {} THEN Value(r, Num(0)) ELSE Eval(P, e.arms[Min(else)].body, r)
         [] arm.k = "else" -> EvalArms(P, e, i + 1, v, r)
         [] arm.k = "value" -> IF ~Goes(c) THEN c
                               ELSE IF Compare("==", v, c.val) THEN Eval(P, arm.body, c)
                               ELSE EvalArms(P, e, i + 1, v, c)
         [] arm.k = "variant" ->
              IF Cell(r, v, 1)[2] # arm.variant THEN EvalArms(P, e, i + 1, v, r)
              ELSE LET s == Eval(P, arm.body, [r EXCEPT !.env = Bind(@, arm.names, named)])
                   IN LeaveBlock(r, s, {arm.names[j] : j \in 1..Len(arm.names)})

EvalTry(P, e, r) ==
    LET tried == Eval(P, e.body, r)
        hits == IF tried.exit[1] # "throw" THEN {}
                ELSE {i \in 1..Len(e.catches) : Inherits(P, tried.heap[tried.exit[2][2]].type, e.catches[i].type)}
        c == e.catches[Min(hits)]
        caught == Eval(P, c.body, [Exit(tried, Normal) EXCEPT !.env = Bind(@, <<c.name>>, <<tried.exit[2]>>)])
        handled == IF hits = {} THEN tried ELSE LeaveBlock(r, caught, {c.name})
        final == Eval(P, e.fin, Exit(handled, Normal))
    IN IF Goes(final) THEN [final EXCEPT !.exit = handled.exit, !.val = handled.val] ELSE final

EvalBlock(P, e, r) ==
    LET step(q, s) ==
            IF ~Goes(q) THEN q
            ELSE IF s.k = "let"
                 THEN LET v == Eval(P, s.init, q)
                      IN IF Goes(v) THEN [v EXCEPT !.env = Bind(@, <<s.name>>, <<v.val>>)] ELSE v
                 ELSE Eval(P, s, q)
        body == FoldLeft(step, r, e.stmts)
        all == IF Goes(body) THEN Eval(P, e.tail, body) ELSE body
    IN LeaveBlock(r, all, {e.stmts[i].name : i \in {j \in 1..Len(e.stmts) : e.stmts[j].k = "let"}})

\* Kinds whose operands are all evaluated first.
Operands(e) ==
    CASE e.k = "array" -> e.elems
      [] e.k \in {"call", "enum"} -> e.args
      [] e.k = "callValue" -> <<e.fn>> \o e.args
      [] e.k = "method" -> <<e.recv>> \o e.args
      [] e.k \in {"field", "safeField"} -> <<e.obj>>
      [] e.k = "index" -> <<e.obj, e.idx>>
      [] e.k \in {"unary", "cast", "unwrap", "is", "isNot", "return", "throw"} -> <<e.e>>
      [] e.k = "binary" -> <<e.l, e.r>>

Strict == {"array", "call", "enum", "callValue", "method", "field", "safeField", "index",
           "unary", "cast", "unwrap", "is", "isNot", "return", "throw", "binary"}

\* s has the values of the operands; q is s without them.
Apply(P, e, s) ==
    LET v == s.val[1]
        q == Value(s, Num(0))
        isA == v[1] = "ref" /\ Inherits(P, s.heap[v[2]].type, e.type)
    IN CASE e.k = "array" -> Allocate(q, "array", <<Num(Len(s.val))>> \o s.val)
         [] e.k = "call" -> CallNamed(P, e.fn, s.val, q)
         [] e.k = "enum" -> Allocate(q, "enum", <<Num(e.variant)>> \o s.val)
         [] e.k = "callValue" -> CallAny(P, v, Tail(s.val), q)
         [] e.k = "method" -> Invoke(P, Target(P, s.heap[v[2]], e.iface, e.slot), s.val, NullValue, q)
         [] e.k = "field" -> Value(q, Cell(q, v, e.at))
         [] e.k = "safeField" -> Value(q, IF v[1] = "null" THEN NullValue ELSE Cell(q, v, e.at))
         [] e.k = "index" -> IF InBounds(q, v, s.val[2]) THEN Value(q, Cell(q, v, s.val[2][2] + 2)) ELSE Raise(q)
         [] e.k = "unary" -> Value(q, IF e.op = "!" THEN Truth(v[2] = 0) ELSE <<v[1], -v[2]>>)
         [] e.k = "cast" -> Value(q, <<e.ty, v[2]>>)
         [] e.k = "unwrap" -> IF v[1] = "null" THEN Raise(q) ELSE Value(q, v)
         [] e.k = "is" -> Value(q, Truth(isA))
         [] e.k = "isNot" -> Value(q, Truth(~isA))
         [] e.k = "return" -> Exit(q, <<"return", v>>)
         [] e.k = "throw" -> Exit(q, <<"throw", v>>)
         [] e.k = "binary" -> IF e.op \in Comparisons THEN Value(q, Truth(Compare(e.op, v, s.val[2])))
                              ELSE Arith(q, e.op, v, s.val[2])

Eval(P, e, r) ==
    CASE ~Goes(r) -> r
      [] e.k = "lit" -> Value(r, e.v)
      [] e.k \in {"path", "global"} -> Value(r, ReadPlace(r, e))
      [] e.k = "fnptr" -> Value(r, Fn(e.name))
      [] e.k = "closure" ->
           Allocate(r, "closure", <<Fn(e.fn)>> \o [i \in 1..Len(e.captures) |-> ReadPlace(r, e.captures[i])])
      [] e.k \in {"and", "or"} ->
           LET l == Eval(P, e.l, r)
           IN IF Goes(l) /\ l.val = Truth(e.k = "and") THEN Eval(P, e.r, l) ELSE l
      [] e.k = "if" ->
           LET c == Eval(P, e.cond, r)
           IN IF ~Goes(c) THEN c ELSE IF c.val = Num(1) THEN Eval(P, e.then, c) ELSE Eval(P, e.else, c)
      [] e.k = "elvis" ->
           LET l == Eval(P, e.l, r)
           IN IF Goes(l) /\ l.val[1] = "null" THEN Eval(P, e.r, l) ELSE l
      [] e.k = "safeCall" ->
           LET o == Eval(P, e.obj, r)
               s == EvalAll(P, e.args, o)
           IN CASE ~Goes(o) \/ o.val[1] = "null" -> o
                [] ~Goes(s) -> s
                [] OTHER -> Invoke(P, e.method, <<o.val>> \o s.val, NullValue, s)
      [] e.k = "when" ->
           LET v == Eval(P, e.scrut, r) IN IF Goes(v) THEN EvalArms(P, e, 1, v.val, v) ELSE v
      [] e.k \in {"while", "loop"} -> EvalLoop(P, e, r)
      [] e.k = "block" -> EvalBlock(P, e, r)
      [] e.k = "assign" -> EvalAssign(P, e, r)
      [] e.k \in {"break", "continue"} -> Exit(r, <<e.k, e.label>>)
      [] e.k = "try" -> EvalTry(P, e, r)
      [] e.k \in Strict ->
           LET s == EvalAll(P, Operands(e), r) IN IF Goes(s) THEN Apply(P, e, s) ELSE s

\* Globals are initialised in order, then main runs.
Meaning(P, chars) ==
    Eval(P, Block([i \in 1..Len(P.globals) |-> Assign("set", Global(i), Call(P.globals[i], <<>>))], Call("main", <<>>)),
         [env |-> EmptyEnv, self |-> NullValue, heap |-> <<>>, input |-> chars, out |-> <<>>,
          glob |-> [i \in 1..Len(P.globals) |-> Num(0)], val |-> Num(0), exit |-> Normal])
=============================================================================
