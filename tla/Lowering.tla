------------------------------ MODULE Lowering ------------------------------
(***************************************************************************)
(* From the tree to basic blocks (v2/backend/Lowering.cpp): every          *)
(* expression leaves its value in a numbered local, statements are         *)
(* appended to the current block, and finally is not a region of the code: *)
(* every return, break, continue and throw that leaves a try gets its own  *)
(* inline copy of the finalizers it crosses, and a TryPop for each handler *)
(* it leaves behind.                                                       *)
(*                                                                         *)
(* Source positions are left out.  A value occupies nine bytes, so cell i  *)
(* of an object is at offset 9 * (i - 1).                                  *)
(***************************************************************************)
EXTENDS Hir

ResultLocal == 0
Entry == 1
ExitBlock == 2
NoLocal == -1
CellSize == 9
Offset(cell) == CellSize * (cell - 1)

\* Operands
Copy(l) == <<"copy", l>>
Const(v) == <<"const", v>>
Label(f) == <<"label", f>>

\* The state of class Lowering while one function is lowered.  val is the local the
\* last expression left its value in.
NewBody(name) ==
    [name |-> name, params |-> 0, ty |-> <<"any">>,
     blocks |-> <<<<>>, <<>>>>, cur |-> Entry, done |-> FALSE,     \* m_blockTerminated
     scope |-> [x \in {} |-> 0], env |-> NoLocal, scratch |-> NoLocal,
     fin |-> <<>>, active |-> <<>>,        \* m_finallyStack, m_finallyHandlerActive
     loops |-> <<>>,                       \* m_loopStack
     val |-> ResultLocal]

Val(L, l) == [L EXCEPT !.val = l]

NewLocal(L, ty) == [L EXCEPT !.ty = Append(@, ty), !.val = Len(L.ty)]

\* m_scope[name] = l
Declare(L, x, l) ==
    [L EXCEPT !.scope = [y \in DOMAIN @ \cup {x} |-> IF y = x THEN l ELSE L.scope[y]]]

Emit(L, i) == IF L.done THEN L ELSE [L EXCEPT !.blocks[L.cur] = Append(@, i)]

Term(L, i) == [Emit(L, i) EXCEPT !.done = TRUE]

NewBlocks(L, n) == [L EXCEPT !.blocks = @ \o [i \in 1..n |-> <<>>]]

StartBlock(L, b) == [L EXCEPT !.cur = b, !.done = FALSE]

Store(L, l, rv) == Emit(L, <<"assign", l, rv>>)

\* A new local with the value rv.
Temp(L, ty, rv) == LET M == NewLocal(L, ty) IN Store(M, M.val, rv)

Use(o) == <<"use", o>>

UnitLocal(L) == Temp(L, "unit", Use(Const(Num(0))))

ScratchLocal(L) ==
    IF L.scratch # NoLocal THEN L ELSE LET M == NewLocal(L, "unit") IN [M EXCEPT !.scratch = M.val]

PushFinally(L, fin, active) ==
    [L EXCEPT !.fin = Append(@, fin), !.active = Append(@, active)]

PopFinally(L) == [L EXCEPT !.fin = Front(@), !.active = Front(@)]

Finalizers(L, depth) ==
    [L EXCEPT !.fin = SubSeq(@, 1, depth), !.active = SubSeq(@, 1, depth)]

LeaveHandlerInstalled(L, active) == L

\* Leaving a try whose handler is still installed removes it first.
LeaveHandler(L, active) == IF active THEN Emit(L, <<"tryPop">>) ELSE L

HandledDepthTop(L) == Len(L.active)

\* runtimeHandledDepth: finalizers above the innermost try whose handler is installed
\* have no landing pad and are copied before the throw.
HandledDepth(L) ==
    Max({0} \cup {i \in 1..Len(L.active) : L.active[i]})

\* The loop an exit with label l leaves; the checker rejects an exit without one.
LoopAt(L, l) ==
    L.loops[Max({i \in 1..Len(L.loops) : l = "" \/ L.loops[i].label = l})]

RECURSIVE Lower(_, _)
RECURSIVE Finalize(_, _, _, _)
RECURSIVE LowerClauses(_, _, _, _, _, _)
RECURSIVE LowerArms(_, _, _, _, _, _, _)

\* The locals of es, left to right, in val.
LowerAll(L, es) ==
    LET step(q, e) == LET M == Lower(q, e) IN Val(M, Append(q.val, M.val))
    IN FoldLeft(step, Val(L, <<>>), es)

Copies(locals) == [i \in 1..Len(locals) |-> Copy(locals[i])]

\* Copies of saved.fin[i], ..., saved.fin[depth + 1], until one does not complete.
Finalize(L, saved, i, depth) ==
    IF i = depth THEN L
    ELSE LET M == Lower(LeaveHandler(L, saved.active[i]), saved.fin[i])
         IN IF M.done THEN M ELSE Finalize(M, saved, i - 1, depth)

\* lowerFinalizersTo; the result is done when a finalizer ended in an exit of its own.
LowerFinalizersTo(L, to) ==
    LET depth == IF to > Len(L.fin) THEN Len(L.fin) ELSE to
        M == Finalize(Finalizers(L, depth), L, Len(L.fin), depth)
    IN [M EXCEPT !.fin = L.fin, !.active = L.active]

\* Finalizers, then the exit itself unless one of them replaced it.
LowerExit(L, depth, exits) ==
    LET M == LowerFinalizersTo(L, depth)
    IN UnitLocal(IF M.done THEN M ELSE Term(FoldLeft(Emit, M, Front(exits)), Last(exits)))

-----------------------------------------------------------------------------
(* Places *)

\* A global, a local, a captured variable, or a function.
LowerPath(L, e) ==
    IF e.k = "global" THEN Temp(L, "any", <<"gload", e.slot>>)
    ELSE IF e.k = "fnptr" THEN Temp(L, "any", Use(Label(e.name)))
    ELSE IF e.name \in DOMAIN L.scope THEN Val(L, L.scope[e.name])
    ELSE IF e.capture > 0 /\ L.env # NoLocal
         THEN Temp(L, "any", <<"closureGet", L.env, Offset(e.capture)>>)
    ELSE UnitLocal(L)

\* new := old op rhs, for the compound assignments.
Combine(L, op, old, rhs) == Temp(L, L.ty[old + 1], <<"binary", op, Copy(old), Copy(rhs)>>)

\* read is the rvalue that reads the place, write(o) the one that writes it.
LowerUpdate(L, op, base, read, write(_), rhs) ==
    IF op = "set" THEN Store(L, base, write(Copy(rhs)))
    ELSE LET A == Temp(L, "any", read)
             B == Combine(A, op, A.val, rhs)
         IN Store(B, base, write(Copy(B.val)))

\* A has the locals of the place's parts and of the right-hand side in val.
AssignTo(A, e) ==
    LET p == e.lhs
        base == A.val[1]
        rhs == Last(A.val)
        lhs == A.scope[p.name]
    IN CASE p.k = "path" /\ p.capture > 0 /\ A.env # NoLocal ->
              LowerUpdate(A, e.op, A.env, <<"closureGet", A.env, Offset(p.capture)>>,
                          LAMBDA o : <<"closureSet", Offset(p.capture), o>>, rhs)
         [] p.k = "global" ->
              LET C == IF e.op = "set" THEN Val(A, rhs)
                       ELSE LET D == Temp(A, "any", <<"gload", p.slot>>) IN Combine(D, e.op, D.val, rhs)
                  S == ScratchLocal(C)
              IN Store(S, S.scratch, <<"gstore", p.slot, Copy(C.val)>>)
         [] p.k = "field" ->
              LowerUpdate(A, e.op, base, <<"field", base, Offset(p.at)>>,
                          LAMBDA o : <<"hstore", Offset(p.at), o>>, rhs)
         [] p.k = "index" ->
              LowerUpdate(A, e.op, base, <<"index", base, Copy(A.val[2])>>,
                          LAMBDA o : <<"indexStore", Copy(A.val[2]), o>>, rhs)
         [] OTHER ->
              Store(A, lhs, IF e.op = "set" THEN Use(Copy(rhs))
                            ELSE <<"binary", e.op, Copy(lhs), Copy(rhs)>>)

LowerAssign(L, e) ==
    LET p == e.lhs
        parts == CASE p.k = "field" -> <<p.obj, e.rhs>>
                   [] p.k = "index" -> <<p.obj, p.idx, e.rhs>>
                   [] OTHER -> <<e.rhs>>
    IN UnitLocal(AssignTo(LowerAll(L, parts), e))

-----------------------------------------------------------------------------
(* Expressions *)

\* A captured variable is copied; one held by this closure's environment is forwarded.
LowerCaptures(L, captures) ==
    LET step(q, c) ==
            LET M == LowerPath(q, c)
            IN IF c.name \in DOMAIN q.scope \/ (c.capture > 0 /\ q.env # NoLocal)
               THEN Val(M, Append(q.val, M.val)) ELSE q
    IN FoldLeft(step, Val(L, <<>>), captures)

LowerClosure(L, e) ==
    LET A == LowerCaptures(L, e.captures)
    IN Temp(A, "any", <<"closure", e.fn, Copies(A.val)>>)

LowerArray(L, e) == LET A == LowerAll(L, e.elems) IN Temp(A, "any", <<"array", Copies(A.val)>>)

\* The object is allocated first, then every argument is lowered and stored.
LowerEnumCtor(L, e) ==
    LET A == Temp(L, "any", <<"alloc", Offset(Len(e.args) + 2), "enum">>)
        o == A.val
        B == Store(A, o, <<"hstore", Offset(1), Const(Num(e.variant))>>)
        fill(q, i) == LET M == Lower(q, e.args[i]) IN Store(M, o, <<"hstore", Offset(i + 1), Copy(M.val)>>)
    IN Val(FoldLeft(fill, B, [i \in 1..Len(e.args) |-> i]), o)

\* The block after a call picks the value up from local 0.
Resume(L, ty, call) ==
    LET A == NewBlocks(NewLocal(L, ty), 1)
        resume == Len(A.blocks)
    IN Store(StartBlock(Term(A, Append(call, resume)), resume), A.val, Use(Copy(ResultLocal)))

LowerCall(L, e) ==
    IF e.k = "call"
    THEN LET A == LowerAll(L, e.args) IN Resume(A, e.ty, <<"call", e.fn, Copies(A.val)>>)
    ELSE LET A == LowerAll(L, <<e.fn>> \o e.args)
         IN Resume(A, "any", <<"callInd", Copy(A.val[1]), Copies(Tail(A.val))>>)

LowerMethodCall(L, e) ==
    LET A == LowerAll(L, <<e.recv>> \o e.args)
    IN Resume(A, "any", IF e.iface = "" THEN <<"vcall", e.slot, Copies(A.val)>>
                        ELSE <<"icall", e.iface, e.slot, Copies(A.val)>>)

LowerOperator(L, e) ==
    LET A == LowerAll(L, IF e.k = "binary" THEN <<e.l, e.r>> ELSE <<e.e>>)
        x == Copy(A.val[1])
    IN Temp(A, e.ty, CASE e.k = "binary" -> <<"binary", e.op, x, Copy(A.val[2])>>
                       [] e.k = "unary" -> <<"unary", e.op, x>>
                       [] e.k = "cast" -> <<"cast", x, e.ty>>)

\* result := the value of e in block b, then on to merge.
Branch(L, b, e, result, merge) ==
    LET A == Lower(StartBlock(L, b), e)
    IN IF A.done THEN A ELSE Term(Store(A, result, Use(Copy(A.val))), <<"goto", merge>>)

\* Also && and ||, whose other branch is a constant.
LowerIf(L, cond, then, else) ==
    LET A == Lower(L, cond)
        b == Len(A.blocks) + 1
        B == StartBlock(Term(NewBlocks(A, 3), <<"switch", Copy(A.val), b, b + 1>>), b)
        C == Lower(B, then)
        D == NewLocal(C, C.ty[C.val + 1])
        r == D.val
        E == IF D.done THEN D ELSE Term(Store(D, r, Use(Copy(C.val))), <<"goto", b + 2>>)
    IN Val(StartBlock(Branch(E, b + 1, else, r, b + 2), b + 2), r)

EnterLoop(L, label, break, continue) ==
    [L EXCEPT !.loops = Append(@, [label |-> label, break |-> break, continue |-> continue,
                                   depth |-> Len(L.fin)])]

LowerWhile(L, e) ==
    LET header == Len(L.blocks) + 1
        exit == header + 2
        A == Lower(StartBlock(Term(NewBlocks(L, 3), <<"goto", header>>), header), e.cond)
        B == StartBlock(Term(A, <<"switch", Copy(A.val), header + 1, exit>>), header + 1)
        C == Lower(EnterLoop(B, e.label, exit, header), e.body)
    IN UnitLocal(StartBlock(Term([C EXCEPT !.loops = L.loops], <<"goto", header>>), exit))

LowerLoopNoExit(L, e) ==
    LET body == Len(L.blocks) + 1
        A == StartBlock(Term(NewBlocks(L, 2), <<"goto", body>>), body)
        B == Lower(EnterLoop(A, e.label, body, body), e.body)
    IN UnitLocal(StartBlock(Term([B EXCEPT !.loops = L.loops], <<"goto", body>>), body + 1))

LowerLoop(L, e) ==
    LET body == Len(L.blocks) + 1
        A == StartBlock(Term(NewBlocks(L, 2), <<"goto", body>>), body)
        B == Lower(EnterLoop(A, e.label, body + 1, body), e.body)
    IN UnitLocal(StartBlock(Term([B EXCEPT !.loops = L.loops], <<"goto", body>>), body + 1))

\* The payload names of a variant arm; they stay in m_scope.
BindPayload(L, scrut, names) ==
    LET bind(q, i) == LET M == Temp(q, "any", <<"field", scrut, Offset(i + 1)>>) IN Declare(M, names[i], M.val)
    IN FoldLeft(bind, L, [i \in 1..Len(names) |-> i])

\* arms are the tested arms from the i-th on; check block of arm i is first + 2 * (i - 1),
\* its body the next.
LowerArms(L, arms, i, scrut, result, first, otherwise) ==
    IF i > Len(arms) THEN L
    ELSE LET arm == arms[i]
             check == first + 2 * (i - 1)
             next == IF i < Len(arms) THEN check + 2 ELSE otherwise
             A == IF arm.k = "value" THEN Lower(StartBlock(L, check), arm.cond)
                  ELSE Temp(StartBlock(L, check), "int", <<"field", scrut, Offset(1)>>)
             B == Temp(A, "int", IF arm.k = "value" THEN <<"binary", "==", Copy(scrut), Copy(A.val)>>
                                 ELSE <<"binary", "==", Copy(A.val), Const(Num(arm.variant))>>)
             C == StartBlock(Term(B, <<"switch", Copy(B.val), check + 1, next>>), check + 1)
             D == IF arm.k = "variant" THEN BindPayload(C, scrut, arm.names) ELSE C
         IN LowerArms(Branch(D, check + 1, arm.body, result, first - 1), arms, i + 1, scrut, result, first, otherwise)

\* scrut and B.val are the locals of the scrutinee and of the result.  The first else
\* arm is taken out and comes last.
WhenBlocks(B, scrut, e) ==
    LET exit == Len(B.blocks) + 1
        else == {i \in 1..Len(e.arms) : e.arms[i].k = "else"}
        arms == SelectSeq(e.arms, LAMBDA a : a.k # "else")
        otherwise == IF else = {} THEN exit ELSE exit + 2 * Len(arms) + 1
        C == NewBlocks(B, 1 + 2 * Len(arms) + Cardinality(else))
        D == IF arms = <<>> THEN C
             ELSE LowerArms(Term(C, <<"goto", exit + 1>>), arms, 1, scrut, B.val, exit + 1, otherwise)
        E == IF else = {} THEN D ELSE Branch(D, otherwise, e.arms[Min(else)].body, B.val, exit)
    IN Val(StartBlock(E, exit), B.val)

LowerWhen(L, e) ==
    IF e.arms = <<>> THEN UnitLocal(L)
    ELSE LET A == Lower(L, e.scrut) IN WhenBlocks(NewLocal(A, "any"), A.val, e)

\* The clauses from the i-th on; t is [result, exception, handler, fin], and the blocks
\* after the handler are normalFinallyB, exceptionalFinallyB and mergeB.
LowerClauses(L, t, clauses, i, handler, fin) ==
    IF i > Len(clauses) THEN Term(L, <<"goto", handler + 2>>)
    ELSE LET c == clauses[i]
             catchB == Len(L.blocks) + 1
             A == NewBlocks(Temp(L, "int", <<"is", t.exception, c.type>>), 2)
             B == StartBlock(Term(A, <<"switch", Copy(A.val), catchB, catchB + 1>>), catchB)
             C == Lower(PushFinally(Declare(B, c.name, t.exception), fin, FALSE), c.body)
             D == PopFinally([C EXCEPT !.scope = [x \in (DOMAIN @ \ {c.name}) \cup (DOMAIN L.scope \cap {c.name}) |->
                                                     IF x = c.name THEN L.scope[x] ELSE C.scope[x]]])
             E == IF D.done THEN D ELSE Term(Store(D, t.result, Use(Copy(C.val))), <<"goto", handler + 1>>)
         IN LowerClauses(StartBlock(E, catchB + 1), t, clauses, i + 1, handler, fin)

LowerTry(L, e) ==
    LET R == NewLocal(L, "any")
        X == NewLocal(R, "int")
        t == [result |-> R.val, exception |-> X.val]
        h == Len(L.blocks) + 1
        A == Emit(NewBlocks(X, 4), <<"tryPush", h, t.exception>>)
        B == PopFinally(Lower(PushFinally(A, e.fin, TRUE), e.body))
        C == IF B.done THEN B
             ELSE Term(Emit(Store(B, t.result, Use(Copy(B.val))), <<"tryPop">>), <<"goto", h + 1>>)
        D == LowerClauses(StartBlock(C, h), t, e.catches, 1, h, e.fin)
        E == Term(Lower(StartBlock(D, h + 1), e.fin), <<"goto", h + 3>>)
        F == Term(Lower(StartBlock(E, h + 2), e.fin), <<"throw", Copy(t.exception)>>)
    IN Val(StartBlock(F, h + 3), t.result)

LowerUnwrap(L, e) ==
    LET A == Lower(L, e.e)
        b == Len(A.blocks) + 1
        B == Term(NewBlocks(A, 2), <<"checkNull", Copy(A.val), b + 1, b>>)
    IN Val(StartBlock(Term(StartBlock(B, b + 1), <<"unreachable">>), b), A.val)

LowerElvis(L, e) ==
    LET A == Lower(L, e.l)
        B == NewLocal(A, "any")
        b == Len(A.blocks) + 1
        C == StartBlock(Term(NewBlocks(B, 3), <<"checkNull", Copy(A.val), b + 1, b>>), b)
        D == Term(Store(C, B.val, Use(Copy(A.val))), <<"goto", b + 2>>)
    IN Val(StartBlock(Branch(D, b + 1, e.r, B.val, b + 2), b + 2), B.val)

SafeFieldNull == Const(Num(0))

LowerSafeField(L, e) ==
    LET A == Lower(L, e.obj)
        B == NewLocal(A, "any")
        b == Len(A.blocks) + 1
        C == StartBlock(Term(NewBlocks(B, 3), <<"checkNull", Copy(A.val), b + 1, b>>), b + 1)
        D == StartBlock(Term(Store(C, B.val, Use(SafeFieldNull)), <<"goto", b + 2>>), b)
        E == Term(Store(D, B.val, <<"field", A.val, Offset(e.at)>>), <<"goto", b + 2>>)
    IN Val(StartBlock(E, b + 2), B.val)

\* The callee is the bare method name, and the value the call leaves in local 0 is not
\* copied: the result is cd, which nothing assigns.
LowerSafeCall(L, e) ==
    LET A == Lower(L, e.obj)
        B == NewLocal(A, "any")
        b == Len(A.blocks) + 1
        C == StartBlock(Term(NewBlocks(B, 3), <<"checkNull", Copy(A.val), b + 1, b>>), b + 1)
        D == StartBlock(Term(Store(C, B.val, Use(SafeFieldNull)), <<"goto", b + 2>>), b)
        E == LowerAll(D, e.args)
        cd == Len(E.ty)
        cr == Len(E.blocks) + 1
        F == Term(NewBlocks(NewLocal(E, "int"), 1), <<"call", e.method, <<Copy(A.val)>> \o Copies(E.val), cr>>)
        G == Term(Store(StartBlock(F, cr), B.val, Use(Copy(cd))), <<"goto", b + 2>>)
    IN Val(StartBlock(G, b + 2), B.val)

LowerIs(L, e) ==
    LET A == Lower(L, e.e)
        B == Temp(A, "int", <<"is", A.val, e.type>>)
    IN IF e.k = "is" THEN B ELSE Temp(B, "int", <<"unary", "!", Copy(B.val)>>)

LowerReturn(L, e) ==
    LET A == Lower(L, e.e)
    IN LowerExit(A, 0, <<<<"assign", ResultLocal, Use(Copy(A.val))>>, <<"goto", ExitBlock>>>>)

LowerThrow(L, e) ==
    LET A == Lower(L, e.e) IN LowerExit(A, HandledDepth(A), <<<<"throw", Copy(A.val)>>>>)

\* Statements behind an exit are not lowered; a let adds its name to m_scope for good.
LowerStmt(L, s) ==
    IF L.done THEN L
    ELSE IF s.k = "let"
         THEN LET A == Lower(L, s.init)
                  B == Temp(A, s.ty, Use(Copy(A.val)))
              IN Declare(B, s.name, B.val)
         ELSE Lower(L, s)

LowerBlock(L, e) ==
    LET b == Len(L.blocks) + 1
        A == StartBlock(Term(NewBlocks(L, 1), <<"goto", b>>), b)
    IN Lower(FoldLeft(LowerStmt, A, e.stmts), e.tail)

Lower(L, e) ==
    CASE L.done -> UnitLocal(L)
      [] e.k = "lit" -> Temp(L, e.ty, Use(Const(e.v)))
      [] e.k \in {"path", "global", "fnptr"} -> LowerPath(L, e)
      [] e.k = "array" -> LowerArray(L, e)
      [] e.k = "closure" -> LowerClosure(L, e)
      [] e.k = "enum" -> LowerEnumCtor(L, e)
      [] e.k \in {"call", "callValue"} -> LowerCall(L, e)
      [] e.k = "method" -> LowerMethodCall(L, e)
      [] e.k = "field" -> LET A == Lower(L, e.obj) IN Temp(A, "any", <<"field", A.val, Offset(e.at)>>)
      [] e.k = "index" ->
           LET A == LowerAll(L, <<e.obj, e.idx>>) IN Temp(A, "any", <<"index", A.val[1], Copy(A.val[2])>>)
      [] e.k \in {"unary", "binary", "cast"} -> LowerOperator(L, e)
      [] e.k = "and" -> LowerIf(L, e.l, e.r, Lit(0))
      [] e.k = "or" -> LowerIf(L, e.l, Lit(1), e.r)
      [] e.k = "assign" -> LowerAssign(L, e)
      [] e.k = "block" -> LowerBlock(L, e)
      [] e.k = "if" -> LowerIf(L, e.cond, e.then, e.else)
      [] e.k = "while" -> LowerWhile(L, e)
      [] e.k = "loop" -> LowerLoop(L, e)
      [] e.k = "when" -> LowerWhen(L, e)
      [] e.k = "break" ->
           LowerExit(L, LoopAt(L, e.label).depth, <<<<"goto", LoopAt(L, e.label).break>>>>)
      [] e.k = "continue" ->
           LowerExit(L, LoopAt(L, e.label).depth, <<<<"goto", LoopAt(L, e.label).continue>>>>)
      [] e.k = "return" -> LowerReturn(L, e)
      [] e.k = "throw" -> LowerThrow(L, e)
      [] e.k = "try" -> LowerTry(L, e)
      [] e.k = "unwrap" -> LowerUnwrap(L, e)
      [] e.k = "elvis" -> LowerElvis(L, e)
      [] e.k = "safeField" -> LowerSafeField(L, e)
      [] e.k = "safeCall" -> LowerSafeCall(L, e)
      [] e.k \in {"is", "isNot"} -> LowerIs(L, e)

-----------------------------------------------------------------------------
(* Functions and classes *)

Parameters(L, xs) ==
    LET add(q, x) == LET M == NewLocal(q, "any") IN Declare(M, x, M.val)
        M == FoldLeft(add, L, xs)
    IN [M EXCEPT !.params = Len(M.ty) - 1]

\* The value goes to local 0 and the exit block returns.
FinishBody(L) ==
    LET M == Term(Store(L, ResultLocal, Use(Copy(L.val))), <<"goto", ExitBlock>>)
    IN [M EXCEPT !.blocks[ExitBlock] = <<<<"return">>>>]

\* lowerFn and lowerMethod; a closure's body has its environment as first parameter, a
\* method "this".
LowerFn(name, fn) ==
    LET A == Parameters(NewBody(name), IF fn.env THEN <<"__closure_env">> \o fn.params ELSE fn.params)
    IN FinishBody(Lower([A EXCEPT !.env = IF fn.env THEN 1 ELSE NoLocal], fn.body))

\* Cell cell of the object in local o := the value just lowered.
StoreCell(L, o, cell) == Store(L, o, <<"hstore", Offset(cell), Copy(L.val)>>)

\* The cells of the object in local o that fs name, in turn.
FillFields(L, o, fs) == FoldLeft(LAMBDA q, f : StoreCell(Lower(q, f.e), o, f.cell), L, fs)

KeepParameters(L, o, xs) ==
    FoldLeft(LAMBDA q, x : IF x.cell = 0 THEN q ELSE StoreCell(Val(q, q.scope[x.name]), o, x.cell), L, xs)

\* The object is in local o: superclass arguments, then val and var parameters, field
\* initializers, init blocks.
FillObject(L, o, cls) ==
    Val(FoldLeft(Lower, FillFields(KeepParameters(FillFields(Declare(L, "this", o), o, cls.super),
                                                  o, cls.params),
                                   o, cls.fields),
                 cls.inits), o)

LowerClassCtor(name, cls) ==
    LET xs == [i \in 1..Len(cls.params) |-> cls.params[i].name]
        size == IF cls.size = 0 THEN CellSize ELSE CellSize * cls.size
        A == Temp(Parameters(NewBody(cls.ctor), xs), "any", <<"alloc", size, name>>)
    IN FinishBody(FillObject(A, A.val, cls))

\* lower: the bodies of a module, functions first.
LowerModule(P) ==
    {LowerFn(f, P.fns[f]) : f \in DOMAIN P.fns}
    \cup {LowerClassCtor(c, P.classes[c]) : c \in DOMAIN P.classes}
=============================================================================
