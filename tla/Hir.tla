-------------------------------- MODULE Hir --------------------------------
(***************************************************************************)
(* The typed tree the middle end hands to the back end (v2/hir/HIR.hpp)    *)
(* and what a program made of it means: arguments are evaluated once, from *)
(* left to right, a block's names end with it, an exception is caught by   *)
(* the first clause of the innermost try that names its type, and finally  *)
(* runs on every way out (docs/spec.md).                                   *)
(*                                                                         *)
(* A node is a record whose field k names its kind; ty is "float" for the  *)
(* nodes whose local decides between integer and float instructions.       *)
(***************************************************************************)
EXTENDS Integers, Sequences, SequencesExt, FiniteSetsExt

\* Tagged values.  bool and char are integers at run time; a function is its address.
Num(n) == <<"int", n>>
Flt(n) == <<"float", n>>
Ref(h) == <<"ref", h>>
Fn(f) == <<"fn", f>>
NullValue == <<"null", 0>>
Truth(b) == Num(IF b THEN 1 ELSE 0)

\* Expressions
Lit(n) == [k |-> "lit", v |-> Num(n), ty |-> "int"]
LitF(n) == [k |-> "lit", v |-> Flt(n), ty |-> "float"]
Null == [k |-> "lit", v |-> NullValue, ty |-> "null"]
Var(x) == [k |-> "path", name |-> x, capture |-> 0]
Captured(x, i) == [k |-> "path", name |-> x, capture |-> i]    \* i-th cell of the environment
Global(g) == [k |-> "global", slot |-> g]
FnValue(f) == [k |-> "fnptr", name |-> f]
Array(es) == [k |-> "array", elems |-> es]
Closure(f, captures) == [k |-> "closure", fn |-> f, captures |-> captures]
Call(f, es) == [k |-> "call", fn |-> f, args |-> es, ty |-> "int"]
CallValue(e, es) == [k |-> "callValue", fn |-> e, args |-> es]
Method(e, slot, es) == [k |-> "method", recv |-> e, slot |-> slot, args |-> es, iface |-> ""]
IMethod(e, i, slot, es) == [k |-> "method", recv |-> e, slot |-> slot, args |-> es, iface |-> i]
EnumCtor(variant, es) == [k |-> "enum", variant |-> variant, args |-> es]
Field(e, i) == [k |-> "field", obj |-> e, at |-> i]
Index(e, i) == [k |-> "index", obj |-> e, idx |-> i]
Unary(op, e) == [k |-> "unary", op |-> op, e |-> e, ty |-> "int"]
Binary(op, l, r) == [k |-> "binary", op |-> op, l |-> l, r |-> r, ty |-> "int"]
BinaryF(op, l, r) == [k |-> "binary", op |-> op, l |-> l, r |-> r, ty |-> "float"]
And(l, r) == [k |-> "and", l |-> l, r |-> r]
Or(l, r) == [k |-> "or", l |-> l, r |-> r]
Assign(op, place, e) == [k |-> "assign", op |-> op, lhs |-> place, rhs |-> e]
Set(x, e) == Assign("set", Var(x), e)
Block(ss, tail) == [k |-> "block", stmts |-> ss, tail |-> tail]
Let(x, e) == [k |-> "let", name |-> x, init |-> e, ty |-> "int"]
LetF(x, e) == [k |-> "let", name |-> x, init |-> e, ty |-> "float"]
If(c, t, e) == [k |-> "if", cond |-> c, then |-> t, else |-> e]
While(l, c, b) == [k |-> "while", label |-> l, cond |-> c, body |-> b]
Loop(l, b) == [k |-> "loop", label |-> l, body |-> b]
When(e, arms) == [k |-> "when", scrut |-> e, arms |-> arms]
ValueArm(c, b) == [k |-> "value", cond |-> c, body |-> b]
VariantArm(v, xs, b) == [k |-> "variant", variant |-> v, names |-> xs, body |-> b]
ElseArm(b) == [k |-> "else", body |-> b]
Break(l) == [k |-> "break", label |-> l]
Continue(l) == [k |-> "continue", label |-> l]
Return(e) == [k |-> "return", e |-> e]
Throw(e) == [k |-> "throw", e |-> e]
\* Clauses are [name, type, body].  A missing finally is Null: the HIR builder replaces
\* a missing expression by the null literal.
Try(b, cs, f) == [k |-> "try", body |-> b, catches |-> cs, fin |-> f]
Catch(x, t, b) == [name |-> x, type |-> t, body |-> b]
Cast(e, to) == [k |-> "cast", e |-> e, ty |-> to]
Unwrap(e) == [k |-> "unwrap", e |-> e]
Elvis(l, r) == [k |-> "elvis", l |-> l, r |-> r]
SafeField(e, i) == [k |-> "safeField", obj |-> e, at |-> i]
SafeCall(e, m, es) == [k |-> "safeCall", obj |-> e, method |-> m, args |-> es]
Is(e, t) == [k |-> "is", e |-> e, type |-> t]
IsNot(e, t) == [k |-> "isNot", e |-> e, type |-> t]
Output(e) == Call("print", <<e>>)
ReadChar == Call("syscall", <<Lit(0)>>)

\* The elements of a set in some order.
Listed(S) == FoldSet(LAMBDA x, s : Append(s, x), <<>>, S)

AssignOps == {"set", "+", "-", "*", "/", "%"}
Comparisons == {"==", "!=", "<", "<=", ">", ">="}

\* A function is [params, body, env]; a class is [parent, size, params, super, fields,
\* inits, vtable, itables, ctor], where params, super and fields say which cell they fill.
Parameter(x, cell) == [name |-> x, cell |-> cell]    \* cell 0: a plain parameter
NoClass == ""

-----------------------------------------------------------------------------
(* Arithmetic; integer division truncates *)

Sign(n) == IF n < 0 THEN -1 ELSE 1
Abs(n) == IF n < 0 THEN -n ELSE n
Quotient(a, b) == Sign(a) * Sign(b) * (Abs(a) \div Abs(b))

Compute(op, a, b) ==
    CASE op = "+" -> a + b [] op = "-" -> a - b [] op = "*" -> a * b
      [] op = "/" -> Quotient(a, b) [] op = "%" -> a - b * Quotient(a, b)

Holds(op, a, b) ==
    CASE op = "==" -> a = b [] op = "!=" -> a # b [] op = "<" -> a < b
      [] op = "<=" -> a <= b [] op = ">" -> a > b [] op = ">=" -> a >= b

RECURSIVE Inherits(_, _, _)
Inherits(P, c, t) ==
    \/ c = t
    \/ /\ c \in DOMAIN P.classes /\ P.classes[c].parent # NoClass
       /\ Inherits(P, P.classes[c].parent, t)
=============================================================================
