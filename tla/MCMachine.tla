----------------------------- MODULE MCMachine -----------------------------
(* Families of programs for TLC.  A program reads its choices from the       *)
(* input, so that every try fails or not and every loop goes on or not.      *)
EXTENDS Machine

CONSTANTS Family,     \* which programs to run
          MaxChoices  \* how many characters there are to read

MCInputs == [1..MaxChoices -> {0, 1}]

Simple(ctor, parent, size) ==
    [ctor |-> ctor, parent |-> parent, size |-> size, params |-> <<>>, super |-> <<>>, fields |-> <<>>, inits |-> <<>>,
     vtable |-> <<>>, itables |-> [i \in {} |-> <<>>]]

StdClasses == [c \in {"Exception", "RuntimeException"} |->
                  IF c = "Exception" THEN Simple("newException", NoClass, 1) ELSE Simple("newRuntimeException", "Exception", 1)]

Function(params, body) == [params |-> params, body |-> body, env |-> FALSE]

Source(fns, classes, inits) == [fns |-> fns, classes |-> classes @@ StdClasses, globals |-> inits]

Main(e) == Source([main |-> Function(<<>>, e)], StdClasses, <<>>)

Do(s) == Block(s, Null)
Work(n) == Output(Lit(n))
Choice == Binary("==", ReadChar, Lit(1))
MayFail == Output(Binary("/", Lit(1), ReadChar))
Thrown == Throw(Call("newException", <<>>))

-----------------------------------------------------------------------------
(* Ways out of try, catch and finally *)

\* All combinations of the elements of two sequences.
Pairs(S, T) == [i \in 1..(Len(S) * Len(T)) |-> <<S[(i - 1) \div Len(T) + 1], T[((i - 1) % Len(T)) + 1]>>]

Each(S, F(_)) == [i \in 1..Len(S) |-> F(S[i])]

Exits(n) == <<Work(n), Thrown, Break(""), Continue(""), Return(Lit(n))>>

Risky(s) == Do(<<MayFail, s>>)

Catching(p) == <<Catch("e", p[1], p[2])>>

Handlers(class, S) == Each(S, LAMBDA s : Catching(<<class, s>>))

\* No clause, one that catches everything, one that catches only some exceptions.
Clauses == <<<<>>>> \o Handlers("Exception", Exits(2)) \o Handlers("RuntimeException", <<Work(2), Thrown>>)

\* One try: its body may fail or leave in every way, so may its handler leave.
Inner == Each(Pairs(Pairs(Exits(1), Clauses), <<Null, Work(3)>>),
              LAMBDA p : Try(Risky(p[1][1]), p[1][2], p[2]))

\* One try with a finalizer that catches everything or nothing.
InnerPlain == Each(Pairs(Exits(1), <<<<>>>> \o Handlers("Exception", Exits(2))),
                   LAMBDA p : Try(Risky(p[1]), p[2], Work(3)))

\* The same without an exception that passes through: nothing fails, and every
\* exception is caught.
InnerSafe == Each(Pairs(Exits(1), Exits(2)), LAMBDA p : Try(p[1], Catching(<<"Exception", p[2]>>), Work(3)))

Around(s) == Try(Do(<<s, Work(4)>>), <<Catch("f", "Exception", Work(5))>>, Work(6))

\* A loop in a function around the statement, and work after both.
InLoop(s) ==
    Source([main |-> Function(<<>>, Output(Call("body", <<>>))),
             body |-> Function(<<>>, Block(<<While("outer", Choice, Do(<<s, Work(7)>>)), Work(8)>>, Lit(9)))],
            StdClasses, <<>>)

Nested == Each(Inner, Around)

\* A try in the handler, and in the finalizer, of another.
InCatch == Each(InnerSafe, LAMBDA s : Try(Thrown, <<Catch("g", "Exception", Do(<<s, Work(10)>>))>>, Work(11)))
InFinally == Each(InnerPlain, LAMBDA s : Try(Do(<<MayFail, Work(12)>>), <<>>, Do(<<s, Work(13)>>)))

\* Two loops, with exits of either from within a try.
TwoLoops == Each(Exits(1) \o <<Break("outer"), Continue("outer")>>,
                 LAMBDA s : Around(While("inner", Choice, Do(<<Try(Risky(s), <<>>, Work(3)), Work(14)>>))))

\* Two clauses: the first that matches runs.
TwoClauses == Each(Exits(2), LAMBDA s :
                   Try(Do(<<MayFail, Thrown>>),
                       <<Catch("e", "RuntimeException", s), Catch("e", "Exception", Work(15))>>, Work(3)))

Tries == Nested \o InCatch \o InFinally \o TwoLoops \o TwoClauses

\* An operation that fails in a handler.
CatchFails == <<Around(Try(Thrown, <<Catch("e", "Exception", MayFail)>>, Work(3)))>>

-----------------------------------------------------------------------------
(* Values: calls, closures, classes, enums, arrays, floats *)

\* A failure several calls deep, between locals that must survive it.
DeepFailure ==
    Source([main |-> Function(<<>>, Do(<<Let("a", Lit(1)), Let("b", ReadChar),
                 Let("c", Try(Call("down", <<Var("a"), Var("b")>>), <<Catch("e", "Exception", Lit(40))>>, Work(3))),
                 Output(Binary("+", Var("a"), Binary("*", Lit(10), Var("b")))), Output(Var("c"))>>)),
             down |-> Function(<<"x", "n">>, Block(<<Let("y", Call("leaf", <<Lit(5), Var("n")>>))>>,
                                                  Binary("+", Var("x"), Var("y")))),
             leaf |-> Function(<<"p", "q">>, Block(<<Let("r", Binary("%", Var("p"), Var("q")))>>,
                                                  Binary("+", Var("r"), Var("p"))))],
            StdClasses, <<>>)

\* fact(n), with the frame of every call saved by the next.
Recursive ==
    Source([main |-> Function(<<>>, Output(Call("fact", <<Binary("+", Lit(2), ReadChar)>>))),
             fact |-> Function(<<"n">>, If(Binary("<=", Var("n"), Lit(1)), Lit(1),
                          Binary("*", Var("n"), Call("fact", <<Binary("-", Var("n"), Lit(1))>>))))],
            StdClasses, <<>>)

\* A counter captured by a closure, forwarded to a closure inside it, called twice.
Counter ==
    Source([main |-> Function(<<>>, Do(<<Let("n", Lit(10)), Let("f", Closure("outer", <<Var("n")>>)),
                 Output(CallValue(Var("f"), <<ReadChar, Lit(2)>>)),
                 Output(CallValue(Var("f"), <<Lit(3), ReadChar>>)), Output(Var("n")),
                 Output(CallValue(FnValue("twice"), <<Lit(21)>>))>>)),
             outer |-> [params |-> <<"a", "b">>, env |-> TRUE, body |->
                 Block(<<Assign("+", Captured("n", 1), Var("a")),
                         Let("g", Closure("inner", <<Captured("n", 1), Var("b")>>))>>,
                       CallValue(Var("g"), <<>>))],
             inner |-> [params |-> <<>>, env |-> TRUE, body |->
                 Binary("*", Captured("n", 1), Captured("b", 2))],
             twice |-> Function(<<"x">>, Binary("+", Var("x"), Var("x")))],
            StdClasses, <<>>)

\* Shape and Square: constructor parameters, a superclass argument, an initializer and an
\* init block, a virtual and an interface call, a type test, a safe access and an elvis.
Shapes ==
    Source([main |-> Function(<<>>, Do(<<
                 Let("s", If(Choice, Call("newSquare", <<Lit(3)>>), Call("newShape", <<Lit(2)>>))),
                 Output(Method(Var("s"), 1, <<Lit(1)>>)), Output(IMethod(Var("s"), "HasArea", 1, <<>>)),
                 Output(Is(Var("s"), "Square")), Output(IsNot(Var("s"), "Shape")),
                 Assign("*", Field(Var("s"), 1), Lit(4)), Output(Field(Var("s"), 1)),
                 Let("t", If(Choice, Var("s"), Null)),
                 Output(Elvis(SafeField(Var("s"), 1), Lit(77))),
                 Output(Field(Elvis(Var("t"), Call("newShape", <<Lit(6)>>)), 1)),
                 Output(Field(Unwrap(Var("t")), 1))>>)),
             plus |-> Function(<<"this", "k">>, Binary("+", Field(Var("this"), 1), Var("k"))),
             area |-> Function(<<"this">>, Binary("*", Field(Var("this"), 1), Lit(2))),
             square |-> Function(<<"this">>, Binary("*", Field(Var("this"), 2), Field(Var("this"), 3)))],
            [Shape |-> [Simple("newShape", NoClass, 1) EXCEPT !.params = <<Parameter("w", 1)>>, !.vtable = <<"plus", "area">>,
                                                  !.itables = [i \in {"HasArea"} |-> <<2>>]],
             Square |-> [Simple("newSquare", "Shape", 3) EXCEPT
                 !.params = <<Parameter("side", 2)>>,
                 !.super = <<[cell |-> 1, e |-> Binary("+", Var("side"), Lit(1))]>>,
                 !.fields = <<[cell |-> 3, e |-> Binary("*", Var("side"), Lit(5))]>>,
                 !.inits = <<Output(Field(Var("this"), 3))>>,
                 !.vtable = <<"plus", "square">>, !.itables = [i \in {"HasArea"} |-> <<2>>]]],
            <<>>)

\* when over values and over variants, with the else arm in the middle.
Matching ==
    Main(Do(<<Let("v", If(Choice, EnumCtor(1, <<Lit(5), ReadChar>>), EnumCtor(2, <<>>))),
              Output(When(Var("v"), <<VariantArm(1, <<"a", "b">>, Binary("-", Var("a"), Var("b"))),
                                      ElseArm(Lit(6)), VariantArm(2, <<>>, Lit(7))>>)),
              Output(When(ReadChar, <<ValueArm(Lit(0), Lit(8)), ElseArm(Lit(9))>>)),
              Output(Or(And(Choice, Choice), Unary("!", Lit(0))))>>))

\* Every comparison, on both sides of equality; sums in a loop over an array.
Numbers ==
    Main(Do(<<Let("a", Array(<<Lit(4), ReadChar, ReadChar>>)),
              Assign("+", Index(Var("a"), Lit(0)), Lit(1)),
              Let("i", Lit(0)), Let("sum", Lit(0)),
              Loop("l", Do(<<If(Binary(">=", Var("i"), Lit(3)), Break("l"), Null),
                             Assign("+", Var("sum"), Index(Var("a"), Var("i"))), Assign("+", Var("i"), Lit(1))>>)),
              Output(Var("sum"))>>
            \o [n \in 1..6 |-> Output(Binary(<<"==", "!=", "<", "<=", ">", ">=">>[n],
                                             Index(Var("a"), Lit(1)), Index(Var("a"), Lit(2))))]
            \o <<Output(Index(Var("a"), Binary("+", Lit(2), ReadChar)))>>))

Floats ==
    Main(Do(<<LetF("x", BinaryF("+", LitF(6), BinaryF("*", LitF(3), ReadChar))),
              LetF("y", BinaryF("/", Var("x"), BinaryF("-", LitF(5), LitF(2)))),
              Output(Cast(BinaryF("*", Var("y"), Lit(3)), "int")), Output(Unary("-", Lit(3))),
              Output(Binary("<", Var("y"), Var("x"))), Output(Call("ftoi", <<Call("fneg", <<Cast(Lit(2), "float")>>)>>))>>))

\* Globals with initializers, one of which fails on a choice; raw memory.
Globals ==
    Source([main |-> Function(<<>>, Do(<<Assign("+", Global(1), Global(2)), Output(Global(1)),
                 Let("m", Call("alloc", <<Lit(18)>>)), Call("hstore", <<Var("m"), Lit(9), Global(1)>>),
                 Output(Call("hload", <<Var("m"), Lit(9)>>)), Call("syscall", <<Lit(99)>>)>>)),
             one |-> Function(<<>>, Binary("/", Lit(6), ReadChar)), two |-> Function(<<>>, Lit(20))],
            StdClasses, <<"one", "two">>)

\* A loop that only its break ends.
Spin == Main(Do(<<Loop("l", If(Choice, Null, Break("l")))>>))

Values == <<Spin, DeepFailure, Recursive, Counter, Shapes, Matching, Numbers, Floats, Globals>>

-----------------------------------------------------------------------------
(* Programs the compiler is known to get wrong *)

\* f(x, if true { x = 2; x } else { 0 }): the first argument is read after the second.
LateArgument ==
    Source([main |-> Function(<<>>, Do(<<Let("x", Lit(1)),
                 Output(Call("f", <<Var("x"), If(Choice, Block(<<Set("x", Lit(2))>>, Var("x")), Lit(0))>>))>>)),
             f |-> Function(<<"a", "b">>, Binary("-", Var("a"), Var("b")))],
            StdClasses, <<>>)

\* A name of an inner block hides the outer one after the block has ended.
InnerName ==
    Main(Do(<<Let("y", Lit(1)), If(Choice, Do(<<Let("y", Lit(2))>>), Null), Output(Var("y"))>>))

\* The sixteenth parameter arrives in the register of the first local.
ManyParameters ==
    LET xs == [i \in 1..16 |-> <<"a", "b", "c", "d", "e", "f", "g", "h", "i", "j", "k", "l", "m", "n", "o", "p">>[i]]
    IN Source([main |-> Function(<<>>, Output(Call("f", [i \in 1..16 |-> Lit(i)]))),
               f |-> Function(xs, Var("p"))], StdClasses, <<>>)

MCPrograms ==
    CASE Family = "values" -> Values
      [] Family = "all" -> Values \o Each(Tries, InLoop)
      [] Family = "catch" -> Each(CatchFails, InLoop)
      [] Family = "arguments" -> <<LateArgument>>
      [] Family = "scope" -> <<InnerName>>
      [] Family = "wide" -> <<ManyParameters>>
=============================================================================
