---------------------------- MODULE MirCompiler ----------------------------
(***************************************************************************)
(* From basic blocks to register code (v2/backend/MIRCompiler.cpp).  A     *)
(* function keeps local l in a register of its own, receives its arguments *)
(* in r1, r2, ... and leaves its value in r0; r240 to r255 only carry      *)
(* values from one instruction to the next.                                *)
(*                                                                         *)
(* The chunk is a sequence of decoded instructions instead of bytes; an    *)
(* address is a label until the machine follows it, which is what the      *)
(* patches and the decoder's map from offsets to instructions amount to.   *)
(***************************************************************************)
EXTENDS Lowering

FirstStaging == 240
StagingRegs == 240..255
ArgumentRegs == 1..10
MaxLocals == 4064
MaxArguments == 10
ErrorSyscall == 99

\* Locals start at r16 and step over the staging registers.
LocalToReg(l) ==
    IF l = 0 THEN 0 ELSE IF l + 15 < FirstStaging THEN l + 15 ELSE l + 31

\* Labels: where a function starts, where a block starts, and a place n instructions
\* ahead (the _ce, _cf and _not labels).
FnLabel(f) == <<f, 0>>
BlockLabel(body, b) == <<body.name, b>>
Ahead(n) == <<"+", n>>

\* emitOperandToReg
OperandTo(o, reg) ==
    CASE o[1] = "const" -> <<<<"Push", reg, o[2]>>>>
      [] o[1] = "label" -> <<<<"Push", reg, <<"addr", FnLabel(o[2])>>>>>>
      [] o[1] = "copy" -> IF LocalToReg(o[2]) = reg THEN <<>> ELSE <<<<"Mov", reg, LocalToReg(o[2])>>>>

OperandsTo(os, targets) == FlattenSeq([i \in 1..Len(os) |-> OperandTo(os[i], targets[i])])

\* emitArguments: every argument is read before r1, r2, ... are written.
Passed(args) ==
    OperandsTo(args, [i \in 1..Len(args) |-> FirstStaging + i - 1])
    \o [i \in 1..Len(args) |-> <<"Mov", i, FirstStaging + i - 1>>]

-----------------------------------------------------------------------------
(* Right-hand sides *)

ArithmeticCode == [x \in {"+", "-", "*", "/", "%"} |->
                      CASE x = "+" -> "Add" [] x = "-" -> "Sub" [] x = "*" -> "Mul"
                        [] x = "/" -> "Div" [] x = "%" -> "Rem"]

FloatCode == [x \in {"+", "-", "*", "/"} |->
                 CASE x = "+" -> "FAdd" [] x = "-" -> "FSub" [] x = "*" -> "FMul" [] x = "/" -> "FDiv"]

NeedsItoF(body, o) == IF o[1] = "copy" THEN body.ty[o[2] + 1] = "int" ELSE o[2][1] = "int"

\* Cmp sets Z when the operands are equal and N when the first is less.  The result is
\* set to 1, and to 0 unless a jump skips that.
CompareCode(op, reg) ==
    <<<<"Cmp", 254, 253>>, <<"Push", reg, Num(1)>>>>
    \o (CASE op = "==" -> <<<<"Jz", Ahead(2)>>>>
          [] op = "!=" -> <<<<"Jnz", Ahead(2)>>>>
          [] op = "<" -> <<<<"Jn", Ahead(2)>>>>
          [] op = "<=" -> <<<<"Jz", Ahead(3)>>, <<"Jn", Ahead(2)>>>>
          [] op = ">" -> <<<<"Jz", Ahead(3)>>, <<"Jn", Ahead(2)>>, <<"Jmp", Ahead(2)>>>>
          [] op = ">=" -> <<<<"Jn", Ahead(2)>>, <<"Jmp", Ahead(2)>>>>)
    \o <<<<"Push", reg, Num(0)>>>>

BinaryCode(body, place, rv) ==
    LET op == rv[2]
        reg == LocalToReg(place)
        float == body.ty[place + 1] = "float" /\ op # "%"
        widen(o, r) == IF NeedsItoF(body, o) THEN <<<<"ItoF", r, r>>>> ELSE <<>>
    IN OperandTo(rv[3], 254) \o OperandTo(rv[4], 253)
       \o (CASE op \in Comparisons -> CompareCode(op, reg)
             [] float -> widen(rv[3], 254) \o widen(rv[4], 253) \o <<<<FloatCode[op], 254, 253, reg>>>>
             [] OTHER -> <<<<ArithmeticCode[op], 254, 253, reg>>>>)

UnaryCode(body, place, rv) ==
    LET reg == LocalToReg(place)
    IN OperandTo(rv[3], 254)
       \o (CASE rv[2] = "!" ->
                  <<<<"Push", 253, Num(0)>>, <<"Cmp", 254, 253>>, <<"Jz", Ahead(3)>>,
                    <<"Push", reg, Num(0)>>, <<"Jmp", Ahead(2)>>, <<"Push", reg, Num(1)>>>>
             [] body.ty[place + 1] = "float" -> <<<<"FNeg", 254, reg>>>>
             [] OTHER -> <<<<"Push", reg, Num(0)>>, <<"Sub", reg, 254, reg>>>>)

CastCode(place, rv) ==
    LET reg == LocalToReg(place)
    IN Append(OperandTo(rv[2], 254),
              CASE rv[3] = "float" -> <<"ItoF", 254, reg>>
                [] rv[3] = "int" -> <<"FtoI", 254, reg>>
                [] OTHER -> <<"Mov", reg, 254>>)

\* Cell i + 1 of the object in reg := os[i], through two staging registers.
FillCells(reg, os, off, val) ==
    FlattenSeq([i \in 1..Len(os) |->
        <<<<"Push", off, Num(CellSize * i)>>>> \o OperandTo(os[i], val) \o <<<<"HStore", reg, off, val>>>>])

ClosureCode(place, rv) ==
    LET reg == LocalToReg(place)
    IN <<<<"Push", 249, Num(CellSize * (1 + Len(rv[3])))>>, <<"Alloc", "closure", <<"reg", 249>>, reg>>,
         <<"Push", 250, <<"addr", FnLabel(rv[2])>>>>, <<"Push", 251, Num(0)>>, <<"HStore", reg, 251, 250>>>>
       \o FillCells(reg, rv[3], 251, 252)

\* An array is its length and its elements.
ArrayCode(place, rv) ==
    LET reg == LocalToReg(place)
    IN <<<<"Alloc", "array", Num(CellSize * (1 + Len(rv[2]))), reg>>,
         <<"Push", 250, Num(0)>>, <<"Push", 251, Num(Len(rv[2]))>>, <<"HStore", reg, 250, 251>>>>
       \o FillCells(reg, rv[2], 250, 251)

\* r251 := 9 * index + 9
ElementOffset(idx) ==
    OperandTo(idx, 250)
    \o <<<<"Push", 252, Num(CellSize)>>, <<"Mul", 250, 252, 251>>, <<"Add", 251, 252, 251>>>>

IndexCode(place, rv) ==
    IF rv[1] = "index"
    THEN Append(ElementOffset(rv[3]), <<"HLoad", LocalToReg(rv[2]), 251, LocalToReg(place)>>)
    ELSE ElementOffset(rv[2]) \o OperandTo(rv[3], 253) \o <<<<"HStore", LocalToReg(place), 251, 253>>>>

\* A capture's offset does not count the function cell.
FieldCode(place, rv) ==
    LET reg == LocalToReg(place)
        load(base, off) == <<<<"Push", 250, Num(off)>>, <<"HLoad", LocalToReg(base), 250, reg>>>>
        store(off, o) == <<<<"Push", 250, Num(off)>>>> \o OperandTo(o, 251) \o <<<<"HStore", reg, 250, 251>>>>
    IN CASE rv[1] = "field" -> load(rv[2], rv[3])
         [] rv[1] = "closureGet" -> load(rv[2], rv[3] + CellSize)
         [] rv[1] = "hstore" -> store(rv[2], rv[3])
         [] rv[1] = "closureSet" -> store(rv[2] + CellSize, rv[3])

GlobalCode(place, rv) ==
    LET reg == LocalToReg(place)
    IN IF rv[1] = "gload" THEN <<<<"GLoad", rv[2], reg>>>>
       ELSE OperandTo(rv[3], reg) \o <<<<"GStore", rv[2], reg>>>>

\* emitRvalue
RvalueCode(body, place, rv) ==
    CASE rv[1] = "use" -> OperandTo(rv[2], LocalToReg(place))
      [] rv[1] = "binary" -> BinaryCode(body, place, rv)
      [] rv[1] = "unary" -> UnaryCode(body, place, rv)
      [] rv[1] = "cast" -> CastCode(place, rv)
      [] rv[1] = "alloc" -> <<<<"Alloc", rv[3], Num(rv[2]), LocalToReg(place)>>>>
      [] rv[1] = "closure" -> ClosureCode(place, rv)
      [] rv[1] = "array" -> ArrayCode(place, rv)
      [] rv[1] \in {"index", "indexStore"} -> IndexCode(place, rv)
      [] rv[1] \in {"field", "hstore", "closureGet", "closureSet"} -> FieldCode(place, rv)
      [] rv[1] \in {"gload", "gstore"} -> GlobalCode(place, rv)
      [] rv[1] = "is" -> <<<<"IsA", LocalToReg(rv[2]), rv[3], LocalToReg(place)>>>>

\* emitStatement
StatementCode(body, s) ==
    CASE s[1] = "assign" -> RvalueCode(body, s[2], s[3])
      [] s[1] = "tryPush" -> <<<<"TryPush", BlockLabel(body, s[2]), LocalToReg(s[3])>>>>
      [] s[1] = "tryPop" -> <<<<"TryPop">>>>
      [] s[1] = "throw" -> Append(OperandTo(s[2], 254), <<"Throw", 254>>)

-----------------------------------------------------------------------------
(* Terminators *)

\* Functions the compiler expands in place: where their arguments go, and the
\* instruction.  A result is left in r0.
PrintBuiltin == [print |-> <<<<254>>, <<"Print", 254>>>>]

HeapBuiltins ==
    [alloc |-> <<<<251>>, <<"Alloc", "raw", <<"reg", 251>>, 0>>>>,
     hstore |-> <<<<251, 252, 253>>, <<"HStore", 251, 252, 253>>>>,
     hload |-> <<<<251, 252>>, <<"HLoad", 251, 252, 0>>>>]

FloatBuiltins ==
    [itof |-> <<<<253>>, <<"ItoF", 253, 0>>>>,
     ftoi |-> <<<<253>>, <<"FtoI", 253, 0>>>>,
     fneg |-> <<<<253>>, <<"FNeg", 253, 0>>>>,
     fadd |-> <<<<252, 253>>, <<"FAdd", 252, 253, 0>>>>,
     fsub |-> <<<<252, 253>>, <<"FSub", 252, 253, 0>>>>,
     fmul |-> <<<<252, 253>>, <<"FMul", 252, 253, 0>>>>,
     fdiv |-> <<<<252, 253>>, <<"FDiv", 252, 253, 0>>>>]

SyscallBuiltin == [syscall |-> <<<<251, 1, 2, 3, 4>>, <<"Syscall", 251>>>>]

Builtins == PrintBuiltin @@ HeapBuiltins @@ FloatBuiltins @@ SyscallBuiltin

\* A call is followed by a jump to the block that resumes; the machine returns from a
\* virtual call straight to it.
CallCode(body, t) ==
    LET resume == BlockLabel(body, Last(t))
        jump == <<<<"Jmp", resume>>>>
    IN CASE t[1] = "call" /\ t[2] \in DOMAIN Builtins ->
              OperandsTo(t[3], Builtins[t[2]][1]) \o <<Builtins[t[2]][2]>> \o jump
         [] t[1] = "call" -> Passed(t[3]) \o <<<<"Call", FnLabel(t[2])>>>> \o jump
         [] t[1] = "callInd" ->
              OperandTo(t[2], 250) \o Passed(t[3]) \o <<<<"CallInd", 250, Len(t[3])>>>> \o jump
         [] t[1] = "vcall" -> Append(Passed(t[3]), <<"VCall", 1, t[2], resume>>)
         [] t[1] = "icall" -> Append(Passed(t[4]), <<"ICall", 1, t[2], t[3], resume>>)

\* emitTerminator; falling off the end of a null check is a runtime error.
TerminatorCode(body, t) ==
    LET at(b) == BlockLabel(body, b)
    IN CASE t[1] = "goto" -> <<<<"Jmp", at(t[2])>>>>
         [] t[1] = "switch" ->
              OperandTo(t[2], 252) \o <<<<"Push", 251, Num(1)>>, <<"Cmp", 252, 251>>,
                                        <<"Jz", at(t[3])>>, <<"Jmp", at(t[4])>>>>
         [] t[1] = "return" -> <<<<"Ret">>>>
         [] t[1] = "checkNull" ->
              OperandTo(t[2], 253) \o <<<<"NullChk", 253, at(t[3])>>, <<"Jmp", at(t[4])>>>>
         [] t[1] = "unreachable" -> <<<<"Push", 251, Num(ErrorSyscall)>>, <<"Syscall", 251>>>>
         [] t[1] \in {"call", "callInd", "vcall", "icall"} -> CallCode(body, t)

Terminators == {"goto", "switch", "return", "checkNull", "unreachable", "call", "callInd", "vcall", "icall"}

\* The statements of a block, then its terminator; a block that was given none still has
\* the default one, a jump to the entry.
BlockCode(body, block) ==
    LET terminated == block # <<>> /\ Last(block)[1] \in Terminators
        stmts == IF terminated THEN Front(block) ELSE block
    IN FlattenSeq([i \in 1..Len(stmts) |-> StatementCode(body, stmts[i])])
       \o TerminatorCode(body, IF terminated THEN Last(block) ELSE <<"goto", Entry>>)

\* Only virtual and interface calls have their arguments counted.
TooManyArguments(block) ==
    block # <<>> /\ Last(block)[1] \in {"vcall", "icall"} /\ Len(Last(block)[Len(Last(block)) - 1]) > MaxArguments

\* compileBody: incoming arguments are moved to their locals, then block after block.
BodyCode(body) ==
    <<[i \in 1..body.params |-> <<"Mov", LocalToReg(i), i>>]>>
    \o [b \in 1..Len(body.blocks) |-> BlockCode(body, body.blocks[b])]

\* The last register pushCallFrame has to save.
MaxLocalRegister(body) == IF Len(body.ty) <= 1 THEN 15 ELSE LocalToReg(Len(body.ty) - 1)

Accepted(body) ==
    /\ Len(body.ty) <= MaxLocals
    /\ \A b \in 1..Len(body.blocks) : ~TooManyArguments(body.blocks[b])

EntryCode(P) ==
    FlattenSeq([i \in 1..Len(P.globals) |-> <<<<"Call", FnLabel(P.globals[i])>>, <<"GStore", i, 0>>>>])
    \o <<<<"Call", FnLabel("main")>>, <<"Halt">>>>

\* starts[i] is where the i-th of some pieces begins when the first begins at at.
Starts(at, pieces) ==
    FoldLeft(LAMBDA acc, piece : Append(acc, Last(acc) + Len(piece)), <<at>>, pieces)

BlockStartNext(starts, b) == starts[b + 2]

\* A block's label is bound where its code begins; starts[1] is the moves of the arguments.
BlockStart(starts, b) == starts[b + 1]

\* Initialise the globals, call main, halt; then every body.  A call of a name without a
\* body ("undefined label") is refused.
Link(P, bodies) ==
    LET entry == EntryCode(P)
        parts == [i \in 1..Len(bodies) |-> BodyCode(bodies[i])]
        texts == [i \in 1..Len(bodies) |-> FlattenSeq(parts[i])]
        start == Starts(Len(entry) + 1, texts)
        code == entry \o FlattenSeq(texts)
        block == [i \in 1..Len(bodies) |-> Starts(start[i], parts[i])]
        of == [f \in {bodies[i].name : i \in 1..Len(bodies)} |-> CHOOSE i \in 1..Len(bodies) : bodies[i].name = f]
        blocks == UNION {{<<f, b>> : b \in 1..Len(bodies[of[f]].blocks)} : f \in DOMAIN of}
        labels == [l \in (DOMAIN of) \X {0} |-> start[of[l[1]]]] @@ [l \in blocks |-> BlockStart(block[of[l[1]]], l[2])]
        info(i) == [start |-> start[i], end |-> start[i + 1] - 1, max |-> MaxLocalRegister(bodies[i])]
    IN [classes |-> P.classes, code |-> code, labels |-> labels,
        functions |-> FoldLeft(LAMBDA fs, i : Append(fs, info(i)), <<>>, [i \in 1..Len(bodies) |-> i]),
        ok |-> /\ \A i \in 1..Len(bodies) : Accepted(bodies[i])
               /\ \A i \in 1..Len(code) : code[i][1] = "Call" => code[i][2] \in DOMAIN labels]

\* compile
Compile(P) == Link(P, Listed(LowerModule(P)))

\* buildVTableMetadata: what slot of a class, or slot of an interface it implements, runs.
VtableMethod(P, c, slot) == FnLabel(P.classes[c].vtable[slot])
ItableMethod(P, c, iface, i) == VtableMethod(P, c, P.classes[c].itables[iface][i])
=============================================================================
