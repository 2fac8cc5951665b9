------------------------------ MODULE Machine ------------------------------
(***************************************************************************)
(* The virtual machine at work on compiled code (vm/VM.cpp): registers,    *)
(* flags, call frames, exception handlers, objects and globals, one        *)
(* instruction a step, composed with the lowering and the compiler, so     *)
(* that what a program prints and how it ends can be compared with what    *)
(* the language says it does.                                              *)
(*                                                                         *)
(* Reference counting is left to LoxisVm: an object stays for good here.   *)
(* A register that was never written holds the integer 0.                  *)
(***************************************************************************)
EXTENDS MirCompiler, HirMeaning

CONSTANTS Programs,    \* a sequence of programs
          Inputs       \* the inputs to give to each: sequences of characters

VARIABLES
    chunk,            \* the executable: code, labels, functions and classes
    means,            \* what its source does on the input it is given
    ip,               \* m_jitIp
    regs,             \* m_regs and m_rtag
    flags,            \* m_flags: a subset of {"Z", "N"}
    calls,            \* m_callStack
    handlers,         \* m_exceptionHandlers
    heap, globals,
    input, out,       \* standard input not read yet, and what was printed
    status            \* "run", "halted", "uncaught" or "panic"

vars == <<chunk, means, ip, regs, flags, calls, handlers, heap, globals, input, out, status>>

\* What a run shows of itself: the values printed, the input left, the exception if any.
Outcome(r) ==
    [out |-> r.out, input |-> r.input,
     exception |-> IF r.exit[1] = "throw" THEN r.heap[r.exit[2][2]].type ELSE NoClass]

\* Some program the compiler accepts, on some input.
Init ==
    /\ \E i \in DOMAIN Programs :
        /\ chunk = Compile(Programs[i]) /\ chunk.ok
        /\ \E given \in Inputs : input = given /\ means = Outcome(Meaning(Programs[i], given))
        /\ globals = [g \in 1..Len(Programs[i].globals) |-> Num(0)]
    /\ ip = 1
    /\ regs = [r \in {} |-> Num(0)] /\ flags = {}
    /\ calls = <<>> /\ handlers = <<>>
    /\ heap = <<>>
    /\ out = <<>>
    /\ status = "run"

-----------------------------------------------------------------------------
(* Registers, frames and exceptions *)

Instr == chunk.code[ip]

AddressOf(label) == IF label[1] = "+" THEN ip + label[2] ELSE chunk.labels[label]

FunctionAt(at) == {i \in 1..Len(chunk.functions) :
                       LET f == chunk.functions[i] IN f.start <= at /\ at <= f.end}

Reg(R, r) == IF r \in DOMAIN R THEN R[r] ELSE Num(0)

\* setReg
SetReg(R, r, v) == [x \in DOMAIN R \cup {r} |-> IF x = r THEN v ELSE R[x]]

SavedRegs(max) == (16..max) \ StagingRegs

\* pushCallFrame: the locals of the function that calls.
Frame(returnIp) ==
    LET max == Max({15} \cup {chunk.functions[i].max : i \in FunctionAt(ip)})
    IN [return |-> returnIp, max |-> max, locals |-> [r \in DOMAIN regs \cap SavedRegs(max) |-> regs[r]]]

\* restoreCallFrame: arguments and staging registers are cleared, the locals put back.
Restore(R, frame) ==
    LET kept == DOMAIN R \ (ArgumentRegs \cup StagingRegs \cup SavedRegs(frame.max))
    IN [r \in kept \cup DOMAIN frame.locals |-> IF r \in kept THEN R[r] ELSE frame.locals[r]]

\* One instruction that goes on with the next.
Step(R) == /\ ip' = ip + 1 /\ regs' = R
           /\ UNCHANGED <<chunk, means, calls, handlers, input, out, status>>

\* throwValue: to the innermost handler, undoing the calls made since it was installed.
Unwind(v) ==
    IF handlers = <<>>
    THEN status' = "uncaught" /\ regs' = SetReg(regs, 254, v) /\ UNCHANGED <<ip, calls, handlers>>
    ELSE LET h == Last(handlers)
         IN /\ handlers' = Front(handlers)
            /\ calls' = SubSeq(calls, 1, h.depth)
            /\ regs' = SetReg(FoldRight(LAMBDA f, R : Restore(R, f), SubSeq(calls, h.depth + 1, Len(calls)), regs),
                              h.reg, v)
            /\ ip' = h.target /\ UNCHANGED status

\* raiseRuntime
RaiseRuntime ==
    /\ heap' = Append(heap, [type |-> "RuntimeException", cells |-> <<Num(0)>>])
    /\ Unwind(Ref(Len(heap) + 1))
    /\ UNCHANGED <<chunk, means, flags, globals, input, out>>

Panic == /\ status' = "panic"
         /\ UNCHANGED <<chunk, means, ip, regs, flags, calls, handlers, heap, globals, input, out>>

Running(ops) == status = "run" /\ Instr[1] \in ops

-----------------------------------------------------------------------------
(* Values *)

Transfer ==
    /\ Running({"Push", "Mov"})
    /\ Step(SetReg(regs, Instr[2],
                   IF Instr[1] = "Mov" THEN Reg(regs, Instr[3])
                   ELSE IF Instr[3][1] = "addr" THEN Num(AddressOf(Instr[3][2])) ELSE Instr[3]))
    /\ UNCHANGED <<flags, heap, globals>>

OpOf == [x \in {"Add", "Sub", "Mul", "Div", "Rem", "FAdd", "FSub", "FMul", "FDiv"} |->
            CASE x \in {"Add", "FAdd"} -> "+" [] x \in {"Sub", "FSub"} -> "-" [] x \in {"Mul", "FMul"} -> "*"
              [] x \in {"Div", "FDiv"} -> "/" [] x = "Rem" -> "%"]

Arithmetic ==
    /\ Running({"Add", "Sub", "Mul", "Div", "Rem"})
    /\ LET l == Reg(regs, Instr[2])[2]
           r == Reg(regs, Instr[3])[2]
       IN IF Instr[1] \in {"Div", "Rem"} /\ r = 0 THEN RaiseRuntime
          ELSE Step(SetReg(regs, Instr[4], Num(Compute(OpOf[Instr[1]], l, r))))
               /\ UNCHANGED <<flags, heap, globals>>

\* The bits of a small integer are a float next to 0.
AsFloat(v) == IF v[1] = "float" THEN v[2] ELSE 0

FloatArithmetic ==
    /\ Running({"FAdd", "FSub", "FMul", "FDiv", "ItoF", "FtoI", "FNeg"})
    /\ LET l == Reg(regs, Instr[2])
           r == Reg(regs, Instr[3])
       IN Step(CASE Instr[1] = "ItoF" -> SetReg(regs, Instr[3], Flt(l[2]))
                 [] Instr[1] = "FtoI" -> SetReg(regs, Instr[3], Num(AsFloat(l)))
                 [] Instr[1] = "FNeg" -> SetReg(regs, Instr[3], Flt(-AsFloat(l)))
                 [] OTHER -> SetReg(regs, Instr[4], Flt(Compute(OpOf[Instr[1]], AsFloat(l), AsFloat(r)))))
    /\ UNCHANGED <<flags, heap, globals>>

\* Null is only equal to null.
CompareOp ==
    /\ Running({"Cmp"})
    /\ LET l == Reg(regs, Instr[2])
           r == Reg(regs, Instr[3])
       IN flags' = IF "null" \in {l[1], r[1]} THEN {x \in {"Z"} : l[1] = r[1]}
                   ELSE {x \in {"Z"} : l[2] = r[2]} \cup {x \in {"N"} : l[2] < r[2]}
    /\ Step(regs) /\ UNCHANGED <<heap, globals>>

Jump ==
    /\ Running({"Jmp", "Jz", "Jnz", "Jn", "NullChk"})
    /\ LET taken == CASE Instr[1] = "Jmp" -> TRUE
                      [] Instr[1] = "Jz" -> "Z" \in flags
                      [] Instr[1] = "Jnz" -> "Z" \notin flags
                      [] Instr[1] = "Jn" -> "N" \in flags
                      [] Instr[1] = "NullChk" -> Reg(regs, Instr[2])[1] = "null"
       IN ip' = IF taken THEN AddressOf(Last(Instr)) ELSE ip + 1
    /\ UNCHANGED <<chunk, means, regs, flags, calls, handlers, heap, globals, input, out, status>>

-----------------------------------------------------------------------------
(* Objects and globals *)

Alloc ==
    /\ Running({"Alloc"})
    /\ LET size == IF Instr[3][1] = "reg" THEN Reg(regs, Instr[3][2])[2] ELSE Instr[3][2]
       IN heap' = Append(heap, [type |-> Instr[2], cells |-> [i \in 1..(size \div CellSize) |-> Num(0)]])
    /\ Step(SetReg(regs, Instr[4], Ref(Len(heap) + 1)))
    /\ UNCHANGED <<flags, globals>>

\* Heap::loadCell: a live handle, and the whole cell within the object.
InObject(v, off) ==
    v[1] = "ref" /\ off >= 0 /\ off + CellSize <= CellSize * Len(heap[v[2]].cells)

HLoad ==
    /\ Running({"HLoad"})
    /\ LET base == Reg(regs, Instr[2])
           off == Reg(regs, Instr[3])[2]
       IN IF InObject(base, off)
          THEN /\ Step(SetReg(regs, Instr[4], heap[base[2]].cells[off \div CellSize + 1]))
               /\ UNCHANGED <<flags, heap, globals>>
          ELSE RaiseRuntime

HStore ==
    /\ Running({"HStore"})
    /\ LET base == Reg(regs, Instr[2])
           off == Reg(regs, Instr[3])[2]
       IN IF InObject(base, off)
          THEN /\ heap' = [heap EXCEPT ![base[2]].cells[off \div CellSize + 1] = Reg(regs, Instr[4])]
               /\ Step(regs) /\ UNCHANGED <<flags, globals>>
          ELSE RaiseRuntime

GlobalLoadStore ==
    /\ Running({"GLoad", "GStore"})
    /\ IF Instr[1] = "GLoad" THEN Step(SetReg(regs, Instr[3], globals[Instr[2]])) /\ UNCHANGED globals
       ELSE Step(regs) /\ globals' = [globals EXCEPT ![Instr[2]] = Reg(regs, Instr[3])]
    /\ UNCHANGED <<flags, heap>>

IsA ==
    /\ Running({"IsA"})
    /\ LET v == Reg(regs, Instr[2])
       IN Step(SetReg(regs, Instr[4],
                      Truth(v[1] = "ref" /\ Inherits(chunk, heap[v[2]].type, Instr[3]))))
    /\ UNCHANGED <<flags, heap, globals>>

-----------------------------------------------------------------------------
(* Calls *)

Enter(target, returnIp, R) ==
    /\ calls' = Append(calls, Frame(returnIp)) /\ ip' = target /\ regs' = R
    /\ UNCHANGED <<chunk, means, flags, handlers, heap, globals, input, out, status>>

CallNamedFunction == Running({"Call"}) /\ Enter(AddressOf(Instr[2]), ip + 1, regs)

\* A closure becomes the first argument; the others move up by one.
CallInd ==
    /\ Running({"CallInd"})
    /\ LET f == Reg(regs, Instr[2])
           n == Instr[3]
           shifted == [r \in DOMAIN regs \cup (1..(n + 1)) |->
                          CASE r = 1 -> f [] r \in 2..(n + 1) -> Reg(regs, r - 1) [] OTHER -> regs[r]]
       IN IF f[1] = "ref" THEN Enter(heap[f[2]].cells[1][2], ip + 1, shifted)
          ELSE Enter(f[2], ip + 1, regs)

\* VCall and ICall look the method up in the tables of the receiver's class.
CallVirtual ==
    /\ Running({"VCall", "ICall"})
    /\ LET c == heap[Reg(regs, Instr[2])[2]].type
           method == IF Instr[1] = "VCall" THEN VtableMethod(chunk, c, Instr[3])
                     ELSE ItableMethod(chunk, c, Instr[3], Instr[4])
       IN Enter(AddressOf(method), AddressOf(Last(Instr)), regs)

\* Handlers of the function that returns go with it.
Ret ==
    /\ Running({"Ret"})
    /\ handlers' = SelectSeq(handlers, LAMBDA h : h.depth < Len(calls))
    /\ ip' = Last(calls).return /\ regs' = Restore(regs, Last(calls)) /\ calls' = Front(calls)
    /\ UNCHANGED <<chunk, means, flags, heap, globals, input, out, status>>

-----------------------------------------------------------------------------
(* Exceptions and the outside *)

TryPush ==
    /\ Running({"TryPush"})
    /\ handlers' = Append(handlers, [target |-> AddressOf(Instr[2]), reg |-> Instr[3], depth |-> Len(calls)])
    /\ ip' = ip + 1
    /\ UNCHANGED <<chunk, means, regs, flags, calls, heap, globals, input, out, status>>

TryPop ==
    /\ Running({"TryPop"})
    /\ IF handlers = <<>> THEN Panic
       ELSE /\ handlers' = Front(handlers) /\ ip' = ip + 1
            /\ UNCHANGED <<chunk, means, regs, flags, calls, heap, globals, input, out, status>>

ThrowOp ==
    /\ Running({"Throw"})
    /\ Unwind(Reg(regs, Instr[2]))
    /\ UNCHANGED <<chunk, means, flags, heap, globals, input, out>>

PrintOp ==
    /\ Running({"Print"})
    /\ IF Reg(regs, Instr[2])[1] # "int" THEN Panic     \* only integers and strings
       ELSE /\ out' = Append(out, Reg(regs, Instr[2])) /\ ip' = ip + 1
            /\ UNCHANGED <<chunk, means, regs, flags, calls, handlers, heap, globals, input, status>>

\* invokeSyscall: read a character, or the error a program reports.
Syscall ==
    /\ Running({"Syscall"})
    /\ IF Reg(regs, Instr[2]) = Num(ErrorSyscall) THEN RaiseRuntime
       ELSE /\ regs' = SetReg(regs, 0, Num(IF input = <<>> THEN -1 ELSE Head(input)))
            /\ input' = IF input = <<>> THEN input ELSE Tail(input)
            /\ ip' = ip + 1
            /\ UNCHANGED <<chunk, means, flags, calls, handlers, heap, globals, out, status>>

Halt ==
    /\ Running({"Halt"})
    /\ status' = "halted"
    /\ UNCHANGED <<chunk, means, ip, regs, flags, calls, handlers, heap, globals, input, out>>

Next ==
    \/ Transfer \/ Arithmetic \/ FloatArithmetic \/ CompareOp \/ Jump
    \/ Alloc \/ HLoad \/ HStore \/ GlobalLoadStore \/ IsA
    \/ CallNamedFunction \/ CallInd \/ CallVirtual \/ Ret
    \/ TryPush \/ TryPop \/ ThrowOp \/ PrintOp \/ Syscall \/ Halt

Spec == Init /\ [][Next]_vars /\ WF_vars(Next)

-----------------------------------------------------------------------------
(* Properties *)

\* What a program prints and how it ends are what docs/spec.md says of its source: no
\* operand is evaluated twice or too late, no register is shared by two live values, every
\* finally runs exactly once and every exception reaches the right clause.
FollowsTheSpec ==
    /\ out = SubSeq(means.out, 1, Len(out))
    /\ status # "run" =>
         /\ out = means.out /\ input = means.input
         /\ IF means.exception = NoClass THEN status = "halted"
            ELSE status = "uncaught" /\ heap[regs[254][2]].type = means.exception

\* A handler is installed by a function that is still running and at most once: it belongs
\* to the code of that function, and handlers of outer calls are never above those of
\* inner ones (StTryPop on every way out of a try; the handlers a return drops).
HandlersAreBalanced ==
    /\ \A i, j \in 1..Len(handlers) : i < j => handlers[i].depth <= handlers[j].depth /\ handlers[i] # handlers[j]
    /\ \A i \in 1..Len(handlers) : handlers[i].depth <= Len(calls)
    /\ status \in {"halted", "uncaught"} => handlers = <<>>

\* Control moves from one function to another only by a call, a return or an exception:
\* no jump is patched to a label of another function.
JumpsStayInside ==
    [][Instr[1] \notin {"Call", "CallInd", "VCall", "ICall", "Ret", "Halt"} /\ ip' # ip /\ calls' = calls
       => FunctionAt(ip') = FunctionAt(ip)]_vars

\* Every program of the families ends, as its source does.
Terminates == <>(status # "run")
=============================================================================
