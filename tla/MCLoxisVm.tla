------------------------------ MODULE MCLoxisVm ------------------------------
EXTENDS LoxisVm

Unspilled == vm'.data = <<>>
NoGlobal == \A g \in Globals : vm'.globals[g] = 0
Flat == vm'.frames = <<>>
NoHandler == vm'.handlers = <<>>
NoLocal == \A r \in FirstLocal..LastLocal : vm'.regs[r] = 0

\* Which root holders are explored together: calls and handlers under the two plain
\* collectors (both at once under ARC, or with one object), globals or spilled registers under the policy.
Narrowed ==
    CASE vm.gc = "arc" -> Unspilled /\ NoGlobal
      [] vm.gc = "local" -> Unspilled /\ NoGlobal /\ (Flat \/ NoHandler \/ LiveCount(vm') <= 1)
      [] vm.gc = "adaptive" -> Flat /\ NoHandler /\ NoLocal /\ (Unspilled \/ NoGlobal)

MCSpec == Init /\ [][Next /\ Narrowed]_vm
=============================================================================
