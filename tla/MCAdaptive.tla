------------------------------ MODULE MCAdaptive ----------------------------
(* Model-checking instances of the adaptive runtime.  Behaviours start     *)
(* with some cells already allocated and rooted: states the runtime is in  *)
(* once those allocations have been applied.                               *)
EXTENDS Adaptive

CONSTANT Shown   \* a cell that mutator 1 has allocated locally

\* The other cells are free or allocated by some mutator under some authority.
Births ==
    {b \in [Cells -> {<<NoOwner, "shared">>} \cup Producers \X {"local", "shared"}] :
        b[Shown] = <<1, "local">>}

Born(b) == {c \in Cells : b[c][1] # NoOwner}

MCInit ==
    \E b \in Births :
        /\ eng = [EmptyEngine EXCEPT !.root = [c \in Cells |-> IF c \in Born(b) THEN 1 ELSE 0]]
        /\ pool = [EmptyPool EXCEPT
                      !.live = [c \in Cells |-> c \in Born(b)],
                      !.owner = [c \in Cells |-> b[c][1]],
                      !.avail = Cells \ Born(b)]
        /\ bag = [p \in Producers |-> [h \in Handles |->
                     IF Index(h) \in Born(b) /\ Gen(h) = 0 /\ b[Index(h)][1] = p THEN 1 ELSE 0]]
        /\ regime = [c \in Cells |-> b[c][2]]
        /\ NothingInFlight /\ GatesOpen

MCSpec == MCInit /\ [][AdaptiveNext]_allVars /\ AdaptiveFairness
=============================================================================
