---------------------------- MODULE MCAarcRuntime ---------------------------
(* Model-checking instances of the asynchronous runtime.                   *)
EXTENDS AarcRuntime, TLC

\* The pool's slots are interchangeable.
SlotSymmetry == Permutations(Cells)
=============================================================================
