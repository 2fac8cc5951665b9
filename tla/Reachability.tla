---------------------------- MODULE Reachability ----------------------------
(* Reachability in a finite graph, without recursion: the least set that   *)
(* contains the start nodes and is closed under the edges.                 *)

\* X is closed under the edges of R (a set of pairs) between nodes of N.
ClosedIn(N, R, X) == \A x \in X : \A y \in N : <<x, y>> \in R => y \in X

\* The nodes of N reachable from S over R.
ReachIn(N, R, S) ==
    {n \in N : \A X \in SUBSET N : S \subseteq X /\ ClosedIn(N, R, X) => n \in X}
=============================================================================
