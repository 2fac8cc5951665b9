--------------------------- MODULE MCPublication ---------------------------
(* Publication on small instances. *)
EXTENDS Publication

CONSTANT MaxTogether   \* bound: messages the first producer issues beside others

Share(p) == IF p = 1 THEN MaxTogether ELSE 1

\* A producer that is alone and never quiesces may wrap its ring; producers that
\* share the worker issue fewer messages.
Narrowed ==
    \/ \A p \in Slots : IF ppc'[p] = "stage" THEN issued'[p] < Share(p) ELSE issued'[p] <= Share(p)
    \/ nslots' = 1 /\ quiesceIssued' = 0 /\ \A p \in Slots : ~quiescing'[p]
=============================================================================
