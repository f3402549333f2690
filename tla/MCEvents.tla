------------------------------ MODULE MCEvents ------------------------------
(* TLC instances of Events: one or two companies, symmetric sessions.      *)
EXTENDS Events, TLC

OneClientOf == [e \in Emps |-> "c1"]
TwoClientsOf == [e \in Emps |-> IF e = "e2" THEN "c2" ELSE "c1"]
AnyRoster == SUBSET Emps
Symmetry == Permutations(Sessions)
=============================================================================
