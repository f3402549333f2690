----------------------------- MODULE MCRequests -----------------------------
(***************************************************************************)
(* Small instances of Requests for TLC.                                    *)
(***************************************************************************)
EXTENDS Requests, TLC

\* Employee e1 works for d1, e2 for d2; h1 and h2 are their HRs.
OneDzoOf == [e \in Emps |-> CHOOSE d \in Dzos : TRUE]
OneHrOf == [d \in Dzos |-> "hr"]
PairDzoOf == [e \in Emps |-> IF e = "e1" THEN "d1" ELSE "d2"]
OneContract == [ev \in Events |-> CHOOSE c \in Contracts : TRUE]
Three == [c \in Contracts |-> 3]

\* Sessions are interchangeable, and so are the ids a request may get.
Symmetry == Permutations(Sessions) \cup Permutations(Mains)
=============================================================================
