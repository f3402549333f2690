----------------------------- MODULE MCProgress -----------------------------
(***************************************************************************)
(* A small instance of Progress for TLC: two calls that overlap, on one    *)
(* course and two employees: four rows are all they can get.               *)
(***************************************************************************)
EXTENDS Progress, TLC
Symmetry == Permutations(Ids) \cup Permutations(Sessions) \cup Permutations(Emps)
=============================================================================
