----------------------------- MODULE MCContracts -----------------------------
(***************************************************************************)
(* Small instances of Contracts for TLC.                                   *)
(***************************************************************************)
EXTENDS Contracts, TLC

NotYet == [c \in Contracts |-> 0]

\* Bounds: ledger rows of one request, and how high a balance may climb.
CONSTANTS MaxRows, MaxBalance
Bounded == /\ \A m \in Mains : Len(ledger[m]) <= MaxRows
           /\ \A c \in Contracts : remaining[c] <= MaxBalance

Symmetry == Permutations(Sessions) \cup Permutations(Files)
=============================================================================
