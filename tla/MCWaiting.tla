----------------------------- MODULE MCWaiting -----------------------------
(***************************************************************************)
(* A small instance of Waiting for TLC: three calls at once, on one main   *)
(* request with a subrequest, one event with two guests, one employee.     *)
(***************************************************************************)
EXTENDS Waiting
OneSub == [m \in Requests |-> {"c1"}]
OneContract == [m \in Requests |-> CHOOSE c \in Contracts : TRUE]
TwoGuests == [x \in Events |-> {"e1", "e2"}]
=============================================================================
