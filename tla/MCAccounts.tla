----------------------------- MODULE MCAccounts -----------------------------
(***************************************************************************)
(* Small instances of Accounts for TLC.                                    *)
(***************************************************************************)
EXTENDS Accounts, TLC

Nothing == [email |-> Null, role |-> Null, active |-> Null, other |-> FALSE]
SomePatches == {[Nothing EXCEPT !.email = e, !.role = r] : e \in Emails, r \in {Null, "ADM"}}
                 \cup {[Nothing EXCEPT !.active = a, !.other = TRUE] : a \in BOOLEAN}
OneOrBoth == {{e} : e \in Emails} \cup {Emails}
Symmetry == Permutations(Sessions) \cup Permutations(Ids) \cup Permutations(Emails)
=============================================================================
