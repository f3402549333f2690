--------------------------- MODULE ContractBudget ---------------------------
(***************************************************************************)
(* What the budget side of orgstructure/requests promises, without any of  *)
(* the request workflow: supplier contracts with a remaining amount, and   *)
(* per request an append-only ledger (table request_budget_transactions).  *)
(* Requests.tla implements this specification.                             *)
(***************************************************************************)
EXTENDS Integers, Sequences, FiniteSetsExt

CONSTANTS Mains,      \* request ids that budget operations are booked on
          Contracts,  \* rows of contract_suppliers
          Null,       \* "no contract": the uuid.Nil of getRequestBudgetSource
          Amounts,    \* amounts a request may cost
          Opening     \* remaining_amount of each contract at the start

ASSUME BudgetAssumption ==
  /\ Null \notin Contracts
  /\ Amounts \subseteq Nat \ {0}
  /\ Opening \in [Contracts -> Nat]

VARIABLES remaining,  \* contract -> contract_suppliers.remaining_amount
          ledger      \* request -> its ledger rows, oldest first

budgetVars == <<remaining, ledger>>

Operations == {"RESERVE", "WRITE_OFF", "RELEASE", "REFUND"}
Prices == [contract : Contracts \cup {Null}, amount : Amounts]
Rows == [op : Operations, contract : Contracts \cup {Null}, amount : Amounts]

Row(op, p) == [op |-> op, contract |-> p.contract, amount |-> p.amount]
Has(m, op) == \E i \in DOMAIN ledger[m] : ledger[m][i].op = op

Init == /\ remaining = Opening
        /\ ledger = [m \in Mains |-> <<>>]

(***************************************************************************)
(* A request takes p.amount out of a contract that can afford it.          *)
(***************************************************************************)
Reserve(m, p) ==
  /\ p.contract \in Contracts
  /\ remaining[p.contract] >= p.amount
  /\ remaining' = [remaining EXCEPT ![p.contract] = @ - p.amount]
  /\ ledger' = [ledger EXCEPT ![m] = Append(@, Row("RESERVE", p))]

(***************************************************************************)
(* The spending is booked; the money left the contract at the reservation. *)
(***************************************************************************)
WriteOff(m, p) ==
  /\ ledger' = [ledger EXCEPT ![m] = Append(@, Row("WRITE_OFF", p))]
  /\ UNCHANGED remaining

(***************************************************************************)
(* Reservation and spending in one transaction: finalisation of a request  *)
(* that was never reserved for.                                            *)
(***************************************************************************)
ReserveAndWriteOff(m, p, q) ==
  /\ p.contract \in Contracts
  /\ remaining[p.contract] >= p.amount
  /\ remaining' = [remaining EXCEPT ![p.contract] = @ - p.amount]
  /\ ledger' = [ledger EXCEPT
                  ![m] = @ \o <<Row("RESERVE", p), Row("WRITE_OFF", q)>>]

(***************************************************************************)
(* Money comes back: a REFUND if it had been spent, a RELEASE if it was    *)
(* only reserved, and nothing at all for a request that never took any.    *)
(***************************************************************************)
GiveBack(m, p) ==
  /\ Has(m, "WRITE_OFF") \/ Has(m, "RESERVE")
  /\ remaining' = [c \in Contracts |-> IF c = p.contract
                                       THEN remaining[c] + p.amount
                                       ELSE remaining[c]]
  /\ ledger' = [ledger EXCEPT
       ![m] = Append(@, Row(IF Has(m, "WRITE_OFF") THEN "REFUND" ELSE "RELEASE", p))]

Next ==
  \E m \in Mains, p \in Prices :
    \/ Reserve(m, p)
    \/ WriteOff(m, p)
    \/ GiveBack(m, p)
    \/ \E q \in Prices : ReserveAndWriteOff(m, p, q)

Spec == Init /\ [][Next]_budgetVars
-----------------------------------------------------------------------------
TypeOK == /\ remaining \in [Contracts -> Int]
          /\ ledger \in [Mains -> Seq(Rows)]

\* reserveBudgetTx never takes more than a contract has left, whatever other
\* transactions do meanwhile: no contract is ever overdrawn.
NoOverdraft == \A c \in Contracts : remaining[c] >= 0

\* refundBudgetTx: every REFUND is preceded by a WRITE_OFF of the same request,
\* every RELEASE by a RESERVE and by no WRITE_OFF.
ReturnsFollow ==
  \A m \in Mains : \A i \in DOMAIN ledger[m] :
    LET Before(op) == \E j \in 1..(i - 1) : ledger[m][j].op = op
    IN /\ ledger[m][i].op = "REFUND" => Before("WRITE_OFF")
       /\ ledger[m][i].op = "RELEASE" => Before("RESERVE") /\ ~Before("WRITE_OFF")

\* What the rows of one request booked on contract c say it holds back.
Effect(row, c) == IF row.contract # c \/ row.op = "WRITE_OFF" THEN 0
                  ELSE IF row.op = "RESERVE" THEN row.amount ELSE 0 - row.amount
Held(m, c) == MapThenSumSet(LAMBDA i : Effect(ledger[m][i], c), DOMAIN ledger[m])

\* The ledger explains the balance: what is missing from a contract is exactly
\* what the requests' rows say they hold, over all interleavings.
LedgerBalanced ==
  \A c \in Contracts :
    remaining[c] = Opening[c] - MapThenSumSet(LAMBDA m : Held(m, c), Mains)

\* The same, step by step: a step appends one or two rows to the ledger of one
\* request, rewrites none, and moves every balance by what those rows say (the
\* UPDATE of the contract and the INSERT of the row are one transaction).
Added(m, i) == ledger'[m][Len(ledger[m]) + i]
StepBalanced ==
  \E m \in Mains, k \in {1, 2} :
    /\ \A n \in Mains \ {m} : ledger'[n] = ledger[n]
    /\ Len(ledger'[m]) = Len(ledger[m]) + k
    /\ \A i \in DOMAIN ledger[m] : ledger'[m][i] = ledger[m][i]
    /\ \A c \in Contracts :
         remaining[c] - remaining'[c] =
           Effect(Added(m, 1), c) + (IF k = 2 THEN Effect(Added(m, 2), c) ELSE 0)
=============================================================================
