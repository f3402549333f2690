------------------------------ MODULE Contracts ------------------------------
(***************************************************************************)
(* The supplier contracts of orgstructure/contracts_suppliers, on top of   *)
(* the ledger of ContractBudget.tla that the requests draw on: create,     *)
(* patch, amend, soft-delete, attach a file, and the audit record of       *)
(* contracts_suppliers_history after each of them.                         *)
(*                                                                         *)
(* Every handler reads the row, checks what it read, and then saves by id  *)
(* alone, in a statement of its own; no handler opens a transaction.  Only *)
(* the columns it sets are written.  A budget transaction of a request     *)
(* holds the row it moves money in, so it is one step here.                *)
(***************************************************************************)
EXTENDS ContractBudget

CONSTANTS Files,      \* base names of uploaded documents
          Sessions,   \* concurrent HTTP calls
          Faults      \* may statements fail and the process stop?

ASSUME ContractsAssumption ==
  /\ Opening = [c \in Contracts |-> 0]   \* no contract exists at the start
  /\ Null \notin Files
  /\ Faults \in BOOLEAN

VARIABLES row,      \* contract -> its row, remaining_amount aside
          bucket,   \* keys <<contract, file>> present in "contract-files"
          newest,   \* contract -> its latest contract_supplier_history record
          call      \* what each session is doing

contractVars == <<remaining, ledger, row, bucket, newest, call>>

\* amendment = 0 is amendment_number IS NULL: amendment amounts are positive.
NoRow == [status |-> "NONE", amount |-> 0, total |-> 0, amendment |-> 0, file |-> Null]
NoRecord == [op |-> "NONE", snapshot |-> NoRow]
Idle == [pc |-> "idle", con |-> Null, amount |-> Null, file |-> Null,
         read |-> NoRow, had |-> 0, op |-> "NONE"]

ContractsInit ==
  /\ Init
  /\ row = [c \in Contracts |-> NoRow]
  /\ bucket = {}
  /\ newest = [c \in Contracts |-> NoRecord]
  /\ call = [s \in Sessions |-> Idle]
-----------------------------------------------------------------------------
Start(s, rec) == call[s] = Idle /\ call' = [call EXCEPT ![s] = rec]
At(s, pc) == call[s].pc = pc
Return(s) == call' = [call EXCEPT ![s] = Idle]

\* queryContractByID and the IsActive check of every handler.
\* Mutant: a missing row is taken for an active one.
ActiveOrMissing(c) == row[c].status # "DELETED"
Active(c) == row[c].status = "ACTIVE"

\* buildSnapshot: the row without its file columns.
\* Mutant: InsertAuditRecord called with rowBefore.
SnapshotBefore(c, s) == [call[s].read EXCEPT !.file = Null]
SnapshotAfter(c, s) == [row'[c] EXCEPT !.file = Null]

\* The save succeeded: an audit record of what it returned comes next.
ThenAudit(s, c, op) ==
  call' = [call EXCEPT ![s] = [Idle EXCEPT !.pc = "audit", !.con = c, !.op = op,
                                           !.read = SnapshotAfter(c, s)]]

\* InsertAuditRecord; its failure is only logged, see Fault.
Audit(s) ==
  /\ At(s, "audit")
  /\ newest' = [newest EXCEPT ![call[s].con] = [op |-> call[s].op, snapshot |-> call[s].read]]
  /\ Return(s)
  /\ UNCHANGED <<remaining, ledger, row, bucket>>
-----------------------------------------------------------------------------
\* insertContract and updateContract set both columns, applyAmendment the total.
Priced(r, a) == [r EXCEPT !.amount = a, !.total = a]
Amended(r, base, a) == [r EXCEPT !.amendment = a, !.total = base + a]

CreateContract(s, c, a) ==
  /\ call[s] = Idle
  /\ row[c] = NoRow
  /\ row' = [row EXCEPT ![c] = Priced([NoRow EXCEPT !.status = "ACTIVE"], a)]
  /\ remaining' = [remaining EXCEPT ![c] = a]
  /\ ThenAudit(s, c, "CREATE")
  /\ UNCHANGED <<ledger, bucket, newest>>

\* UpdateContract; a is Null when the patch names no amount.
\* Mutant: the amount may be patched under an amendment.
PatchableAnyway(c, a) == Active(c)
Patchable(c, a) == Active(c) /\ (a # Null => row[c].amendment = 0)

UpdateCheck(s, c, a) ==
  /\ Patchable(c, a)
  /\ Start(s, [Idle EXCEPT !.pc = "update", !.con = c, !.amount = a, !.read = row[c]])
  /\ UNCHANGED <<remaining, ledger, row, bucket, newest>>

\* Mutant: the reservations are taken off the new amount.
RemainingLessHeld(c, a) == a - (row[c].total - remaining[c])
RemainingReset(c, a) == a
Patched(c, s) == Priced(row[c], call[s].amount)

UpdateSave(s) ==
  LET c == call[s].con
      a == call[s].amount
  IN /\ At(s, "update")
     /\ row' = IF a = Null THEN row ELSE [row EXCEPT ![c] = Patched(c, s)]
     /\ remaining' = IF a = Null THEN remaining
                     ELSE [remaining EXCEPT ![c] = RemainingReset(c, a)]
     /\ ThenAudit(s, c, "UPDATE")
     /\ UNCHANGED <<ledger, bucket, newest>>
-----------------------------------------------------------------------------
\* AddAmendment.
Amendable(c) == Active(c) /\ row[c].amendment = 0

AmendCheck(s, c, a) ==
  /\ Amendable(c)
  /\ Start(s, [Idle EXCEPT !.pc = "amend", !.con = c, !.amount = a,
                           !.read = row[c], !.had = remaining[c]])
  /\ UNCHANGED <<remaining, ledger, row, bucket, newest>>

\* applyAmendment computes both sums from the row the check has read.
\* Mutant: the remaining amount is recomputed from the total.
AmendedFromTotal(s) == call[s].read.amount + call[s].amount
AmendedRemaining(s) == call[s].had + call[s].amount

AmendSave(s) ==
  LET c == call[s].con IN
  /\ At(s, "amend")
  /\ row' = [row EXCEPT ![c] = Amended(@, call[s].read.amount, call[s].amount)]
  /\ remaining' = [remaining EXCEPT ![c] = AmendedRemaining(s)]
  /\ ThenAudit(s, c, "UPDATE")
  /\ UNCHANGED <<ledger, bucket, newest>>
-----------------------------------------------------------------------------
DeleteCheck(s, c) ==
  /\ Active(c)
  /\ Start(s, [Idle EXCEPT !.pc = "delete", !.con = c, !.read = row[c]])
  /\ UNCHANGED <<remaining, ledger, row, bucket, newest>>

DeleteSave(s) ==
  LET c == call[s].con IN
  /\ At(s, "delete")
  /\ row' = [row EXCEPT ![c].status = "DELETED"]
  /\ ThenAudit(s, c, "DELETE")
  /\ UNCHANGED <<remaining, ledger, bucket, newest>>
-----------------------------------------------------------------------------
(* UploadFile: the new object, the old one away, the columns of the row.   *)
UploadCheck(s, c, f) ==
  /\ Active(c)
  /\ Start(s, [Idle EXCEPT !.pc = "upload", !.con = c, !.file = f, !.read = row[c]])
  /\ UNCHANGED <<remaining, ledger, row, bucket, newest>>

\* "If replacing a different key, remove the old object (best-effort)."
\* Mutant: the old key is removed even if it is the new one.
ReplacesAny(s) == call[s].read.file # Null
Replaces(s) == call[s].read.file \notin {Null, call[s].file}

UploadToBucket(s) ==
  /\ At(s, "upload")
  /\ bucket' = bucket \cup {<<call[s].con, call[s].file>>}
  /\ call' = [call EXCEPT ![s].pc = IF Replaces(s) THEN "replace" ELSE "link"]
  /\ UNCHANGED <<remaining, ledger, row, newest>>

RemoveOld(s) ==
  /\ At(s, "replace")
  /\ \/ bucket' = bucket \ {<<call[s].con, call[s].read.file>>}
     \/ Faults /\ UNCHANGED bucket
  /\ call' = [call EXCEPT ![s].pc = "link"]
  /\ UNCHANGED <<remaining, ledger, row, newest>>

LinkFile(s) ==
  LET c == call[s].con IN
  /\ At(s, "link")
  /\ row' = [row EXCEPT ![c].file = call[s].file]
  /\ ThenAudit(s, c, "UPDATE")
  /\ UNCHANGED <<remaining, ledger, bucket, newest>>

\* The row could not be saved: the upload is removed again.
LinkFails(s) ==
  /\ At(s, "link") /\ Faults
  /\ bucket' = bucket \ {<<call[s].con, call[s].file>>}
  /\ Return(s)
  /\ UNCHANGED <<remaining, ledger, row, newest>>
-----------------------------------------------------------------------------
\* The next statement of a call fails, or the process stops before it.
Fault(s) == /\ Faults /\ call[s] # Idle
            /\ Return(s)
            /\ UNCHANGED <<remaining, ledger, row, bucket, newest>>

\* A budget transaction of a request, which is an HTTP call too: the events it
\* is priced by name contracts that exist, deleted or not.
Known(p) == p.contract = Null \/ row[p.contract].status # "NONE"
BudgetCall(s) ==
  /\ call[s] = Idle
  /\ \E m \in Mains : \E p \in {q \in Prices : Known(q)} :
       \/ Reserve(m, p) \/ WriteOff(m, p) \/ GiveBack(m, p)
       \/ \E q \in {r \in Prices : Known(r)} : ReserveAndWriteOff(m, p, q)
  /\ UNCHANGED <<row, bucket, newest, call>>

Checks(s) ==
  \E c \in Contracts :
    \/ \E a \in Amounts \cup {0} : CreateContract(s, c, a)
    \/ \E a \in Amounts \cup {0, Null} : UpdateCheck(s, c, a)
    \/ \E a \in Amounts : AmendCheck(s, c, a)
    \/ DeleteCheck(s, c)
    \/ \E f \in Files : UploadCheck(s, c, f)
Saves(s) == \/ UpdateSave(s) \/ AmendSave(s) \/ DeleteSave(s) \/ UploadToBucket(s)
            \/ RemoveOld(s) \/ LinkFile(s) \/ LinkFails(s) \/ Audit(s)

ContractsNext == \E s \in Sessions : Checks(s) \/ Saves(s) \/ Fault(s) \/ BudgetCall(s)
ContractsSpec == ContractsInit /\ [][ContractsNext]_contractVars
-----------------------------------------------------------------------------
(***************************************************************************)
(* Properties.                                                             *)
(***************************************************************************)
ContractRows == [status : {"NONE", "ACTIVE", "DELETED"}, amount : Nat, total : Nat,
                 amendment : Nat, file : Files \cup {Null}]
AuditOps == {"NONE", "CREATE", "UPDATE", "DELETE"}
HistoryRecords == [op : AuditOps, snapshot : ContractRows]
Pcs == {"idle", "update", "amend", "delete", "upload", "replace", "link", "audit"}
ContractCalls == [pc : Pcs, con : Contracts \cup {Null}, amount : Nat \cup {Null},
                  file : Files \cup {Null}, read : ContractRows, had : Int, op : AuditOps]

\* Besides the types: nothing is stored of, or done to, a contract that was
\* never created.
ContractsTypeOK ==
  /\ TypeOK
  /\ row \in [Contracts -> ContractRows]
  /\ bucket \in SUBSET (Contracts \X Files)
  /\ newest \in [Contracts -> HistoryRecords]
  /\ call \in [Sessions -> ContractCalls]
  /\ \A s \in Sessions :
       /\ call[s].pc # "idle" => call[s].con \in Contracts /\ row[call[s].con].status # "NONE"
       /\ call[s].pc = "amend" => call[s].amount \in Nat
       /\ call[s].pc \in {"upload", "replace", "link"} => call[s].file \in Files
  /\ \A c \in Contracts : row[c].status = "NONE" => row[c] = NoRow /\ remaining[c] = 0

\* DeleteContract is final: no call that read the row while it was active
\* brings it back by saving it later.
DeletedStays ==
  [][\A c \in Contracts : row[c].status = "DELETED" => row'[c].status = "DELETED"]_row

\* No call is in the middle of something on contract c.
Quiet(c) == \A s \in Sessions : call[s].con # c

\* total_with_amendment is the amount plus the amendment, through any sequence
\* of patches and amendments that do not overlap.
TotalExplained == \A c \in Contracts : row[c].total = row[c].amount + row[c].amendment

\* applyAmendment raises what remains by as much as the total: what requests
\* have taken out of the contract stays taken out.
AmendmentKeepsHeld ==
  [][\A c \in Contracts : row'[c].amendment # row[c].amendment =>
       row'[c].total - remaining'[c] = row[c].total - remaining[c]]_<<row, remaining>>

\* UploadFile: between calls the bucket holds of each contract exactly the
\* object its row names, no orphan and no dangling key.
FilePresent ==
  \A c \in Contracts : Quiet(c) =>
    {f \in Files : <<c, f>> \in bucket} = {row[c].file} \ {Null}

\* InsertAuditRecord: between calls the newest history record of a contract
\* shows its row as it is (the balance apart, which requests move unaudited).
HistoryCurrent ==
  \A c \in Contracts : Quiet(c) => newest[c].snapshot = [row[c] EXCEPT !.file = Null]

\* UploadFile: "Roll back the bucket upload to avoid orphaned objects", the row
\* of a contract never names an object that is gone.  The code does not keep
\* this (README, Disagreements); no run checks it.
NoDanglingKey ==
  \A c \in Contracts : Quiet(c) /\ row[c].file # Null => <<c, row[c].file>> \in bucket
=============================================================================
