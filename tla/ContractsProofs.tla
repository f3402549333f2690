--------------------------- MODULE ContractsProofs ---------------------------
(***************************************************************************)
(* Proofs about the supplier contracts, for any set of contracts, requests *)
(* and concurrent sessions: types, that no administrator's edit overdraws  *)
(* a contract, and that a deleted contract stays deleted.  Then, for calls *)
(* on one contract that do not overlap: total, amendment, history and file.*)
(***************************************************************************)
EXTENDS Contracts, ContractBudgetProofs

(* A session whose record changes to a well-typed one, on a contract that  *)
(* exists, keeps the sessions well typed as long as no row disappears.     *)
LEMMA SessionTypes ==
  ASSUME ContractsTypeOK, NEW s \in Sessions, NEW rec \in ContractCalls,
         call' = [call EXCEPT ![s] = rec],
         rec.pc # "idle" => rec.con \in Contracts /\ row'[rec.con].status # "NONE",
         rec.pc = "amend" => rec.amount \in Nat,
         rec.pc \in {"upload", "replace", "link"} => rec.file \in Files,
         \A c \in Contracts : row[c].status # "NONE" => row'[c].status # "NONE"
  PROVE  /\ call' \in [Sessions -> ContractCalls]
         /\ \A t \in Sessions :
              /\ call'[t].pc # "idle" =>
                   call'[t].con \in Contracts /\ row'[call'[t].con].status # "NONE"
              /\ call'[t].pc = "amend" => call'[t].amount \in Nat
              /\ call'[t].pc \in {"upload", "replace", "link"} => call'[t].file \in Files
BY DEF ContractsTypeOK

(* The rows and records everything starts from.                            *)
LEMMA BlankTypes ==
  /\ NoRow \in ContractRows /\ NoRow.status = "NONE"
  /\ NoRecord \in HistoryRecords
  /\ Idle \in ContractCalls /\ Idle.pc = "idle"
BY DEF NoRow, NoRecord, Idle, ContractRows, HistoryRecords, ContractCalls, Pcs, AuditOps

(* The edits of a row the handlers make keep it well typed, and none but   *)
(* the insert and the delete sets the flag.                                *)
LEMMA PricedType ==
  ASSUME NEW r \in ContractRows, NEW a \in Nat
  PROVE  Priced(r, a) \in ContractRows /\ Priced(r, a).status = r.status
<1>1. /\ [r EXCEPT !.amount = a] \in ContractRows
      /\ [r EXCEPT !.amount = a].status = r.status
  BY DEF ContractRows
<1>2. /\ [[r EXCEPT !.amount = a] EXCEPT !.total = a] \in ContractRows
      /\ [[r EXCEPT !.amount = a] EXCEPT !.total = a].status = r.status
  BY <1>1 DEF ContractRows
<1> QED BY <1>2 DEF Priced

LEMMA AmendedType ==
  ASSUME NEW r \in ContractRows, NEW base \in Nat, NEW a \in Nat
  PROVE  Amended(r, base, a) \in ContractRows /\ Amended(r, base, a).status = r.status
<1>1. /\ [r EXCEPT !.amendment = a] \in ContractRows
      /\ [r EXCEPT !.amendment = a].status = r.status
  BY DEF ContractRows
<1>2. base + a \in Nat OBVIOUS
<1>3. /\ [[r EXCEPT !.amendment = a] EXCEPT !.total = base + a] \in ContractRows
      /\ [[r EXCEPT !.amendment = a] EXCEPT !.total = base + a].status = r.status
  BY <1>1, <1>2 DEF ContractRows
<1> QED BY <1>3 DEF Amended

LEMMA CreatedType ==
  /\ [NoRow EXCEPT !.status = "ACTIVE"] \in ContractRows
  /\ [NoRow EXCEPT !.status = "ACTIVE"].status = "ACTIVE"
BY BlankTypes DEF ContractRows

(* A call that only checks leaves every table alone.                       *)
LEMMA StartTypes ==
  ASSUME ContractsTypeOK, NEW s \in Sessions, NEW rec \in ContractCalls, Start(s, rec),
         rec.con \in Contracts, row[rec.con].status # "NONE",
         rec.pc = "amend" => rec.amount \in Nat,
         rec.pc \in {"upload", "replace", "link"} => rec.file \in Files,
         UNCHANGED <<remaining, ledger, row, bucket, newest>>
  PROVE  ContractsTypeOK'
<1>1. call' = [call EXCEPT ![s] = rec] BY DEF Start
<1>2. \A c \in Contracts : row[c].status # "NONE" => row'[c].status # "NONE" OBVIOUS
<1> QED BY <1>1, <1>2, SessionTypes DEF ContractsTypeOK, TypeOK

(* A save of contract c that leaves a well-typed row and a balance, and    *)
(* goes on to the audit.                                                   *)
LEMMA SaveTypes ==
  ASSUME ContractsTypeOK, NEW s \in Sessions, NEW c \in Contracts, NEW op \in AuditOps,
         NEW r \in ContractRows, r.status # "NONE", NEW n \in Int,
         row' = [row EXCEPT ![c] = r], remaining' = [remaining EXCEPT ![c] = n],
         ThenAudit(s, c, op), UNCHANGED <<ledger, bucket, newest>>
  PROVE  ContractsTypeOK'
<1> DEFINE rec == [Idle EXCEPT !.pc = "audit", !.con = c, !.op = op,
                               !.read = SnapshotAfter(c, s)]
<1>1. row'[c] = r BY DEF ContractsTypeOK
<1>2. SnapshotAfter(c, s) \in ContractRows BY <1>1 DEF SnapshotAfter, ContractRows
<1>3. /\ rec \in ContractCalls
      /\ rec.pc = "audit" /\ rec.con = c
  BY <1>2, BlankTypes DEF ContractCalls, Pcs
<1>4. call' = [call EXCEPT ![s] = rec] BY DEF ThenAudit
<1>5. \A d \in Contracts : row[d].status # "NONE" => row'[d].status # "NONE"
  BY <1>1 DEF ContractsTypeOK
<1> HIDE DEF rec
<1>6. /\ call' \in [Sessions -> ContractCalls]
      /\ \A t \in Sessions :
           /\ call'[t].pc # "idle" =>
                call'[t].con \in Contracts /\ row'[call'[t].con].status # "NONE"
           /\ call'[t].pc = "amend" => call'[t].amount \in Nat
           /\ call'[t].pc \in {"upload", "replace", "link"} => call'[t].file \in Files
  BY <1>1, <1>3, <1>4, <1>5, SessionTypes
<1>7. TypeOK' BY DEF ContractsTypeOK, TypeOK
<1>8. /\ row' \in [Contracts -> ContractRows]
      /\ \A d \in Contracts : row'[d].status = "NONE" => row'[d] = NoRow /\ remaining'[d] = 0
  BY <1>1 DEF ContractsTypeOK, TypeOK
<1> QED BY <1>6, <1>7, <1>8 DEF ContractsTypeOK

(* A step of a running call that changes at most the bucket, the history   *)
(* and its own record.                                                     *)
LEMMA RunTypes ==
  ASSUME ContractsTypeOK, NEW s \in Sessions, NEW rec \in ContractCalls,
         call' = [call EXCEPT ![s] = rec],
         rec.pc # "idle" => rec.con \in Contracts /\ row[rec.con].status # "NONE",
         rec.pc = "amend" => rec.amount \in Nat,
         rec.pc \in {"upload", "replace", "link"} => rec.file \in Files,
         bucket' \in SUBSET (Contracts \X Files), newest' \in [Contracts -> HistoryRecords],
         UNCHANGED <<remaining, ledger, row>>
  PROVE  ContractsTypeOK'
<1>1. \A c \in Contracts : row[c].status # "NONE" => row'[c].status # "NONE" OBVIOUS
<1> QED BY <1>1, SessionTypes DEF ContractsTypeOK, TypeOK

(* Every step keeps the tables and the sessions well typed.                *)
LEMMA ContractsTypeStep == ContractsTypeOK /\ [ContractsNext]_contractVars => ContractsTypeOK'
<1> SUFFICES ASSUME ContractsTypeOK, [ContractsNext]_contractVars PROVE ContractsTypeOK'
  OBVIOUS
<1> USE BudgetAssumption, ContractsAssumption, BlankTypes
<1>1. ASSUME NEW s \in Sessions, NEW c \in Contracts, NEW a \in Amounts \cup {0},
             CreateContract(s, c, a)
      PROVE  ContractsTypeOK'
  <2> DEFINE r == Priced([NoRow EXCEPT !.status = "ACTIVE"], a)
  <2>1. a \in Nat OBVIOUS
  <2>2. r \in ContractRows /\ r.status # "NONE" BY <2>1, CreatedType, PricedType
  <2>3. row' = [row EXCEPT ![c] = r] BY <1>1 DEF CreateContract
  <2>4. /\ remaining' = [remaining EXCEPT ![c] = a]
        /\ ThenAudit(s, c, "CREATE") /\ UNCHANGED <<ledger, bucket, newest>>
    BY <1>1 DEF CreateContract
  <2>5. a \in Int /\ "CREATE" \in AuditOps BY <2>1 DEF AuditOps
  <2> HIDE DEF r
  <2> QED BY <2>2, <2>3, <2>4, <2>5, SaveTypes
<1>2. ASSUME NEW s \in Sessions, NEW c \in Contracts, NEW a \in Amounts \cup {0, Null},
             UpdateCheck(s, c, a)
      PROVE  ContractsTypeOK'
  <2> DEFINE rec == [Idle EXCEPT !.pc = "update", !.con = c, !.amount = a, !.read = row[c]]
  <2>1. row[c] \in ContractRows /\ row[c].status # "NONE"
    BY <1>2 DEF UpdateCheck, Patchable, Active, ContractsTypeOK
  <2>2. rec \in ContractCalls /\ rec.pc = "update" /\ rec.con = c
    BY <2>1 DEF ContractCalls, Pcs
  <2>3. Start(s, rec) BY <1>2 DEF UpdateCheck
  <2> HIDE DEF rec
  <2> QED BY <1>2, <2>1, <2>2, <2>3, StartTypes DEF UpdateCheck
<1>3. ASSUME NEW s \in Sessions, NEW c \in Contracts, NEW a \in Amounts, AmendCheck(s, c, a)
      PROVE  ContractsTypeOK'
  <2> DEFINE rec == [Idle EXCEPT !.pc = "amend", !.con = c, !.amount = a,
                                 !.read = row[c], !.had = remaining[c]]
  <2>1. row[c] \in ContractRows /\ row[c].status # "NONE" /\ remaining[c] \in Int
    BY <1>3 DEF AmendCheck, Amendable, Active, ContractsTypeOK, TypeOK
  <2>2. rec \in ContractCalls /\ rec.pc = "amend" /\ rec.con = c /\ rec.amount \in Nat
    BY <2>1 DEF ContractCalls, Pcs
  <2>3. Start(s, rec) BY <1>3 DEF AmendCheck
  <2> HIDE DEF rec
  <2> QED BY <1>3, <2>1, <2>2, <2>3, StartTypes DEF AmendCheck
<1>4. ASSUME NEW s \in Sessions, NEW c \in Contracts, DeleteCheck(s, c)
      PROVE  ContractsTypeOK'
  <2> DEFINE rec == [Idle EXCEPT !.pc = "delete", !.con = c, !.read = row[c]]
  <2>1. row[c] \in ContractRows /\ row[c].status # "NONE"
    BY <1>4 DEF DeleteCheck, Active, ContractsTypeOK
  <2>2. rec \in ContractCalls /\ rec.pc = "delete" /\ rec.con = c
    BY <2>1 DEF ContractCalls, Pcs
  <2>3. Start(s, rec) BY <1>4 DEF DeleteCheck
  <2> HIDE DEF rec
  <2> QED BY <1>4, <2>1, <2>2, <2>3, StartTypes DEF DeleteCheck
<1>5. ASSUME NEW s \in Sessions, NEW c \in Contracts, NEW f \in Files, UploadCheck(s, c, f)
      PROVE  ContractsTypeOK'
  <2> DEFINE rec == [Idle EXCEPT !.pc = "upload", !.con = c, !.file = f, !.read = row[c]]
  <2>1. row[c] \in ContractRows /\ row[c].status # "NONE"
    BY <1>5 DEF UploadCheck, Active, ContractsTypeOK
  <2>2. rec \in ContractCalls /\ rec.pc = "upload" /\ rec.con = c /\ rec.file \in Files
    BY <2>1 DEF ContractCalls, Pcs
  <2>3. Start(s, rec) BY <1>5 DEF UploadCheck
  <2> HIDE DEF rec
  <2> QED BY <1>5, <2>1, <2>2, <2>3, StartTypes DEF UploadCheck
<1>6. ASSUME NEW s \in Sessions, UpdateSave(s) PROVE ContractsTypeOK'
  <2> DEFINE c == call[s].con
             a == call[s].amount
             r == IF a = Null THEN row[c] ELSE Patched(c, s)
             n == IF a = Null THEN remaining[c] ELSE a
  <2>1. /\ c \in Contracts /\ row[c] \in ContractRows /\ row[c].status # "NONE"
        /\ a \in Nat \cup {Null} /\ remaining[c] \in Int
    BY <1>6 DEF UpdateSave, At, ContractsTypeOK, ContractCalls, TypeOK
  <2>2. r \in ContractRows /\ r.status # "NONE" /\ n \in Int
    BY <2>1, PricedType DEF Patched
  <2>3. row' = [row EXCEPT ![c] = r] /\ remaining' = [remaining EXCEPT ![c] = n]
    BY <1>6, <2>1 DEF UpdateSave, RemainingReset, ContractsTypeOK, TypeOK
  <2>4. ThenAudit(s, c, "UPDATE") /\ UNCHANGED <<ledger, bucket, newest>>
    BY <1>6 DEF UpdateSave
  <2> HIDE DEF c, a, r, n
  <2> QED BY <2>1, <2>2, <2>3, <2>4, SaveTypes DEF AuditOps
<1>7. ASSUME NEW s \in Sessions, AmendSave(s) PROVE ContractsTypeOK'
  <2> DEFINE c == call[s].con
             a == call[s].amount
             r == Amended(row[c], call[s].read.amount, a)
             n == AmendedRemaining(s)
  <2>1. /\ c \in Contracts /\ row[c] \in ContractRows /\ row[c].status # "NONE"
        /\ a \in Nat /\ call[s].read \in ContractRows /\ call[s].had \in Int
    BY <1>7 DEF AmendSave, At, ContractsTypeOK, ContractCalls
  <2>2. call[s].read.amount \in Nat BY <2>1 DEF ContractRows
  <2>3. r \in ContractRows /\ r.status # "NONE" BY <2>1, <2>2, AmendedType
  <2>4. n \in Int BY <2>1 DEF AmendedRemaining
  <2>5. row' = [row EXCEPT ![c] = r] /\ remaining' = [remaining EXCEPT ![c] = n]
    BY <1>7, <2>1 DEF AmendSave, ContractsTypeOK
  <2>6. ThenAudit(s, c, "UPDATE") /\ UNCHANGED <<ledger, bucket, newest>>
    BY <1>7 DEF AmendSave
  <2> HIDE DEF c, a, r, n
  <2> QED BY <2>1, <2>3, <2>4, <2>5, <2>6, SaveTypes DEF AuditOps
<1>8. ASSUME NEW s \in Sessions, DeleteSave(s) \/ LinkFile(s) PROVE ContractsTypeOK'
  <2> DEFINE c == call[s].con
             r == IF DeleteSave(s) THEN [row[c] EXCEPT !.status = "DELETED"]
                  ELSE [row[c] EXCEPT !.file = call[s].file]
             op == IF DeleteSave(s) THEN "DELETE" ELSE "UPDATE"
  <2>1. /\ c \in Contracts /\ row[c] \in ContractRows /\ row[c].status # "NONE"
        /\ call[s].file \in Files \cup {Null} /\ remaining[c] \in Int
    BY <1>8 DEF DeleteSave, LinkFile, At, ContractsTypeOK, ContractCalls, TypeOK
  <2>2. r \in ContractRows /\ r.status # "NONE" BY <2>1 DEF ContractRows
  <2>3. row' = [row EXCEPT ![c] = r] BY <1>8, <2>1 DEF DeleteSave, LinkFile, ContractsTypeOK
  <2>4. remaining' = [remaining EXCEPT ![c] = remaining[c]]
    BY <1>8, <2>1 DEF DeleteSave, LinkFile, ContractsTypeOK, TypeOK
  <2>5. ThenAudit(s, c, op) /\ op \in AuditOps /\ UNCHANGED <<ledger, bucket, newest>>
    BY <1>8 DEF DeleteSave, LinkFile, AuditOps
  <2> HIDE DEF c, r, op
  <2> QED BY <2>1, <2>2, <2>3, <2>4, <2>5, SaveTypes
<1>9. ASSUME NEW s \in Sessions, UploadToBucket(s) \/ RemoveOld(s) PROVE ContractsTypeOK'
  <2> DEFINE rec == [call[s] EXCEPT !.pc = IF RemoveOld(s) THEN "link"
                                           ELSE IF Replaces(s) THEN "replace" ELSE "link"]
  <2>1. /\ call[s] \in ContractCalls /\ call[s].file \in Files
        /\ call[s].con \in Contracts /\ row[call[s].con].status # "NONE"
    BY <1>9 DEF UploadToBucket, RemoveOld, At, ContractsTypeOK
  <2>2. /\ rec \in ContractCalls /\ rec.pc \in {"replace", "link"}
        /\ rec.con = call[s].con /\ rec.file = call[s].file
    BY <2>1 DEF ContractCalls, Pcs
  <2>3. call' = [call EXCEPT ![s] = rec]
    BY <1>9 DEF UploadToBucket, RemoveOld, At, ContractsTypeOK
  <2>4. /\ bucket' \in SUBSET (Contracts \X Files) /\ newest' = newest
        /\ UNCHANGED <<remaining, ledger, row>>
    BY <1>9, <2>1 DEF UploadToBucket, RemoveOld, ContractsTypeOK
  <2>5. newest' \in [Contracts -> HistoryRecords] BY <2>4 DEF ContractsTypeOK
  <2> HIDE DEF rec
  <2> QED BY <2>1, <2>2, <2>3, <2>4, <2>5, RunTypes
<1>10. ASSUME NEW s \in Sessions, Audit(s) \/ LinkFails(s) \/ Fault(s) PROVE ContractsTypeOK'
  <2>1. call' = [call EXCEPT ![s] = Idle] /\ UNCHANGED <<remaining, ledger, row>>
    BY <1>10 DEF Audit, LinkFails, Fault, Return
  <2>2. bucket' \in SUBSET (Contracts \X Files)
    BY <1>10 DEF Audit, LinkFails, Fault, ContractsTypeOK
  <2>3. newest' \in [Contracts -> HistoryRecords]
    <3>1. CASE Audit(s)
      <4>1. /\ call[s].con \in Contracts
            /\ [op |-> call[s].op, snapshot |-> call[s].read] \in HistoryRecords
        BY <3>1 DEF Audit, At, ContractsTypeOK, ContractCalls, HistoryRecords
      <4> QED BY <3>1, <4>1 DEF Audit, ContractsTypeOK
    <3>2. CASE LinkFails(s) \/ Fault(s) BY <3>2 DEF LinkFails, Fault, ContractsTypeOK
    <3> QED BY <1>10, <3>1, <3>2
  <2> QED BY <2>1, <2>2, <2>3, RunTypes
<1>11. ASSUME NEW s \in Sessions, BudgetCall(s) PROVE ContractsTypeOK'
  <2>1. Next /\ UNCHANGED <<row, bucket, newest, call>> BY <1>11 DEF BudgetCall, Next
  <2>2. TypeOK' BY <2>1, TypeStep DEF ContractsTypeOK
  <2>3. \A c \in Contracts : row[c].status = "NONE" => remaining'[c] = remaining[c]
    BY <1>11 DEF BudgetCall, Known, Reserve, WriteOff, GiveBack, ReserveAndWriteOff,
                 ContractsTypeOK, TypeOK
  <2> QED BY <2>1, <2>2, <2>3 DEF ContractsTypeOK
<1>12. CASE UNCHANGED contractVars BY <1>12 DEF contractVars, ContractsTypeOK, TypeOK
<1> QED
  BY <1>1, <1>2, <1>3, <1>4, <1>5, <1>6, <1>7, <1>8, <1>9, <1>10, <1>11, <1>12
     DEF ContractsNext, Checks, Saves

(* Type correctness: nothing happens to a contract that was never created. *)
THEOREM ContractsTypeCorrect == ContractsSpec => []ContractsTypeOK
<1>1. ContractsInit => ContractsTypeOK
  BY BudgetAssumption, ContractsAssumption, BlankTypes
     DEF ContractsInit, Init, ContractsTypeOK, TypeOK
<1> QED BY <1>1, ContractsTypeStep, PTL DEF ContractsSpec

(* An amendment adds to the balance its check has read, which was not      *)
(* negative then, however many reservations were booked since.             *)
FundsRead == \A s \in Sessions : At(s, "amend") => call[s].had >= 0

LEMMA FundsStep ==
  ContractsTypeOK /\ NoOverdraft /\ FundsRead /\ [ContractsNext]_contractVars
    => (NoOverdraft /\ FundsRead)'
<1> SUFFICES ASSUME ContractsTypeOK, NoOverdraft, FundsRead, [ContractsNext]_contractVars
             PROVE  (NoOverdraft /\ FundsRead)'
  OBVIOUS
<1>0. TypeOK BY DEF ContractsTypeOK
<1>1. ASSUME NEW s \in Sessions, NEW c \in Contracts, NEW a \in Amounts \cup {0},
             CreateContract(s, c, a)
      PROVE  (NoOverdraft /\ FundsRead)'
  <2>1. a \in Nat BY BudgetAssumption
  <2>2. NoOverdraft' BY <1>0, <1>1, <2>1 DEF CreateContract, NoOverdraft, TypeOK
  <2>3. FundsRead' BY <1>1 DEF CreateContract, ThenAudit, FundsRead, At, ContractsTypeOK
  <2> QED BY <2>2, <2>3
<1>2. ASSUME NEW s \in Sessions, NEW c \in Contracts,
             \/ \E a \in Amounts \cup {0, Null} : UpdateCheck(s, c, a)
             \/ DeleteCheck(s, c)
             \/ \E f \in Files : UploadCheck(s, c, f)
      PROVE  (NoOverdraft /\ FundsRead)'
  <2>1. remaining' = remaining /\ \E rec : rec.pc # "amend" /\ call' = [call EXCEPT ![s] = rec]
    BY <1>2 DEF UpdateCheck, DeleteCheck, UploadCheck, Start, Idle
  <2> QED BY <2>1 DEF NoOverdraft, FundsRead, At, ContractsTypeOK
<1>3. ASSUME NEW s \in Sessions, NEW c \in Contracts, NEW a \in Amounts, AmendCheck(s, c, a)
      PROVE  (NoOverdraft /\ FundsRead)'
  <2>1. remaining' = remaining /\ \E rec : rec.had = remaining[c] /\ call' = [call EXCEPT ![s] = rec]
    BY <1>3 DEF AmendCheck, Start, Idle
  <2> QED BY <2>1 DEF NoOverdraft, FundsRead, At, ContractsTypeOK
<1>4. ASSUME NEW s \in Sessions, UpdateSave(s) PROVE (NoOverdraft /\ FundsRead)'
  <2>1. call[s].amount \in Nat \cup {Null}
    BY DEF ContractsTypeOK, ContractCalls
  <2>2. NoOverdraft'
    BY <1>0, <1>4, <2>1 DEF UpdateSave, RemainingReset, NoOverdraft, TypeOK
  <2>3. FundsRead' BY <1>4 DEF UpdateSave, ThenAudit, FundsRead, At, ContractsTypeOK
  <2> QED BY <2>2, <2>3
<1>5. ASSUME NEW s \in Sessions, AmendSave(s) PROVE (NoOverdraft /\ FundsRead)'
  <2>1. call[s].amount \in Nat /\ call[s].had \in Int /\ call[s].had >= 0
    BY <1>5 DEF AmendSave, At, FundsRead, ContractsTypeOK, ContractCalls
  <2>2. NoOverdraft' BY <1>0, <1>5, <2>1 DEF AmendSave, AmendedRemaining, NoOverdraft, TypeOK
  <2>3. FundsRead' BY <1>5 DEF AmendSave, ThenAudit, FundsRead, At, ContractsTypeOK
  <2> QED BY <2>2, <2>3
<1>6. ASSUME NEW s \in Sessions,
             \/ DeleteSave(s) \/ LinkFile(s) \/ UploadToBucket(s) \/ RemoveOld(s)
             \/ LinkFails(s) \/ Audit(s) \/ Fault(s)
      PROVE  (NoOverdraft /\ FundsRead)'
  <2>1. remaining' = remaining
    BY <1>6 DEF DeleteSave, LinkFile, UploadToBucket, RemoveOld, LinkFails, Audit, Fault
  <2>2. \E rec : rec.pc # "amend" /\ call' = [call EXCEPT ![s] = rec]
    <3>1. CASE DeleteSave(s) \/ LinkFile(s) BY <3>1 DEF DeleteSave, LinkFile, ThenAudit, Idle
    <3>2. CASE UploadToBucket(s) \/ RemoveOld(s)
      <4> DEFINE rec == [call[s] EXCEPT !.pc = IF RemoveOld(s) THEN "link"
                                               ELSE IF Replaces(s) THEN "replace" ELSE "link"]
      <4>1. call' = [call EXCEPT ![s] = rec]
        BY <3>2 DEF UploadToBucket, RemoveOld, At, ContractsTypeOK
      <4>2. rec.pc # "amend" BY DEF ContractsTypeOK, ContractCalls
      <4> QED BY <4>1, <4>2
    <3>3. CASE LinkFails(s) \/ Audit(s) \/ Fault(s)
      BY <3>3 DEF LinkFails, Audit, Fault, Return, Idle
    <3> QED BY <1>6, <3>1, <3>2, <3>3
  <2> QED BY <2>1, <2>2 DEF NoOverdraft, FundsRead, At, ContractsTypeOK
<1>7. ASSUME NEW s \in Sessions, BudgetCall(s) PROVE (NoOverdraft /\ FundsRead)'
  <2>1. Next /\ UNCHANGED call BY <1>7 DEF BudgetCall, Next
  <2>2. NoOverdraft' BY <1>0, <2>1, OverdraftStep
  <2>3. FundsRead' BY <2>1 DEF FundsRead, At
  <2> QED BY <2>2, <2>3
<1>8. CASE UNCHANGED contractVars BY <1>8 DEF contractVars, NoOverdraft, FundsRead, At
<1> QED
  BY <1>1, <1>2, <1>3, <1>4, <1>5, <1>6, <1>7, <1>8 DEF ContractsNext, Checks, Saves

(* Whatever administrators do to contracts while requests reserve and give *)
(* back, with stale reads and failing calls, no balance becomes negative.  *)
THEOREM ContractsNeverOverdrawn == ContractsSpec => []NoOverdraft
<1>1. ContractsInit => NoOverdraft /\ FundsRead
  BY BudgetAssumption DEF ContractsInit, Init, NoOverdraft, FundsRead, At, Idle
<1> QED BY <1>1, FundsStep, ContractsTypeCorrect, PTL DEF ContractsSpec

(* A deleted contract stays deleted: no handler writes the active flag     *)
(* back, whatever row it has read.                                         *)
THEOREM DeletionIsFinal == ContractsSpec => DeletedStays
<1>1. ContractsTypeOK /\ [ContractsNext]_contractVars =>
        [\A c \in Contracts : row[c].status = "DELETED" => row'[c].status = "DELETED"]_row
  <2> SUFFICES ASSUME ContractsTypeOK, [ContractsNext]_contractVars,
                      NEW c \in Contracts, row[c].status = "DELETED"
               PROVE  row'[c].status = "DELETED"
    OBVIOUS
  <2>1. row[c] \in ContractRows BY DEF ContractsTypeOK
  <2>2. ASSUME NEW s \in Sessions, NEW d \in Contracts, NEW a \in Amounts \cup {0},
               CreateContract(s, d, a)
        PROVE  row'[c].status = "DELETED"
    BY <2>2 DEF CreateContract, NoRow, ContractsTypeOK
  <2>3. ASSUME NEW s \in Sessions, UpdateSave(s) PROVE row'[c].status = "DELETED"
    <3>1. call[s].amount \in Nat \cup {Null} BY DEF ContractsTypeOK, ContractCalls
    <3>2. CASE call[s].amount = Null BY <2>3, <3>2 DEF UpdateSave
    <3>3. CASE call[s].amount # Null
      <4>1. row' = [row EXCEPT ![call[s].con] = Patched(call[s].con, s)]
        BY <2>3, <3>3 DEF UpdateSave
      <4>2. CASE call[s].con = c
        <5>1. row'[c] = Patched(c, s) BY <4>1, <4>2 DEF ContractsTypeOK
        <5> QED BY <2>1, <3>1, <3>3, <5>1, PricedType DEF Patched
      <4>3. CASE call[s].con # c BY <4>1, <4>3 DEF ContractsTypeOK
      <4> QED BY <4>2, <4>3
    <3> QED BY <3>2, <3>3
  <2>4. ASSUME NEW s \in Sessions, LinkFile(s) \/ DeleteSave(s)
        PROVE  row'[c].status = "DELETED"
    BY <2>1, <2>4 DEF LinkFile, DeleteSave, ContractsTypeOK, ContractRows
  <2>8. ASSUME NEW s \in Sessions, AmendSave(s) PROVE row'[c].status = "DELETED"
    <3>1. call[s].read.amount \in Nat /\ call[s].amount \in Nat
      BY <2>8 DEF AmendSave, At, ContractsTypeOK, ContractCalls, ContractRows
    <3>2. row'[c] = IF call[s].con = c THEN Amended(row[c], call[s].read.amount, call[s].amount)
                    ELSE row[c]
      BY <2>8 DEF AmendSave, ContractsTypeOK
    <3>3. Amended(row[c], call[s].read.amount, call[s].amount).status = row[c].status
      BY <2>1, <3>1, AmendedType
    <3> QED BY <3>2, <3>3
  <2>5. CASE row' = row BY <2>5
  <2>6. CASE \E s \in Sessions :
               \/ \E d \in Contracts :
                    \/ \E a \in Amounts \cup {0, Null} : UpdateCheck(s, d, a)
                    \/ \E a \in Amounts : AmendCheck(s, d, a)
                    \/ DeleteCheck(s, d)
                    \/ \E f \in Files : UploadCheck(s, d, f)
               \/ UploadToBucket(s) \/ RemoveOld(s) \/ LinkFails(s) \/ Audit(s)
               \/ Fault(s) \/ BudgetCall(s)
    BY <2>5, <2>6 DEF UpdateCheck, AmendCheck, DeleteCheck, UploadCheck, UploadToBucket,
                      RemoveOld, LinkFails, Audit, Fault, BudgetCall
  <2>7. CASE UNCHANGED contractVars BY <2>5, <2>7 DEF contractVars
  <2> QED BY <2>2, <2>3, <2>4, <2>6, <2>7, <2>8 DEF ContractsNext, Checks, Saves
<1> QED BY <1>1, ContractsTypeCorrect, PTL DEF ContractsSpec, DeletedStays
-----------------------------------------------------------------------------
(* Calls on one contract do not overlap; calls on different ones may, and  *)
(* so may the budget transactions of requests.  What a check has read of a *)
(* row is then still in the row at the save.                               *)
Apart == \A s, t \in Sessions : s # t /\ call[s].con # Null => call[t].con # call[s].con

\* What the audit records of a row.
Snapshot(r) == [r EXCEPT !.file = Null]

\* What a check hands to the rest of its call.
Begun(s, k) ==
  /\ call[s] = Idle /\ call' = [call EXCEPT ![s] = k]
  /\ k.con \in Contracts /\ k.read = row[k.con]
  /\ k.pc \in {"update", "amend", "delete", "upload"}
  /\ k.pc = "update" /\ k.amount # Null => row[k.con].amendment = 0
  /\ k.pc = "amend" => row[k.con].amendment = 0 /\ k.had = remaining[k.con]
  /\ UNCHANGED <<remaining, ledger, row, bucket, newest>>

\* What the save of call c leaves in the row old of its contract.
Written(c, old, r) ==
  \/ c.pc = "update" /\ r = old
  \/ /\ c.pc = "update" /\ c.amount # Null
     /\ r.amendment = old.amendment /\ r.total = r.amount /\ r.file = old.file
  \/ /\ c.pc = "amend"
     /\ r.amount = old.amount /\ r.amendment = c.amount /\ r.file = old.file
     /\ r.total = c.read.amount + c.amount
  \/ /\ c.pc = "delete" /\ r.file = old.file
     /\ r.amount = old.amount /\ r.amendment = old.amendment /\ r.total = old.total
  \/ /\ c.pc = "link" /\ r.file = c.file
     /\ r.amount = old.amount /\ r.amendment = old.amendment /\ r.total = old.total

Auditing(s, c, r, k) == /\ call' = [call EXCEPT ![s] = k]
                        /\ k.pc = "audit" /\ k.con = c /\ k.read = Snapshot(r)

Saved(s, c, r, k) ==
  /\ row' = [row EXCEPT ![c] = r] /\ r.status # "NONE"
  /\ Auditing(s, c, r, k)
  /\ UNCHANGED <<ledger, bucket, newest>>
  /\ \/ /\ row[c] = NoRow /\ call[s] = Idle
        /\ r.amendment = 0 /\ r.total = r.amount /\ r.file = Null
     \/ call[s].con = c /\ Written(call[s], row[c], r)

(* The columns the edits of a row set, and those they leave.               *)
LEMMA PricedFields ==
  ASSUME NEW r \in ContractRows, NEW a
  PROVE  /\ Priced(r, a).amount = a /\ Priced(r, a).total = a
         /\ Priced(r, a).amendment = r.amendment /\ Priced(r, a).file = r.file
<1> DEFINE p == [r EXCEPT !.amount = a]
<1>1. /\ p.amount = a /\ p.amendment = r.amendment /\ p.file = r.file
      /\ DOMAIN p = DOMAIN r /\ {"amount", "total", "amendment", "file"} \subseteq DOMAIN r
      /\ p = [x \in DOMAIN p |-> p[x]]
  BY DEF ContractRows
<1>2. Priced(r, a) = [p EXCEPT !.total = a] BY DEF Priced
<1> HIDE DEF p
<1> QED BY <1>1, <1>2

LEMMA AmendedFields ==
  ASSUME NEW r \in ContractRows, NEW base, NEW a
  PROVE  /\ Amended(r, base, a).amount = r.amount /\ Amended(r, base, a).total = base + a
         /\ Amended(r, base, a).amendment = a /\ Amended(r, base, a).file = r.file
<1> DEFINE p == [r EXCEPT !.amendment = a]
           n == base + a
<1>1. /\ p.amount = r.amount /\ p.amendment = a /\ p.file = r.file
      /\ DOMAIN p = DOMAIN r /\ {"amount", "total", "amendment", "file"} \subseteq DOMAIN r
      /\ p = [x \in DOMAIN p |-> p[x]]
  BY DEF ContractRows
<1>2. Amended(r, base, a) = [p EXCEPT !.total = n] BY DEF Amended
<1> HIDE DEF p, n
<1>3. [p EXCEPT !.total = n].total = n BY <1>1
<1> QED BY <1>1, <1>2, <1>3 DEF n

(* Every check hands on the row as it has read it.                         *)
LEMMA NewCalls ==
  ASSUME ContractsTypeOK, NEW s \in Sessions, NEW c \in Contracts,
         \/ \E a \in Amounts \cup {0, Null} : UpdateCheck(s, c, a)
         \/ \E a \in Amounts : AmendCheck(s, c, a)
         \/ DeleteCheck(s, c)
         \/ \E f \in Files : UploadCheck(s, c, f)
  PROVE  \E k : Begun(s, k)
<1>1. ASSUME NEW a \in Amounts \cup {0, Null}, UpdateCheck(s, c, a) PROVE \E k : Begun(s, k)
  <2> DEFINE k == [Idle EXCEPT !.pc = "update", !.con = c, !.amount = a, !.read = row[c]]
  <2>1. k.pc = "update" /\ k.con = c /\ k.amount = a /\ k.read = row[c] BY DEF Idle
  <2>2. Start(s, k) BY <1>1 DEF UpdateCheck
  <2> HIDE DEF k
  <2>3. Begun(s, k) BY <1>1, <2>1, <2>2 DEF UpdateCheck, Patchable, Start, Begun
  <2> QED BY <2>3
<1>2. ASSUME NEW a \in Amounts, AmendCheck(s, c, a) PROVE \E k : Begun(s, k)
  <2> DEFINE k == [Idle EXCEPT !.pc = "amend", !.con = c, !.amount = a,
                               !.read = row[c], !.had = remaining[c]]
  <2>1. k.pc = "amend" /\ k.con = c /\ k.read = row[c] /\ k.had = remaining[c] BY DEF Idle
  <2>2. Start(s, k) BY <1>2 DEF AmendCheck
  <2> HIDE DEF k
  <2>3. Begun(s, k) BY <1>2, <2>1, <2>2 DEF AmendCheck, Amendable, Start, Begun
  <2> QED BY <2>3
<1>3. CASE DeleteCheck(s, c)
  <2> DEFINE k == [Idle EXCEPT !.pc = "delete", !.con = c, !.read = row[c]]
  <2>1. k.pc = "delete" /\ k.con = c /\ k.read = row[c] BY DEF Idle
  <2>2. Start(s, k) BY <1>3 DEF DeleteCheck
  <2> HIDE DEF k
  <2>3. Begun(s, k) BY <1>3, <2>1, <2>2 DEF DeleteCheck, Start, Begun
  <2> QED BY <2>3
<1>4. ASSUME NEW f \in Files, UploadCheck(s, c, f) PROVE \E k : Begun(s, k)
  <2> DEFINE k == [Idle EXCEPT !.pc = "upload", !.con = c, !.file = f, !.read = row[c]]
  <2>1. k.pc = "upload" /\ k.con = c /\ k.read = row[c] BY DEF Idle
  <2>2. Start(s, k) BY <1>4 DEF UploadCheck
  <2> HIDE DEF k
  <2>3. Begun(s, k) BY <1>4, <2>1, <2>2 DEF UploadCheck, Start, Begun
  <2> QED BY <2>3
<1> QED BY <1>1, <1>2, <1>3, <1>4

(* Every save goes on to the audit with the row as it has saved it.        *)
LEMMA Audited ==
  ASSUME ContractsTypeOK, NEW s \in Sessions, NEW c \in Contracts, NEW r \in ContractRows,
         NEW op \in AuditOps,
         row' = [row EXCEPT ![c] = r], ThenAudit(s, c, op)
  PROVE  \E k : Auditing(s, c, r, k)
<1> DEFINE k == [Idle EXCEPT !.pc = "audit", !.con = c, !.op = op, !.read = SnapshotAfter(c, s)]
<1>1. row'[c] = r BY DEF ContractsTypeOK
<1>2. k.pc = "audit" /\ k.con = c /\ k.read = Snapshot(r)
  BY <1>1 DEF Idle, SnapshotAfter, Snapshot
<1>3. call' = [call EXCEPT ![s] = k] BY DEF ThenAudit
<1> HIDE DEF k
<1>4. Auditing(s, c, r, k) BY <1>2, <1>3 DEF Auditing
<1> QED BY <1>4

(* What each handler saves.                                                *)
LEMMA SavedRows ==
  ASSUME ContractsTypeOK, NEW s \in Sessions,
         \/ \E c \in Contracts : \E a \in Amounts \cup {0} : CreateContract(s, c, a)
         \/ UpdateSave(s) \/ AmendSave(s) \/ DeleteSave(s) \/ LinkFile(s)
  PROVE  \E c \in Contracts : \E r \in ContractRows : \E k : Saved(s, c, r, k)
<1> DEFINE d == call[s].con
<1>1. ASSUME NEW c \in Contracts, NEW a \in Amounts \cup {0}, CreateContract(s, c, a)
      PROVE  \E r \in ContractRows : \E k : Saved(s, c, r, k)
  <2> DEFINE n == [NoRow EXCEPT !.status = "ACTIVE"]
             r == Priced(n, a)
  <2>1. a \in Nat BY BudgetAssumption
  <2>2. n \in ContractRows /\ n.status # "NONE" /\ n.amendment = 0 /\ n.file = Null
    BY CreatedType DEF NoRow
  <2>3. row' = [row EXCEPT ![c] = r] /\ ThenAudit(s, c, "CREATE")
    BY <1>1 DEF CreateContract
  <2> HIDE DEF n
  <2>4. r \in ContractRows /\ r.status # "NONE" BY <2>1, <2>2, PricedType
  <2>5. r.amendment = 0 /\ r.total = r.amount /\ r.file = Null BY <2>2, PricedFields
  <2> HIDE DEF r
  <2>6. PICK k : Auditing(s, c, r, k)
    BY <2>3, <2>4, Audited DEF AuditOps
  <2>7. Saved(s, c, r, k) BY <1>1, <2>3, <2>4, <2>5, <2>6 DEF Saved, CreateContract
  <2> QED BY <2>4, <2>7
<1>2. d \in Contracts => row[d] \in ContractRows BY DEF ContractsTypeOK
<1>3. CASE UpdateSave(s)
  <2> DEFINE a == call[s].amount
             r == IF a = Null THEN row[d] ELSE Patched(d, s)
  <2>1. d \in Contracts /\ row[d].status # "NONE" /\ a \in Nat \cup {Null} /\ call[s].pc = "update"
    BY <1>3 DEF UpdateSave, At, ContractsTypeOK, ContractCalls
  <2>2. r \in ContractRows /\ r.status # "NONE" BY <1>2, <2>1, PricedType DEF Patched
  <2>3. \/ r = row[d]
        \/ a # Null /\ r.amendment = row[d].amendment /\ r.total = r.amount /\ r.file = row[d].file
    BY <1>2, <2>1, PricedFields DEF Patched
  <2>4. row' = [row EXCEPT ![d] = r] BY <1>3, <2>1 DEF UpdateSave, ContractsTypeOK
  <2>5. ThenAudit(s, d, "UPDATE") /\ UNCHANGED <<ledger, bucket, newest>>
    BY <1>3 DEF UpdateSave
  <2> HIDE DEF r
  <2>6. Written(call[s], row[d], r) BY <2>1, <2>3 DEF Written
  <2> HIDE DEF d
  <2>7. d = call[s].con BY DEF d
  <2>8. PICK k : Auditing(s, d, r, k)
    BY <2>1, <2>2, <2>4, <2>5, Audited DEF AuditOps
  <2>10. Saved(s, d, r, k) BY <2>1, <2>2, <2>4, <2>5, <2>6, <2>7, <2>8 DEF Saved
  <2> QED BY <2>1, <2>2, <2>10
<1>4. CASE AmendSave(s)
  <2> DEFINE a == call[s].amount
             b == call[s].read.amount
             r == Amended(row[d], b, a)
  <2>1. /\ d \in Contracts /\ row[d].status # "NONE" /\ a \in Nat /\ call[s].pc = "amend"
        /\ call[s].read \in ContractRows
    BY <1>4 DEF AmendSave, At, ContractsTypeOK, ContractCalls
  <2>2. b \in Nat BY <2>1 DEF ContractRows
  <2>3. r \in ContractRows /\ r.status # "NONE" BY <1>2, <2>1, <2>2, AmendedType
  <2>4. r.amount = row[d].amount /\ r.amendment = a /\ r.file = row[d].file /\ r.total = b + a
    BY <1>2, <2>1, AmendedFields
  <2>5. row' = [row EXCEPT ![d] = r] BY <1>4, <2>1 DEF AmendSave, ContractsTypeOK
  <2>6. ThenAudit(s, d, "UPDATE") /\ UNCHANGED <<ledger, bucket, newest>>
    BY <1>4 DEF AmendSave
  <2> HIDE DEF r
  <2>7. Written(call[s], row[d], r) BY <2>1, <2>4 DEF Written
  <2> HIDE DEF d
  <2>8. d = call[s].con BY DEF d
  <2>9. PICK k : Auditing(s, d, r, k)
    BY <2>1, <2>3, <2>5, <2>6, Audited DEF AuditOps
  <2>10. Saved(s, d, r, k) BY <2>1, <2>3, <2>5, <2>6, <2>7, <2>8, <2>9 DEF Saved
  <2> QED BY <2>1, <2>3, <2>10
<1>5. CASE DeleteSave(s) \/ LinkFile(s)
  <2> DEFINE r == IF DeleteSave(s) THEN [row[d] EXCEPT !.status = "DELETED"]
                  ELSE [row[d] EXCEPT !.file = call[s].file]
             op == IF DeleteSave(s) THEN "DELETE" ELSE "UPDATE"
  <2>1. /\ d \in Contracts /\ row[d].status # "NONE" /\ call[s].file \in Files \cup {Null}
        /\ call[s].pc = IF DeleteSave(s) THEN "delete" ELSE "link"
    BY <1>5 DEF DeleteSave, LinkFile, At, ContractsTypeOK, ContractCalls
  <2>2. r \in ContractRows /\ r.status # "NONE" BY <1>2, <2>1 DEF ContractRows
  <2>3. /\ r.amount = row[d].amount /\ r.amendment = row[d].amendment /\ r.total = row[d].total
        /\ r.file = IF DeleteSave(s) THEN row[d].file ELSE call[s].file
    BY <1>2, <2>1 DEF ContractRows
  <2>4. row' = [row EXCEPT ![d] = r] BY <1>5, <2>1 DEF DeleteSave, LinkFile, ContractsTypeOK
  <2>5. ThenAudit(s, d, op) /\ op \in AuditOps /\ UNCHANGED <<ledger, bucket, newest>>
    BY <1>5 DEF DeleteSave, LinkFile, AuditOps
  <2> HIDE DEF r, op
  <2>6. Written(call[s], row[d], r) BY <2>1, <2>3 DEF Written
  <2> HIDE DEF d
  <2>7. d = call[s].con BY DEF d
  <2>8. PICK k : Auditing(s, d, r, k)
    BY <2>1, <2>2, <2>4, <2>5, Audited DEF AuditOps
  <2>10. Saved(s, d, r, k) BY <2>1, <2>2, <2>4, <2>5, <2>6, <2>7, <2>8 DEF Saved
  <2> QED BY <2>1, <2>2, <2>10
<1> QED BY <1>1, <1>3, <1>4, <1>5

(* The steps of a call in between touch no row.                            *)
Between(s) == UploadToBucket(s) \/ RemoveOld(s) \/ LinkFails(s) \/ Audit(s) \/ Fault(s)

(* Every step is of one of five kinds.                                     *)
LEMMA StepKinds ==
  ASSUME ContractsTypeOK, [ContractsNext]_contractVars
  PROVE  \/ \E s \in Sessions : \E k : Begun(s, k)
         \/ \E s \in Sessions : \E c \in Contracts : \E r \in ContractRows : \E k : Saved(s, c, r, k)
         \/ \E s \in Sessions : Between(s)
         \/ \E s \in Sessions : BudgetCall(s)
         \/ UNCHANGED contractVars
<1>1. ASSUME NEW s \in Sessions, Checks(s)
      PROVE  \/ \E k : Begun(s, k)
             \/ \E c \in Contracts : \E r \in ContractRows : \E k : Saved(s, c, r, k)
  BY <1>1, NewCalls, SavedRows DEF Checks
<1>2. ASSUME NEW s \in Sessions, Saves(s)
      PROVE  \/ \E c \in Contracts : \E r \in ContractRows : \E k : Saved(s, c, r, k)
             \/ Between(s)
  BY <1>2, SavedRows DEF Saves, Between
<1> QED BY <1>1, <1>2 DEF ContractsNext, Between

(* A save touches the row of no other call.                                *)
LEMMA OthersKeep ==
  ASSUME ContractsTypeOK, Apart, NEW s \in Sessions, NEW c \in Contracts,
         NEW r \in ContractRows, NEW k, Saved(s, c, r, k)
  PROVE  /\ row'[c] = r /\ \A d \in Contracts : d # c => row'[d] = row[d]
         /\ call'[s] = k
         /\ \A t \in Sessions : t # s =>
              /\ call'[t] = call[t]
              /\ call[t].pc # "idle" => call[t].con # c /\ row'[call[t].con] = row[call[t].con]
<1>1. /\ row' = [row EXCEPT ![c] = r] /\ call' = [call EXCEPT ![s] = k]
      /\ row[c] = NoRow \/ call[s].con = c
  BY DEF Saved, Auditing
<1>2. /\ row'[c] = r /\ \A d \in Contracts : d # c => row'[d] = row[d]
      /\ call'[s] = k /\ \A t \in Sessions : t # s => call'[t] = call[t]
  BY <1>1 DEF ContractsTypeOK
<1>3. ASSUME NEW t \in Sessions, t # s, call[t].pc # "idle" PROVE call[t].con # c
  <2>1. call[t].con \in Contracts /\ row[call[t].con].status # "NONE"
    BY <1>3 DEF ContractsTypeOK
  <2>2. call[s].con = c => call[t].con # c BY <1>3, BudgetAssumption DEF Apart
  <2>3. row[c] = NoRow => call[t].con # c BY <2>1, BlankTypes
  <2> QED BY <1>1, <2>2, <2>3
<1>4. \A t \in Sessions : call[t].pc # "idle" => call[t].con \in Contracts
  BY DEF ContractsTypeOK
<1> QED BY <1>2, <1>3, <1>4

(* TotalExplained: a save writes a total that its check could explain.     *)
TotalCall(k) ==
  /\ k.pc = "update" /\ k.amount # Null => row[k.con].amendment = 0
  /\ k.pc = "amend" => row[k.con].amendment = 0 /\ k.read.amount = row[k.con].amount

TotalInv == TotalExplained /\ \A s \in Sessions : TotalCall(call[s])

(* No save breaks the sum, and no other call loses what its check has seen.*)
LEMMA TotalStep ==
  ASSUME ContractsTypeOK, Apart, TotalInv, [ContractsNext]_contractVars PROVE TotalInv'
<1>1. ASSUME NEW s \in Sessions, NEW k, Begun(s, k) PROVE TotalInv'
  <2>1. call' = [call EXCEPT ![s] = k] /\ row' = row /\ TotalCall(k) BY <1>1 DEF Begun, TotalCall
  <2> QED BY <2>1 DEF TotalInv, TotalExplained, TotalCall, ContractsTypeOK
<1>2. ASSUME NEW s \in Sessions, NEW c \in Contracts, NEW r \in ContractRows, NEW k,
             Saved(s, c, r, k)
      PROVE  TotalInv'
  <2>1. r.total = r.amount + r.amendment
    <3>1. /\ row[c].total = row[c].amount + row[c].amendment
          /\ row[c].amount \in Nat /\ row[c].amendment \in Nat /\ r.amount \in Nat
      BY DEF TotalInv, TotalExplained, ContractsTypeOK, ContractRows
    <3>2. CASE row[c] = NoRow /\ r.amendment = 0 /\ r.total = r.amount BY <3>1, <3>2
    <3>3. CASE call[s].con = c /\ Written(call[s], row[c], r)
      <4>1. TotalCall(call[s]) BY DEF TotalInv
      <4> QED BY <3>1, <3>3, <4>1 DEF Written, TotalCall
    <3> QED BY <1>2, <3>2, <3>3 DEF Saved
  <2>2. k.pc = "audit" BY <1>2 DEF Saved, Auditing
  <2>3. TotalExplained' BY <1>2, <2>1, OthersKeep DEF TotalInv, TotalExplained
  <2>4. ASSUME NEW t \in Sessions PROVE TotalCall(call[t])'
    <3>1. CASE t = s BY <1>2, <2>2, <3>1, OthersKeep DEF TotalCall
    <3>2. CASE t # s
      <4>1. call'[t] = call[t] /\ (call[t].pc # "idle" => row'[call[t].con] = row[call[t].con])
        BY <1>2, <3>2, OthersKeep
      <4> QED BY <4>1 DEF TotalInv, TotalCall
    <3> QED BY <3>1, <3>2
  <2> QED BY <2>3, <2>4 DEF TotalInv
<1>3. ASSUME NEW s \in Sessions, Between(s) PROVE TotalInv'
  <2>1. row' = row BY <1>3 DEF Between, UploadToBucket, RemoveOld, LinkFails, Audit, Fault
  <2>2. \A t \in Sessions : call'[t] = call[t] \/ call'[t].pc \notin {"update", "amend"}
    <3>1. CASE LinkFails(s) \/ Audit(s) \/ Fault(s)
      BY <3>1, BlankTypes DEF LinkFails, Audit, Fault, Return, ContractsTypeOK
    <3>2. CASE UploadToBucket(s) \/ RemoveOld(s)
      BY <3>2 DEF UploadToBucket, RemoveOld, ContractsTypeOK, ContractCalls
    <3> QED BY <1>3, <3>1, <3>2 DEF Between
  <2> QED BY <2>1, <2>2 DEF TotalInv, TotalExplained, TotalCall
<1>4. ASSUME NEW s \in Sessions, BudgetCall(s) PROVE TotalInv'
  BY <1>4 DEF BudgetCall, TotalInv, TotalExplained, TotalCall
<1>5. CASE UNCHANGED contractVars BY <1>5 DEF contractVars, TotalInv, TotalExplained, TotalCall
<1> QED BY <1>1, <1>2, <1>3, <1>4, <1>5, StepKinds

(* Through patches, amendments and failures of any number of calls, as long*)
(* as those on one contract do not overlap, every total is the sum of its  *)
(* parts.                                                                  *)
THEOREM TotalsStayExplained == ContractsSpec /\ []Apart => []TotalExplained
<1>1. ContractsInit => TotalInv
  BY DEF ContractsInit, TotalInv, TotalExplained, TotalCall, NoRow, Idle
<1>2. ContractsTypeOK /\ Apart /\ TotalInv /\ [ContractsNext]_contractVars => TotalInv'
  BY TotalStep
<1>3. TotalInv => TotalExplained BY DEF TotalInv
<1> QED BY <1>1, <1>2, <1>3, ContractsTypeCorrect, PTL DEF ContractsSpec

-----------------------------------------------------------------------------
(* The balance a pending amendment has read is still the balance when it is *)
(* saved, unless a budget transaction of a request moves it in between.    *)
(* BudgetKeepsOff: no such transaction touches the contract meanwhile.     *)
BudgetKeepsOff ==
  \A s, t \in Sessions :
    BudgetCall(s) /\ At(t, "amend") => remaining'[call[t].con] = remaining[call[t].con]

HeldInv == \A s \in Sessions : At(s, "amend") => call[s].had = remaining[call[s].con]

(* Nobody else moves the balance of a contract with a pending amendment.   *)
LEMMA BalanceKept ==
  ASSUME ContractsTypeOK, Apart, [ContractsNext]_contractVars, [BudgetKeepsOff]_remaining,
         NEW t \in Sessions, At(t, "amend"), call'[t] = call[t]
  PROVE  remaining'[call[t].con] = remaining[call[t].con]
<1> DEFINE d == call[t].con
<1>0. /\ d \in Contracts /\ d # Null /\ row[d] # NoRow /\ DOMAIN remaining = Contracts
      /\ call[t].pc = "amend" /\ DOMAIN call = Sessions
  BY BlankTypes, BudgetAssumption DEF At, ContractsTypeOK, TypeOK
<1>1. ASSUME NEW s \in Sessions, NEW c \in Contracts, NEW a, CreateContract(s, c, a)
      PROVE  remaining'[d] = remaining[d]
  <2>1. c # d /\ remaining' = [remaining EXCEPT ![c] = a] BY <1>0, <1>1 DEF CreateContract
  <2> QED BY <1>0, <2>1
<1>2. ASSUME NEW s \in Sessions, UpdateSave(s) \/ AmendSave(s) PROVE remaining'[d] = remaining[d]
  <2>1. s # t
    <3>1. call'[s].pc = "audit" BY <1>0, <1>2 DEF UpdateSave, AmendSave, ThenAudit, Idle
    <3> QED BY <1>0, <3>1
  <2>2. call[s].con # d BY <1>0, <2>1 DEF Apart
  <2>3. remaining' = remaining \/ \E x : remaining' = [remaining EXCEPT ![call[s].con] = x]
    BY <1>2 DEF UpdateSave, AmendSave
  <2> QED BY <1>0, <2>2, <2>3
<1>3. ASSUME NEW s \in Sessions, BudgetCall(s) PROVE remaining'[d] = remaining[d]
  BY <1>0, <1>3 DEF BudgetKeepsOff, At
<1>4. ASSUME remaining' = remaining PROVE remaining'[d] = remaining[d] BY <1>4
<1>5. ASSUME NEW s \in Sessions, Checks(s) PROVE remaining'[d] = remaining[d]
  BY <1>1, <1>4, <1>5 DEF Checks, UpdateCheck, AmendCheck, DeleteCheck, UploadCheck
<1>6. ASSUME NEW s \in Sessions, Saves(s) PROVE remaining'[d] = remaining[d]
  BY <1>2, <1>4, <1>6 DEF Saves, DeleteSave, UploadToBucket, RemoveOld, LinkFile, LinkFails, Audit
<1>7. ASSUME NEW s \in Sessions, Fault(s) PROVE remaining'[d] = remaining[d]
  BY <1>4, <1>7 DEF Fault
<1>8. CASE UNCHANGED contractVars BY <1>4, <1>8 DEF contractVars
<1> QED BY <1>3, <1>5, <1>6, <1>7, <1>8 DEF ContractsNext

(* No step changes the balance under a pending amendment.                  *)
LEMMA HeldStep ==
  ASSUME ContractsTypeOK, Apart, HeldInv, [ContractsNext]_contractVars, [BudgetKeepsOff]_remaining
  PROVE  HeldInv'
<1>1. ASSUME NEW s \in Sessions, NEW k, Begun(s, k) PROVE HeldInv'
  BY <1>1 DEF Begun, HeldInv, At, ContractsTypeOK
<1>2. ASSUME \A t \in Sessions : call'[t] = call[t] \/ call'[t].pc # "amend" PROVE HeldInv'
  BY <1>2, BalanceKept DEF HeldInv, At
<1>3. ASSUME NEW s \in Sessions, NEW c \in Contracts, NEW r \in ContractRows, NEW k,
             Saved(s, c, r, k)
      PROVE  \A t \in Sessions : call'[t] = call[t] \/ call'[t].pc # "amend"
  BY <1>3 DEF Saved, Auditing, ContractsTypeOK
<1>4. ASSUME NEW s \in Sessions, Between(s)
      PROVE  \A t \in Sessions : call'[t] = call[t] \/ call'[t].pc # "amend"
  <2>1. CASE LinkFails(s) \/ Audit(s) \/ Fault(s)
    BY <2>1, BlankTypes DEF LinkFails, Audit, Fault, Return, ContractsTypeOK
  <2>2. CASE UploadToBucket(s) \/ RemoveOld(s)
    BY <2>2 DEF UploadToBucket, RemoveOld, ContractsTypeOK, ContractCalls
  <2> QED BY <1>4, <2>1, <2>2 DEF Between
<1>5. ASSUME NEW s \in Sessions, BudgetCall(s) PROVE call' = call BY <1>5 DEF BudgetCall
<1>6. CASE UNCHANGED contractVars BY <1>6 DEF contractVars, HeldInv, At
<1> QED BY <1>1, <1>2, <1>3, <1>4, <1>5, <1>6, StepKinds

(* The amendment column changes in AmendSave alone.                        *)
LEMMA AmendmentWrites ==
  ASSUME ContractsTypeOK, [ContractsNext]_contractVars, NEW c \in Contracts,
         row'[c].amendment # row[c].amendment
  PROVE  \E s \in Sessions : AmendSave(s) /\ call[s].con = c
<1>1. ASSUME NEW s \in Sessions, NEW d \in Contracts, NEW r \in ContractRows, NEW k,
             Saved(s, d, r, k)
      PROVE  call[s].pc = "amend" /\ call[s].con = c
  <2>1. row'[d] = r /\ (c # d => row'[c] = row[c]) BY <1>1 DEF Saved, ContractsTypeOK
  <2>2. c = d /\ r.amendment # row[d].amendment BY <2>1
  <2>3. NoRow.amendment = 0 BY DEF NoRow
  <2> QED BY <1>1, <2>2, <2>3 DEF Saved, Written
<1>2. ASSUME row' = row PROVE FALSE BY <1>2
<1>3. PICK s \in Sessions : Checks(s) \/ Saves(s)
  BY <1>2 DEF ContractsNext, Fault, BudgetCall, contractVars
<1>4. ASSUME NEW d \in Contracts, NEW a \in Amounts \cup {0}, CreateContract(s, d, a) PROVE FALSE
  <2>1. call[s].pc = "amend" BY <1>1, <1>4, SavedRows
  <2> QED BY <1>4, <2>1, BlankTypes DEF CreateContract
<1>5. CASE Checks(s)
  <2>1. \A k : Begun(s, k) => row' = row BY DEF Begun
  <2> QED BY <1>2, <1>4, <1>5, <2>1, NewCalls DEF Checks
<1>6. CASE UpdateSave(s) \/ DeleteSave(s) \/ LinkFile(s)
  <2>1. call[s].pc = "amend" BY <1>1, <1>6, SavedRows
  <2> QED BY <1>6, <2>1 DEF UpdateSave, DeleteSave, LinkFile, At
<1>7. CASE AmendSave(s)
  <2>1. call[s].con = c BY <1>1, <1>7, SavedRows
  <2> QED BY <1>7, <2>1
<1>8. CASE UploadToBucket(s) \/ RemoveOld(s) \/ LinkFails(s) \/ Audit(s)
  BY <1>2, <1>8 DEF UploadToBucket, RemoveOld, LinkFails, Audit
<1> QED BY <1>3, <1>5, <1>6, <1>7, <1>8 DEF Saves

(* An amendment raises the balance by as much as the total.                *)
LEMMA HeldKept ==
  ASSUME ContractsTypeOK, TotalInv, HeldInv, NEW s \in Sessions, AmendSave(s),
         NEW c \in Contracts, call[s].con = c
  PROVE  row'[c].total - remaining'[c] = row[c].total - remaining[c]
<1> DEFINE a == call[s].amount
           b == call[s].read.amount
<1>1. /\ row[c] \in ContractRows /\ remaining[c] \in Int /\ a \in Nat
      /\ call[s].read \in ContractRows
  BY DEF AmendSave, At, ContractsTypeOK, ContractCalls, TypeOK
<1>2. row[c].total = row[c].amount + row[c].amendment BY DEF TotalInv, TotalExplained
<1>3. row[c].amendment = 0 /\ b = row[c].amount
  BY DEF AmendSave, At, TotalInv, TotalCall
<1>4. row[c].amount \in Nat /\ row[c].total = b BY <1>1, <1>2, <1>3 DEF ContractRows
<1>5. row'[c] = Amended(row[c], b, a) BY DEF AmendSave, ContractsTypeOK
<1>6. row'[c].total = b + a BY <1>1, <1>5, AmendedFields
<1>7. remaining'[c] = remaining[c] + a
  BY DEF AmendSave, AmendedRemaining, HeldInv, At, ContractsTypeOK, TypeOK
<1> QED BY <1>1, <1>3, <1>4, <1>6, <1>7

(* What requests have taken out of a contract stays taken out when it is   *)
(* amended, as long as calls on one contract do not overlap and requests   *)
(* take nothing out of it between the check and the save of the amendment. *)
THEOREM AmendmentsKeepHeld ==
  ContractsSpec /\ []Apart /\ [][BudgetKeepsOff]_remaining => AmendmentKeepsHeld
<1>1. ContractsInit => TotalInv /\ HeldInv
  BY DEF ContractsInit, TotalInv, TotalExplained, TotalCall, HeldInv, At, NoRow, Idle
<1>2. ContractsTypeOK /\ Apart /\ TotalInv /\ HeldInv /\
        [ContractsNext]_contractVars /\ [BudgetKeepsOff]_remaining => TotalInv' /\ HeldInv'
  BY TotalStep, HeldStep
<1>3. ContractsTypeOK /\ TotalInv /\ HeldInv /\ [ContractsNext]_contractVars =>
        [\A c \in Contracts : row'[c].amendment # row[c].amendment =>
           row'[c].total - remaining'[c] = row[c].total - remaining[c]]_<<row, remaining>>
  BY AmendmentWrites, HeldKept
<1> QED BY <1>1, <1>2, <1>3, ContractsTypeCorrect, PTL DEF ContractsSpec, AmendmentKeepsHeld
-----------------------------------------------------------------------------
(* Calls on one contract that do not overlap and do not fail.              *)
(* A step of a call on another contract does not make this one quiet.      *)
LEMMA QuietKept ==
  ASSUME ContractsTypeOK, NEW s \in Sessions, NEW k, call' = [call EXCEPT ![s] = k],
         NEW d \in Contracts, call[s].con # d, Quiet(d)'
  PROVE  Quiet(d)
<1>1. \A t \in Sessions : t # s => call'[t] = call[t] BY DEF ContractsTypeOK
<1> QED BY <1>1 DEF Quiet

(* HistoryCurrent: the record a call is about to write shows the row.      *)
HistoryInv ==
  /\ HistoryCurrent
  /\ \A s \in Sessions : At(s, "audit") => call[s].read = Snapshot(row[call[s].con])

(* Every call that writes a row writes its record before it ends.          *)
LEMMA HistoryStep ==
  ASSUME ~Faults, ContractsTypeOK, Apart, HistoryInv, [ContractsNext]_contractVars
  PROVE  HistoryInv'
<1> USE BudgetAssumption
<1>0. \A c \in Contracts : Quiet(c) => newest[c].snapshot = Snapshot(row[c])
  BY DEF HistoryInv, HistoryCurrent, Snapshot
<1>a. ASSUME \A c \in Contracts : Quiet(c)' => newest'[c].snapshot = Snapshot(row'[c]),
             \A s \in Sessions : call'[s].pc = "audit" => call'[s].read = Snapshot(row'[call'[s].con])
      PROVE  HistoryInv'
  BY <1>a DEF HistoryInv, HistoryCurrent, Snapshot, At
<1>1. ASSUME NEW s \in Sessions, NEW k, Begun(s, k) PROVE HistoryInv'
  <2>1. /\ call' = [call EXCEPT ![s] = k] /\ k.con \in Contracts /\ k.pc # "audit"
        /\ call[s].con = Null /\ row' = row /\ newest' = newest
    BY <1>1 DEF Begun, Idle
  <2>2. ASSUME NEW c \in Contracts, Quiet(c)' PROVE newest'[c].snapshot = Snapshot(row'[c])
    BY <1>0, <2>1, <2>2, QuietKept
  <2>3. \A t \in Sessions : call'[t] = call[t] \/ call'[t].pc # "audit"
    BY <2>1 DEF ContractsTypeOK
  <2> QED BY <1>a, <2>1, <2>2, <2>3 DEF HistoryInv, At
<1>2. ASSUME NEW s \in Sessions, NEW c \in Contracts, NEW r \in ContractRows, NEW k,
             Saved(s, c, r, k)
      PROVE  HistoryInv'
  <2>1. /\ call' = [call EXCEPT ![s] = k] /\ k.con = c /\ k.read = Snapshot(r)
        /\ call[s].con \in {Null, c} /\ newest' = newest
    BY <1>2 DEF Saved, Auditing, Idle
  <2>2. ASSUME NEW d \in Contracts, Quiet(d)' PROVE newest'[d].snapshot = Snapshot(row'[d])
    <3>1. d # c BY <2>1, <2>2 DEF Quiet, ContractsTypeOK
    <3>2. Quiet(d) BY <2>1, <2>2, <3>1, QuietKept
    <3>3. row'[d] = row[d] BY <1>2, <3>1, OthersKeep
    <3> QED BY <1>0, <2>1, <3>2, <3>3
  <2>3. ASSUME NEW t \in Sessions, call'[t].pc = "audit"
        PROVE  call'[t].read = Snapshot(row'[call'[t].con])
    <3>1. CASE t = s BY <1>2, <2>1, <3>1, OthersKeep
    <3>2. CASE t # s
      <4>1. call'[t] = call[t] BY <1>2, <3>2, OthersKeep
      <4>2. call[t].pc = "audit" BY <2>3, <4>1
      <4>3. row'[call[t].con] = row[call[t].con] BY <1>2, <3>2, <4>2, OthersKeep
      <4> QED BY <4>1, <4>2, <4>3 DEF HistoryInv, At
    <3> QED BY <3>1, <3>2
  <2> QED BY <1>a, <2>2, <2>3
<1>3. ASSUME NEW s \in Sessions, UploadToBucket(s) \/ RemoveOld(s) PROVE HistoryInv'
  <2>1. /\ row' = row /\ newest' = newest
        /\ \A t \in Sessions : call'[t].con = call[t].con
        /\ \A t \in Sessions : call'[t] = call[t] \/ call'[t].pc # "audit"
    BY <1>3 DEF UploadToBucket, RemoveOld, ContractsTypeOK, ContractCalls
  <2>2. \A c \in Contracts : Quiet(c)' => Quiet(c) BY <2>1 DEF Quiet
  <2> QED BY <1>0, <1>a, <2>1, <2>2 DEF HistoryInv, At
<1>4. ASSUME NEW s \in Sessions, Audit(s) PROVE HistoryInv'
  <2> DEFINE c == call[s].con
  <2>1. /\ c \in Contracts /\ call[s].read = Snapshot(row[c]) /\ row' = row
        /\ call' = [call EXCEPT ![s] = Idle]
    BY <1>4 DEF Audit, At, Return, HistoryInv, ContractsTypeOK
  <2>2. /\ newest'[c].snapshot = call[s].read
        /\ \A d \in Contracts : d # c => newest'[d] = newest[d]
    BY <1>4, <2>1 DEF Audit, ContractsTypeOK
  <2>3. \A t \in Sessions : call'[t] = call[t] \/ call'[t].pc # "audit"
    BY <2>1, BlankTypes DEF ContractsTypeOK
  <2>4. ASSUME NEW d \in Contracts, Quiet(d)' PROVE newest'[d].snapshot = Snapshot(row'[d])
    <3>1. CASE d = c BY <2>1, <2>2, <3>1
    <3>2. CASE d # c
      <4>1. Quiet(d) BY <2>1, <2>4, <3>2, QuietKept
      <4> QED BY <1>0, <2>1, <2>2, <3>2, <4>1
    <3> QED BY <3>1, <3>2
  <2> QED BY <1>a, <2>1, <2>3, <2>4 DEF HistoryInv, At
<1>5. ASSUME NEW s \in Sessions, BudgetCall(s) PROVE HistoryInv'
  <2>1. row' = row /\ newest' = newest /\ call' = call BY <1>5 DEF BudgetCall
  <2> QED BY <1>0, <1>a, <2>1 DEF Quiet, HistoryInv, At
<1>6. CASE UNCHANGED contractVars
  <2>1. row' = row /\ newest' = newest /\ call' = call BY <1>6 DEF contractVars
  <2> QED BY <1>0, <1>a, <2>1 DEF Quiet, HistoryInv, At
<1> QED BY <1>1, <1>2, <1>3, <1>4, <1>5, <1>6, StepKinds DEF Between, LinkFails, Fault

(* Where no statement fails and calls on one contract do not overlap, its  *)
(* newest record shows the row as it is.                                   *)
THEOREM HistoryStaysCurrent ==
  ASSUME ~Faults PROVE ContractsSpec /\ []Apart => []HistoryCurrent
<1>1. ContractsInit => HistoryInv
  BY DEF ContractsInit, HistoryInv, HistoryCurrent, At, NoRow, NoRecord, Idle
<1>2. ContractsTypeOK /\ Apart /\ HistoryInv /\ [ContractsNext]_contractVars => HistoryInv'
  BY HistoryStep
<1>3. HistoryInv => HistoryCurrent BY DEF HistoryInv
<1> QED BY <1>1, <1>2, <1>3, ContractsTypeCorrect, PTL DEF ContractsSpec
-----------------------------------------------------------------------------
(* FilePresent: the objects of a contract at each point of an upload.      *)
Objects(c) == {f \in Files : <<c, f>> \in bucket}
Named(f) == {f} \ {Null}

FileCall(k) ==
  LET c == k.con IN
  /\ k.pc = "idle" => c = Null
  /\ k.pc \in {"update", "amend", "delete", "upload", "audit"} => Objects(c) = Named(row[c].file)
  /\ k.pc = "upload" => k.read.file = row[c].file
  /\ k.pc = "replace" => /\ k.read.file # k.file /\ k.read.file # Null
                         /\ Objects(c) = {k.read.file, k.file}
  /\ k.pc = "link" => Objects(c) = {k.file}

FileInv == FilePresent /\ \A s \in Sessions : FileCall(call[s])

(* Changes that touch the objects and the row of contract c alone, by the  *)
(* one call on c.                                                          *)
LEMMA FilesKept ==
  ASSUME ContractsTypeOK, Apart, FileInv, NEW s \in Sessions, NEW c \in Contracts, NEW k,
         call' = [call EXCEPT ![s] = k], k.con \in {Null, c},
         \/ call[s].con = c
         \/ call[s] = Idle /\ \A t \in Sessions : call[t].pc # "idle" => call[t].con # c,
         \A d \in Contracts : d # c => Objects(d)' = Objects(d) /\ row'[d] = row[d],
         Quiet(c)' => Objects(c)' = Named(row'[c].file),
         FileCall(k)'
  PROVE  FileInv'
<1> USE BudgetAssumption
<1>1. /\ call'[s] = k /\ \A t \in Sessions : t # s => call'[t] = call[t]
      /\ \A t \in Sessions : call[t].pc # "idle" => call[t].con \in Contracts
  BY DEF ContractsTypeOK
<1>2. \A t \in Sessions : t # s /\ call[t].pc # "idle" => call[t].con # c BY DEF Apart
<1>3. ASSUME NEW d \in Contracts, Quiet(d)' PROVE Objects(d)' = Named(row'[d].file)
  <2>1. CASE d # c
    <3>1. call[s].con # d BY <2>1 DEF Idle
    <3>2. Quiet(d) BY <1>3, <3>1, QuietKept
    <3> QED BY <2>1, <3>2 DEF FileInv, FilePresent, Objects, Named
  <2> QED BY <1>3, <2>1
<1>4. ASSUME NEW t \in Sessions PROVE FileCall(call[t])'
  <2>1. CASE t = s BY <1>1, <2>1 DEF FileCall
  <2>2. CASE t # s
    <3>1. FileCall(call[t]) BY DEF FileInv
    <3>2. call[t].pc # "idle" =>
            row'[call[t].con] = row[call[t].con] /\ Objects(call[t].con)' = Objects(call[t].con)
      BY <1>1, <1>2, <2>2
    <3>3. call'[t] = call[t] BY <1>1, <2>2
    <3> QED BY <3>1, <3>2, <3>3 DEF FileCall
  <2> QED BY <2>1, <2>2
<1> QED BY <1>3, <1>4 DEF FileInv, FilePresent, Objects, Named

(* Every step of an upload leaves the objects its next step expects.       *)
LEMMA FileStep ==
  ASSUME ~Faults, ContractsTypeOK, Apart, Apart', FileInv, [ContractsNext]_contractVars
  PROVE  FileInv'
<1> USE BudgetAssumption, ContractsAssumption
<1>0. \A c \in Contracts : Quiet(c) => Objects(c) = Named(row[c].file)
  BY DEF FileInv, FilePresent, Objects, Named
<1>1. ASSUME NEW s \in Sessions, NEW k, Begun(s, k) PROVE FileInv'
  <2> DEFINE c == k.con
  <2>1. /\ call' = [call EXCEPT ![s] = k] /\ c \in Contracts /\ k.read = row[c]
        /\ k.pc \in {"update", "amend", "delete", "upload"}
        /\ call[s].con = Null /\ row' = row /\ bucket' = bucket
    BY <1>1 DEF Begun, Idle
  <2>2. call'[s] = k /\ \A t \in Sessions : t # s => call'[t] = call[t]
    BY <2>1 DEF ContractsTypeOK
  <2>3. Quiet(c) BY <2>1, <2>2 DEF Quiet, Apart
  <2>4. FileCall(k)' BY <1>0, <2>1, <2>3 DEF FileCall, Objects
  <2>5. ASSUME NEW d \in Contracts, Quiet(d)' PROVE Quiet(d) BY <2>1, <2>5, QuietKept
  <2>6. FilePresent' BY <2>1, <2>5 DEF FileInv, FilePresent
  <2>7. ASSUME NEW t \in Sessions, t # s PROVE FileCall(call[t])'
    BY <2>1, <2>2, <2>7 DEF FileInv, FileCall, Objects
  <2> QED BY <2>2, <2>4, <2>6, <2>7 DEF FileInv, FileCall
<1>2. ASSUME NEW s \in Sessions, NEW c \in Contracts, NEW r \in ContractRows, NEW k,
             Saved(s, c, r, k)
      PROVE  FileInv'
  <2>1. /\ call' = [call EXCEPT ![s] = k] /\ k.con = c /\ k.pc = "audit"
        /\ bucket' = bucket
    BY <1>2 DEF Saved, Auditing
  <2>a. row'[c] = r /\ \A d \in Contracts : d # c => row'[d] = row[d] BY <1>2, OthersKeep
  <2>2. \A d \in Contracts : Objects(d)' = Objects(d) BY <2>1 DEF Objects
  <2>3. ~Quiet(c)' BY <2>1 DEF Quiet, ContractsTypeOK
  <2>4. CASE row[c] = NoRow /\ call[s] = Idle /\ r.file = Null
    <3>1. \A t \in Sessions : call[t].pc # "idle" => call[t].con # c
      BY <2>4, BlankTypes DEF ContractsTypeOK
    <3>2. Objects(c) = Named(Null)
      <4>1. \A t \in Sessions : call[t].con # c
        BY <3>1 DEF FileInv, FileCall
      <4> QED BY <1>0, <2>4, <4>1 DEF Quiet, NoRow
    <3>3. FileCall(k)' BY <2>1, <2>a, <2>2, <2>4, <3>2 DEF FileCall
    <3> QED BY <2>1, <2>a, <2>2, <2>3, <2>4, <3>1, <3>3, FilesKept
  <2>5. CASE call[s].con = c /\ Written(call[s], row[c], r)
    <3>1. FileCall(call[s]) /\ (call[s].pc = "link" => call[s].file \in Files)
      BY DEF FileInv, ContractsTypeOK
    <3>2. Objects(c) = Named(r.file) BY <2>5, <3>1 DEF FileCall, Written, Named
    <3>3. FileCall(k)' BY <2>1, <2>a, <2>2, <3>2 DEF FileCall
    <3> QED BY <2>1, <2>a, <2>2, <2>3, <2>5, <3>3, FilesKept
  <2> QED BY <1>2, <2>4, <2>5 DEF Saved
<1>3. ASSUME NEW s \in Sessions, UploadToBucket(s) PROVE FileInv'
  <2>0. PICK c, f, k :
          /\ c = call[s].con /\ f = call[s].file
          /\ k = [call[s] EXCEPT !.pc = IF Replaces(s) THEN "replace" ELSE "link"]
    OBVIOUS
  <2>1. /\ call[s].pc = "upload" /\ c \in Contracts /\ f \in Files
        /\ call[s].read.file = row[c].file /\ Objects(c) = Named(row[c].file)
        /\ row[c].file \in Files \cup {Null}
    BY <1>3, <2>0 DEF UploadToBucket, At, FileInv, FileCall, ContractsTypeOK, ContractRows
  <2>2. /\ call' = [call EXCEPT ![s] = k] /\ row' = row
        /\ bucket' = bucket \cup {<<c, f>>}
    BY <1>3, <2>0 DEF UploadToBucket
  <2>3. /\ k.con = c /\ k.file = f /\ k.read = call[s].read
        /\ k.pc = IF Replaces(s) THEN "replace" ELSE "link"
    BY <2>0 DEF ContractsTypeOK, ContractCalls
  <2>4. Objects(c)' = Objects(c) \cup {f} /\ \A d \in Contracts : d # c => Objects(d)' = Objects(d)
    BY <2>1, <2>2 DEF Objects
  <2>5. FileCall(k)'
    <3>1. CASE Replaces(s)
      <4>1. row[c].file # Null /\ row[c].file # f BY <2>1, <2>0, <3>1 DEF Replaces
      <4>2. Objects(c)' = {row[c].file, f} BY <2>1, <2>4, <4>1 DEF Named
      <4> QED BY <2>1, <2>2, <2>3, <3>1, <4>1, <4>2 DEF FileCall
    <3>2. CASE ~Replaces(s)
      <4>1. row[c].file \in {Null, f} BY <2>1, <2>0, <3>2 DEF Replaces
      <4>2. Objects(c)' = {f} BY <2>1, <2>4, <4>1 DEF Named
      <4> QED BY <2>1, <2>2, <2>3, <3>2, <4>2 DEF FileCall
    <3> QED BY <3>1, <3>2
  <2>6. ~Quiet(c)' BY <2>2, <2>3 DEF Quiet, ContractsTypeOK
  <2> QED BY <2>0, <2>1, <2>2, <2>3, <2>4, <2>5, <2>6, FilesKept
<1>4. ASSUME NEW s \in Sessions, RemoveOld(s) PROVE FileInv'
  <2>0. PICK c, f, k :
          /\ c = call[s].con /\ f = call[s].file /\ k = [call[s] EXCEPT !.pc = "link"]
    OBVIOUS
  <2>1. /\ call[s].pc = "replace" /\ c \in Contracts
        /\ call[s].read.file # f /\ Objects(c) = {call[s].read.file, f}
    BY <1>4, <2>0 DEF RemoveOld, At, FileInv, FileCall, ContractsTypeOK
  <2>2. /\ call' = [call EXCEPT ![s] = k] /\ row' = row
        /\ bucket' = bucket \ {<<c, call[s].read.file>>}
    BY <1>4, <2>0 DEF RemoveOld
  <2>3. k.con = c /\ k.file = f /\ k.pc = "link"
    BY <2>0 DEF ContractsTypeOK, ContractCalls
  <2>4. /\ Objects(c)' = Objects(c) \ {call[s].read.file}
        /\ \A d \in Contracts : d # c => Objects(d)' = Objects(d)
    BY <2>1, <2>2 DEF Objects
  <2>5. Objects(c)' = {f} BY <2>1, <2>4
  <2>6. FileCall(k)' BY <2>1, <2>3, <2>5 DEF FileCall
  <2>7. ~Quiet(c)' BY <2>2, <2>3 DEF Quiet, ContractsTypeOK
  <2> QED BY <2>0, <2>1, <2>2, <2>3, <2>4, <2>6, <2>7, FilesKept
<1>5. ASSUME NEW s \in Sessions, Audit(s) PROVE FileInv'
  <2>0. PICK c : c = call[s].con OBVIOUS
  <2>1. /\ c \in Contracts /\ Objects(c) = Named(row[c].file)
        /\ call' = [call EXCEPT ![s] = Idle] /\ row' = row /\ bucket' = bucket
    BY <1>5, <2>0 DEF Audit, At, Return, FileInv, FileCall, ContractsTypeOK
  <2>2. \A d \in Contracts : Objects(d)' = Objects(d) BY <2>1 DEF Objects
  <2>3. FileCall(Idle)' /\ Idle.con = Null BY DEF FileCall, Idle
  <2> QED BY <2>0, <2>1, <2>2, <2>3, FilesKept
<1>6. ASSUME UNCHANGED <<row, bucket, call>> PROVE FileInv'
  BY <1>6 DEF FileInv, FilePresent, FileCall, Quiet, Objects
<1>7. ASSUME NEW s \in Sessions, BudgetCall(s) PROVE FileInv'
  BY <1>6, <1>7 DEF BudgetCall
<1>8. CASE UNCHANGED contractVars BY <1>6, <1>8 DEF contractVars
<1> QED
  BY <1>1, <1>2, <1>3, <1>4, <1>5, <1>7, <1>8, StepKinds DEF Between, LinkFails, Fault

(* Where no statement fails and calls on one contract do not overlap, the  *)
(* bucket holds exactly the object its row names.                          *)
THEOREM FilesStayPresent ==
  ASSUME ~Faults PROVE ContractsSpec /\ []Apart => []FilePresent
<1>1. ContractsInit => FileInv
  BY DEF ContractsInit, FileInv, FilePresent, FileCall, NoRow, Idle
<1>2. ContractsTypeOK /\ Apart /\ Apart' /\ FileInv /\ [ContractsNext]_contractVars => FileInv'
  BY FileStep
<1>3. FileInv => FilePresent BY DEF FileInv
<1> QED BY <1>1, <1>2, <1>3, ContractsTypeCorrect, PTL DEF ContractsSpec
=============================================================================
