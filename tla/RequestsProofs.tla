--------------------------- MODULE RequestsProofs ---------------------------
(***************************************************************************)
(* Proofs about the request workflow, for any set of requests, employees,  *)
(* contracts and concurrent sessions: its types, the row lock discipline,  *)
(* that it implements the ledger of ContractBudget, and what concurrent    *)
(* calls never do to subrequests and archive requests.  The last sections  *)
(* say for each promise of the handlers which calls must not overlap.      *)
(***************************************************************************)
EXTENDS Requests, SequenceTheorems, FiniteSetTheorems, TLAPS

(* getRequestBudgetSource returns a contract of the directory or none, and *)
(* an amount that is zero or one of the costs.                             *)
LEMMA SourceType ==
  ASSUME TypeOK, NEW m \in Mains
  PROVE  BudgetSource(m) \in Prices
BY RequestsAssumption DEF TypeOK, BudgetSource, Prices, MainRows, NoPrice

(* A session whose record changes to a well-typed one keeps the sessions   *)
(* well typed; if the tables do not change either, everything is.          *)
LEMMA CallTypes ==
  ASSUME TypeOK, NEW s \in Sessions, NEW rec \in Calls,
         call' = [call EXCEPT ![s] = rec],
         rec.pc \in PcsOfMain => rec.req \in Mains,
         rec.pc \in PcsOfChild => rec.req \in Children
  PROVE  /\ call' \in [Sessions -> Calls]
         /\ \A t \in Sessions : /\ call'[t].pc \in PcsOfMain => call'[t].req \in Mains
                                /\ call'[t].pc \in PcsOfChild => call'[t].req \in Children
         /\ UNCHANGED <<main, child, remaining, ledger>> => TypeOK'
BY DEF TypeOK

(* A new call leaves the tables alone and starts with well-typed data.     *)
LEMMA StartTypes ==
  ASSUME TypeOK, NEW s \in Sessions, NEW rec \in Calls, Start(s, rec),
         UNCHANGED <<main, child, remaining, ledger>>,
         rec.pc \in PcsOfMain => rec.req \in Mains,
         rec.pc \in PcsOfChild => rec.req \in Children
  PROVE  TypeOK'
BY CallTypes DEF Start

(* A call that ends leaves an idle session.                                *)
LEMMA ReturnTypes ==
  ASSUME TypeOK, NEW s \in Sessions, Return(s)
  PROVE  /\ call' \in [Sessions -> Calls]
         /\ \A t \in Sessions : /\ call'[t].pc \in PcsOfMain => call'[t].req \in Mains
                                /\ call'[t].pc \in PcsOfChild => call'[t].req \in Children
<1>1. Idle \in Calls
  BY DEF Idle, Calls, Prices, NoPrice
<1>2. Idle.pc \notin PcsOfMain /\ Idle.pc \notin PcsOfChild
  BY DEF Idle, PcsOfMain, PcsOfChild
<1> HIDE DEF Idle
<1> QED BY <1>1, <1>2 DEF TypeOK, Return

(* The handlers' checks start calls with well-typed data.                  *)
LEMMA CheckTypes ==
  ASSUME TypeOK, NEW s \in Sessions, AdminCall(s) \/ HRCall(s)
  PROVE  TypeOK'
<1> USE DEF Calls, Idle, NoPrice, Prices, PcsOfMain, PcsOfChild
<1>1. ASSUME NEW m \in Mains, NEW a \in Admins, SubmitCheck(s, m, a) PROVE TypeOK'
  <2>1. main[m].emps \in SUBSET Emps /\ main[m].dzos \in SUBSET Dzos
    BY DEF TypeOK, MainRows
  <2>2. SplitDzos(m) \in SUBSET Dzos
    BY <2>1, RequestsAssumption DEF SplitDzos
  <2> QED BY <1>1, <2>1, <2>2, StartTypes DEF SubmitCheck
<1>2. ASSUME NEW m \in Mains, NEW ev \in Events, NEW cost \in Costs \cup {0},
             PrepareCheck(s, m, ev, cost)
      PROVE  TypeOK'
  BY <1>2, StartTypes DEF PrepareCheck
<1>3. ASSUME NEW m \in Mains, NEW e \in Emps, RemoveCheck(s, m, e) PROVE TypeOK'
  BY <1>3, StartTypes DEF RemoveCheck
<1>4. ASSUME NEW m \in Mains, SaveDraftCheck(s, m) PROVE TypeOK'
  BY <1>4, StartTypes DEF SaveDraftCheck, Statuses
<1>5. ASSUME NEW m \in Mains, ApproveCheck(s, m) PROVE TypeOK'
  BY <1>5, StartTypes DEF ApproveCheck, Statuses
<1>6. ASSUME NEW m \in Mains, RejectCheck(s, m) PROVE TypeOK'
  BY <1>6, StartTypes DEF RejectCheck, Statuses
<1>7. ASSUME NEW m \in Mains, FinalizeCheck(s, m) PROVE TypeOK'
  BY <1>7, StartTypes DEF FinalizeCheck
<1>8. ASSUME NEW m \in Mains, CancelCheck(s, m) PROVE TypeOK'
  BY <1>8, StartTypes DEF CancelCheck
<1>9. ASSUME NEW r \in Children, NEW E \in SUBSET Emps, EditCheck(s, r, E)
      PROVE  TypeOK'
  BY <1>9, StartTypes DEF EditCheck
<1>10. ASSUME NEW r \in Children, NEW v \in {"APPROVED", "REJECTED"}, DecideCheck(s, r, v)
       PROVE  TypeOK'
  BY <1>10, StartTypes DEF DecideCheck, Statuses
<1> QED BY <1>1, <1>2, <1>3, <1>4, <1>5, <1>6, <1>7, <1>8, <1>9, <1>10
        DEF AdminCall, HRCall

(* A call that only moves on, and records what it has read, keeps the      *)
(* tables; its new record is well typed.                                   *)
LEMMA ReadTypes ==
  ASSUME TypeOK, NEW s \in Sessions, Reads(s)
  PROVE  TypeOK'
<1> USE DEF PcsOfMain, PcsOfChild
<1>0. /\ call[s] \in Calls
      /\ UNCHANGED <<main, child, remaining, ledger>>
  BY DEF TypeOK, Reads, SubmitReserve, SubmitLock, EditDelete, DecideUpdate, PrepareUpdate,
         FinalizeCount, FinalizeReserve, FinalizeLock, FinalizeWriteOff, LockBudget
<1>1. CASE SubmitReserve(s)
  <2> DEFINE p == BudgetSource(call[s].req)
             rec == [call[s] EXCEPT !.price = p, !.pc = IF p.amount = 0 THEN "submit.split"
                                                                       ELSE "submit.lock"]
  <2>1. call[s].req \in Mains BY <1>1 DEF SubmitReserve, At, TypeOK
  <2>2. p \in Prices BY <2>1, SourceType
  <2>3. rec \in Calls /\ rec.req \in Mains /\ rec.pc \in PcsOfMain
    BY <1>0, <2>1, <2>2 DEF Calls
  <2>4. call' = [call EXCEPT ![s] = rec] BY <1>1, <1>0 DEF SubmitReserve
  <2> HIDE DEF rec
  <2> QED BY <2>3, <2>4, <1>0, CallTypes
<1>2. CASE SubmitLock(s)
  <2> DEFINE rec == [call[s] EXCEPT !.pc = "submit.split"]
  <2>1. rec \in Calls /\ rec.req \in Mains /\ rec.pc \in PcsOfMain
    BY <1>0, <1>2 DEF Calls, SubmitLock, LockBudget, At, TypeOK
  <2>2. call' = [call EXCEPT ![s] = rec] BY <1>2 DEF SubmitLock, LockBudget
  <2> QED BY <2>1, <2>2, <1>0, CallTypes
<1>3. CASE FinalizeCount(s)
  <2> DEFINE rec == [call[s] EXCEPT !.pc = "finalize.reserve"]
  <2>1. rec \in Calls /\ rec.req \in Mains /\ rec.pc \in PcsOfMain
    BY <1>0, <1>3 DEF Calls, FinalizeCount, At, TypeOK
  <2>2. call' = [call EXCEPT ![s] = rec] BY <1>3 DEF FinalizeCount
  <2> QED BY <2>1, <2>2, <1>0, CallTypes
<1>4. CASE FinalizeReserve(s)
  <2> DEFINE p == IF Has(call[s].req, "RESERVE") THEN NoPrice ELSE BudgetSource(call[s].req)
             rec == [call[s] EXCEPT !.price = p, !.pc = IF p.amount = 0 THEN "finalize.writeoff"
                                                                       ELSE "finalize.lock"]
  <2>1. call[s].req \in Mains BY <1>4 DEF FinalizeReserve, At, TypeOK
  <2>2. p \in Prices BY <2>1, SourceType DEF NoPrice, Prices
  <2> HIDE DEF p
  <2>3. rec \in Calls /\ rec.req \in Mains /\ rec.pc \in PcsOfMain
    BY <1>0, <2>1, <2>2 DEF Calls
  <2>4. call' = [call EXCEPT ![s] = rec] BY <1>4, <1>0 DEF FinalizeReserve, p
  <2> HIDE DEF rec
  <2> QED BY <2>3, <2>4, <1>0, CallTypes
<1>5. CASE FinalizeLock(s)
  <2> DEFINE rec == [call[s] EXCEPT !.pc = "finalize.writeoff"]
  <2>1. rec \in Calls /\ rec.req \in Mains /\ rec.pc \in PcsOfMain
    BY <1>0, <1>5 DEF Calls, FinalizeLock, LockBudget, At, TypeOK
  <2>2. call' = [call EXCEPT ![s] = rec] BY <1>5 DEF FinalizeLock, LockBudget
  <2> QED BY <2>1, <2>2, <1>0, CallTypes
<1>6. CASE FinalizeWriteOff(s)
  <2> DEFINE p == Spend(call[s].req)
             rec == [call[s] EXCEPT !.pc = "finalize.approve", !.spend = p]
  <2>1. call[s].req \in Mains BY <1>6 DEF FinalizeWriteOff, At, TypeOK
  <2>2. p \in Prices BY <2>1, SourceType DEF Spend, NoPrice, Prices
  <2> HIDE DEF p
  <2>3. rec \in Calls /\ rec.req \in Mains /\ rec.pc \in PcsOfMain
    BY <1>0, <2>1, <2>2 DEF Calls
  <2>4. call' = [call EXCEPT ![s] = rec] BY <1>6, <1>0 DEF FinalizeWriteOff, p
  <2> HIDE DEF rec
  <2> QED BY <2>3, <2>4, <1>0, CallTypes
<1>7. CASE EditDelete(s)
  <2> DEFINE rec == [call[s] EXCEPT !.pc = "edit.insert", !.rows = child[call[s].req].emps]
  <2>1. call[s].req \in Children BY <1>7 DEF EditDelete, At, TypeOK
  <2>2. child[call[s].req].emps \in SUBSET Emps BY <2>1 DEF TypeOK, ChildRows
  <2>3. rec \in Calls /\ rec.req \in Children /\ rec.pc \in PcsOfChild \ PcsOfMain
    BY <1>0, <2>1, <2>2 DEF Calls
  <2>4. call' = [call EXCEPT ![s] = rec] BY <1>7, <1>0 DEF EditDelete
  <2> HIDE DEF rec
  <2> QED BY <2>3, <2>4, <1>0, CallTypes
<1>8. CASE DecideUpdate(s)
  <2> DEFINE r == call[s].req
             seen == [x \in Children |-> IF x = r THEN call[s].verdict ELSE child[x].status]
             rec == [call[s] EXCEPT !.pc = "decide.commit", !.parent = ParentStatus(r[1], seen)]
  <2>1. r \in Children BY <1>8 DEF DecideUpdate, At, TypeOK
  <2>2. ParentStatus(r[1], seen) \in Statuses BY DEF ParentStatus, Statuses
  <2> HIDE DEF seen
  <2>3. rec \in Calls /\ rec.req \in Children /\ rec.pc \in PcsOfChild \ PcsOfMain
    BY <1>0, <2>1, <2>2 DEF Calls
  <2>4. call' = [call EXCEPT ![s] = rec] BY <1>8, <1>0 DEF DecideUpdate, seen
  <2> HIDE DEF rec
  <2> QED BY <2>3, <2>4, <1>0, CallTypes
<1>9. CASE PrepareUpdate(s)
  <2> DEFINE p == BudgetSource(call[s].req)
             v == IF p.amount > 0 /\ remaining[p.contract] < p.amount
                  THEN "DRAFT" ELSE main[call[s].req].status
             rec == [call[s] EXCEPT !.pc = "prepare.commit", !.verdict = v]
  <2>1. call[s].req \in Mains BY <1>9 DEF PrepareUpdate, At, TypeOK
  <2>2. v \in Statuses \cup {"NONE"} BY <2>1 DEF TypeOK, MainRows, Statuses
  <2> HIDE DEF v
  <2>3. rec \in Calls /\ rec.req \in Mains /\ rec.pc \in PcsOfMain
    BY <1>0, <2>1, <2>2 DEF Calls
  <2>4. call' = [call EXCEPT ![s] = rec] BY <1>9, <1>0 DEF PrepareUpdate, v
  <2> HIDE DEF rec
  <2> QED BY <2>3, <2>4, <1>0, CallTypes
<1> QED BY <1>1, <1>2, <1>3, <1>4, <1>5, <1>6, <1>7, <1>8, <1>9 DEF Reads

(* What an operation books are well-typed rows, zero or one.               *)
LEMMA EntryType ==
  ASSUME NEW op \in {"RESERVE", "WRITE_OFF", "RELEASE", "REFUND"}, NEW p \in Prices
  PROVE  Entry(op, p) \in Seq(LedgerRows)
<1>1. CASE p.amount = 0 BY <1>1 DEF Entry
<1>2. CASE p.amount # 0
  <2>1. [op |-> op, contract |-> p.contract, amount |-> p.amount] \in LedgerRows
    BY <1>2 DEF Prices, LedgerRows
  <2> QED BY <2>1, <1>2 DEF Entry
<1> QED BY <1>1, <1>2

(* INSERT INTO request_budget_transactions keeps the ledger well typed.    *)
LEMMA BookTypes ==
  ASSUME TypeOK, NEW m \in Mains, NEW rows \in Seq(LedgerRows), Book(m, rows)
  PROVE  ledger' \in [Mains -> Seq(LedgerRows)]
BY DEF TypeOK, Book

(* UPDATE contract_suppliers keeps the balances integers.                  *)
LEMMA AddTypes ==
  ASSUME TypeOK, NEW c, NEW d \in Int, AddToRemaining(c, d)
  PROVE  remaining' \in [Contracts -> Int]
BY DEF TypeOK, AddToRemaining

(* Prices are natural numbers (the second conjunct spares the provers a    *)
(* step).                                                                  *)
LEMMA AmountType == \A p \in Prices : p.amount \in Nat /\ p.amount \in Int
<1>1. Costs \cup {0} \subseteq Nat BY RequestsAssumption
<1> QED BY <1>1 DEF Prices

(* A well-typed change of one row of a table keeps the table well typed.   *)
LEMMA MainUpdate ==
  ASSUME TypeOK, NEW m
  PROVE  /\ \A st \in Statuses \cup {"NONE"} :
              [main EXCEPT ![m].status = st] \in [Mains -> MainRows]
         /\ \A E \in SUBSET Emps :
              [main EXCEPT ![m].emps = @ \ E] \in [Mains -> MainRows]
         /\ \A row \in MainRows : [main EXCEPT ![m] = row] \in [Mains -> MainRows]
<1>1. CASE m \in Mains
  <2>1. main[m] \in MainRows BY <1>1 DEF TypeOK
  <2>2. \A st \in Statuses \cup {"NONE"} : [main[m] EXCEPT !.status = st] \in MainRows
    BY <2>1 DEF MainRows
  <2>3. \A E \in SUBSET Emps : [main[m] EXCEPT !.emps = @ \ E] \in MainRows
    BY <2>1 DEF MainRows
  <2> HIDE DEF MainRows
  <2> QED BY <2>2, <2>3, <1>1 DEF TypeOK
<1>2. CASE m \notin Mains BY <1>2 DEF TypeOK
<1> QED BY <1>1, <1>2

(* The statements that commit keep the tables well typed.                  *)
LEMMA CommitTypes ==
  ASSUME TypeOK, NEW s \in Sessions, Commits(s)
  PROVE  TypeOK'
<1> DEFINE m == call[s].req
<1> USE DEF PcsOfMain, PcsOfChild
<1>0. call[s] \in Calls BY DEF TypeOK
<1>1. CASE SubmitSplit(s)
  <2>1. m \in Mains BY <1>1 DEF SubmitSplit, At, TypeOK
  <2>2. call[s].price \in Prices BY <1>0 DEF Calls
  <2>3. ledger' \in [Mains -> Seq(LedgerRows)]
    BY <1>1, <2>1, <2>2, EntryType, BookTypes DEF SubmitSplit
  <2>4. remaining' \in [Contracts -> Int]
    BY <1>1, <2>2, AmountType, AddTypes DEF SubmitSplit, TakeReserved
  <2>5. \A d \in Dzos : SplitEmps(s, d) \in SUBSET Emps BY <1>0 DEF SplitEmps, Calls
  <2>6. child' \in [Children -> ChildRows]
    BY <1>1, <2>5 DEF SubmitSplit, TypeOK, ChildRows, Children, Statuses
  <2>7. main' \in [Mains -> MainRows]
    BY <1>1, MainUpdate DEF SubmitSplit, Statuses
  <2> QED BY <1>1, <2>3, <2>4, <2>6, <2>7, ReturnTypes DEF SubmitSplit, TypeOK
<1>2. CASE EditInsert(s)
  <2> DEFINE r == call[s].req
             kept == child[r].emps \ call[s].rows
             new(t) == CASE t = s -> Idle
                         [] t # s /\ At(t, "edit.insert") /\ call[t].req = r ->
                              [call[t] EXCEPT !.rows = @ \ call[s].emps]
                         [] OTHER -> call[t]
  <2>1. r \in Children BY <1>2 DEF EditInsert, At, TypeOK
  <2>2. child[r] \in ChildRows /\ call[s].emps \in SUBSET Emps
    BY <1>0, <2>1 DEF TypeOK, Calls
  <2>3. Edited(child[r], kept \cup call[s].emps) \in ChildRows
    BY <2>2 DEF Edited, ChildRows
  <2>4. child' \in [Children -> ChildRows]
    BY <1>2, <2>1, <2>3 DEF EditInsert, TypeOK
  <2>5. call' = [t \in Sessions |-> new(t)] BY <1>2 DEF EditInsert
  <2>6. Idle \in Calls /\ Idle.pc \notin PcsOfMain \cup PcsOfChild
    BY DEF Idle, Calls, Prices, NoPrice
  <2>7. ASSUME NEW t \in Sessions
        PROVE  /\ new(t) \in Calls
               /\ new(t).pc \in PcsOfMain => new(t).req \in Mains
               /\ new(t).pc \in PcsOfChild => new(t).req \in Children
    <3>1. call[t] \in Calls BY DEF TypeOK
    <3>2. [call[t] EXCEPT !.rows = @ \ call[s].emps] \in Calls BY <3>1 DEF Calls
    <3>3. /\ [call[t] EXCEPT !.rows = @ \ call[s].emps].pc = call[t].pc
          /\ [call[t] EXCEPT !.rows = @ \ call[s].emps].req = call[t].req
      BY <3>1 DEF Calls
    <3> HIDE DEF Idle
    <3>4. CASE new(t) = Idle BY <2>6, <3>4
    <3>5. CASE new(t) # Idle
      <4>1. new(t) = call[t] \/ new(t) = [call[t] EXCEPT !.rows = @ \ call[s].emps]
        BY <3>5
      <4> HIDE DEF new
      <4> QED BY <3>1, <3>2, <3>3, <4>1 DEF TypeOK
    <3> QED BY <3>4, <3>5
  <2> HIDE DEF new
  <2>8. /\ call' \in [Sessions -> Calls]
        /\ \A t \in Sessions : call'[t] = new(t)
    BY <2>5, <2>7
  <2>9. \A t \in Sessions : /\ call'[t].pc \in PcsOfMain => call'[t].req \in Mains
                            /\ call'[t].pc \in PcsOfChild => call'[t].req \in Children
    BY <2>7, <2>8
  <2>10. UNCHANGED <<main, remaining, ledger>> BY <1>2 DEF EditInsert
  <2> HIDE DEF PcsOfMain, PcsOfChild
  <2> QED BY <2>4, <2>8, <2>9, <2>10 DEF TypeOK
<1>3. CASE DecideCommit(s)
  <2>1. call[s].verdict \in Statuses \cup {"NONE"} /\ call[s].parent \in Statuses \cup {"NONE"}
    BY <1>0 DEF Calls
  <2>2. main' \in [Mains -> MainRows]
    BY <1>3, <2>1, MainUpdate DEF DecideCommit
  <2>3. child' \in [Children -> ChildRows]
    BY <1>3, <2>1 DEF DecideCommit, TypeOK, ChildRows
  <2> QED BY <1>3, <2>2, <2>3, ReturnTypes DEF DecideCommit, TypeOK
<1>4. CASE PrepareCommit(s)
  <2>1. /\ call[s].verdict \in Statuses \cup {"NONE"} /\ call[s].event \in Events \cup {Null}
        /\ call[s].cost \in Costs \cup {0}
    BY <1>0 DEF Calls
  <2> DEFINE row == [main[m] EXCEPT !.event = call[s].event, !.cost = call[s].cost,
                                    !.status = call[s].verdict]
  <2>2. main[m] \in MainRows BY <1>4 DEF PrepareCommit, At, TypeOK
  <2>3. row \in MainRows BY <2>1, <2>2 DEF MainRows
  <2>4. main' = [main EXCEPT ![m] = row] BY <1>4 DEF PrepareCommit
  <2> HIDE DEF row
  <2>5. main' \in [Mains -> MainRows] BY <2>3, <2>4, MainUpdate
  <2> QED BY <1>4, <2>5, ReturnTypes DEF PrepareCommit, TypeOK
<1>5. CASE RemoveDelete(s)
  <2>2. main' \in [Mains -> MainRows]
    BY <1>5, <1>0, MainUpdate DEF RemoveDelete, Calls
  <2> QED BY <1>5, <2>2, ReturnTypes DEF RemoveDelete, TypeOK
<1>6. CASE StatusUpdate(s)
  <2>1. call[s].verdict \in Statuses \cup {"NONE"} BY <1>0 DEF Calls
  <2>2. main' \in [Mains -> MainRows]
    BY <1>6, <2>1, MainUpdate DEF StatusUpdate
  <2> QED BY <1>6, <2>2, ReturnTypes DEF StatusUpdate, TypeOK
<1>7. CASE FinalizeApprove(s)
  <2>1. m \in Mains BY <1>7 DEF FinalizeApprove, At, TypeOK
  <2>2. call[s].price \in Prices /\ call[s].spend \in Prices BY <1>0 DEF Calls
  <2>3. /\ Entry("RESERVE", call[s].price) \in Seq(LedgerRows)
        /\ Entry("WRITE_OFF", call[s].spend) \in Seq(LedgerRows)
        /\ Entry("RESERVE", call[s].price) \o Entry("WRITE_OFF", call[s].spend)
             \in Seq(LedgerRows)
    BY <2>2, EntryType
  <2>4. ledger' \in [Mains -> Seq(LedgerRows)]
    BY <1>7, <2>1, <2>3, BookTypes DEF FinalizeApprove
  <2>5. remaining' \in [Contracts -> Int]
    BY <1>7, <2>2, AmountType, AddTypes DEF FinalizeApprove, TakeReserved
  <2>6. main' \in [Mains -> MainRows]
    BY <1>7, MainUpdate DEF FinalizeApprove, Statuses
  <2> QED BY <1>7, <2>4, <2>5, <2>6, ReturnTypes DEF FinalizeApprove, TypeOK
<1>8. CASE CancelCommit(s)
  <2>1. m \in Mains BY <1>8 DEF CancelCommit, At, TypeOK
  <2>2. BudgetSource(m) \in Prices BY <2>1, SourceType
  <2>3. ledger' \in [Mains -> Seq(LedgerRows)] /\ remaining' \in [Contracts -> Int]
    <3>1. CASE UNCHANGED <<remaining, ledger>> BY <3>1 DEF TypeOK
    <3>2. CASE ~UNCHANGED <<remaining, ledger>>
      <4>1. /\ ReturnOperation(m) \in {"RELEASE", "REFUND"}
            /\ AddToRemaining(BudgetSource(m).contract, BudgetSource(m).amount)
            /\ Book(m, Entry(ReturnOperation(m), BudgetSource(m)))
        BY <1>8, <3>2 DEF CancelCommit, RefundBudget, ReturnOperation
      <4>2. Entry(ReturnOperation(m), BudgetSource(m)) \in Seq(LedgerRows)
        BY <4>1, <2>2, EntryType
      <4> QED BY <4>1, <4>2, <2>1, <2>2, AmountType, AddTypes, BookTypes
    <3> QED BY <3>1, <3>2
  <2>4. main' \in [Mains -> MainRows]
    BY <1>8, MainUpdate DEF CancelCommit, Statuses
  <2>5. child' \in [Children -> ChildRows]
    BY <1>8 DEF CancelCommit, TypeOK, ChildRows, Statuses
  <2> QED BY <1>8, <2>3, <2>4, <2>5, ReturnTypes DEF CancelCommit, TypeOK
<1> QED BY <1>1, <1>2, <1>3, <1>4, <1>5, <1>6, <1>7, <1>8 DEF Commits

(* Creating a request writes a well-typed row.                             *)
LEMMA CreateTypes == TypeOK /\ Create => TypeOK'
<1> SUFFICES ASSUME TypeOK, Create PROVE TypeOK'
  OBVIOUS
<1> DEFINE Made(m, row) == /\ main' = [main EXCEPT ![m] = row]
                           /\ UNCHANGED <<child, remaining, ledger, call>>
<1>1. ASSUME NEW m \in Mains, NEW row \in MainRows, Made(m, row) PROVE TypeOK'
  BY <1>1, MainUpdate DEF TypeOK
<1>2. ASSUME NEW m \in Mains, NEW a \in Admins, NEW ev \in Events,
             NEW cost \in Costs \cup {0}, NEW E \in SUBSET Emps, NEW D \in SUBSET Dzos,
             NEW old, CreateAdminRequest(old, m, a, ev, cost, E, D)
      PROVE  TypeOK'
  <2> DEFINE row == [NoMain EXCEPT !.status = "DRAFT", !.initiator = a, !.event = ev,
                                   !.cost = cost, !.emps = E, !.dzos = D]
  <2>1. row \in MainRows BY DEF NoMain, MainRows, Initiators, Statuses
  <2>2. Made(m, row) BY <1>2 DEF CreateAdminRequest
  <2> QED BY <2>1, <2>2, <1>1
<1>3. ASSUME NEW m \in Mains, NEW d \in Dzos, NEW E \in SUBSET Emps,
             CreateHRRequest(m, d, E)
      PROVE  TypeOK'
  <2> DEFINE row == [NoMain EXCEPT !.status = "IN_PROGRESS", !.initiator = HrOf[d],
                                   !.emps = E, !.dzos = {d}]
  <2>1. HrOf[d] \in Initiators BY DEF Initiators
  <2>2. row \in MainRows BY <2>1 DEF NoMain, MainRows, Statuses
  <2>3. Made(m, row) BY <1>3 DEF CreateHRRequest
  <2> QED BY <2>2, <2>3, <1>1
<1>4. ASSUME NEW m \in Mains, NEW a \in Admins, NEW E \in SUBSET Emps,
             CreateArchiveRequest(m, a, E)
      PROVE  TypeOK'
  <2> DEFINE row == [NoMain EXCEPT !.status = "COMPLETED", !.kind = "ARCHIVED",
                                   !.initiator = a, !.emps = E]
  <2>1. row \in MainRows BY DEF NoMain, MainRows, Initiators, Statuses
  <2>2. Made(m, row) BY <1>4 DEF CreateArchiveRequest
  <2> QED BY <2>1, <2>2, <1>1
<1> QED BY <1>2, <1>3, <1>4 DEF Create

(* An empty database is well typed.                                        *)
LEMMA InitTypes == Init => TypeOK
<1> SUFFICES ASSUME Init PROVE TypeOK
  OBVIOUS
<1>1. NoMain \in MainRows BY DEF NoMain, MainRows
<1>2. NoChild \in ChildRows BY DEF NoChild, ChildRows
<1>3. Idle \in Calls /\ Idle.pc \notin PcsOfMain \cup PcsOfChild
  BY DEF Idle, Calls, Prices, NoPrice, PcsOfMain, PcsOfChild
<1> QED BY <1>1, <1>2, <1>3, RequestsAssumption DEF Init, TypeOK

(* Every step of every handler keeps the types.                            *)
LEMMA NextTypes == TypeOK /\ [Next]_vars => TypeOK'
<1> SUFFICES ASSUME TypeOK, [Next]_vars PROVE TypeOK'
  OBVIOUS
<1>1. CASE Create BY <1>1, CreateTypes
<1>2. ASSUME NEW s \in Sessions, AdminCall(s) \/ HRCall(s) PROVE TypeOK'
  BY <1>2, CheckTypes
<1>3. ASSUME NEW s \in Sessions, Reads(s) PROVE TypeOK'
  BY <1>3, ReadTypes
<1>4. ASSUME NEW s \in Sessions, Commits(s) PROVE TypeOK'
  BY <1>4, CommitTypes
<1>5. ASSUME NEW s \in Sessions, Fail(s) PROVE TypeOK'
  BY <1>5, ReturnTypes DEF Fail, TypeOK
<1>6. CASE UNCHANGED vars BY <1>6 DEF vars, TypeOK
<1> QED BY <1>1, <1>2, <1>3, <1>4, <1>5, <1>6 DEF Next

(* Type correctness of the workflow.                                       *)
THEOREM TypeCorrect == Spec => []TypeOK
BY InitTypes, NextTypes, PTL DEF Spec
-----------------------------------------------------------------------------
(* Sessions that hold no new contract row, while no held balance shrinks,  *)
(* keep the lock discipline.                                               *)
LEMMA LockKeeps ==
  ASSUME TypeOK, TypeOK', BudgetLockInv,
         \A t \in Sessions : HoldsBudget(t)' =>
           /\ HoldsBudget(t)
           /\ call'[t].price = call[t].price
           /\ remaining'[call[t].price.contract] >= remaining[call[t].price.contract]
  PROVE  BudgetLockInv'
<1> SUFFICES ASSUME NEW s \in Sessions, HoldsBudget(s)'
             PROVE  LET p == call'[s].price IN
                    /\ p.contract \in Contracts
                    /\ remaining'[p.contract] >= p.amount
                    /\ \A t \in Sessions \ {s} :
                         HoldsBudget(t)' => call'[t].price.contract # p.contract
  BY DEF BudgetLockInv
<1> DEFINE p == call[s].price
<1>1. HoldsBudget(s) /\ call'[s].price = p /\ remaining'[p.contract] >= remaining[p.contract]
  OBVIOUS
<1>2. p.contract \in Contracts /\ remaining[p.contract] >= p.amount BY <1>1 DEF BudgetLockInv
<1>3. \A t \in Sessions \ {s} : HoldsBudget(t) => call[t].price.contract # p.contract
  BY <1>1 DEF BudgetLockInv
<1>4. p \in Prices BY DEF TypeOK, Calls
<1>5. p.amount \in Int BY <1>4, AmountType
<1>6. remaining'[p.contract] \in Int /\ remaining[p.contract] \in Int
  BY <1>2 DEF TypeOK
<1>7. remaining'[p.contract] >= p.amount BY <1>1, <1>2, <1>5, <1>6
<1>8. \A t \in Sessions \ {s} : HoldsBudget(t)' => call'[t].price.contract # p.contract
  BY <1>3
<1> QED BY <1>1, <1>2, <1>7, <1>8

(* SELECT ... FOR UPDATE: a session becomes the holder of a contract row   *)
(* that nobody holds and that has enough money.                            *)
LEMMA LockTaken ==
  ASSUME TypeOK, BudgetLockInv, NEW s \in Sessions, NEW pc, NEW next, LockBudget(s, pc, next)
  PROVE  BudgetLockInv'
<1> DEFINE p == call[s].price
<1>1. /\ p.contract \in Contracts
      /\ remaining[p.contract] >= p.amount
      /\ \A t \in Sessions : HoldsBudget(t) => call[t].price.contract # p.contract
  BY DEF LockBudget, ContractLocked
<1>2. call[s] \in Calls /\ DOMAIN call = Sessions BY DEF TypeOK
<1>3. call' = [call EXCEPT ![s].pc = next] /\ remaining' = remaining BY DEF LockBudget
<1>4. call'[s].price = p BY <1>2, <1>3 DEF Calls
<1>5. \A t \in Sessions \ {s} : call'[t] = call[t] BY <1>2, <1>3
<1>6. \A t \in Sessions \ {s} : HoldsBudget(t)' <=> HoldsBudget(t) BY <1>5 DEF HoldsBudget
<1> QED BY <1>1, <1>3, <1>4, <1>5, <1>6 DEF BudgetLockInv

(* A session that returns holds nothing, and the others go on as before.   *)
LEMMA ReturnedHolds ==
  ASSUME TypeOK, NEW s \in Sessions, Return(s)
  PROVE  \A t \in Sessions : HoldsBudget(t)' =>
           t # s /\ HoldsBudget(t) /\ call'[t].price = call[t].price
<1>1. call'[s].pc = "idle" BY DEF TypeOK, Return, Idle
<1>2. \A t \in Sessions \ {s} : call'[t] = call[t] BY DEF TypeOK, Return
<1> QED BY <1>1, <1>2 DEF HoldsBudget

(* What is taken from the contract that a session holds is taken from no   *)
(* contract that another session holds.                                    *)
LEMMA TakeKeeps ==
  ASSUME TypeOK, TypeOK', BudgetLockInv, NEW s \in Sessions,
         At(s, "submit.split") \/ At(s, "finalize.approve"),
         TakeReserved(call[s].price), Return(s)
  PROVE  BudgetLockInv'
<1> DEFINE p == call[s].price
<1>1. p \in Prices BY DEF TypeOK, Calls
<1>2. p.amount \in Int /\ p.amount \in Nat BY <1>1, AmountType
<1>3. ASSUME NEW t \in Sessions, HoldsBudget(t)'
      PROVE  /\ HoldsBudget(t)
             /\ call'[t].price = call[t].price
             /\ remaining'[call[t].price.contract] >= remaining[call[t].price.contract]
  <2> DEFINE c == call[t].price.contract
  <2>1. t # s /\ HoldsBudget(t) /\ call'[t].price = call[t].price BY <1>3, ReturnedHolds
  <2>2. c \in Contracts BY <2>1 DEF BudgetLockInv
  <2>3. remaining[c] \in Int BY <2>2 DEF TypeOK
  <2>4. remaining'[c] = IF c = p.contract THEN remaining[c] + (0 - p.amount) ELSE remaining[c]
    BY <2>2 DEF TakeReserved, AddToRemaining
  <2>5. CASE p.amount = 0 BY <2>1, <2>3, <2>4, <2>5
  <2>6. CASE p.amount > 0
    <3>1. HoldsBudget(s) BY <2>6 DEF HoldsBudget, At
    <3>2. c # p.contract BY <2>1, <3>1 DEF BudgetLockInv
    <3> QED BY <2>1, <2>3, <2>4, <3>2
  <2> QED BY <1>2, <2>5, <2>6
<1> QED BY <1>3, LockKeeps

(* Starting a call, or moving on without taking a lock, makes no holder.   *)
LEMMA MoveKeeps ==
  ASSUME TypeOK, TypeOK', BudgetLockInv, NEW s \in Sessions, NEW rec \in Calls,
         call' = [call EXCEPT ![s] = rec], UNCHANGED remaining,
         \/ rec.pc \notin {"submit.split", "finalize.writeoff", "finalize.approve"}
         \/ rec.price.amount = 0
         \/ HoldsBudget(s) /\ rec.price = call[s].price
  PROVE  BudgetLockInv'
<1>1. call'[s] = rec /\ \A t \in Sessions \ {s} : call'[t] = call[t] BY DEF TypeOK
<1>2. rec.price.amount \in Int BY AmountType DEF Calls
<1>3. HoldsBudget(s)' => HoldsBudget(s) /\ rec.price = call[s].price
  BY <1>1, <1>2 DEF HoldsBudget
<1>4. ASSUME NEW t \in Sessions, HoldsBudget(t)'
      PROVE  /\ HoldsBudget(t)
             /\ call'[t].price = call[t].price
             /\ remaining'[call[t].price.contract] >= remaining[call[t].price.contract]
  <2>1. HoldsBudget(t) /\ call'[t].price = call[t].price
    BY <1>1, <1>3, <1>4 DEF HoldsBudget
  <2>2. remaining[call[t].price.contract] \in Int BY <2>1 DEF BudgetLockInv, TypeOK
  <2> QED BY <2>1, <2>2
<1> QED BY <1>4, LockKeeps

(* The same for a call that ends without taking anything from a contract.  *)
LEMMA EndKeeps ==
  ASSUME TypeOK, TypeOK', BudgetLockInv, NEW s \in Sessions, Return(s),
         \A c \in Contracts : remaining'[c] >= remaining[c]
  PROVE  BudgetLockInv'
<1>1. ASSUME NEW t \in Sessions, HoldsBudget(t)'
      PROVE  /\ HoldsBudget(t)
             /\ call'[t].price = call[t].price
             /\ remaining'[call[t].price.contract] >= remaining[call[t].price.contract]
  <2>1. HoldsBudget(t) /\ call'[t].price = call[t].price BY <1>1, ReturnedHolds
  <2> QED BY <2>1 DEF BudgetLockInv
<1> QED BY <1>1, LockKeeps

(* The check at the start of a handler takes no row lock.                  *)
LEMMA CheckKeeps ==
  ASSUME TypeOK, TypeOK', BudgetLockInv, NEW s \in Sessions, AdminCall(s) \/ HRCall(s)
  PROVE  BudgetLockInv'
<1>1. UNCHANGED remaining
  BY DEF AdminCall, HRCall, SubmitCheck, PrepareCheck, RemoveCheck, SaveDraftCheck,
         ApproveCheck, RejectCheck, FinalizeCheck, CancelCheck, EditCheck, DecideCheck
<1> DEFINE Fresh == {"submit.reserve", "prepare.update", "remove.delete", "status.update",
                     "finalize.count", "cancel.commit", "edit.delete", "decide.update"}
           rec == call'[s]
<1>2. ASSUME NEW start, Start(s, start), start.pc \in Fresh
      PROVE  call' = [call EXCEPT ![s] = rec] /\ rec.pc \in Fresh
  BY <1>2 DEF Start, TypeOK
<1> HIDE DEF Fresh
<1>3. call' = [call EXCEPT ![s] = rec] /\ rec.pc \in Fresh
  <2>1. ASSUME NEW m \in Mains, NEW a \in Admins, SubmitCheck(s, m, a)
        PROVE  call' = [call EXCEPT ![s] = rec] /\ rec.pc \in Fresh
    BY <2>1, <1>2 DEF SubmitCheck, Idle, Fresh
  <2>2. ASSUME NEW m \in Mains, NEW ev \in Events, NEW cost \in Costs \cup {0},
               PrepareCheck(s, m, ev, cost)
        PROVE  call' = [call EXCEPT ![s] = rec] /\ rec.pc \in Fresh
    BY <2>2, <1>2 DEF PrepareCheck, Idle, Fresh
  <2>3. ASSUME NEW m \in Mains, NEW e \in Emps, RemoveCheck(s, m, e)
        PROVE  call' = [call EXCEPT ![s] = rec] /\ rec.pc \in Fresh
    BY <2>3, <1>2 DEF RemoveCheck, Idle, Fresh
  <2>4. ASSUME NEW m \in Mains, SaveDraftCheck(s, m) \/ ApproveCheck(s, m) \/ RejectCheck(s, m)
        PROVE  call' = [call EXCEPT ![s] = rec] /\ rec.pc \in Fresh
    BY <2>4, <1>2 DEF SaveDraftCheck, ApproveCheck, RejectCheck, Idle, Fresh
  <2>5. ASSUME NEW m \in Mains, FinalizeCheck(s, m) \/ CancelCheck(s, m)
        PROVE  call' = [call EXCEPT ![s] = rec] /\ rec.pc \in Fresh
    BY <2>5, <1>2 DEF FinalizeCheck, CancelCheck, Idle, Fresh
  <2>6. ASSUME NEW r \in Children, NEW E \in SUBSET Emps, EditCheck(s, r, E)
        PROVE  call' = [call EXCEPT ![s] = rec] /\ rec.pc \in Fresh
    BY <2>6, <1>2 DEF EditCheck, Idle, Fresh
  <2>7. ASSUME NEW r \in Children, NEW v, DecideCheck(s, r, v)
        PROVE  call' = [call EXCEPT ![s] = rec] /\ rec.pc \in Fresh
    BY <2>7, <1>2 DEF DecideCheck, Idle, Fresh
  <2> QED BY <2>1, <2>2, <2>3, <2>4, <2>5, <2>6, <2>7 DEF AdminCall, HRCall
<1>4. rec.pc \notin {"submit.split", "finalize.writeoff", "finalize.approve"}
  BY <1>3 DEF Fresh
<1>5. rec \in Calls BY DEF TypeOK
<1> HIDE DEF rec
<1> QED BY <1>1, <1>3, <1>4, <1>5, MoveKeeps

(* A statement that reads takes a contract's row lock only in LockBudget.  *)
LEMMA ReadKeeps ==
  ASSUME TypeOK, TypeOK', BudgetLockInv, NEW s \in Sessions, Reads(s)
  PROVE  BudgetLockInv'
<1> DEFINE rec == call'[s]
<1>0. /\ call[s] \in Calls /\ rec \in Calls /\ DOMAIN call = Sessions
      /\ DOMAIN call' = Sessions
  BY DEF TypeOK
<1>1. /\ UNCHANGED remaining
      /\ \A t \in Sessions \ {s} : call'[t] = call[t]
  BY <1>0 DEF Reads, SubmitReserve, SubmitLock, EditDelete, DecideUpdate, PrepareUpdate,
              FinalizeCount, FinalizeReserve, FinalizeLock, FinalizeWriteOff, LockBudget
<1>2. call' = [call EXCEPT ![s] = rec] BY <1>0, <1>1 DEF TypeOK
<1>3. CASE SubmitLock(s) \/ FinalizeLock(s)
  BY <1>3, LockTaken DEF SubmitLock, FinalizeLock
<1>4. CASE SubmitReserve(s)
  <2>1. \/ rec.pc = "submit.lock"
        \/ rec.price.amount = 0
    BY <1>4, <1>0 DEF SubmitReserve, Calls
  <2> HIDE DEF rec
  <2> QED BY <2>1, <1>0, <1>1, <1>2, MoveKeeps
<1>5. CASE FinalizeReserve(s)
  <2>1. \/ rec.pc = "finalize.lock"
        \/ rec.price.amount = 0
    BY <1>5, <1>0 DEF FinalizeReserve, Calls
  <2> HIDE DEF rec
  <2> QED BY <2>1, <1>0, <1>1, <1>2, MoveKeeps
<1>6. CASE FinalizeWriteOff(s)
  <2>1. rec.price = call[s].price BY <1>6, <1>0 DEF FinalizeWriteOff, Calls
  <2>2. call[s].price.amount \in Nat /\ call[s].price.amount \in Int
    BY <1>0, AmountType DEF Calls
  <2>3. HoldsBudget(s) \/ rec.price.amount = 0
    BY <1>6, <2>1, <2>2 DEF FinalizeWriteOff, At, HoldsBudget
  <2> HIDE DEF rec
  <2> QED BY <2>1, <2>3, <1>0, <1>1, <1>2, MoveKeeps
<1>7. CASE EditDelete(s) \/ DecideUpdate(s) \/ PrepareUpdate(s) \/ FinalizeCount(s)
  <2>1. rec.pc \in {"edit.insert", "decide.commit", "prepare.commit", "finalize.reserve"}
    BY <1>7, <1>0 DEF EditDelete, DecideUpdate, PrepareUpdate, FinalizeCount, Calls
  <2> HIDE DEF rec
  <2> QED BY <2>1, <1>0, <1>1, <1>2, MoveKeeps
<1> QED BY <1>3, <1>4, <1>5, <1>6, <1>7 DEF Reads

(* A commit frees the row lock of its session and takes money only from    *)
(* that row.                                                               *)
LEMMA CommitKeeps ==
  ASSUME TypeOK, TypeOK', BudgetLockInv, NEW s \in Sessions, Commits(s)
  PROVE  BudgetLockInv'
<1>0. \A c \in Contracts : remaining[c] \in Int BY DEF TypeOK
<1>1. CASE SubmitSplit(s) BY <1>1, TakeKeeps DEF SubmitSplit
<1>2. CASE FinalizeApprove(s) BY <1>2, TakeKeeps DEF FinalizeApprove
<1>3. CASE DecideCommit(s) \/ PrepareCommit(s) \/ RemoveDelete(s) \/ StatusUpdate(s)
  <2>1. Return(s) /\ UNCHANGED remaining
    BY <1>3 DEF DecideCommit, PrepareCommit, RemoveDelete, StatusUpdate
  <2> QED BY <2>1, <1>0, EndKeeps
<1>4. CASE CancelCommit(s)
  <2> DEFINE p == BudgetSource(call[s].req)
  <2>1. call[s].req \in Mains BY <1>4 DEF CancelCommit, At, PcsOfMain, TypeOK
  <2>2. p.amount \in Nat /\ p.amount \in Int BY <2>1, SourceType, AmountType
  <2>3. UNCHANGED remaining \/ AddToRemaining(p.contract, p.amount)
    BY <1>4 DEF CancelCommit, RefundBudget
  <2> HIDE DEF p
  <2>4. \A c \in Contracts : remaining'[c] >= remaining[c]
    BY <1>0, <2>2, <2>3 DEF AddToRemaining
  <2> QED BY <1>4, <2>4, EndKeeps DEF CancelCommit
<1>5. CASE EditInsert(s)
  <2>1. \A t \in Sessions : \/ call'[t] = Idle
                            \/ call'[t] = call[t]
                            \/ /\ call[t].pc = "edit.insert"
                               /\ call'[t] = [call[t] EXCEPT !.rows = @ \ call[s].emps]
    BY <1>5 DEF EditInsert, At
  <2>2. \A t \in Sessions : call[t] \in Calls BY DEF TypeOK
  <2>3. \A t \in Sessions : \/ call'[t].pc \in {"idle", "edit.insert"}
                            \/ call'[t] = call[t]
    <3> TAKE t \in Sessions
    <3>1. Idle.pc = "idle" BY DEF Idle
    <3>2. call[t].pc = "edit.insert" =>
            [call[t] EXCEPT !.rows = @ \ call[s].emps].pc = "edit.insert"
      BY <2>2 DEF Calls
    <3> HIDE DEF Idle
    <3> QED BY <2>1, <3>1, <3>2
  <2>4. ASSUME NEW t \in Sessions, HoldsBudget(t)'
        PROVE  HoldsBudget(t) /\ call'[t] = call[t]
    BY <2>3, <2>4 DEF HoldsBudget
  <2>5. UNCHANGED remaining BY <1>5 DEF EditInsert
  <2>6. \A t \in Sessions : HoldsBudget(t) => call[t].price.contract \in Contracts
    BY DEF BudgetLockInv
  <2> QED BY <1>0, <2>4, <2>5, <2>6, LockKeeps
<1> QED BY <1>1, <1>2, <1>3, <1>4, <1>5 DEF Commits

(* Every step keeps the lock discipline.                                   *)
LEMMA LockStep == TypeOK /\ BudgetLockInv /\ [Next]_vars => BudgetLockInv'
<1> SUFFICES ASSUME TypeOK, BudgetLockInv, [Next]_vars PROVE BudgetLockInv'
  OBVIOUS
<1>0. TypeOK' BY NextTypes
<1>1. CASE Create
  <2>1. UNCHANGED <<remaining, call>>
    BY <1>1 DEF Create, CreateAdminRequest, CreateHRRequest,
                CreateArchiveRequest
  <2> QED BY <2>1 DEF BudgetLockInv, HoldsBudget
<1>2. ASSUME NEW s \in Sessions, AdminCall(s) \/ HRCall(s) PROVE BudgetLockInv'
  BY <1>0, <1>2, CheckKeeps
<1>3. ASSUME NEW s \in Sessions, Reads(s) PROVE BudgetLockInv'
  BY <1>0, <1>3, ReadKeeps
<1>4. ASSUME NEW s \in Sessions, Commits(s) PROVE BudgetLockInv'
  BY <1>0, <1>4, CommitKeeps
<1>5. ASSUME NEW s \in Sessions, Fail(s) PROVE BudgetLockInv'
  <2>1. \A c \in Contracts : remaining'[c] >= remaining[c] BY <1>5 DEF Fail, TypeOK
  <2> QED BY <1>0, <1>5, <2>1, EndKeeps DEF Fail
<1>6. CASE UNCHANGED vars BY <1>6 DEF vars, BudgetLockInv, HoldsBudget
<1> QED BY <1>1, <1>2, <1>3, <1>4, <1>5, <1>6 DEF Next

(* The row lock discipline of reserveBudgetTx: between its check and its   *)
(* commit the checked amount stays available.                              *)
THEOREM LockDiscipline == Spec => []BudgetLockInv
<1>1. Init => BudgetLockInv BY DEF Init, BudgetLockInv, HoldsBudget, Idle
<1> QED BY <1>1, LockStep, TypeCorrect, PTL DEF Spec
-----------------------------------------------------------------------------
(* The refinement: what the workflow's transactions do to the balances and *)
(* to the ledger is what ContractBudget allows.                            *)
BP == INSTANCE ContractBudgetProofs WITH Amounts <- Costs

(* Zero amounts move nothing and book nothing; others book one row.        *)
LEMMA TakeZero ==
  ASSUME TypeOK, NEW p, p.amount = 0, TakeReserved(p)
  PROVE  remaining' = remaining
<1>1. \A c \in Contracts : remaining[c] \in Int BY DEF TypeOK
<1>2. remaining' = [c \in Contracts |-> remaining[c]]
  BY <1>1 DEF TakeReserved, AddToRemaining
<1> QED BY <1>2 DEF TypeOK

(* A positive amount is taken from the contract of the price.              *)
LEMMA TakeOne ==
  ASSUME TypeOK, NEW p, p.amount \in Int, p.contract \in Contracts, TakeReserved(p)
  PROVE  remaining' = [remaining EXCEPT ![p.contract] = @ - p.amount]
<1>1. \A c \in Contracts : remaining[c] \in Int BY DEF TypeOK
<1>2. \A c \in Contracts : remaining'[c] = IF c = p.contract THEN remaining[c] - p.amount
                                                             ELSE remaining[c]
  BY <1>1 DEF TakeReserved, AddToRemaining
<1>3. remaining' \in [Contracts -> Int] BY <1>1, AddTypes DEF TakeReserved
<1> QED BY <1>2, <1>3 DEF TypeOK

(* An operation without a price leaves the ledger as it is.                *)
LEMMA BookNone ==
  ASSUME TypeOK, NEW m \in Mains, Book(m, <<>>)
  PROVE  ledger' = ledger
<1>1. ledger[m] \in Seq(LedgerRows) BY DEF TypeOK
<1>2. ledger[m] \o <<>> = ledger[m] BY <1>1
<1> QED BY <1>2 DEF Book, TypeOK

(* An operation with a price appends its row.                              *)
LEMMA BookOne ==
  ASSUME TypeOK, NEW m \in Mains, NEW row \in LedgerRows, Book(m, <<row>>)
  PROVE  ledger' = [ledger EXCEPT ![m] = Append(@, row)]
<1>1. ledger[m] \in Seq(LedgerRows) BY DEF TypeOK
<1>2. ledger[m] \o <<row>> = Append(ledger[m], row) BY <1>1
<1> QED BY <1>2 DEF Book, TypeOK

(* A priced entry is a row of the abstract ledger.                         *)
LEMMA EntryRow ==
  ASSUME NEW op \in {"RESERVE", "WRITE_OFF", "RELEASE", "REFUND"}, NEW p \in Prices,
         p.amount # 0
  PROVE  /\ p \in BP!Prices
         /\ Entry(op, p) = <<BP!Row(op, p)>>
         /\ BP!Row(op, p) \in LedgerRows
BY DEF Prices, BP!Prices, Entry, BP!Row, LedgerRows

(* A session at the commit of a reservation found the money it takes.      *)
LEMMA HeldPrice ==
  ASSUME TypeOK, BudgetLockInv, NEW s \in Sessions,
         At(s, "submit.split") \/ At(s, "finalize.approve"), call[s].price.amount # 0
  PROVE  /\ call[s].price.amount \in Int
         /\ call[s].price.contract \in Contracts
         /\ remaining[call[s].price.contract] >= call[s].price.amount
<1>1. call[s].price \in Prices BY DEF TypeOK, Calls
<1>2. call[s].price.amount \in Nat /\ call[s].price.amount \in Int BY <1>1, AmountType
<1>3. HoldsBudget(s) BY <1>2 DEF HoldsBudget, At
<1> QED BY <1>2, <1>3 DEF BudgetLockInv

(* The commit of submitRequest reserves, or does nothing to the budget.    *)
LEMMA SubmitRefines ==
  ASSUME TypeOK, BudgetLockInv, NEW s \in Sessions, SubmitSplit(s)
  PROVE  [BP!Next]_<<remaining, ledger>>
<1> DEFINE m == call[s].req
           p == call[s].price
<1>1. m \in Mains BY DEF SubmitSplit, At, PcsOfMain, TypeOK
<1>2. p \in Prices BY DEF TypeOK, Calls
<1>3. TakeReserved(p) /\ Book(m, Entry("RESERVE", p)) /\ At(s, "submit.split")
  BY DEF SubmitSplit
<1> HIDE DEF m
<1>4. CASE p.amount = 0
  BY <1>1, <1>3, <1>4, TakeZero, BookNone DEF Entry
<1>5. CASE p.amount # 0
  <2>1. /\ p.amount \in Int /\ p.contract \in Contracts
        /\ remaining[p.contract] >= p.amount
    BY <1>3, <1>5, HeldPrice
  <2> HIDE DEF p
  <2>2. /\ p \in BP!Prices
        /\ Entry("RESERVE", p) = <<BP!Row("RESERVE", p)>>
        /\ BP!Row("RESERVE", p) \in LedgerRows
    BY <1>2, <1>5, EntryRow
  <2>3. BP!Reserve(m, p)
    BY <1>1, <1>3, <2>1, <2>2, TakeOne, BookOne DEF BP!Reserve
  <2> QED BY <1>1, <2>2, <2>3 DEF BP!Next
<1> QED BY <1>4, <1>5

(* The rows of a reservation and a write-off, one after the other.         *)
LEMMA JoinRows ==
  ASSUME NEW S, NEW a \in S, NEW b \in S
  PROVE  /\ <<>> \o <<>> = <<>>
         /\ <<a>> \o <<>> = <<a>>
         /\ <<>> \o <<b>> = <<b>>
         /\ <<a>> \o <<b>> = <<a, b>>
<1>1. <<>> \o <<>> = <<>> OBVIOUS
<1>2. \A s \in Seq(S) : s \o <<>> = s OBVIOUS
<1>3. \A s \in Seq(S) : <<>> \o s = s OBVIOUS
<1>4. \A s \in Seq(S) : s \o <<b>> = Append(s, b) OBVIOUS
<1>5. <<a>> \in Seq(S) /\ <<b>> \in Seq(S) OBVIOUS
<1>6. Append(<<a>>, b) = <<a, b>>
  <2>1. Append(<<a>>, b) \in Seq(S) /\ <<a, b>> \in Seq(S) OBVIOUS
  <2>2. Len(Append(<<a>>, b)) = 2 /\ Len(<<a, b>>) = 2 OBVIOUS
  <2>3. \A i \in 1..2 : Append(<<a>>, b)[i] = <<a, b>>[i]
    <3>1. Append(<<a>>, b)[1] = a /\ Append(<<a>>, b)[2] = b OBVIOUS
    <3>2. 1..2 = {1, 2} OBVIOUS
    <3> QED BY <3>1, <3>2
  <2> QED BY <2>1, <2>2, <2>3, SeqEqual
<1> QED BY <1>1, <1>2, <1>3, <1>4, <1>5, <1>6

(* The commit of finalizeAdminRequest reserves, writes off, does both or   *)
(* does nothing to the budget, by what was booked for the request before.  *)
LEMMA FinalizeRefines ==
  ASSUME TypeOK, BudgetLockInv, NEW s \in Sessions, FinalizeApprove(s)
  PROVE  [BP!Next]_<<remaining, ledger>>
<1> DEFINE m == call[s].req
           p == call[s].price
           q == call[s].spend
<1>1. m \in Mains BY DEF FinalizeApprove, At, PcsOfMain, TypeOK
<1>2. p \in Prices /\ q \in Prices BY DEF TypeOK, Calls
<1>3. /\ TakeReserved(p) /\ At(s, "finalize.approve")
      /\ Book(m, Entry("RESERVE", p) \o Entry("WRITE_OFF", q))
  BY DEF FinalizeApprove
<1>4. p.amount # 0 => /\ p.amount \in Int /\ p.contract \in Contracts
                      /\ remaining[p.contract] >= p.amount
  BY <1>3, HeldPrice
<1> HIDE DEF m, p, q
<1>5. p.amount # 0 => /\ p \in BP!Prices
                      /\ Entry("RESERVE", p) = <<BP!Row("RESERVE", p)>>
                      /\ BP!Row("RESERVE", p) \in LedgerRows
  BY <1>2, EntryRow
<1>6. q.amount # 0 => /\ q \in BP!Prices
                      /\ Entry("WRITE_OFF", q) = <<BP!Row("WRITE_OFF", q)>>
                      /\ BP!Row("WRITE_OFF", q) \in LedgerRows
  BY <1>2, EntryRow
<1>7. /\ p.amount = 0 => Entry("RESERVE", p) = <<>>
      /\ q.amount = 0 => Entry("WRITE_OFF", q) = <<>>
  BY DEF Entry
<1>8. CASE p.amount = 0 /\ q.amount = 0
  <2>1. Book(m, <<>>)
    <3>1. <<>> \o <<>> = <<>> BY JoinRows
    <3> QED BY <1>3, <1>7, <1>8, <3>1
  <2> QED BY <1>1, <1>3, <1>8, <2>1, TakeZero, BookNone
<1>9. CASE p.amount # 0 /\ q.amount = 0
  <2> DEFINE a == BP!Row("RESERVE", p)
  <2>0. <<a>> \o <<>> = <<a>> BY <1>5, <1>9, JoinRows
  <2>1. Book(m, <<a>>) BY <1>3, <1>5, <1>7, <1>9, <2>0
  <2>2. BP!Reserve(m, p)
    BY <1>1, <1>3, <1>4, <1>5, <1>9, <2>1, TakeOne, BookOne DEF BP!Reserve
  <2> QED BY <1>1, <1>5, <1>9, <2>2 DEF BP!Next
<1>10. CASE p.amount = 0 /\ q.amount # 0
  <2> DEFINE b == BP!Row("WRITE_OFF", q)
  <2>0. <<>> \o <<b>> = <<b>> BY <1>6, <1>10, JoinRows
  <2>1. Book(m, <<b>>) BY <1>3, <1>6, <1>7, <1>10, <2>0
  <2>2. BP!WriteOff(m, q)
    BY <1>1, <1>3, <1>6, <1>10, <2>1, TakeZero, BookOne DEF BP!WriteOff
  <2> QED BY <1>1, <1>6, <1>10, <2>2 DEF BP!Next
<1>11. CASE p.amount # 0 /\ q.amount # 0
  <2> DEFINE a == BP!Row("RESERVE", p)
             b == BP!Row("WRITE_OFF", q)
  <2>0. <<a>> \o <<b>> = <<a, b>> BY <1>5, <1>6, <1>11, JoinRows
  <2>1. Book(m, <<a, b>>) BY <1>3, <1>5, <1>6, <1>11, <2>0
  <2>2. BP!ReserveAndWriteOff(m, p, q)
    BY <1>1, <1>3, <1>4, <1>11, <2>1, TakeOne DEF BP!ReserveAndWriteOff, Book
  <2> QED BY <1>1, <1>5, <1>6, <1>11, <2>2 DEF BP!Next
<1> QED BY <1>8, <1>9, <1>10, <1>11

(* The commit of cancelAdminRequest gives back what refundBudgetTx finds   *)
(* booked.                                                                 *)
LEMMA CancelRefines ==
  ASSUME TypeOK, BudgetLockInv, NEW s \in Sessions, CancelCommit(s)
  PROVE  [BP!Next]_<<remaining, ledger>>
<1> DEFINE m == call[s].req
           p == BudgetSource(m)
           op == ReturnOperation(m)
<1>1. m \in Mains BY DEF CancelCommit, At, PcsOfMain, TypeOK
<1>2. p \in Prices BY <1>1, SourceType
<1>3. RefundBudget(m) BY DEF CancelCommit
<1>4. CASE UNCHANGED <<remaining, ledger>> BY <1>4
<1>5. CASE ~UNCHANGED <<remaining, ledger>>
  <2>1. /\ op # "NONE" /\ p.amount # 0
        /\ AddToRemaining(p.contract, p.amount)
        /\ Book(m, Entry(op, p))
    BY <1>3, <1>5 DEF RefundBudget
  <2>2. /\ op = IF BP!Has(m, "WRITE_OFF") THEN "REFUND" ELSE "RELEASE"
        /\ BP!Has(m, "WRITE_OFF") \/ BP!Has(m, "RESERVE")
        /\ op \in {"RELEASE", "REFUND"}
    BY <2>1 DEF ReturnOperation, Has, BP!Has
  <2> HIDE DEF m, p, op
  <2>3. /\ p \in BP!Prices
        /\ Entry(op, p) = <<BP!Row(op, p)>>
        /\ BP!Row(op, p) \in LedgerRows
    BY <1>2, <2>1, <2>2, EntryRow
  <2>4. BP!GiveBack(m, p)
    BY <1>1, <2>1, <2>2, <2>3, BookOne DEF BP!GiveBack, AddToRemaining
  <2> QED BY <1>1, <2>3, <2>4 DEF BP!Next
<1> QED BY <1>4, <1>5

(* Every step of the workflow is a step of the ledger, or none.            *)
LEMMA StepRefines == TypeOK /\ BudgetLockInv /\ [Next]_vars => [BP!Next]_<<remaining, ledger>>
<1> SUFFICES ASSUME TypeOK, BudgetLockInv, [Next]_vars
             PROVE  [BP!Next]_<<remaining, ledger>>
  OBVIOUS
<1>1. ASSUME Create PROVE UNCHANGED <<remaining, ledger>>
  <2>1. ASSUME NEW m, NEW old, NEW a, NEW ev, NEW cost, NEW E, NEW D,
               CreateAdminRequest(old, m, a, ev, cost, E, D)
        PROVE  UNCHANGED <<remaining, ledger>>
    BY <2>1, SMTT(30) DEF CreateAdminRequest
  <2>2. ASSUME NEW m, NEW d, NEW E, CreateHRRequest(m, d, E)
        PROVE  UNCHANGED <<remaining, ledger>>
    BY <2>2, SMTT(30) DEF CreateHRRequest
  <2>3. ASSUME NEW m, NEW a, NEW E, CreateArchiveRequest(m, a, E)
        PROVE  UNCHANGED <<remaining, ledger>>
    BY <2>3, SMTT(30) DEF CreateArchiveRequest
  <2> QED BY <1>1, <2>1, <2>2, <2>3 DEF Create
<1>2. ASSUME NEW s \in Sessions, AdminCall(s) \/ HRCall(s)
      PROVE  UNCHANGED <<remaining, ledger>>
  BY <1>2 DEF AdminCall, HRCall, SubmitCheck, PrepareCheck, RemoveCheck, SaveDraftCheck,
         ApproveCheck, RejectCheck, FinalizeCheck, CancelCheck, EditCheck, DecideCheck
<1>3. ASSUME NEW s \in Sessions, Reads(s) PROVE UNCHANGED <<remaining, ledger>>
  BY <1>3 DEF Reads, SubmitReserve, SubmitLock, EditDelete, DecideUpdate, PrepareUpdate,
              FinalizeCount, FinalizeReserve, FinalizeLock, FinalizeWriteOff, LockBudget
<1>4. ASSUME NEW s \in Sessions, Commits(s) PROVE [BP!Next]_<<remaining, ledger>>
  <2>1. CASE SubmitSplit(s) BY <2>1, SubmitRefines
  <2>2. CASE FinalizeApprove(s) BY <2>2, FinalizeRefines
  <2>3. CASE CancelCommit(s) BY <2>3, CancelRefines
  <2>4. CASE \/ EditInsert(s) \/ DecideCommit(s) \/ PrepareCommit(s) \/ RemoveDelete(s)
             \/ StatusUpdate(s)
    BY <2>4 DEF EditInsert, DecideCommit, PrepareCommit, RemoveDelete, StatusUpdate
  <2> QED BY <1>4, <2>1, <2>2, <2>3, <2>4 DEF Commits
<1>5. ASSUME NEW s \in Sessions, Fail(s) PROVE UNCHANGED <<remaining, ledger>>
  BY <1>5 DEF Fail
<1>6. CASE UNCHANGED vars BY <1>6 DEF vars
<1> QED BY <1>1, <1>2, <1>3, <1>4, <1>5, <1>6 DEF Next

(* The two instances of the ledger, the one of Requests and the one with   *)
(* the proofs, are the same.                                               *)
LEMMA SameLedger ==
  /\ Budget!Init <=> BP!Init
  /\ [Budget!Next]_(Budget!budgetVars) <=> [BP!Next]_<<remaining, ledger>>
  /\ BP!budgetVars = <<remaining, ledger>>
BY DEF Budget!Init, BP!Init, Budget!Next, BP!Next, Budget!budgetVars, BP!budgetVars,
       Budget!Prices, BP!Prices, Budget!Reserve, BP!Reserve, Budget!WriteOff, BP!WriteOff,
       Budget!GiveBack, BP!GiveBack, Budget!ReserveAndWriteOff, BP!ReserveAndWriteOff,
       Budget!Row, BP!Row, Budget!Has, BP!Has

(* The workflow implements the abstract ledger.                            *)
THEOREM Implements == Spec => BudgetSpec
<1>1. Init => Budget!Init BY DEF Init, Budget!Init
<1>2. TypeOK /\ BudgetLockInv /\ [Next]_vars => [Budget!Next]_(Budget!budgetVars)
  BY StepRefines, SameLedger
<1> QED BY <1>1, <1>2, TypeCorrect, LockDiscipline, PTL DEF Spec, BudgetSpec, Budget!Spec

(* The promises of the ledger, proved in ContractBudgetProofs, hold of the *)
(* workflow.                                                               *)
LEMMA LedgerSpec == Spec => BP!Spec
<1>1. Init => BP!Init BY DEF Init, BP!Init
<1>2. TypeOK /\ BudgetLockInv /\ [Next]_vars => [BP!Next]_(BP!budgetVars)
  BY StepRefines DEF BP!budgetVars
<1> QED BY <1>1, <1>2, TypeCorrect, LockDiscipline, PTL DEF Spec, BP!Spec

(* The constants of the workflow satisfy the assumption of the ledger.     *)
LEMMA LedgerAssumption == BP!BudgetAssumption
BY RequestsAssumption DEF BP!BudgetAssumption

(* No interleaving of submissions, finalisations, cancellations and        *)
(* updates overdraws a contract.                                           *)
THEOREM NeverOverdrawn == Spec => []NoOverdraft
<1>1. BP!Spec => []BP!NoOverdraft BY LedgerAssumption, BP!NeverOverdrawn
<1>2. BP!NoOverdraft <=> NoOverdraft BY DEF BP!NoOverdraft, NoOverdraft, Budget!NoOverdraft
<1> QED BY <1>1, <1>2, LedgerSpec, PTL

(* Money comes back only after it was reserved or spent.                   *)
THEOREM ReturnsAreEarned == Spec => []ReturnsFollow
<1>1. BP!Spec => []BP!ReturnsFollow BY LedgerAssumption, BP!ReturnsAreEarned
<1>2. BP!ReturnsFollow <=> ReturnsFollow
  BY DEF BP!ReturnsFollow, ReturnsFollow, Budget!ReturnsFollow
<1> QED BY <1>1, <1>2, LedgerSpec, PTL

(* Every transaction moves the balances by what the rows it books say.     *)
THEOREM StepsAreBalanced == Spec => EveryStepBalanced
<1>1. BP!Spec => [][BP!StepBalanced]_(BP!budgetVars)
  BY LedgerAssumption, BP!StepsAreBalanced
<1>2. [BP!StepBalanced]_(BP!budgetVars) <=> [Budget!StepBalanced]_<<remaining, ledger>>
  BY DEF BP!budgetVars, BP!StepBalanced, Budget!StepBalanced, BP!Effect, Budget!Effect,
         BP!Added, Budget!Added
<1> QED BY <1>1, <1>2, LedgerSpec, PTL DEF EveryStepBalanced

(* A contract lacks exactly what the ledger rows of all requests say they  *)
(* hold, over all interleavings of submissions, finalisations, updates and *)
(* cancellations; the requests are finitely many.                          *)
THEOREM LedgerStaysBalanced ==
  ASSUME IsFiniteSet(Mains)
  PROVE  Spec => []LedgerBalanced
<1>1. BP!IsFiniteSet(Mains) BY DEF IsFiniteSet, BP!IsFiniteSet
<1>2. BP!Spec => []BP!LedgerBalanced BY <1>1, LedgerAssumption, BP!LedgerStaysBalanced
<1>3. BP!LedgerBalanced <=> LedgerBalanced
  BY DEF BP!LedgerBalanced, LedgerBalanced, Budget!LedgerBalanced, BP!Held, Budget!Held,
         BP!Effect, Budget!Effect, BP!MapThenSumSet, BP!MapThenFoldSet,
         Budget!MapThenSumSet, Budget!MapThenFoldSet
<1> QED BY <1>2, <1>3, LedgerSpec, PTL
-----------------------------------------------------------------------------
(* How calls begin, move on and end; the proofs below follow one call.     *)
Edits == {"edit.delete", "edit.insert"}
Decides == {"decide.update", "decide.commit"}
Created(m) == main[m].status # "NONE"

\* What the checks of the handlers have established when a call begins.
Fresh(c) ==
  /\ c \in Calls
  /\ c.pc \in {"submit.reserve", "prepare.update", "remove.delete", "status.update",
               "finalize.count", "cancel.commit", "edit.delete", "decide.update"}
  /\ c.pc \in PcsOfMain => c.req \in Mains /\ main[c.req].status \notin {"NONE", "REJECTED"}
  /\ c.pc \in {"submit.reserve", "prepare.update"} => main[c.req].kind = "REGULAR"
  /\ c.pc = "submit.reserve" => c.emps = main[c.req].emps /\ c.dzos = SplitDzos(c.req)
  /\ c.pc = "status.update" => c.verdict # "NONE"
  /\ c.pc \in PcsOfChild => c.req \in Children /\ Open(c.req)
  /\ c.pc = "edit.delete" => c.emps \subseteq DzoStaff(c.req[3])
  /\ c.pc = "decide.update" => c.verdict \in {"APPROVED", "REJECTED"} /\ MayDecide(c.req, c.verdict)

LEMMA NewCalls ==
  ASSUME TypeOK, NEW s \in Sessions, AdminCall(s) \/ HRCall(s)
  PROVE  /\ \E c : Fresh(c) /\ call' = [call EXCEPT ![s] = c]
         /\ call[s] = Idle /\ UNCHANGED <<main, child, remaining, ledger>>
<1> DEFINE Goal == /\ \E c : Fresh(c) /\ call' = [call EXCEPT ![s] = c]
                   /\ call[s] = Idle /\ UNCHANGED <<main, child, remaining, ledger>>
<1> USE DEF Calls, Idle, NoPrice, Prices, PcsOfMain, PcsOfChild, Fresh, Start, Statuses
<1>1. ASSUME NEW m \in Mains, NEW a \in Admins, SubmitCheck(s, m, a) PROVE Goal
  <2>1. main[m].emps \in SUBSET Emps /\ main[m].dzos \in SUBSET Dzos BY DEF TypeOK, MainRows
  <2>2. SplitDzos(m) \in SUBSET Dzos BY <2>1, RequestsAssumption DEF SplitDzos
  <2>3. Fresh([Idle EXCEPT !.pc = "submit.reserve", !.req = m, !.emps = main[m].emps,
                           !.dzos = SplitDzos(m)])
    BY <1>1, <2>1, <2>2 DEF SubmitCheck
  <2> QED BY <1>1, <2>3 DEF SubmitCheck
<1>2. ASSUME NEW m \in Mains, NEW ev \in Events, NEW cost \in Costs \cup {0},
             PrepareCheck(s, m, ev, cost)
      PROVE  Goal
  <2>1. Fresh([Idle EXCEPT !.pc = "prepare.update", !.req = m, !.event = ev, !.cost = cost])
    BY <1>2 DEF PrepareCheck, Preparable
  <2> QED BY <1>2, <2>1 DEF PrepareCheck
<1>3. ASSUME NEW m \in Mains, NEW e \in Emps, RemoveCheck(s, m, e) PROVE Goal
  <2>1. Fresh([Idle EXCEPT !.pc = "remove.delete", !.req = m, !.emps = {e}])
    BY <1>3 DEF RemoveCheck, ClosedStatuses
  <2> QED BY <1>3, <2>1 DEF RemoveCheck
<1>4. ASSUME NEW m \in Mains, NEW v \in {"DRAFT", "APPROVED", "REJECTED"},
             main[m].status \notin {"NONE", "REJECTED"},
             Start(s, [Idle EXCEPT !.pc = "status.update", !.req = m, !.verdict = v]),
             UNCHANGED <<main, child, remaining, ledger>>
      PROVE  Goal
  <2>1. Fresh([Idle EXCEPT !.pc = "status.update", !.req = m, !.verdict = v]) BY <1>4
  <2> QED BY <1>4, <2>1
<1>5. ASSUME NEW m \in Mains, SaveDraftCheck(s, m) PROVE Goal
  BY <1>4, <1>5 DEF SaveDraftCheck, ClosedStatuses
<1>6. ASSUME NEW m \in Mains, ApproveCheck(s, m) PROVE Goal
  BY <1>4, <1>6 DEF ApproveCheck, OpenStatuses
<1>7. ASSUME NEW m \in Mains, RejectCheck(s, m) PROVE Goal
  BY <1>4, <1>7 DEF RejectCheck, OpenStatuses
<1>8. ASSUME NEW m \in Mains, FinalizeCheck(s, m) PROVE Goal
  <2>1. Fresh([Idle EXCEPT !.pc = "finalize.count", !.req = m]) BY <1>8 DEF FinalizeCheck
  <2> QED BY <1>8, <2>1 DEF FinalizeCheck
<1>9. ASSUME NEW m \in Mains, CancelCheck(s, m) PROVE Goal
  <2>1. Fresh([Idle EXCEPT !.pc = "cancel.commit", !.req = m])
    BY <1>9 DEF CancelCheck, Cancellable
  <2> QED BY <1>9, <2>1 DEF CancelCheck
<1>10. ASSUME NEW r \in Children, NEW E \in SUBSET Emps, EditCheck(s, r, E) PROVE Goal
  <2>1. Fresh([Idle EXCEPT !.pc = "edit.delete", !.req = r, !.emps = E])
    BY <1>10 DEF EditCheck
  <2> QED BY <1>10, <2>1 DEF EditCheck
<1>11. ASSUME NEW r \in Children, NEW v \in {"APPROVED", "REJECTED"}, DecideCheck(s, r, v)
       PROVE  Goal
  <2>1. Fresh([Idle EXCEPT !.pc = "decide.update", !.req = r, !.verdict = v])
    BY <1>11 DEF DecideCheck, MayDecide
  <2> QED BY <1>11, <2>1 DEF DecideCheck
<1> HIDE DEF Goal
<1> QED BY <1>1, <1>2, <1>3, <1>5, <1>6, <1>7, <1>8, <1>9, <1>10, <1>11 DEF AdminCall, HRCall, Goal

\* The statements that only read: what they add to the record of the call.
Moved(c, d) ==
  /\ d.req = c.req /\ d.emps = c.emps /\ d.dzos = c.dzos
  /\ \/ c.pc = "submit.reserve" /\ d.pc \in {"submit.lock", "submit.split"} /\ d.price = BudgetSource(c.req)
     \/ c.pc = "submit.lock" /\ d.pc = "submit.split" /\ d.price = c.price
     \/ c.pc = "edit.delete" /\ d.pc = "edit.insert"
     \/ /\ c.pc = "decide.update" /\ d.pc = "decide.commit"
        /\ d.verdict = c.verdict /\ d.parent \in Statuses
     \/ /\ c.pc = "prepare.update" /\ d.pc = "prepare.commit"
        /\ d.verdict \in {"DRAFT", main[c.req].status}
        /\ d.cost = c.cost
     \/ c.pc = "finalize.count" /\ d.pc = "finalize.reserve" /\ AllDecided(c.req)
     \/ /\ c.pc = "finalize.reserve"
        /\ d.pc = IF d.price.amount = 0 THEN "finalize.writeoff" ELSE "finalize.lock"
        /\ d.price \in {NoPrice, BudgetSource(c.req)}
     \/ c.pc = "finalize.lock" /\ d.pc = "finalize.writeoff" /\ d.price = c.price
     \/ /\ c.pc = "finalize.writeoff" /\ d.pc = "finalize.approve"
        /\ d.price = c.price /\ d.spend \in {NoPrice, BudgetSource(c.req)}

LEMMA MovedCalls ==
  ASSUME TypeOK, NEW s \in Sessions, Reads(s)
  PROVE  /\ Moved(call[s], call'[s]) /\ call' = [call EXCEPT ![s] = call'[s]]
         /\ UNCHANGED <<main, child, remaining, ledger>>
<1>0. call[s] \in Calls /\ DOMAIN call = Sessions BY DEF TypeOK
<1> DEFINE Goal == /\ Moved(call[s], call'[s]) /\ call' = [call EXCEPT ![s] = call'[s]]
                   /\ UNCHANGED <<main, child, remaining, ledger>>
<1>1. CASE SubmitReserve(s)
  <2> DEFINE p == BudgetSource(call[s].req)
             q == IF p.amount = 0 THEN "submit.split" ELSE "submit.lock"
  <2>1. call' = [call EXCEPT ![s].price = p, ![s].pc = q] BY <1>1 DEF SubmitReserve
  <2> HIDE DEF p
  <2>2. call'[s] = [call[s] EXCEPT !.price = p, !.pc = q] BY <1>0, <2>1
  <2>3. /\ call'[s].req = call[s].req /\ call'[s].emps = call[s].emps /\ call'[s].dzos = call[s].dzos
        /\ call'[s].price = p /\ call'[s].pc = q
    BY <1>0, <2>2 DEF Calls
  <2> QED BY <1>0, <1>1, <2>1, <2>3 DEF SubmitReserve, At, Moved, p
<1>2. CASE SubmitLock(s) BY <1>0, <1>2 DEF SubmitLock, LockBudget, At, Moved, Calls
<1>3. CASE EditDelete(s) BY <1>0, <1>3 DEF EditDelete, At, Moved, Calls
<1>4. CASE DecideUpdate(s)
  <2> DEFINE r == call[s].req
             seen == [x \in Children |-> IF x = r THEN call[s].verdict ELSE child[x].status]
             p == ParentStatus(r[1], seen)
  <2>1. p \in Statuses BY DEF ParentStatus, Statuses
  <2>2. call' = [call EXCEPT ![s].pc = "decide.commit", ![s].parent = p]
    BY <1>4 DEF DecideUpdate
  <2> HIDE DEF p
  <2>3. call'[s] = [call[s] EXCEPT !.pc = "decide.commit", !.parent = p] BY <1>0, <2>2
  <2>4. /\ call'[s].req = call[s].req /\ call'[s].emps = call[s].emps /\ call'[s].dzos = call[s].dzos
        /\ call'[s].verdict = call[s].verdict /\ call'[s].parent = p
        /\ call'[s].pc = "decide.commit"
    BY <1>0, <2>3 DEF Calls
  <2> QED BY <1>0, <1>4, <2>1, <2>2, <2>4 DEF DecideUpdate, At, Moved
<1>5. CASE PrepareUpdate(s)
  <2> DEFINE p == BudgetSource(call[s].req)
             v == IF p.amount > 0 /\ remaining[p.contract] < p.amount
                  THEN "DRAFT" ELSE main[call[s].req].status
  <2>1. v \in {"DRAFT", main[call[s].req].status} OBVIOUS
  <2>2. call' = [call EXCEPT ![s].pc = "prepare.commit", ![s].verdict = v]
    BY <1>5 DEF PrepareUpdate
  <2> HIDE DEF v
  <2>3. call'[s] = [call[s] EXCEPT !.pc = "prepare.commit", !.verdict = v] BY <1>0, <2>2
  <2>4. /\ call'[s].req = call[s].req /\ call'[s].emps = call[s].emps /\ call'[s].dzos = call[s].dzos
        /\ call'[s].cost = call[s].cost /\ call'[s].verdict = v
        /\ call'[s].pc = "prepare.commit"
    BY <1>0, <2>3 DEF Calls
  <2> QED BY <1>0, <1>5, <2>1, <2>2, <2>4 DEF PrepareUpdate, At, Moved
<1>6. CASE FinalizeCount(s) BY <1>0, <1>6 DEF FinalizeCount, At, Moved, Calls
<1>7. CASE FinalizeReserve(s)
  <2> DEFINE p == IF Has(call[s].req, "RESERVE") THEN NoPrice ELSE BudgetSource(call[s].req)
             q == IF p.amount = 0 THEN "finalize.writeoff" ELSE "finalize.lock"
  <2>1. p \in {NoPrice, BudgetSource(call[s].req)} OBVIOUS
  <2>2. call' = [call EXCEPT ![s].price = p, ![s].pc = q] BY <1>7 DEF FinalizeReserve
  <2> HIDE DEF p
  <2>3. call'[s] = [call[s] EXCEPT !.price = p, !.pc = q] BY <1>0, <2>2
  <2>4. /\ call'[s].req = call[s].req /\ call'[s].emps = call[s].emps /\ call'[s].dzos = call[s].dzos
        /\ call'[s].price = p /\ call'[s].pc = q
    BY <1>0, <2>3 DEF Calls
  <2> QED BY <1>0, <1>7, <2>1, <2>2, <2>4 DEF FinalizeReserve, At, Moved
<1>8. CASE FinalizeLock(s) BY <1>0, <1>8 DEF FinalizeLock, LockBudget, At, Moved, Calls
<1>9. CASE FinalizeWriteOff(s)
  <2> DEFINE p == Spend(call[s].req)
  <2>1. p \in {NoPrice, BudgetSource(call[s].req)} BY DEF Spend
  <2>2. call' = [call EXCEPT ![s].pc = "finalize.approve", ![s].spend = p]
    BY <1>9 DEF FinalizeWriteOff
  <2> HIDE DEF p
  <2>3. call'[s] = [call[s] EXCEPT !.pc = "finalize.approve", !.spend = p] BY <1>0, <2>2
  <2>4. /\ call'[s].req = call[s].req /\ call'[s].emps = call[s].emps /\ call'[s].dzos = call[s].dzos
        /\ call'[s].price = call[s].price /\ call'[s].spend = p
        /\ call'[s].pc = "finalize.approve"
    BY <1>0, <2>3 DEF Calls
  <2> QED BY <1>0, <1>9, <2>1, <2>2, <2>4 DEF FinalizeWriteOff, At, Moved
<1> HIDE DEF Goal
<1> QED BY <1>1, <1>2, <1>3, <1>4, <1>5, <1>6, <1>7, <1>8, <1>9 DEF Reads, Goal

\* Equal but for the rows an edit has seen.
Same(c, d) ==
  /\ d.pc = c.pc /\ d.req = c.req /\ d.emps = c.emps /\ d.verdict = c.verdict /\ d.parent = c.parent
  /\ d.cost = c.cost /\ d.price = c.price /\ d.spend = c.spend

LEMMA EndedCalls ==
  ASSUME TypeOK, NEW s \in Sessions, Commits(s) \/ Fail(s)
  PROVE  \A t \in Sessions : call'[t].pc = "idle" \/ Same(call[t], call'[t])
<1>1. CASE Return(s) BY <1>1 DEF Return, Idle, Same, TypeOK
<1>2. CASE EditInsert(s)
  <2> SUFFICES ASSUME NEW t \in Sessions
               PROVE  call'[t].pc = "idle" \/ Same(call[t], call'[t])
    OBVIOUS
  <2>1. call[t] \in Calls BY DEF TypeOK
  <2>2. \/ call'[t] = Idle
        \/ call'[t] = [call[t] EXCEPT !.rows = @ \ call[s].emps]
        \/ call'[t] = call[t]
    BY <1>2 DEF EditInsert
  <2>3. Same(call[t], [call[t] EXCEPT !.rows = @ \ call[s].emps]) BY <2>1 DEF Calls, Same
  <2>4. Same(call[t], call[t]) /\ Idle.pc = "idle" BY DEF Same, Idle
  <2> HIDE DEF Idle, Same
  <2> QED BY <2>2, <2>3, <2>4
<1> QED BY <1>1, <1>2 DEF Commits, Fail, SubmitSplit, DecideCommit, PrepareCommit, RemoveDelete,
                         StatusUpdate, FinalizeApprove, CancelCommit

(* A creation writes one new row, and an archive request costs nothing.    *)
LEMMA CreateSteps ==
  ASSUME Create
  PROVE  /\ UNCHANGED <<child, remaining, ledger, call>>
         /\ \E m \in Mains : \E row :
              /\ main[m] = NoMain /\ main' = [main EXCEPT ![m] = row]
              /\ row.status # "NONE" /\ (row.kind = "ARCHIVED" => row.cost = 0)
<1>1. ASSUME NEW old, NEW m \in Mains, NEW a, NEW ev, NEW cost, NEW E, NEW D,
             CreateAdminRequest(old, m, a, ev, cost, E, D)
      PROVE  /\ UNCHANGED <<child, remaining, ledger, call>>
             /\ \E row : /\ main[m] = NoMain /\ main' = [main EXCEPT ![m] = row]
                         /\ row.status # "NONE" /\ (row.kind = "ARCHIVED" => row.cost = 0)
  <2> DEFINE row == [NoMain EXCEPT !.status = "DRAFT", !.initiator = a,
                                   !.event = ev, !.cost = cost, !.emps = E, !.dzos = D]
  <2>1. row.status # "NONE" /\ row.kind = "REGULAR" BY DEF NoMain
  <2>2. /\ UNCHANGED <<child, remaining, ledger, call>>
        /\ main[m] = NoMain /\ main' = [main EXCEPT ![m] = row]
    BY <1>1 DEF CreateAdminRequest
  <2> HIDE DEF row
  <2> QED BY <2>1, <2>2
<1>2. ASSUME NEW m \in Mains, NEW d, NEW E, CreateHRRequest(m, d, E)
      PROVE  /\ UNCHANGED <<child, remaining, ledger, call>>
             /\ \E row : /\ main[m] = NoMain /\ main' = [main EXCEPT ![m] = row]
                         /\ row.status # "NONE" /\ (row.kind = "ARCHIVED" => row.cost = 0)
  <2> DEFINE row == [NoMain EXCEPT !.status = "IN_PROGRESS",
                                   !.initiator = HrOf[d], !.emps = E, !.dzos = {d}]
  <2>1. row.status # "NONE" /\ row.kind = "REGULAR" BY DEF NoMain
  <2>2. /\ UNCHANGED <<child, remaining, ledger, call>>
        /\ main[m] = NoMain /\ main' = [main EXCEPT ![m] = row]
    BY <1>2 DEF CreateHRRequest
  <2> HIDE DEF row
  <2> QED BY <2>1, <2>2
<1>3. ASSUME NEW m \in Mains, NEW a, NEW E, CreateArchiveRequest(m, a, E)
      PROVE  /\ UNCHANGED <<child, remaining, ledger, call>>
             /\ \E row : /\ main[m] = NoMain /\ main' = [main EXCEPT ![m] = row]
                         /\ row.status # "NONE" /\ (row.kind = "ARCHIVED" => row.cost = 0)
  <2> DEFINE row == [NoMain EXCEPT !.status = "COMPLETED",
                                   !.kind = "ARCHIVED", !.initiator = a, !.emps = E]
  <2>1. row.status # "NONE" /\ row.cost = 0 BY DEF NoMain
  <2>2. /\ UNCHANGED <<child, remaining, ledger, call>>
        /\ main[m] = NoMain /\ main' = [main EXCEPT ![m] = row]
    BY <1>3 DEF CreateArchiveRequest
  <2> HIDE DEF row
  <2> QED BY <2>1, <2>2
<1> QED BY <1>1, <1>2, <1>3 DEF Create
-----------------------------------------------------------------------------
(* ChildrenStayInDzo: the participants an edit is about to write belong to *)
(* the DZO of its subrequest.                                              *)
DzoInv ==
  /\ ChildrenStayInDzo
  /\ \A s \in Sessions : call[s].pc \in Edits => call[s].emps \subseteq DzoStaff(call[s].req[3])

(* What the transactions write to subrequests.                             *)
LEMMA ChildWrites ==
  ASSUME TypeOK, NEW s \in Sessions, Commits(s), NEW r \in Children
  PROVE  \/ child'[r] = child[r]
         \/ /\ SubmitSplit(s) /\ r[1] = call[s].req /\ child[r] = NoChild
            /\ child'[r].status = "IN_PROGRESS" /\ child'[r].emps = SplitEmps(s, r[3])
         \/ /\ EditInsert(s) /\ r = call[s].req
            /\ child'[r].status = child[r].status
            /\ child'[r].emps = (child[r].emps \ call[s].rows) \cup call[s].emps
         \/ /\ DecideCommit(s) /\ r = call[s].req
            /\ child'[r].status = call[s].verdict /\ child'[r].emps = child[r].emps
         \/ /\ CancelCommit(s) /\ r[1] = call[s].req /\ Open(r)
            /\ child'[r].status = "REJECTED" /\ child'[r].emps = child[r].emps
<1> DEFINE Goal == \/ child'[r] = child[r]
         \/ /\ SubmitSplit(s) /\ r[1] = call[s].req /\ child[r] = NoChild
            /\ child'[r].status = "IN_PROGRESS" /\ child'[r].emps = SplitEmps(s, r[3])
         \/ /\ EditInsert(s) /\ r = call[s].req
            /\ child'[r].status = child[r].status
            /\ child'[r].emps = (child[r].emps \ call[s].rows) \cup call[s].emps
         \/ /\ DecideCommit(s) /\ r = call[s].req
            /\ child'[r].status = call[s].verdict /\ child'[r].emps = child[r].emps
         \/ /\ CancelCommit(s) /\ r[1] = call[s].req /\ Open(r)
            /\ child'[r].status = "REJECTED" /\ child'[r].emps = child[r].emps
<1>0. child[r] \in ChildRows /\ DOMAIN child = Children BY DEF TypeOK
<1>1. CASE SubmitSplit(s)
  <2> DEFINE m == call[s].req
  <2>1. PICK k \in Rounds : /\ Unused(m, k)
               /\ child' = [x \in Children |->
                    IF x[1] = m /\ x[2] = k /\ x[3] \in call[s].dzos
                    THEN [status |-> "IN_PROGRESS", emps |-> SplitEmps(s, x[3])]
                    ELSE child[x]]
    BY <1>1 DEF SubmitSplit
  <2>2. r = <<r[1], r[2], r[3]>> /\ r[3] \in Dzos BY DEF Children
  <2>3. CASE r[1] = m /\ r[2] = k /\ r[3] \in call[s].dzos
    <3>1. child[r] = NoChild BY <2>1, <2>2, <2>3 DEF Unused
    <3>2. child'[r] = [status |-> "IN_PROGRESS", emps |-> SplitEmps(s, r[3])] BY <2>1, <2>3
    <3> QED BY <1>1, <2>3, <3>1, <3>2
  <2>4. CASE ~(r[1] = m /\ r[2] = k /\ r[3] \in call[s].dzos) BY <2>1, <2>4
  <2> QED BY <2>3, <2>4
<1>2. CASE EditInsert(s)
  <2>1. child' = [child EXCEPT ![call[s].req] =
                    Edited(@, (child[call[s].req].emps \ call[s].rows) \cup call[s].emps)]
    BY <1>2 DEF EditInsert
  <2> QED BY <1>0, <1>2, <2>1 DEF Edited, ChildRows
<1>3. CASE DecideCommit(s)
  <2>1. child' = [child EXCEPT ![call[s].req].status = call[s].verdict] BY <1>3 DEF DecideCommit
  <2> QED BY <1>0, <1>3, <2>1 DEF ChildRows
<1>4. CASE CancelCommit(s)
  <2>1. child' = [x \in Children |-> IF Closes(call[s].req, x)
                                     THEN [child[x] EXCEPT !.status = "REJECTED"] ELSE child[x]]
    BY <1>4 DEF CancelCommit
  <2> QED BY <1>0, <1>4, <2>1 DEF ChildRows, Closes
<1>5. CASE PrepareCommit(s) \/ RemoveDelete(s) \/ StatusUpdate(s) \/ FinalizeApprove(s)
  BY <1>5 DEF PrepareCommit, RemoveDelete, StatusUpdate, FinalizeApprove
<1> HIDE DEF Goal
<1>6. Goal BY <1>1, <1>2, <1>3, <1>4, <1>5 DEF Commits, Goal
<1> QED BY <1>6 DEF Goal

LEMMA DzoStep == TypeOK /\ DzoInv /\ [Next]_vars => DzoInv'
<1> SUFFICES ASSUME TypeOK, DzoInv, [Next]_vars PROVE DzoInv'
  OBVIOUS
<1> USE DEF Edits
<1>1. CASE Create BY <1>1, CreateSteps DEF DzoInv, ChildrenStayInDzo
<1>2. ASSUME NEW s \in Sessions, AdminCall(s) \/ HRCall(s) PROVE DzoInv'
  <2>1. PICK c : Fresh(c) /\ call' = [call EXCEPT ![s] = c] BY <1>2, NewCalls
  <2>2. UNCHANGED child BY <1>2, NewCalls
  <2>3. c.pc \in Edits => c.emps \subseteq DzoStaff(c.req[3]) BY <2>1 DEF Fresh
  <2> QED BY <2>1, <2>2, <2>3 DEF DzoInv, ChildrenStayInDzo, TypeOK
<1>3. ASSUME NEW s \in Sessions, Reads(s) PROVE DzoInv'
  <2>1. /\ Moved(call[s], call'[s]) /\ call' = [call EXCEPT ![s] = call'[s]] /\ UNCHANGED child
    BY <1>3, MovedCalls
  <2>2. call'[s].pc \in Edits => call'[s].emps \subseteq DzoStaff(call'[s].req[3])
    BY <2>1 DEF Moved, DzoInv
  <2>3. \A t \in Sessions \ {s} : call'[t] = call[t] BY <2>1 DEF TypeOK
  <2> QED BY <2>1, <2>2, <2>3 DEF DzoInv, ChildrenStayInDzo
<1>4. ASSUME NEW s \in Sessions, Commits(s) PROVE DzoInv'
  <2>1. \A t \in Sessions : call'[t].pc \in Edits => call'[t].emps \subseteq DzoStaff(call'[t].req[3])
    BY <1>4, EndedCalls DEF Same, DzoInv
  <2>2. ASSUME NEW r \in Children PROVE child'[r].emps \subseteq DzoStaff(r[3])
    <3>1. child[r].emps \subseteq DzoStaff(r[3]) BY DEF DzoInv, ChildrenStayInDzo
    <3>2. SplitEmps(s, r[3]) \subseteq DzoStaff(r[3]) BY DEF SplitEmps
    <3>3. EditInsert(s) /\ r = call[s].req => call[s].emps \subseteq DzoStaff(r[3])
      BY DEF EditInsert, At, DzoInv
    <3> QED BY <1>4, <3>1, <3>2, <3>3, ChildWrites
  <2> QED BY <2>1, <2>2 DEF DzoInv, ChildrenStayInDzo
<1>5. ASSUME NEW s \in Sessions, Fail(s) PROVE DzoInv'
  BY <1>5, EndedCalls DEF Same, DzoInv, ChildrenStayInDzo, Fail
<1>6. CASE UNCHANGED vars BY <1>6 DEF vars, DzoInv, ChildrenStayInDzo
<1> QED BY <1>1, <1>2, <1>3, <1>4, <1>5, <1>6 DEF Next

(* submitRequest splits by DZO and updateHRRequestEmployees checks it: no   *)
(* interleaving puts an employee of another DZO on a subrequest.           *)
THEOREM ParticipantsOfDzo == Spec => []ChildrenStayInDzo
<1>1. Init => DzoInv
  BY DEF Init, DzoInv, ChildrenStayInDzo, NoChild, Idle, Edits
<1>2. DzoInv => ChildrenStayInDzo BY DEF DzoInv
<1> QED BY <1>1, <1>2, DzoStep, TypeCorrect, PTL DEF Spec
-----------------------------------------------------------------------------
(* NeverReopened: a decision on its way is an approval or a rejection.     *)
VerdictInv ==
  \A s \in Sessions : call[s].pc \in Decides => call[s].verdict \in {"APPROVED", "REJECTED"}

LEMMA VerdictStep == TypeOK /\ VerdictInv /\ [Next]_vars => VerdictInv'
<1> SUFFICES ASSUME TypeOK, VerdictInv, [Next]_vars PROVE VerdictInv'
  OBVIOUS
<1> USE DEF Decides
<1>1. CASE Create BY <1>1, CreateSteps DEF VerdictInv
<1>2. ASSUME NEW s \in Sessions, AdminCall(s) \/ HRCall(s) PROVE VerdictInv'
  <2>1. PICK c : Fresh(c) /\ call' = [call EXCEPT ![s] = c] BY <1>2, NewCalls
  <2>2. c.pc \in Decides => c.verdict \in {"APPROVED", "REJECTED"} BY <2>1 DEF Fresh
  <2> QED BY <2>1, <2>2 DEF VerdictInv, TypeOK
<1>3. ASSUME NEW s \in Sessions, Reads(s) PROVE VerdictInv'
  <2>1. Moved(call[s], call'[s]) /\ call' = [call EXCEPT ![s] = call'[s]]
    BY <1>3, MovedCalls
  <2>2. call'[s].pc \in Decides => call'[s].verdict \in {"APPROVED", "REJECTED"}
    BY <2>1 DEF Moved, VerdictInv
  <2>3. \A t \in Sessions \ {s} : call'[t] = call[t] BY <2>1 DEF TypeOK
  <2> QED BY <2>2, <2>3 DEF VerdictInv
<1>4. ASSUME NEW s \in Sessions, Commits(s) \/ Fail(s) PROVE VerdictInv'
  BY <1>4, EndedCalls DEF Same, VerdictInv
<1>5. CASE UNCHANGED vars BY <1>5 DEF vars, VerdictInv
<1> QED BY <1>1, <1>2, <1>3, <1>4, <1>5 DEF Next

LEMMA DecidedStays ==
  ASSUME TypeOK, VerdictInv, [Next]_vars, NEW r \in Children, ~Open(r), child[r] # NoChild
  PROVE  ~Open(r)'
<1> USE DEF Open, OpenStatuses
<1>1. CASE Create BY <1>1, CreateSteps
<1>2. ASSUME NEW s \in Sessions, AdminCall(s) \/ HRCall(s) PROVE ~Open(r)'
  BY <1>2, NewCalls
<1>3. ASSUME NEW s \in Sessions, Reads(s) PROVE ~Open(r)'
  BY <1>3, MovedCalls
<1>4. ASSUME NEW s \in Sessions, Commits(s) PROVE ~Open(r)'
  <2>1. DecideCommit(s) => call[s].verdict \in {"APPROVED", "REJECTED"}
    BY DEF DecideCommit, At, VerdictInv, Decides
  <2> QED BY <1>4, <2>1, ChildWrites
<1>5. ASSUME NEW s \in Sessions, Fail(s) PROVE ~Open(r)'
  BY <1>5 DEF Fail
<1>6. CASE UNCHANGED vars BY <1>6 DEF vars
<1> QED BY <1>1, <1>2, <1>3, <1>4, <1>5, <1>6 DEF Next

(* A decision about a subrequest, or its cancellation, is final for every  *)
(* call, also one that has read it before.                                 *)
THEOREM DecisionsAreFinal == Spec => NeverReopened
<1>1. Init => VerdictInv BY DEF Init, VerdictInv, Idle, Decides
<1>2. TypeOK /\ VerdictInv /\ [Next]_vars =>
        [\A r \in Children : ~Open(r) /\ child[r] # NoChild => ~Open(r)']_child
  BY DecidedStays
<1> QED BY <1>1, <1>2, VerdictStep, TypeCorrect, PTL DEF Spec, NeverReopened
-----------------------------------------------------------------------------
(* ArchiveNeverCharged: an archive request has no price, and no call that  *)
(* could split it, give it a price or book something passes its check; the *)
(* rows of a request appear only after the request.                        *)
Exists(r) == child[r].status # "NONE"
Untouched(m) == ledger[m] = <<>> /\ \A r \in ChildrenOf(m) : child[r] = NoChild
RegularPcs == {"submit.reserve", "submit.lock", "submit.split", "prepare.update", "prepare.commit"}
SpendingPcs == {"finalize.lock", "finalize.writeoff", "finalize.approve"}

ArchiveCall(c) ==
  /\ c.pc \in PcsOfMain => Created(c.req)
  /\ c.pc \in PcsOfChild => Exists(c.req)
  /\ c.pc \in {"status.update", "prepare.commit"} => c.verdict # "NONE"
  /\ c.pc = "decide.commit" => c.parent # "NONE"
  /\ c.pc \in RegularPcs => main[c.req].kind = "REGULAR"
  /\ main[c.req].kind = "ARCHIVED" =>
       /\ c.pc \in SpendingPcs => c.price.amount = 0
       /\ c.pc = "finalize.approve" => c.spend.amount = 0

ArchiveInv ==
  /\ \A m \in Mains : /\ main[m].kind = "ARCHIVED" => main[m].cost = 0
                      /\ ~Created(m) \/ main[m].kind = "ARCHIVED" => Untouched(m)
  /\ \A s \in Sessions : ArchiveCall(call[s])

\* What every step keeps of the rows there are.
Grown == /\ \A m \in Mains : Created(m) => Created(m)' /\ main'[m].kind = main[m].kind
         /\ \A r \in Children : Exists(r) => Exists(r)'

LEMMA ArchiveCallKept ==
  ASSUME TypeOK, Grown, NEW t \in Sessions, ArchiveCall(call[t]), Same(call[t], call'[t])
  PROVE  ArchiveCall(call[t])'
<1>1. /\ call[t].pc \in PcsOfMain => call[t].req \in Mains /\ Created(call[t].req)
      /\ call[t].pc \in PcsOfChild => call[t].req \in Children /\ Exists(call[t].req)
      /\ RegularPcs \cup SpendingPcs \subseteq PcsOfMain /\ "finalize.approve" \in PcsOfMain
  BY DEF TypeOK, ArchiveCall, RegularPcs, SpendingPcs, PcsOfMain
<1>2. /\ call'[t].pc = call[t].pc /\ call'[t].req = call[t].req
      /\ call'[t].verdict = call[t].verdict /\ call'[t].parent = call[t].parent
      /\ call'[t].price = call[t].price /\ call'[t].spend = call[t].spend
  BY DEF Same
<1>3. /\ call[t].pc \in PcsOfMain => Created(call[t].req)'
                                     /\ main'[call[t].req].kind = main[call[t].req].kind
      /\ call[t].pc \in PcsOfChild => Exists(call[t].req)'
  BY <1>1, <1>2 DEF Grown, Created, Exists
<1> QED BY <1>1, <1>2, <1>3 DEF ArchiveCall

(* A request that costs nothing has no price.                              *)
LEMMA FreeSource == \A m \in Mains : main[m].cost = 0 => BudgetSource(m).amount = 0
BY DEF BudgetSource, NoPrice

(* What the transactions write to main requests.                           *)
LEMMA MainWrites ==
  ASSUME TypeOK, ArchiveInv, NEW s \in Sessions, Commits(s), NEW m \in Mains
  PROVE  /\ Created(m)' <=> Created(m)
         /\ main'[m].kind = main[m].kind
         /\ main[m].kind = "ARCHIVED" => main'[m].cost = main[m].cost
<1> DEFINE Goal == /\ Created(m)' <=> Created(m)
                   /\ main'[m].kind = main[m].kind
                   /\ main[m].kind = "ARCHIVED" => main'[m].cost = main[m].cost
<1>0. main[m] \in MainRows /\ DOMAIN main = Mains /\ ArchiveCall(call[s]) BY DEF TypeOK, ArchiveInv
<1>1. ASSUME NEW x \in Mains, NEW st, st # "NONE", Created(x), main' = [main EXCEPT ![x].status = st]
      PROVE  Goal
  BY <1>0, <1>1 DEF MainRows, Created
<1>2. CASE SubmitSplit(s)
  <2>1. call[s].req \in Mains /\ Created(call[s].req)
    BY <1>0, <1>2 DEF SubmitSplit, At, TypeOK, ArchiveCall, PcsOfMain
  <2> QED BY <1>1, <1>2, <2>1 DEF SubmitSplit
<1>3. CASE DecideCommit(s)
  <2>1. /\ call[s].req \in Children /\ Exists(call[s].req) /\ call[s].parent # "NONE"
    BY <1>0, <1>3 DEF DecideCommit, At, TypeOK, ArchiveCall, PcsOfChild
  <2>2. call[s].req[1] \in Mains /\ call[s].req \in ChildrenOf(call[s].req[1])
    BY <2>1 DEF Children, ChildrenOf
  <2>3. Created(call[s].req[1]) BY <2>1, <2>2 DEF ArchiveInv, Untouched, Exists, NoChild
  <2> QED BY <1>1, <1>3, <2>1, <2>2, <2>3 DEF DecideCommit
<1>4. CASE PrepareCommit(s)
  <2>1. /\ call[s].req \in Mains /\ Created(call[s].req) /\ call[s].verdict # "NONE"
        /\ main[call[s].req].kind = "REGULAR"
    BY <1>0, <1>4 DEF PrepareCommit, At, TypeOK, ArchiveCall, PcsOfMain, RegularPcs
  <2>2. main' = [main EXCEPT ![call[s].req] = [@ EXCEPT !.event = call[s].event,
                                                        !.cost = call[s].cost,
                                                        !.status = call[s].verdict]]
    BY <1>4 DEF PrepareCommit
  <2> QED BY <1>0, <2>1, <2>2 DEF MainRows, Created
<1>5. CASE RemoveDelete(s)
  <2>1. main' = [main EXCEPT ![call[s].req].emps = @ \ call[s].emps] BY <1>5 DEF RemoveDelete
  <2> QED BY <1>0, <2>1 DEF MainRows, Created
<1>6. CASE StatusUpdate(s)
  <2>1. call[s].req \in Mains /\ Created(call[s].req) /\ call[s].verdict # "NONE"
    BY <1>0, <1>6 DEF StatusUpdate, At, TypeOK, ArchiveCall, PcsOfMain
  <2> QED BY <1>1, <1>6, <2>1 DEF StatusUpdate
<1>7. CASE FinalizeApprove(s)
  <2>1. call[s].req \in Mains /\ Created(call[s].req)
    BY <1>0, <1>7 DEF FinalizeApprove, At, TypeOK, ArchiveCall, PcsOfMain
  <2> QED BY <1>1, <1>7, <2>1 DEF FinalizeApprove
<1>8. CASE CancelCommit(s)
  <2>1. call[s].req \in Mains /\ Created(call[s].req)
    BY <1>0, <1>8 DEF CancelCommit, At, TypeOK, ArchiveCall, PcsOfMain
  <2> QED BY <1>1, <1>8, <2>1 DEF CancelCommit
<1>9. CASE EditInsert(s) BY <1>9 DEF EditInsert, Created
<1> QED BY <1>2, <1>3, <1>4, <1>5, <1>6, <1>7, <1>8, <1>9 DEF Commits

(* Only for a regular request is something booked.                         *)
LEMMA LedgerWrites ==
  ASSUME TypeOK, ArchiveInv, NEW s \in Sessions, Commits(s), NEW m \in Mains,
         ~Created(m) \/ main[m].kind = "ARCHIVED"
  PROVE  ledger'[m] = ledger[m]
<1> DEFINE q == call[s].req
<1>0. DOMAIN ledger = Mains /\ ArchiveCall(call[s]) BY DEF TypeOK, ArchiveInv
<1>1. CASE SubmitSplit(s)
  <2>1. Created(q) /\ main[q].kind = "REGULAR"
    BY <1>0, <1>1 DEF SubmitSplit, At, ArchiveCall, PcsOfMain, RegularPcs
  <2> QED BY <1>0, <1>1, <2>1 DEF SubmitSplit, Book
<1>2. CASE FinalizeApprove(s)
  <2>1. q \in Mains /\ Created(q) BY <1>0, <1>2 DEF FinalizeApprove, At, ArchiveCall, PcsOfMain, TypeOK
  <2>2. Book(q, Entry("RESERVE", call[s].price) \o Entry("WRITE_OFF", call[s].spend))
    BY <1>2 DEF FinalizeApprove
  <2>3. CASE q # m BY <1>0, <2>2, <2>3 DEF Book
  <2>4. CASE q = m
    <3>1. call[s].price.amount = 0 /\ call[s].spend.amount = 0
      BY <1>0, <1>2, <2>1, <2>4 DEF FinalizeApprove, At, ArchiveCall, SpendingPcs
    <3>2. Entry("RESERVE", call[s].price) = <<>> /\ Entry("WRITE_OFF", call[s].spend) = <<>>
      BY <3>1 DEF Entry
    <3>3. <<>> \o <<>> = <<>> BY JoinRows
    <3>4. Book(q, <<>>) BY <2>2, <3>2, <3>3
    <3> QED BY <2>1, <3>4, BookNone
  <2> QED BY <2>3, <2>4
<1>3. CASE CancelCommit(s)
  <2>1. q \in Mains /\ Created(q) BY <1>0, <1>3 DEF CancelCommit, At, ArchiveCall, PcsOfMain, TypeOK
  <2>2. RefundBudget(q) BY <1>3 DEF CancelCommit
  <2>3. CASE q # m BY <1>0, <2>2, <2>3 DEF RefundBudget, Book
  <2>4. CASE q = m
    <3>1. BudgetSource(q).amount = 0 BY <2>1, <2>4, FreeSource DEF ArchiveInv
    <3> QED BY <2>2, <3>1 DEF RefundBudget
  <2> QED BY <2>3, <2>4
<1>4. CASE EditInsert(s) \/ DecideCommit(s) \/ PrepareCommit(s) \/ RemoveDelete(s) \/ StatusUpdate(s)
  BY <1>4 DEF EditInsert, DecideCommit, PrepareCommit, RemoveDelete, StatusUpdate
<1> QED BY <1>1, <1>2, <1>3, <1>4 DEF Commits

LEMMA ArchiveStep == TypeOK /\ VerdictInv /\ ArchiveInv /\ [Next]_vars => ArchiveInv'
<1> SUFFICES ASSUME TypeOK, VerdictInv, ArchiveInv, [Next]_vars PROVE ArchiveInv'
  OBVIOUS
<1>0. ASSUME UNCHANGED <<main, child, ledger>>, \A s \in Sessions : ArchiveCall(call[s])'
      PROVE  ArchiveInv'
  BY <1>0 DEF ArchiveInv, Created, Untouched
<1>1. CASE Create
  <2>a. PICK m \in Mains : \E row : /\ main[m] = NoMain /\ main' = [main EXCEPT ![m] = row]
                                    /\ row.status # "NONE" /\ (row.kind = "ARCHIVED" => row.cost = 0)
    BY <1>1, CreateSteps
  <2>1. PICK row : /\ main[m] = NoMain /\ main' = [main EXCEPT ![m] = row]
                   /\ row.status # "NONE" /\ (row.kind = "ARCHIVED" => row.cost = 0)
    BY <2>a
  <2>2. UNCHANGED <<child, remaining, ledger, call>> BY <1>1, CreateSteps
  <2>3. ~Created(m) BY <2>1 DEF Created, NoMain
  <2>4. \A x \in Mains : x # m => main'[x] = main[x] BY <2>1 DEF TypeOK
  <2>5. main'[m] = row BY <2>1 DEF TypeOK
  <2>6. Grown BY <2>2, <2>3, <2>4 DEF Grown, Created, Exists
  <2>7. ASSUME NEW s \in Sessions PROVE ArchiveCall(call[s])'
    <3>1. ArchiveCall(call[s]) /\ Same(call[s], call'[s]) BY <2>2 DEF ArchiveInv, Same
    <3> QED BY <2>6, <3>1, ArchiveCallKept
  <2>8. ASSUME NEW x \in Mains
        PROVE  /\ main'[x].kind = "ARCHIVED" => main'[x].cost = 0
               /\ ~Created(x)' \/ main'[x].kind = "ARCHIVED" => Untouched(x)'
    <3>1. Untouched(x)' <=> Untouched(x) BY <2>2 DEF Untouched
    <3>2. CASE x = m BY <2>1, <2>3, <2>5, <3>1, <3>2 DEF ArchiveInv
    <3>3. CASE x # m BY <2>4, <3>1, <3>3 DEF ArchiveInv, Created
    <3> QED BY <3>2, <3>3
  <2> QED BY <2>7, <2>8 DEF ArchiveInv
<1>2. ASSUME NEW s \in Sessions, AdminCall(s) \/ HRCall(s) PROVE ArchiveInv'
  <2>1. PICK c : Fresh(c) /\ call' = [call EXCEPT ![s] = c] BY <1>2, NewCalls
  <2>2. UNCHANGED <<main, child, remaining, ledger>> BY <1>2, NewCalls
  <2>3. ArchiveCall(c)
    BY <2>1 DEF ArchiveCall, Fresh, Created, Open, OpenStatuses, Exists, RegularPcs, SpendingPcs
  <2>4. \A t \in Sessions : call'[t] = c \/ call'[t] = call[t] BY <2>1 DEF TypeOK
  <2>5. \A t \in Sessions : ArchiveCall(call'[t]) BY <2>3, <2>4 DEF ArchiveInv
  <2>6. \A t \in Sessions : ArchiveCall(call[t])'
    BY <2>2, <2>5 DEF ArchiveCall, Created, Exists
  <2> QED BY <1>0, <2>2, <2>6
<1>3. ASSUME NEW s \in Sessions, Reads(s) PROVE ArchiveInv'
  <2>1. /\ Moved(call[s], call'[s]) /\ call' = [call EXCEPT ![s] = call'[s]]
        /\ UNCHANGED <<main, child, remaining, ledger>>
    BY <1>3, MovedCalls
  <2>3. call[s].pc \in PcsOfMain /\ main[call[s].req].kind = "ARCHIVED" =>
          BudgetSource(call[s].req).amount = 0
    BY FreeSource DEF ArchiveInv, TypeOK
  <2>4. ArchiveCall(call'[s])
    <3>1. ArchiveCall(call[s]) BY DEF ArchiveInv
    <3>2. NoPrice.amount = 0 /\ "NONE" \notin Statuses BY DEF NoPrice, Statuses
    <3> DEFINE c == call[s]
               d == call'[s]
    <3>3. d.req = c.req BY <2>1 DEF Moved
    <3>4. /\ d.pc \in PcsOfMain => c.pc \in PcsOfMain
          /\ d.pc \in PcsOfChild => c.pc \in PcsOfChild
          /\ d.pc \in RegularPcs => c.pc \in RegularPcs
      BY <2>1 DEF Moved, PcsOfMain, PcsOfChild, RegularPcs
    <3>5. d.pc = "prepare.commit" => d.verdict # "NONE"
      BY <2>1, <3>1 DEF Moved, ArchiveCall, PcsOfMain, Created
    <3>6. d.pc # "status.update" /\ (d.pc = "decide.commit" => d.parent # "NONE")
      BY <2>1, <3>2 DEF Moved
    <3>7. main[c.req].kind = "ARCHIVED" =>
            /\ d.pc \in SpendingPcs => d.price.amount = 0
            /\ d.pc = "finalize.approve" => d.spend.amount = 0
      BY <2>1, <2>3, <3>1, <3>2 DEF Moved, ArchiveCall, SpendingPcs, PcsOfMain
    <3> HIDE DEF c, d
    <3>8. ArchiveCall(c) BY <3>1 DEF c
    <3>9. ArchiveCall(d) BY <3>3, <3>4, <3>5, <3>6, <3>7, <3>8 DEF ArchiveCall
    <3> QED BY <3>9 DEF d
  <2>5. \A t \in Sessions : t # s => call'[t] = call[t] BY <2>1 DEF TypeOK
  <2>6. \A t \in Sessions : ArchiveCall(call'[t]) BY <2>4, <2>5 DEF ArchiveInv
  <2>7. \A t \in Sessions : ArchiveCall(call[t])'
    BY <2>1, <2>6 DEF ArchiveCall, Created, Exists
  <2> QED BY <1>0, <2>1, <2>7
<1>4. ASSUME NEW s \in Sessions, Commits(s) PROVE ArchiveInv'
  <2>1. \A m \in Mains : /\ Created(m)' <=> Created(m)
                         /\ main'[m].kind = main[m].kind
                         /\ main[m].kind = "ARCHIVED" => main'[m].cost = main[m].cost
    BY <1>4, MainWrites
  <2>2. DecideCommit(s) => call[s].verdict # "NONE"
    BY DEF DecideCommit, At, VerdictInv, Decides
  <2>3. \A r \in Children : Exists(r) => Exists(r)' BY <1>4, <2>2, ChildWrites DEF Exists
  <2>4. Grown BY <2>1, <2>3 DEF Grown
  <2>5. ASSUME NEW t \in Sessions PROVE ArchiveCall(call[t])'
    <3>1. ArchiveCall(call[t]) BY DEF ArchiveInv
    <3>2. CASE Same(call[t], call'[t]) BY <2>4, <3>1, <3>2, ArchiveCallKept
    <3>3. CASE call'[t].pc = "idle"
      BY <3>3 DEF ArchiveCall, PcsOfMain, PcsOfChild, RegularPcs, SpendingPcs
    <3> QED BY <1>4, <3>2, <3>3, EndedCalls
  <2>6. ASSUME NEW m \in Mains, ~Created(m) \/ main[m].kind = "ARCHIVED" PROVE Untouched(m)'
    <3>1. Untouched(m) BY <2>6 DEF ArchiveInv
    <3>2. ledger'[m] = <<>> BY <1>4, <2>6, <3>1, LedgerWrites DEF Untouched
    <3>3. ASSUME NEW r \in ChildrenOf(m) PROVE child'[r] = NoChild
      <4>1. r \in Children /\ r[1] = m /\ child[r] = NoChild BY <3>1 DEF ChildrenOf, Untouched
      <4>2. ~Exists(r) /\ ~Open(r) BY <4>1 DEF NoChild, Exists, Open, OpenStatuses
      <4>3. SubmitSplit(s) => call[s].req # m
        BY <2>6 DEF SubmitSplit, At, ArchiveInv, ArchiveCall, PcsOfMain, RegularPcs
      <4>4. EditInsert(s) \/ DecideCommit(s) => call[s].req # r
        BY <4>2 DEF EditInsert, DecideCommit, At, ArchiveInv, ArchiveCall, PcsOfChild
      <4> QED BY <1>4, <4>1, <4>2, <4>3, <4>4, ChildWrites
    <3> QED BY <3>2, <3>3 DEF Untouched
  <2> QED BY <2>1, <2>5, <2>6 DEF ArchiveInv
<1>5. ASSUME NEW s \in Sessions, Fail(s) PROVE ArchiveInv'
  <2>1. UNCHANGED <<main, child, ledger>> BY <1>5 DEF Fail
  <2>2. Grown BY <2>1 DEF Grown, Created, Exists
  <2>3. ASSUME NEW t \in Sessions PROVE ArchiveCall(call[t])'
    <3>1. ArchiveCall(call[t]) BY DEF ArchiveInv
    <3>2. CASE Same(call[t], call'[t]) BY <2>2, <3>1, <3>2, ArchiveCallKept
    <3>3. CASE call'[t].pc = "idle"
      BY <3>3 DEF ArchiveCall, PcsOfMain, PcsOfChild, RegularPcs, SpendingPcs
    <3> QED BY <1>5, <3>2, <3>3, EndedCalls
  <2> QED BY <1>0, <2>1, <2>3
<1>6. CASE UNCHANGED vars
  <2>1. \A t \in Sessions : ArchiveCall(call[t])'
    BY <1>6 DEF vars, ArchiveInv, ArchiveCall, Created, Exists
  <2> QED BY <1>0, <1>6, <2>1 DEF vars
<1> QED BY <1>1, <1>2, <1>3, <1>4, <1>5, <1>6 DEF Next

LEMMA ArchiveCorrect == Spec => [](VerdictInv /\ ArchiveInv)
<1>1. Init => VerdictInv /\ ArchiveInv
  <2>1. Init => VerdictInv BY DEF Init, VerdictInv, Idle, Decides
  <2>2. Init => \A s \in Sessions : ArchiveCall(call[s])
    BY DEF Init, ArchiveCall, Idle, PcsOfMain, PcsOfChild, RegularPcs, SpendingPcs
  <2>3. Init => \A m \in Mains : main[m].kind = "REGULAR" /\ Untouched(m)
    BY DEF Init, NoMain, Untouched, ChildrenOf
  <2> QED BY <2>1, <2>2, <2>3 DEF ArchiveInv
<1> QED BY <1>1, VerdictStep, ArchiveStep, TypeCorrect, PTL DEF Spec

(* Whatever is called on an archive request, also at the same time: no     *)
(* contract pays for it and no HR is asked about it.                       *)
THEOREM ArchiveIsFree == Spec => []ArchiveNeverCharged
<1>1. ArchiveInv => ArchiveNeverCharged BY DEF ArchiveInv, ArchiveNeverCharged, Untouched
<1> QED BY <1>1, ArchiveCorrect, PTL
-----------------------------------------------------------------------------
(* Several calls at once.  The check of a handler still holds at its       *)
(* commit as long as no other call writes what it has read.  MainOf names  *)
(* the request a call is about; Apart(P) says that calls at statements of  *)
(* P are about different requests, and any other calls may overlap.        *)
MainOf(s) == IF call[s].pc \in PcsOfMain THEN call[s].req ELSE call[s].req[1]

Apart(P) == \A s, t \in Sessions :
  s # t /\ call[s].pc \in P /\ call[t].pc \in P => MainOf(s) # MainOf(t)

Acts(s) == AdminCall(s) \/ HRCall(s) \/ Reads(s) \/ Commits(s) \/ Fail(s)

(* A step of one session moves no other call.                              *)
LEMMA OthersStay ==
  ASSUME TypeOK, NEW s \in Sessions, Acts(s), NEW t \in Sessions, t # s
  PROVE  Same(call[t], call'[t]) /\ call'[t].dzos = call[t].dzos
<1>0. DOMAIN call = Sessions /\ call[t] \in Calls BY DEF TypeOK
<1>1. ASSUME NEW c, call' = [call EXCEPT ![s] = c]
      PROVE  Same(call[t], call'[t]) /\ call'[t].dzos = call[t].dzos
  BY <1>0, <1>1 DEF Same
<1>2. CASE AdminCall(s) \/ HRCall(s)
  <2>1. \E c : call' = [call EXCEPT ![s] = c] BY <1>2, NewCalls
  <2> QED BY <1>1, <2>1
<1>3. CASE Reads(s)
  <2>1. call' = [call EXCEPT ![s] = call'[s]] BY <1>3, MovedCalls
  <2> QED BY <1>1, <2>1
<1>4. CASE Return(s) BY <1>1, <1>4 DEF Return
<1>5. CASE EditInsert(s)
  <2>1. call'[t] = call[t] \/ call'[t] = [call[t] EXCEPT !.rows = @ \ call[s].emps]
    BY <1>5 DEF EditInsert
  <2>2. /\ Same(call[t], [call[t] EXCEPT !.rows = @ \ call[s].emps])
        /\ [call[t] EXCEPT !.rows = @ \ call[s].emps].dzos = call[t].dzos
        /\ Same(call[t], call[t])
    BY <1>0 DEF Calls, Same
  <2> HIDE DEF Same
  <2> QED BY <2>1, <2>2
<1> QED BY <1>2, <1>3, <1>4, <1>5
        DEF Acts, Commits, Fail, SubmitSplit, DecideCommit, PrepareCommit, RemoveDelete,
            StatusUpdate, FinalizeApprove, CancelCommit

(* A transaction that commits or fails ends the call.                      *)
LEMMA CallEnds ==
  ASSUME TypeOK, NEW s \in Sessions, Commits(s) \/ Fail(s)
  PROVE  call'[s] = Idle
<1>1. CASE Return(s) BY <1>1 DEF Return, TypeOK
<1>2. CASE EditInsert(s) BY <1>2 DEF EditInsert
<1> QED BY <1>1, <1>2 DEF Commits, Fail, SubmitSplit, DecideCommit, PrepareCommit, RemoveDelete,
                         StatusUpdate, FinalizeApprove, CancelCommit

(* Whose call finishes has committed.                                      *)
LEMMA WhoFinishes ==
  ASSUME TypeOK, [Next]_vars, NEW s \in Sessions, NEW pc, pc # "idle", Finishes(s, pc)
  PROVE  Commits(s)
<1>0. /\ call[s].pc # "idle" /\ call'[s].pc = "idle" /\ call[s] # Idle
      /\ <<main, child, ledger>>' # <<main, child, ledger>>
  BY DEF Finishes, At, Idle
<1>1. CASE Create BY <1>0, <1>1, CreateSteps
<1>2. ASSUME NEW t \in Sessions, Acts(t) PROVE Commits(s)
  <2>1. t = s BY <1>0, <1>2, OthersStay DEF Same
  <2>2. ~(AdminCall(s) \/ HRCall(s)) BY <1>0, NewCalls
  <2>3. ~Reads(s) BY <1>0, MovedCalls
  <2>4. ~Fail(s) BY <1>0 DEF Fail
  <2> QED BY <1>2, <2>1, <2>2, <2>3, <2>4 DEF Acts
<1>3. CASE UNCHANGED vars BY <1>0, <1>3 DEF vars
<1> QED BY <1>1, <1>2, <1>3 DEF Next, Acts
-----------------------------------------------------------------------------
(* ApprovedHasEmployees: the participants were counted by the check, and   *)
(* only a call of the same HR about the same subrequest can remove them.   *)
OneHrCall == \A s, t \in Sessions :
  s # t /\ call[s].pc \in PcsOfChild /\ call[t].pc \in PcsOfChild => call[s].req # call[t].req

ApprovedCall(c) ==
  /\ c.pc \in Decides /\ c.verdict = "APPROVED" => child[c.req].emps # {}
  /\ c.pc \in Edits => child[c.req].status # "APPROVED"

ApprovedInv == ApprovedHasEmployees /\ \A s \in Sessions : ApprovedCall(call[s])

LEMMA ApprovedStep ==
  ASSUME OneHrCall, TypeOK, ApprovedInv, [Next]_vars PROVE ApprovedInv'
<1> USE DEF Edits, Decides, ApprovedInv, ApprovedHasEmployees, ApprovedCall
<1>1. CASE Create BY <1>1, CreateSteps
<1>2. ASSUME NEW s \in Sessions, AdminCall(s) \/ HRCall(s) PROVE ApprovedInv'
  <2>1. PICK c : Fresh(c) /\ call' = [call EXCEPT ![s] = c] BY <1>2, NewCalls
  <2>2. UNCHANGED child BY <1>2, NewCalls
  <2>3. ApprovedCall(c) BY <2>1 DEF Fresh, MayDecide, PcsOfChild, Open, OpenStatuses
  <2>4. \A t \in Sessions : call'[t] = IF t = s THEN c ELSE call[t] BY <2>1 DEF TypeOK
  <2> QED BY <2>2, <2>3, <2>4
<1>3. ASSUME NEW s \in Sessions, Reads(s) PROVE ApprovedInv'
  <2>1. Moved(call[s], call'[s]) /\ UNCHANGED child BY <1>3, MovedCalls
  <2>2. ApprovedCall(call[s])' BY <2>1 DEF Moved
  <2>3. ASSUME NEW t \in Sessions, t # s PROVE ApprovedCall(call[t])'
    BY <1>3, <2>1, <2>3, OthersStay DEF Acts, Same
  <2> QED BY <2>1, <2>2, <2>3
<1>4. ASSUME NEW s \in Sessions, Commits(s) PROVE ApprovedInv'
  <2>1. EditInsert(s) \/ DecideCommit(s) => call[s].pc \in PcsOfChild
    BY DEF EditInsert, DecideCommit, At, PcsOfChild
  <2>2. ASSUME NEW r \in Children, child'[r].status = "APPROVED" PROVE child'[r].emps # {}
    <3>1. EditInsert(s) => child[call[s].req].status # "APPROVED" BY DEF EditInsert, At
    <3>2. DecideCommit(s) /\ call[s].verdict = "APPROVED" => child[call[s].req].emps # {}
      BY DEF DecideCommit, At
    <3> QED BY <1>4, <2>2, <3>1, <3>2, ChildWrites
  <2>3. call'[s].pc = "idle" BY <1>4, CallEnds DEF Idle
  <2>4. ASSUME NEW t \in Sessions, t # s, call[t].pc \in PcsOfChild PROVE ApprovedCall(call[t])'
    <3>1. Same(call[t], call'[t]) BY <1>4, <2>4, OthersStay DEF Acts
    <3>2. call[t].req \in Children BY <2>4 DEF TypeOK
    <3>3. EditInsert(s) \/ DecideCommit(s) => call[s].req # call[t].req
      BY <2>1, <2>4 DEF OneHrCall
    <3>4. /\ child[call[t].req].emps # {} => child'[call[t].req].emps # {}
          /\ child[call[t].req].status # "APPROVED" => child'[call[t].req].status # "APPROVED"
      BY <1>4, <3>2, <3>3, ChildWrites DEF NoChild
    <3> QED BY <3>1, <3>4 DEF Same
  <2>5. ASSUME NEW t \in Sessions, t # s, call[t].pc \notin PcsOfChild PROVE ApprovedCall(call[t])'
    BY <1>4, <2>5, OthersStay DEF Acts, Same, PcsOfChild
  <2> QED BY <2>2, <2>3, <2>4, <2>5
<1>5. ASSUME NEW s \in Sessions, Fail(s) PROVE ApprovedInv'
  <2>1. UNCHANGED child BY <1>5 DEF Fail
  <2>2. call'[s].pc = "idle" BY <1>5, CallEnds DEF Idle
  <2>3. ASSUME NEW t \in Sessions, t # s PROVE ApprovedCall(call[t])'
    BY <1>5, <2>1, <2>3, OthersStay DEF Acts, Same
  <2> QED BY <2>1, <2>2, <2>3
<1>6. CASE UNCHANGED vars BY <1>6 DEF vars
<1> QED BY <1>1, <1>2, <1>3, <1>4, <1>5, <1>6 DEF Next

(* As long as no two HR calls are about the same subrequest at a time,     *)
(* finalizeHRRequest never approves one without employees, and no later    *)
(* edit empties an approved one; calls of the administrator and of the HRs *)
(* of other DZOs may overlap with them.                                    *)
THEOREM ApprovalsHaveEmployees == Spec /\ []OneHrCall => []ApprovedHasEmployees
<1>1. Init => ApprovedInv
  BY DEF Init, ApprovedInv, ApprovedCall, ApprovedHasEmployees, Idle, NoChild, Decides, Edits
<1>2. OneHrCall /\ TypeOK /\ ApprovedInv /\ [Next]_vars => ApprovedInv' BY ApprovedStep
<1>3. ApprovedInv => ApprovedHasEmployees BY DEF ApprovedInv
<1> QED BY <1>1, <1>2, <1>3, TypeCorrect, PTL DEF Spec
-----------------------------------------------------------------------------
(* ParentFollowsChildren: syncParentRequestStatusTx has seen the siblings  *)
(* as they still are when the decision commits, unless a call that writes  *)
(* the status of one overlaps.                                             *)
SubmitPcs == {"submit.reserve", "submit.lock", "submit.split"}
VerdictPcs == Decides \cup SubmitPcs \cup {"cancel.commit"}
DecisionsApart == Apart(VerdictPcs)

Seen(r, v) == [x \in Children |-> IF x = r THEN v ELSE child[x].status]

ParentInv ==
  \A s \in Sessions : call[s].pc = "decide.commit" =>
    call[s].parent = ParentStatus(call[s].req[1], Seen(call[s].req, call[s].verdict))

(* Only the statuses of the children of a request matter for its own.      *)
LEMMA SeenSame ==
  ASSUME NEW m, NEW r, NEW v, \A x \in ChildrenOf(m) : child'[x].status = child[x].status
  PROVE  ParentStatus(m, Seen(r, v)') = ParentStatus(m, Seen(r, v))
<1>1. \A x \in ChildrenOf(m) : Seen(r, v)'[x] = Seen(r, v)[x] BY DEF Seen, ChildrenOf
<1> QED BY <1>1 DEF ParentStatus

LEMMA ParentKept ==
  ASSUME ParentInv, NEW t \in Sessions, Same(call[t], call'[t]), call[t].pc = "decide.commit",
         \A x \in ChildrenOf(call[t].req[1]) : child'[x].status = child[x].status
  PROVE  (call[t].parent = ParentStatus(call[t].req[1], Seen(call[t].req, call[t].verdict)))'
<1>1. PICK r, v : r = call[t].req /\ v = call[t].verdict OBVIOUS
<1>2. call'[t].req = r /\ call'[t].verdict = v /\ call'[t].parent = call[t].parent
  BY <1>1 DEF Same
<1>3. call[t].parent = ParentStatus(r[1], Seen(r, v)) BY <1>1 DEF ParentInv
<1>4. ParentStatus(r[1], Seen(r, v)') = ParentStatus(r[1], Seen(r, v)) BY <1>1, SeenSame
<1>5. Seen(call[t].req, call[t].verdict)' = Seen(r, v)' BY <1>2 DEF Seen
<1>6. ParentStatus(call[t].req[1], Seen(call[t].req, call[t].verdict))'
        = ParentStatus(r[1], Seen(r, v)')
  BY <1>2, <1>5 DEF ParentStatus
<1> QED BY <1>2, <1>3, <1>4, <1>6

LEMMA ParentStep ==
  ASSUME DecisionsApart, TypeOK, ParentInv, [Next]_vars PROVE ParentInv'
<1> USE DEF ParentInv
<1>0. ASSUME NEW s \in Sessions, Acts(s), NEW t \in Sessions, t # s, UNCHANGED child,
             call'[t].pc = "decide.commit"
      PROVE  (call[t].parent = ParentStatus(call[t].req[1], Seen(call[t].req, call[t].verdict)))'
  <2>1. Same(call[t], call'[t]) BY <1>0, OthersStay
  <2>2. call[t].pc = "decide.commit" BY <1>0, <2>1 DEF Same
  <2> QED BY <1>0, <2>1, <2>2, ParentKept
<1>1. CASE Create
  <2>1. UNCHANGED <<child, call>> BY <1>1, CreateSteps
  <2> QED BY <2>1, ParentKept DEF Same
<1>2. ASSUME NEW s \in Sessions, AdminCall(s) \/ HRCall(s) PROVE ParentInv'
  <2>1. PICK c : Fresh(c) /\ call' = [call EXCEPT ![s] = c] BY <1>2, NewCalls
  <2>2. UNCHANGED child BY <1>2, NewCalls
  <2>3. call'[s].pc # "decide.commit" BY <2>1 DEF Fresh, TypeOK
  <2> QED BY <1>0, <1>2, <2>2, <2>3 DEF Acts
<1>3. ASSUME NEW s \in Sessions, Reads(s) PROVE ParentInv'
  <2>1. Moved(call[s], call'[s]) /\ UNCHANGED child BY <1>3, MovedCalls
  <2>2. call'[s].pc = "decide.commit" => call[s].pc = "decide.update" BY <2>1 DEF Moved
  <2>3. call[s].pc = "decide.update" => DecideUpdate(s)
    BY <1>3 DEF Reads, SubmitReserve, SubmitLock, EditDelete, DecideUpdate, PrepareUpdate,
                FinalizeCount, FinalizeReserve, FinalizeLock, FinalizeWriteOff, LockBudget, At
  <2>4. ASSUME DecideUpdate(s)
        PROVE  (call[s].parent = ParentStatus(call[s].req[1], Seen(call[s].req, call[s].verdict)))'
    <3>1. PICK r, v : r = call[s].req /\ v = call[s].verdict OBVIOUS
    <3>2. PICK p : p = ParentStatus(r[1], Seen(r, v)) OBVIOUS
    <3>3. call' = [call EXCEPT ![s].pc = "decide.commit", ![s].parent = p]
      BY <2>4, <3>1, <3>2 DEF DecideUpdate, Seen
    <3>4. call[s] \in Calls /\ DOMAIN call = Sessions BY DEF TypeOK
    <3>5. call'[s] = [call[s] EXCEPT !.pc = "decide.commit", !.parent = p] BY <3>3, <3>4
    <3>6. call'[s].parent = p BY <3>4, <3>5 DEF Calls
    <3>7. call'[s].req = r /\ call'[s].verdict = v
      BY <2>1, <2>4, <3>1 DEF Moved, DecideUpdate, At
    <3>8. Seen(call[s].req, call[s].verdict)' = Seen(r, v) BY <2>1, <3>7 DEF Seen
    <3>9. ParentStatus(call[s].req[1], Seen(call[s].req, call[s].verdict))' = p
      BY <3>2, <3>7, <3>8 DEF ParentStatus
    <3> QED BY <3>6, <3>9
  <2> QED BY <1>0, <1>3, <2>1, <2>2, <2>3, <2>4 DEF Acts
<1>4. ASSUME NEW s \in Sessions, Commits(s) PROVE ParentInv'
  <2>1. call'[s].pc # "decide.commit" BY <1>4, CallEnds DEF Idle
  <2>2. ASSUME NEW t \in Sessions, t # s, call'[t].pc = "decide.commit"
        PROVE  (call[t].parent = ParentStatus(call[t].req[1], Seen(call[t].req, call[t].verdict)))'
    <3>1. Same(call[t], call'[t]) BY <1>4, <2>2, OthersStay DEF Acts
    <3>2. call[t].pc = "decide.commit" BY <2>2, <3>1 DEF Same
    <3>3. MainOf(t) = call[t].req[1] BY <3>2 DEF MainOf, PcsOfMain
    <3>4. ASSUME NEW x \in ChildrenOf(call[t].req[1]) PROVE child'[x].status = child[x].status
      <4>1. x \in Children /\ x[1] = call[t].req[1] BY DEF ChildrenOf
      <4>2. call[s].pc \in VerdictPcs => MainOf(s) # x[1]
        BY <2>2, <3>2, <3>3, <4>1 DEF DecisionsApart, Apart, VerdictPcs, Decides
      <4>3. ~(SubmitSplit(s) /\ x[1] = call[s].req) /\ ~(CancelCommit(s) /\ x[1] = call[s].req)
        BY <4>2 DEF SubmitSplit, CancelCommit, At, MainOf, PcsOfMain, VerdictPcs, SubmitPcs
      <4>4. ~(DecideCommit(s) /\ x = call[s].req)
        BY <4>2 DEF DecideCommit, At, MainOf, PcsOfMain, VerdictPcs, Decides
      <4> QED BY <1>4, <4>1, <4>3, <4>4, ChildWrites
    <3> QED BY <3>1, <3>2, <3>4, ParentKept
  <2> QED BY <2>1, <2>2
<1>5. ASSUME NEW s \in Sessions, Fail(s) PROVE ParentInv'
  <2>1. call'[s].pc # "decide.commit" BY <1>5, CallEnds DEF Idle
  <2> QED BY <1>0, <1>5, <2>1 DEF Acts, Fail
<1>6. CASE UNCHANGED vars
  <2>1. UNCHANGED <<child, call>> BY <1>6 DEF vars
  <2> QED BY <2>1, ParentKept DEF Same
<1> QED BY <1>1, <1>2, <1>3, <1>4, <1>5, <1>6 DEF Next

LEMMA ParentHolds ==
  ASSUME TypeOK, ParentInv, [Next]_vars, NEW s \in Sessions, Finishes(s, "decide.commit"),
         \A x \in ChildrenOf(call[s].req[1]) : child'[x].status \notin OpenStatuses
  PROVE  main'[call[s].req[1]].status =
           IF \E x \in ChildrenOf(call[s].req[1]) : child'[x].status = "APPROVED"
           THEN "APPROVED" ELSE "REJECTED"
<1> DEFINE r == call[s].req
<1>0. call[s].pc = "decide.commit" BY DEF Finishes, At
<1>1. DecideCommit(s)
  BY <1>0, WhoFinishes DEF Commits, At, SubmitSplit, EditInsert, PrepareCommit, RemoveDelete,
                           StatusUpdate, FinalizeApprove, CancelCommit
<1>2. r \in Children /\ r[1] \in Mains BY <1>0 DEF TypeOK, PcsOfChild, Children
<1>3. main'[r[1]].status = ParentStatus(r[1], Seen(r, call[s].verdict))
  <2>1. main'[r[1]].status = call[s].parent BY <1>1, <1>2 DEF DecideCommit, TypeOK, MainRows
  <2> QED BY <1>0, <2>1 DEF ParentInv
<1>4. ASSUME NEW x \in ChildrenOf(r[1])
      PROVE  Seen(r, call[s].verdict)[x] = child'[x].status
  <2>1. x \in Children /\ child[x] \in ChildRows /\ DOMAIN child = Children
    BY DEF ChildrenOf, TypeOK
  <2>2. child' = [child EXCEPT ![r].status = call[s].verdict] BY <1>1 DEF DecideCommit
  <2> QED BY <2>1, <2>2 DEF Seen, ChildRows
<1> QED BY <1>3, <1>4 DEF ParentStatus

(* The decision that closes the last subrequest decides the parent, as     *)
(* long as no other decision, submission or cancellation of the same       *)
(* request overlaps with it; every other call may.                         *)
THEOREM ParentFollows == Spec /\ []DecisionsApart => ParentFollowsChildren
<1> DEFINE Follows(s) ==
      LET r == call[s].req IN
      Finishes(s, "decide.commit")
        /\ (\A x \in ChildrenOf(r[1]) : child'[x].status \notin OpenStatuses) =>
        main'[r[1]].status =
          IF \E x \in ChildrenOf(r[1]) : child'[x].status = "APPROVED"
          THEN "APPROVED" ELSE "REJECTED"
<1>1. Init => ParentInv BY DEF Init, ParentInv, Idle
<1>2. DecisionsApart /\ TypeOK /\ ParentInv /\ [Next]_vars => ParentInv' BY ParentStep
<1>3. TypeOK /\ ParentInv /\ [Next]_vars => [\A s \in Sessions : Follows(s)]_vars BY ParentHolds
<1> QED BY <1>1, <1>2, <1>3, TypeCorrect, PTL DEF Spec, ParentFollowsChildren
-----------------------------------------------------------------------------
(* SplitCovers: the participants of a request only get fewer after it was  *)
(* created, and its targeted DZOs stay; so the split covers at least those *)
(* there are at the commit, whatever calls overlap.                        *)
SplitCall(c) ==
  c.pc \in SubmitPcs => main[c.req].emps \subseteq c.emps /\ SplitDzos(c.req) \subseteq c.dzos

SplitInv == \A s \in Sessions : SplitCall(call[s])

(* What the transactions write of the participants and targets.            *)
LEMMA PeopleWrites ==
  ASSUME TypeOK, NEW s \in Sessions, Commits(s), NEW m \in Mains
  PROVE  main'[m].emps \subseteq main[m].emps /\ main'[m].dzos = main[m].dzos
<1>0. main[m] \in MainRows /\ DOMAIN main = Mains BY DEF TypeOK
<1> DEFINE Goal == main'[m].emps \subseteq main[m].emps /\ main'[m].dzos = main[m].dzos
<1>1. ASSUME NEW x, NEW st, main' = [main EXCEPT ![x].status = st] PROVE Goal
  BY <1>0, <1>1 DEF MainRows
<1>2. CASE PrepareCommit(s)
  <2>1. main' = [main EXCEPT ![call[s].req] = [@ EXCEPT !.event = call[s].event,
                                                        !.cost = call[s].cost,
                                                        !.status = call[s].verdict]]
    BY <1>2 DEF PrepareCommit
  <2> QED BY <1>0, <2>1 DEF MainRows
<1>3. CASE RemoveDelete(s)
  <2>1. main' = [main EXCEPT ![call[s].req].emps = @ \ call[s].emps] BY <1>3 DEF RemoveDelete
  <2> QED BY <1>0, <2>1 DEF MainRows
<1>4. CASE EditInsert(s) BY <1>4 DEF EditInsert
<1>5. CASE SubmitSplit(s) BY <1>1, <1>5 DEF SubmitSplit
<1>6. CASE DecideCommit(s) BY <1>1, <1>6 DEF DecideCommit
<1>7. CASE StatusUpdate(s) BY <1>1, <1>7 DEF StatusUpdate
<1>8. CASE FinalizeApprove(s) BY <1>1, <1>8 DEF FinalizeApprove
<1>9. CASE CancelCommit(s) BY <1>1, <1>9 DEF CancelCommit
<1> QED BY <1>2, <1>3, <1>4, <1>5, <1>6, <1>7, <1>8, <1>9 DEF Commits

LEMMA SplitKept ==
  ASSUME TypeOK, SplitInv, NEW t \in Sessions, Same(call[t], call'[t]), call'[t].dzos = call[t].dzos,
         call[t].pc \in SubmitPcs =>
           /\ main'[call[t].req].emps \subseteq main[call[t].req].emps
           /\ main'[call[t].req].dzos = main[call[t].req].dzos
  PROVE  SplitCall(call[t])'
<1> SUFFICES ASSUME call[t].pc \in SubmitPcs
             PROVE  /\ main'[call[t].req].emps \subseteq call'[t].emps
                    /\ (main'[call[t].req].dzos \cup {DzoOf[e] : e \in main'[call[t].req].emps})
                         \subseteq call'[t].dzos
  BY DEF Same, SplitCall, SplitDzos
<1>1. /\ main[call[t].req].emps \subseteq call[t].emps
      /\ main[call[t].req].dzos \cup {DzoOf[e] : e \in main[call[t].req].emps} \subseteq call[t].dzos
  BY DEF SplitInv, SplitCall, SplitDzos
<1> QED BY <1>1 DEF Same

LEMMA SplitStep ==
  ASSUME TypeOK, ArchiveInv, SplitInv, [Next]_vars PROVE SplitInv'
<1> USE DEF SplitInv
<1>1. CASE Create
  <2>a. PICK m \in Mains : \E row : main[m] = NoMain /\ main' = [main EXCEPT ![m] = row]
    BY <1>1, CreateSteps
  <2>1. PICK row : main[m] = NoMain /\ main' = [main EXCEPT ![m] = row]
    BY <2>a
  <2>2. UNCHANGED call BY <1>1, CreateSteps
  <2>3. ~Created(m) BY <2>1 DEF NoMain, Created
  <2>4. ASSUME NEW s \in Sessions, call[s].pc \in SubmitPcs
        PROVE  main'[call[s].req] = main[call[s].req]
    <3>1. call[s].req \in Mains /\ Created(call[s].req)
      BY <2>4 DEF TypeOK, PcsOfMain, ArchiveInv, ArchiveCall, SubmitPcs
    <3> QED BY <2>1, <2>3, <3>1 DEF TypeOK
  <2> QED BY <2>2, <2>4, SplitKept DEF Same
<1>2. ASSUME NEW s \in Sessions, Acts(s), NEW t \in Sessions, t # s,
             UNCHANGED main \/ Commits(s)
      PROVE  SplitCall(call[t])'
  <2>1. Same(call[t], call'[t]) /\ call'[t].dzos = call[t].dzos BY <1>2, OthersStay
  <2>2. call[t].pc \in SubmitPcs => call[t].req \in Mains BY DEF TypeOK, SubmitPcs, PcsOfMain
  <2>3. CASE UNCHANGED main BY <2>1, <2>3, SplitKept
  <2>4. CASE Commits(s) BY <2>1, <2>2, <2>4, PeopleWrites, SplitKept
  <2> QED BY <1>2, <2>3, <2>4
<1>3. ASSUME NEW s \in Sessions, AdminCall(s) \/ HRCall(s) PROVE SplitInv'
  <2>1. PICK c : Fresh(c) /\ call' = [call EXCEPT ![s] = c] BY <1>3, NewCalls
  <2>2. UNCHANGED main BY <1>3, NewCalls
  <2>3. SplitCall(c) BY <2>1 DEF Fresh, SplitCall, SubmitPcs
  <2>4. call'[s] = c BY <2>1 DEF TypeOK
  <2>5. SplitCall(call[s])' BY <2>2, <2>3, <2>4 DEF SplitCall, SplitDzos
  <2> QED BY <1>2, <1>3, <2>2, <2>5 DEF Acts
<1>4. ASSUME NEW s \in Sessions, Reads(s) PROVE SplitInv'
  <2>1. Moved(call[s], call'[s]) /\ UNCHANGED main BY <1>4, MovedCalls
  <2>2. call'[s].pc \in SubmitPcs => call[s].pc \in SubmitPcs BY <2>1 DEF Moved, SubmitPcs
  <2>3. call'[s].req = call[s].req /\ call'[s].emps = call[s].emps /\ call'[s].dzos = call[s].dzos
    BY <2>1 DEF Moved
  <2>4. SplitCall(call[s])' BY <2>1, <2>2, <2>3 DEF SplitCall, SplitDzos
  <2> QED BY <1>2, <1>4, <2>1, <2>4 DEF Acts
<1>5. ASSUME NEW s \in Sessions, Commits(s) \/ Fail(s) PROVE SplitInv'
  <2>1. SplitCall(call[s])' BY <1>5, CallEnds DEF Idle, SplitCall, SubmitPcs
  <2>2. Fail(s) => UNCHANGED main BY DEF Fail
  <2> QED BY <1>2, <1>5, <2>1, <2>2 DEF Acts
<1>6. CASE UNCHANGED vars BY <1>6 DEF vars, SplitCall, SplitDzos
<1> QED BY <1>1, <1>3, <1>4, <1>5, <1>6 DEF Next

LEMMA SplitHolds ==
  ASSUME TypeOK, SplitInv, [Next]_vars, NEW s \in Sessions, Finishes(s, "submit.split")
  PROVE  \E k \in Rounds : \A d \in Dzos :
           LET m == call[s].req
               r == <<m, k, d>> IN
           /\ child[r] = NoChild
           /\ main[m].emps \cap DzoStaff(d) \subseteq child'[r].emps
           /\ d \in main[m].dzos => child'[r].status = "IN_PROGRESS"
<1> DEFINE m == call[s].req
<1>0. call[s].pc = "submit.split" BY DEF Finishes, At
<1>1. SubmitSplit(s)
  BY <1>0, WhoFinishes DEF Commits, At, DecideCommit, EditInsert, PrepareCommit, RemoveDelete,
                           StatusUpdate, FinalizeApprove, CancelCommit
<1>2. m \in Mains BY <1>0 DEF TypeOK, PcsOfMain
<1>3. main[m].emps \subseteq call[s].emps /\ SplitDzos(m) \subseteq call[s].dzos
  BY <1>0 DEF SplitInv, SplitCall, SubmitPcs
<1>4. PICK k \in Rounds :
        /\ Unused(m, k)
        /\ child' = [x \in Children |->
             IF x[1] = m /\ x[2] = k /\ x[3] \in call[s].dzos
             THEN [status |-> "IN_PROGRESS", emps |-> SplitEmps(s, x[3])]
             ELSE child[x]]
  BY <1>1 DEF SubmitSplit
<1>5. ASSUME NEW d \in Dzos
      PROVE  /\ child[<<m, k, d>>] = NoChild
             /\ main[m].emps \cap DzoStaff(d) \subseteq child'[<<m, k, d>>].emps
             /\ d \in main[m].dzos => child'[<<m, k, d>>].status = "IN_PROGRESS"
  <2>1. child[<<m, k, d>>] = NoChild BY <1>4 DEF Unused
  <2>2. <<m, k, d>> \in Children BY <1>2 DEF Children
  <2>3. CASE d \in call[s].dzos
    <3>1. child'[<<m, k, d>>] = [status |-> "IN_PROGRESS", emps |-> SplitEmps(s, d)]
      BY <1>4, <2>2, <2>3
    <3> QED BY <1>3, <2>1, <3>1 DEF SplitEmps
  <2>4. CASE d \notin call[s].dzos
    <3>1. d \notin main[m].dzos /\ \A e \in main[m].emps : DzoOf[e] # d
      BY <1>3, <2>4 DEF SplitDzos
    <3> QED BY <2>1, <3>1 DEF DzoStaff
  <2> QED BY <2>3, <2>4
<1> QED BY <1>5

(* Every participant reaches the HR of the own DZO, and every targeted DZO *)
(* is asked, also when calls overlap.                                      *)
THEOREM SplitIsComplete == Spec => SplitCovers
<1> DEFINE Covers(s) == LET m == call[s].req IN
      Finishes(s, "submit.split") =>
        \E k \in Rounds : \A d \in Dzos :
          LET r == <<m, k, d>> IN
          /\ child[r] = NoChild
          /\ main[m].emps \cap DzoStaff(d) \subseteq child'[r].emps
          /\ d \in main[m].dzos => child'[r].status = "IN_PROGRESS"
<1>1. Init => SplitInv BY DEF Init, SplitInv, SplitCall, SubmitPcs, Idle
<1>2. TypeOK /\ ArchiveInv /\ SplitInv /\ [Next]_vars => SplitInv' BY SplitStep
<1>3. TypeOK /\ SplitInv /\ [Next]_vars => [\A s \in Sessions : Covers(s)]_vars BY SplitHolds
<1> QED BY <1>1, <1>2, <1>3, ArchiveCorrect, TypeCorrect, PTL DEF Spec, SplitCovers
-----------------------------------------------------------------------------
(* CancelledIsFinal: only a cancellation gives money back, and it leaves   *)
(* nothing that a later call would accept.                                 *)
StatusPcs == (PcsOfMain \ {"remove.delete"}) \cup Decides
StatusesApart == Apart(StatusPcs)

Returns == {"RELEASE", "REFUND"}
Returned(m) == \E i \in DOMAIN ledger[m] : ledger[m][i].op \in Returns
GivenBack(m) == Returned(m) => main[m].status = "REJECTED" /\ \A r \in ChildrenOf(m) : ~Open(r)

CancelInv ==
  /\ \A m \in Mains : GivenBack(m)
  /\ \A s \in Sessions : call[s].pc \in StatusPcs => ~Returned(MainOf(s))

\* The rows of a reservation or a write-off.
SpendRows == [op : {"RESERVE", "WRITE_OFF"}, contract : Contracts \cup {Null}, amount : Costs]

LEMMA EntryOps ==
  ASSUME NEW op \in {"RESERVE", "WRITE_OFF"}, NEW p \in Prices
  PROVE  Entry(op, p) \in Seq(SpendRows)
<1>1. CASE p.amount = 0 BY <1>1 DEF Entry
<1>2. CASE p.amount # 0 BY <1>2 DEF Entry, Prices, SpendRows
<1> QED BY <1>1, <1>2

(* A reservation or a write-off gives nothing back.                        *)
LEMMA SpendingReturnsNothing ==
  ASSUME TypeOK, NEW m \in Mains, ~Returned(m), NEW rows, Book(m, rows),
         rows \in Seq(SpendRows)
  PROVE  ~Returned(m)'
<1> DEFINE old == ledger[m]
<1>1. old \in Seq(LedgerRows) /\ DOMAIN ledger = Mains BY DEF TypeOK
<1>2. rows \in Seq(LedgerRows)
  <2>1. SpendRows \subseteq LedgerRows BY DEF SpendRows, LedgerRows
  <2> QED BY <2>1
<1>3. ledger'[m] = old \o rows BY <1>1 DEF Book
<1> HIDE DEF old
<1>4. ASSUME NEW i \in DOMAIN (old \o rows) PROVE (old \o rows)[i].op \notin Returns
  <2>1. old \o rows \in Seq(LedgerRows) /\ Len(old \o rows) = Len(old) + Len(rows)
    BY <1>1, <1>2, ConcatProperties
  <2>2. i \in 1..(Len(old) + Len(rows)) BY <2>1
  <2>3. (old \o rows)[i] = IF i <= Len(old) THEN old[i] ELSE rows[i - Len(old)]
    BY <1>1, <1>2, <2>2, ConcatProperties
  <2>4. CASE i <= Len(old)
    <3>1. i \in DOMAIN old BY <1>1, <2>2, <2>4
    <3> QED BY <2>3, <2>4, <3>1 DEF Returned, old
  <2>5. CASE ~(i <= Len(old))
    <3>1. Len(old) \in Nat /\ Len(rows) \in Nat BY <1>1
    <3>2. i - Len(old) \in 1..Len(rows) BY <2>2, <2>5, <3>1
    <3>3. rows[i - Len(old)] \in SpendRows BY <3>2
    <3> QED BY <2>3, <2>5, <3>3 DEF Returns, SpendRows
  <2> QED BY <2>4, <2>5
<1> QED BY <1>3, <1>4 DEF Returned

(* A transaction writes nothing of any other request.                      *)
LEMMA OthersKept ==
  ASSUME TypeOK, NEW s \in Sessions, Commits(s), NEW m \in Mains, m # MainOf(s)
  PROVE  /\ main'[m] = main[m] /\ ledger'[m] = ledger[m]
         /\ \A r \in ChildrenOf(m) : child'[r] = child[r]
<1>1. DOMAIN main = Mains /\ DOMAIN ledger = Mains BY DEF TypeOK
<1>2. CASE call[s].pc \in PcsOfMain
  <2>0. ~EditInsert(s) /\ ~DecideCommit(s)
    BY <1>2 DEF EditInsert, DecideCommit, At, PcsOfMain
  <2>1. m # call[s].req BY <1>2 DEF MainOf
  <2>2. main'[m] = main[m]
    BY <1>1, <2>0, <2>1 DEF Commits, SubmitSplit, PrepareCommit, RemoveDelete, StatusUpdate,
                      FinalizeApprove, CancelCommit
  <2>3. ledger'[m] = ledger[m]
    BY <1>1, <2>0, <2>1 DEF Commits, SubmitSplit, PrepareCommit, RemoveDelete, StatusUpdate,
                      FinalizeApprove, CancelCommit, RefundBudget, Book
  <2>4. \A r \in ChildrenOf(m) : child'[r] = child[r]
    BY <2>0, <2>1, ChildWrites DEF ChildrenOf
  <2> QED BY <2>2, <2>3, <2>4
<1>3. CASE call[s].pc \notin PcsOfMain
  <2>1. m # call[s].req[1] BY <1>3 DEF MainOf
  <2>2. EditInsert(s) \/ DecideCommit(s)
    BY <1>3 DEF Commits, SubmitSplit, PrepareCommit, RemoveDelete, StatusUpdate,
                FinalizeApprove, CancelCommit, At, PcsOfMain
  <2>3. ~SubmitSplit(s) /\ ~CancelCommit(s) BY <1>3 DEF SubmitSplit, CancelCommit, At, PcsOfMain
  <2>4. \A r \in ChildrenOf(m) : child'[r] = child[r]
    BY <2>1, <2>3, ChildWrites DEF ChildrenOf
  <2> QED BY <1>1, <2>1, <2>2, <2>4 DEF EditInsert, DecideCommit
<1> QED BY <1>2, <1>3

(* What the transactions leave of a request: all of it when they are about *)
(* another one, all but its participants when they only edit those.        *)
LEMMA StatusKept ==
  ASSUME TypeOK, NEW s \in Sessions, Commits(s), NEW m \in Mains,
         m # MainOf(s) \/ call[s].pc \notin StatusPcs
  PROVE  /\ main'[m].status = main[m].status /\ main'[m].event = main[m].event
         /\ main'[m].cost = main[m].cost /\ ledger'[m] = ledger[m]
         /\ \A r \in ChildrenOf(m) : child'[r].status = child[r].status
<1>1. CASE m # MainOf(s) BY <1>1, OthersKept
<1>2. CASE call[s].pc \notin StatusPcs
  <2>1. EditInsert(s) \/ RemoveDelete(s)
    BY <1>2 DEF Commits, At, SubmitSplit, DecideCommit, PrepareCommit, StatusUpdate,
                FinalizeApprove, CancelCommit, StatusPcs, PcsOfMain, Decides
  <2>2. CASE EditInsert(s)
    <3>1. ASSUME NEW r \in ChildrenOf(m) PROVE child'[r].status = child[r].status
      <4>1. r \in Children BY DEF ChildrenOf
      <4>2. ~SubmitSplit(s) /\ ~DecideCommit(s) /\ ~CancelCommit(s)
        BY <2>2 DEF EditInsert, SubmitSplit, DecideCommit, CancelCommit, At
      <4> QED BY <4>1, <4>2, ChildWrites
    <3> QED BY <2>2, <3>1 DEF EditInsert
  <2>3. CASE RemoveDelete(s)
    <3>1. main' = [main EXCEPT ![call[s].req].emps = @ \ call[s].emps]
      BY <2>3 DEF RemoveDelete
    <3>2. main[m] \in MainRows /\ DOMAIN main = Mains BY DEF TypeOK
    <3>3. /\ main'[m].status = main[m].status /\ main'[m].event = main[m].event
          /\ main'[m].cost = main[m].cost
      BY <3>1, <3>2 DEF MainRows
    <3> QED BY <2>3, <3>3 DEF RemoveDelete
  <2> QED BY <2>1, <2>2, <2>3
<1> QED BY <1>1, <1>2

LEMMA MainOfType ==
  ASSUME TypeOK, NEW s \in Sessions, call[s].pc # "idle"
  PROVE  MainOf(s) \in Mains
BY DEF TypeOK, Calls, MainOf, Children

LEMMA CancelStep ==
  ASSUME StatusesApart, TypeOK, CancelInv, [Next]_vars PROVE CancelInv'
<1>0. ASSUME NEW s \in Sessions, Acts(s), NEW t \in Sessions, t # s, call'[t].pc \in StatusPcs,
             UNCHANGED ledger \/ Commits(s)
      PROVE  ~Returned(MainOf(t))'
  <2>1. Same(call[t], call'[t]) BY <1>0, OthersStay
  <2>2. call[t].pc \in StatusPcs /\ MainOf(t)' = MainOf(t) BY <1>0, <2>1 DEF Same, MainOf
  <2>3. ~Returned(MainOf(t)) BY <2>2 DEF CancelInv
  <2>4. PICK m \in Mains : m = MainOf(t)
    BY <2>2, MainOfType DEF StatusPcs, PcsOfMain, Decides
  <2>5. CASE UNCHANGED ledger BY <2>2, <2>3, <2>5 DEF Returned
  <2>6. CASE Commits(s)
    <3>1. m # MainOf(s) \/ call[s].pc \notin StatusPcs
      BY <1>0, <2>2, <2>4 DEF StatusesApart, Apart
    <3>2. ledger'[m] = ledger[m] BY <2>6, <3>1, StatusKept
    <3> QED BY <2>2, <2>3, <2>4, <3>2 DEF Returned
  <2> QED BY <1>0, <2>5, <2>6
<1>1. CASE Create
  <2>a. PICK m \in Mains : \E row : main[m] = NoMain /\ main' = [main EXCEPT ![m] = row]
    BY <1>1, CreateSteps
  <2>1. PICK row : main[m] = NoMain /\ main' = [main EXCEPT ![m] = row]
    BY <2>a
  <2>2. UNCHANGED <<child, ledger, call>> BY <1>1, CreateSteps
  <2>3. ~Returned(m) BY <2>1 DEF CancelInv, GivenBack, NoMain
  <2>4. \A x \in Mains : GivenBack(x)'
    BY <2>1, <2>2, <2>3 DEF CancelInv, GivenBack, Returned, Open, TypeOK
  <2> QED BY <2>2, <2>4 DEF CancelInv, Returned, MainOf
<1>2. ASSUME NEW s \in Sessions, AdminCall(s) \/ HRCall(s) PROVE CancelInv'
  <2>1. PICK c : Fresh(c) /\ call' = [call EXCEPT ![s] = c] BY <1>2, NewCalls
  <2>2. UNCHANGED <<main, child, ledger>> BY <1>2, NewCalls
  <2>3. c.pc \in PcsOfMain => ~Returned(c.req) BY <2>1 DEF Fresh, CancelInv, GivenBack
  <2>4. c.pc \in PcsOfChild => ~Returned(c.req[1])
    BY <2>1 DEF Fresh, CancelInv, GivenBack, Children, ChildrenOf
  <2>5. call'[s] = c BY <2>1 DEF TypeOK
  <2>6. call'[s].pc \in StatusPcs => ~Returned(MainOf(s))'
    BY <2>2, <2>3, <2>4, <2>5 DEF StatusPcs, Decides, PcsOfChild, MainOf, Returned
  <2> QED BY <1>0, <1>2, <2>2, <2>6 DEF CancelInv, GivenBack, Returned, Open, Acts
<1>3. ASSUME NEW s \in Sessions, Reads(s) PROVE CancelInv'
  <2>1. Moved(call[s], call'[s]) /\ UNCHANGED <<main, child, ledger>> BY <1>3, MovedCalls
  <2>2. /\ call'[s].req = call[s].req
        /\ call'[s].pc \in PcsOfMain <=> call[s].pc \in PcsOfMain
        /\ call'[s].pc \in StatusPcs => call[s].pc \in StatusPcs
    BY <2>1 DEF Moved, PcsOfMain, StatusPcs, Decides
  <2>3. call'[s].pc \in StatusPcs => ~Returned(MainOf(s))'
    BY <2>1, <2>2 DEF CancelInv, MainOf, Returned
  <2> QED BY <1>0, <1>3, <2>1, <2>3 DEF CancelInv, GivenBack, Returned, Open, Acts
<1>4. ASSUME NEW s \in Sessions, Commits(s) PROVE CancelInv'
  <2>1. call'[s].pc = "idle" BY <1>4, CallEnds DEF Idle
  <2>2. \A t \in Sessions : call'[t].pc \in StatusPcs => ~Returned(MainOf(t))'
    BY <1>0, <1>4, <2>1 DEF Acts, StatusPcs, PcsOfMain, Decides
  <2>a. call[s].pc # "idle"
    BY <1>4 DEF Commits, SubmitSplit, EditInsert, DecideCommit, PrepareCommit, RemoveDelete,
                StatusUpdate, FinalizeApprove, CancelCommit, At
  <2>3. PICK m \in Mains : m = MainOf(s) BY <2>a, MainOfType
  <2>4. \A x \in Mains : x # m \/ call[s].pc \notin StatusPcs => GivenBack(x)'
    BY <1>4, <2>3, StatusKept DEF CancelInv, GivenBack, Returned, Open, ChildrenOf
  <2>b. call[s].pc \in StatusPcs => ~Returned(m) BY <2>3 DEF CancelInv
  <2>5. call[s].price \in Prices /\ call[s].spend \in Prices BY DEF TypeOK, Calls
  <2>10. ASSUME GivenBack(m)' PROVE CancelInv'
    BY <2>2, <2>4, <2>10 DEF CancelInv
  <2>6. CASE SubmitSplit(s)
    <3>1. m = call[s].req BY <2>3, <2>6 DEF SubmitSplit, At, MainOf, PcsOfMain
    <3>2. Book(m, Entry("RESERVE", call[s].price)) BY <2>6, <3>1 DEF SubmitSplit
    <3>3. ~Returned(m)
      BY <2>6, <2>b DEF SubmitSplit, At, StatusPcs, PcsOfMain
    <3>4. ~Returned(m)' BY <2>5, <3>2, <3>3, EntryOps, SpendingReturnsNothing
    <3> QED BY <2>10, <3>4 DEF GivenBack
  <2>7. CASE FinalizeApprove(s)
    <3>1. m = call[s].req BY <2>3, <2>7 DEF FinalizeApprove, At, MainOf, PcsOfMain
    <3> DEFINE a == Entry("RESERVE", call[s].price)
               b == Entry("WRITE_OFF", call[s].spend)
    <3>2. Book(m, a \o b) BY <2>7, <3>1 DEF FinalizeApprove
    <3>3. a \in Seq(SpendRows) /\ b \in Seq(SpendRows) BY <2>5, EntryOps
    <3> HIDE DEF a, b
    <3>4. a \o b \in Seq(SpendRows) BY <3>3, ConcatProperties
    <3>5. ~Returned(m)
      BY <2>7, <2>b DEF FinalizeApprove, At, StatusPcs, PcsOfMain
    <3>6. ~Returned(m)' BY <3>2, <3>4, <3>5, SpendingReturnsNothing
    <3> QED BY <2>10, <3>6 DEF GivenBack
  <2>8. CASE CancelCommit(s)
    <3>1. m = call[s].req BY <2>3, <2>8 DEF CancelCommit, At, MainOf, PcsOfMain
    <3>2. main'[m].status = "REJECTED"
      BY <2>8, <3>1 DEF CancelCommit, TypeOK, MainRows
    <3>3. ASSUME NEW r \in ChildrenOf(m) PROVE ~Open(r)'
      <4>1. r \in Children /\ r[1] = m /\ child[r] \in ChildRows BY DEF ChildrenOf, TypeOK
      <4>2. child'[r] = IF Closes(m, r) THEN [child[r] EXCEPT !.status = "REJECTED"] ELSE child[r]
        BY <2>8, <3>1, <4>1 DEF CancelCommit
      <4> QED BY <4>1, <4>2 DEF Closes, Open, OpenStatuses, ChildRows
    <3>4. GivenBack(m)' BY <3>2, <3>3 DEF GivenBack, ChildrenOf
    <3> QED BY <2>10, <3>4
  <2>9. CASE DecideCommit(s) \/ PrepareCommit(s) \/ StatusUpdate(s)
    <3>1. UNCHANGED ledger BY <2>9 DEF DecideCommit, PrepareCommit, StatusUpdate
    <3>2. ~Returned(m)
      BY <2>9, <2>b DEF DecideCommit, PrepareCommit, StatusUpdate, At, StatusPcs, PcsOfMain, Decides
    <3>3. ~Returned(m)' BY <3>1, <3>2 DEF Returned
    <3> QED BY <2>10, <3>3 DEF GivenBack
  <2>11. CASE EditInsert(s) \/ RemoveDelete(s)
    <3>1. call[s].pc \notin StatusPcs
      BY <2>11 DEF EditInsert, RemoveDelete, At, StatusPcs, PcsOfMain, Decides
    <3> QED BY <2>4, <2>10, <3>1
  <2> QED BY <1>4, <2>6, <2>7, <2>8, <2>9, <2>11 DEF Commits
<1>5. ASSUME NEW s \in Sessions, Fail(s) PROVE CancelInv'
  <2>1. call'[s].pc = "idle" BY <1>5, CallEnds DEF Idle
  <2>2. UNCHANGED <<main, child, ledger>> BY <1>5 DEF Fail
  <2>3. \A t \in Sessions : call'[t].pc \in StatusPcs => ~Returned(MainOf(t))'
    BY <1>0, <1>5, <2>1, <2>2 DEF Acts, StatusPcs, PcsOfMain, Decides
  <2> QED BY <2>2, <2>3 DEF CancelInv, GivenBack, Returned, Open
<1>6. CASE UNCHANGED vars
  BY <1>6 DEF vars, CancelInv, GivenBack, Returned, Open, MainOf
<1> QED BY <1>1, <1>2, <1>3, <1>4, <1>5, <1>6 DEF Next

(* As long as calls that write the status of one request do not overlap, a *)
(* request that got money back is rejected and stays so, with every        *)
(* subrequest of it.                                                       *)
THEOREM CancellationIsFinal == Spec /\ []StatusesApart => []CancelledIsFinal
<1>1. Init => CancelInv
  BY DEF Init, CancelInv, GivenBack, Returned, Idle, StatusPcs, PcsOfMain, Decides
<1>2. StatusesApart /\ TypeOK /\ CancelInv /\ [Next]_vars => CancelInv' BY CancelStep
<1>3. TypeOK /\ CancelInv => CancelledIsFinal
  <2> SUFFICES ASSUME TypeOK, CancelInv, NEW m \in Mains, Count(m, {"RELEASE", "REFUND"}) > 0
               PROVE  main[m].status = "REJECTED" /\ \A r \in ChildrenOf(m) : ~Open(r)
    BY DEF CancelledIsFinal
  <2> DEFINE rows == {i \in DOMAIN ledger[m] : ledger[m][i].op \in {"RELEASE", "REFUND"}}
  <2>1. rows # {} BY FS_EmptySet DEF Count
  <2>2. Returned(m) BY <2>1 DEF Returned, Returns
  <2> QED BY <2>2 DEF CancelInv, GivenBack
<1> QED BY <1>1, <1>2, <1>3, TypeCorrect, PTL DEF Spec
-----------------------------------------------------------------------------
(* ReturnOnce: whatever is given back was reserved before, and a call that *)
(* could give it back a second time is not accepted.                       *)
PricedCall(c) ==
  /\ c.pc \in {"finalize.lock", "finalize.writeoff", "finalize.approve"} =>
       Has(c.req, "RESERVE") \/ c.price = BudgetSource(c.req)
  /\ c.pc = "finalize.approve" =>
       Has(c.req, "RESERVE") \/ c.price.amount # 0 \/ c.spend.amount = 0

OneReturn(m) ==
  \A i, j \in DOMAIN ledger[m] :
    ledger[m][i].op \in Returns /\ ledger[m][j].op \in Returns => i = j

LedgerOrder(m) ==
  /\ OneReturn(m)
  /\ Returned(m) \/ Has(m, "WRITE_OFF") => Has(m, "RESERVE")

ReturnInv ==
  /\ \A m \in Mains : LedgerOrder(m)
  /\ \A s \in Sessions : PricedCall(call[s])

(* What booking adds to the ledger of a request.                           *)
LEMMA BookedRows ==
  ASSUME TypeOK, NEW m \in Mains, NEW rows \in Seq(LedgerRows), Book(m, rows), NEW op
  PROVE  Has(m, op)' <=> Has(m, op) \/ \E j \in DOMAIN rows : rows[j].op = op
<1> DEFINE old == ledger[m]
           new == old \o rows
<1>1. old \in Seq(LedgerRows) /\ DOMAIN ledger = Mains BY DEF TypeOK
<1>2. ledger'[m] = new BY <1>1 DEF Book
<1>3. Has(m, op) <=> \E i \in DOMAIN old : old[i].op = op BY DEF Has
<1>4. Has(m, op)' <=> \E i \in DOMAIN new : new[i].op = op BY <1>2 DEF Has
<1> HIDE DEF old
<1>5. /\ Len(new) = Len(old) + Len(rows)
      /\ \A i \in 1..(Len(old) + Len(rows)) :
           new[i] = IF i <= Len(old) THEN old[i] ELSE rows[i - Len(old)]
      /\ new \in Seq(LedgerRows)
  BY <1>1, ConcatProperties
<1> HIDE DEF new
<1>6. /\ DOMAIN old = 1..Len(old) /\ DOMAIN rows = 1..Len(rows) /\ DOMAIN new = 1..Len(new)
      /\ Len(old) \in Nat /\ Len(rows) \in Nat
  BY <1>1, <1>5
<1>7. ASSUME NEW i \in DOMAIN new, new[i].op = op
      PROVE  (\E k \in DOMAIN old : old[k].op = op) \/ \E j \in DOMAIN rows : rows[j].op = op
  <2>1. CASE i <= Len(old) BY <1>5, <1>6, <1>7, <2>1
  <2>2. CASE ~(i <= Len(old))
    <3>1. i - Len(old) \in DOMAIN rows BY <1>5, <1>6, <2>2
    <3> QED BY <1>5, <1>6, <1>7, <2>2, <3>1
  <2> QED BY <2>1, <2>2
<1>8. ASSUME NEW i \in DOMAIN old, old[i].op = op PROVE \E k \in DOMAIN new : new[k].op = op
  BY <1>5, <1>6, <1>8
<1>9. ASSUME NEW j \in DOMAIN rows, rows[j].op = op PROVE \E k \in DOMAIN new : new[k].op = op
  <2>1. Len(old) + j \in DOMAIN new /\ ~(Len(old) + j <= Len(old)) BY <1>5, <1>6
  <2>2. (Len(old) + j) - Len(old) = j BY <1>6
  <2> QED BY <1>5, <1>6, <1>9, <2>1, <2>2
<1> QED BY <1>3, <1>4, <1>7, <1>8, <1>9

LEMMA PricedMoves ==
  ASSUME TypeOK, NEW s \in Sessions, Reads(s), PricedCall(call[s])
  PROVE  PricedCall(call'[s])
<1>1. Moved(call[s], call'[s]) BY MovedCalls
<1>2. call[s].pc = "finalize.reserve" =>
        Has(call[s].req, "RESERVE") \/ call'[s].price = BudgetSource(call[s].req)
  <2> SUFFICES ASSUME call[s].pc = "finalize.reserve", ~Has(call[s].req, "RESERVE")
               PROVE  call'[s].price = BudgetSource(call[s].req)
    OBVIOUS
  <2>1. FinalizeReserve(s)
    BY DEF Reads, SubmitReserve, SubmitLock, EditDelete, DecideUpdate, PrepareUpdate,
           FinalizeCount, FinalizeReserve, FinalizeLock, FinalizeWriteOff, LockBudget, At
  <2> DEFINE p == BudgetSource(call[s].req)
             q == IF p.amount = 0 THEN "finalize.writeoff" ELSE "finalize.lock"
  <2>2. call' = [call EXCEPT ![s].price = p, ![s].pc = q] BY <2>1 DEF FinalizeReserve
  <2> HIDE DEF p, q
  <2>3. call[s] \in Calls /\ DOMAIN call = Sessions BY DEF TypeOK
  <2>4. call'[s] = [call[s] EXCEPT !.price = p, !.pc = q] BY <2>2, <2>3
  <2>5. call'[s].price = p BY <2>3, <2>4 DEF Calls
  <2> QED BY <2>5 DEF p
<1>3. NoPrice.amount = 0 BY DEF NoPrice
<1> QED BY <1>1, <1>2, <1>3 DEF Moved, PricedCall

LEMMA ReturnStep ==
  ASSUME StatusesApart, TypeOK, ArchiveInv, CancelInv, ReturnInv, [Next]_vars PROVE ReturnInv'
<1>0. ASSUME UNCHANGED ledger PROVE \A m \in Mains : LedgerOrder(m)'
  BY <1>0 DEF ReturnInv, LedgerOrder, OneReturn, Returned, Has
<1>a. ASSUME NEW s \in Sessions, Acts(s), NEW t \in Sessions, t # s,
             UNCHANGED <<main, ledger>> \/ Commits(s)
      PROVE  PricedCall(call[t])'
  <2>1. Same(call[t], call'[t]) BY <1>a, OthersStay
  <2>2. CASE UNCHANGED <<main, ledger>>
    BY <2>1, <2>2 DEF ReturnInv, PricedCall, Same, Has, BudgetSource
  <2>3. CASE Commits(s) /\ call[t].pc \in {"finalize.lock", "finalize.writeoff", "finalize.approve"}
    <3>1. call[t].pc \in StatusPcs /\ MainOf(t) = call[t].req /\ call[t].req \in Mains
      BY <2>3 DEF StatusPcs, PcsOfMain, MainOf, TypeOK
    <3>2. call[t].req # MainOf(s) \/ call[s].pc \notin StatusPcs
      BY <1>a, <3>1 DEF StatusesApart, Apart
    <3>3. PICK m \in Mains : m = call[t].req BY <3>1
    <3>4. /\ main'[m].event = main[m].event /\ main'[m].cost = main[m].cost
          /\ ledger'[m] = ledger[m]
      BY <2>3, <3>2, <3>3, StatusKept
    <3>5. BudgetSource(m)' = BudgetSource(m) /\ (Has(m, "RESERVE")' <=> Has(m, "RESERVE"))
      BY <3>4 DEF BudgetSource, Has
    <3>6. BudgetSource(call[t].req)' = BudgetSource(m) /\ (Has(call[t].req, "RESERVE")' <=> Has(m, "RESERVE"))
      BY <2>1, <3>3, <3>5 DEF Same, BudgetSource, Has
    <3> QED BY <2>1, <3>3, <3>6 DEF ReturnInv, PricedCall, Same
  <2>4. CASE call[t].pc \notin {"finalize.lock", "finalize.writeoff", "finalize.approve"}
    BY <2>1, <2>4 DEF PricedCall, Same
  <2> QED BY <1>a, <2>2, <2>3, <2>4
<1>1. CASE Create
  <2>a. PICK m \in Mains : \E row : main[m] = NoMain /\ main' = [main EXCEPT ![m] = row]
    BY <1>1, CreateSteps
  <2>1. PICK row : main[m] = NoMain /\ main' = [main EXCEPT ![m] = row]
    BY <2>a
  <2>2. UNCHANGED <<child, ledger, call>> BY <1>1, CreateSteps
  <2>3. ~Created(m) BY <2>1 DEF NoMain, Created
  <2>4. ASSUME NEW s \in Sessions, call[s].pc \in PcsOfMain
        PROVE  main'[call[s].req] = main[call[s].req]
    <3>1. call[s].req \in Mains /\ Created(call[s].req)
      BY <2>4 DEF TypeOK, ArchiveInv, ArchiveCall
    <3> QED BY <2>1, <2>3, <3>1 DEF TypeOK
  <2>5. ASSUME NEW s \in Sessions PROVE PricedCall(call[s])'
    BY <2>2, <2>4 DEF ReturnInv, PricedCall, PcsOfMain, Has, BudgetSource
  <2> QED BY <1>0, <2>2, <2>5 DEF ReturnInv
<1>2. ASSUME NEW s \in Sessions, AdminCall(s) \/ HRCall(s) PROVE ReturnInv'
  <2>1. PICK c : Fresh(c) /\ call' = [call EXCEPT ![s] = c] BY <1>2, NewCalls
  <2>2. UNCHANGED ledger BY <1>2, NewCalls
  <2>3. call'[s] = c BY <2>1 DEF TypeOK
  <2>4. PricedCall(call[s])' BY <2>1, <2>3 DEF Fresh, PricedCall
  <2>5. UNCHANGED <<main, ledger>> BY <1>2, NewCalls
  <2> QED BY <1>0, <1>2, <1>a, <2>2, <2>4, <2>5 DEF ReturnInv, Acts
<1>3. ASSUME NEW s \in Sessions, Reads(s) PROVE ReturnInv'
  <2>1. UNCHANGED <<main, child, ledger>> BY <1>3, MovedCalls
  <2>2. PricedCall(call'[s]) BY <1>3, PricedMoves DEF ReturnInv
  <2>3. PricedCall(call[s])' BY <2>1, <2>2 DEF PricedCall, Has, BudgetSource
  <2> QED BY <1>0, <1>3, <1>a, <2>1, <2>3 DEF ReturnInv, Acts
<1>4. ASSUME NEW s \in Sessions, Commits(s) PROVE ReturnInv'
  <2>1. \A t \in Sessions : PricedCall(call[t])'
    <3>1. call'[s].pc = "idle" BY <1>4, CallEnds DEF Idle
    <3>2. PricedCall(call[s])' BY <3>1 DEF PricedCall
    <3> QED BY <1>4, <1>a, <3>2 DEF Acts
  <2>2. call[s].pc # "idle"
    BY <1>4 DEF Commits, SubmitSplit, EditInsert, DecideCommit, PrepareCommit, RemoveDelete,
                StatusUpdate, FinalizeApprove, CancelCommit, At
  <2>a. PICK m \in Mains : m = MainOf(s) BY <2>2, MainOfType
  <2>3. m = MainOf(s) /\ (SubmitSplit(s) \/ FinalizeApprove(s) \/ CancelCommit(s) => ~Returned(m))
    BY <2>a DEF CancelInv, SubmitSplit, FinalizeApprove, CancelCommit, At, StatusPcs, PcsOfMain
  <2>4. \A x \in Mains : x # m => LedgerOrder(x)'
    BY <1>4, <2>3, OthersKept DEF ReturnInv, LedgerOrder, OneReturn, Returned, Has
  <2>5. ASSUME LedgerOrder(m)' PROVE ReturnInv'
    BY <2>1, <2>4, <2>5 DEF ReturnInv
  <2>6. call[s].price \in Prices /\ call[s].spend \in Prices BY DEF TypeOK, Calls
  <2>7. SpendRows \subseteq LedgerRows BY DEF SpendRows, LedgerRows
  <2>8. CASE SubmitSplit(s)
    <3>1. m = call[s].req BY <2>3, <2>8 DEF SubmitSplit, At, MainOf, PcsOfMain
    <3> DEFINE a == Entry("RESERVE", call[s].price)
    <3>2. Book(m, a) BY <2>8, <3>1 DEF SubmitSplit
    <3>3. a \in Seq(SpendRows) BY <2>6, EntryOps
    <3>4. \A j \in DOMAIN a : a[j].op = "RESERVE" BY DEF Entry
    <3> HIDE DEF a
    <3>5. ~Returned(m)' BY <2>3, <2>8, <3>2, <3>3, SpendingReturnsNothing
    <3>6. a \in Seq(LedgerRows) BY <2>7, <3>3
    <3>7. Has(m, "WRITE_OFF")' => Has(m, "WRITE_OFF") BY <3>2, <3>4, <3>6, BookedRows
    <3>8. Has(m, "RESERVE") => Has(m, "RESERVE")' BY <3>2, <3>6, BookedRows
    <3>9. LedgerOrder(m)' BY <3>5, <3>7, <3>8 DEF LedgerOrder, OneReturn, Returned, ReturnInv
    <3> QED BY <2>5, <3>9
  <2>9. CASE FinalizeApprove(s)
    <3>1. m = call[s].req /\ call[s].pc = "finalize.approve"
      BY <2>3, <2>9 DEF FinalizeApprove, At, MainOf, PcsOfMain
    <3> DEFINE a == Entry("RESERVE", call[s].price)
               b == Entry("WRITE_OFF", call[s].spend)
    <3>2. Book(m, a \o b) BY <2>9, <3>1 DEF FinalizeApprove
    <3>3. a \in Seq(SpendRows) /\ b \in Seq(SpendRows) BY <2>6, EntryOps
    <3>4. call[s].price.amount # 0 => Len(a) = 1 /\ a[1].op = "RESERVE" BY DEF Entry
    <3>5. call[s].spend.amount = 0 => Len(b) = 0 BY DEF Entry
    <3>6. \A j \in DOMAIN a : a[j].op = "RESERVE" BY DEF Entry
    <3> HIDE DEF a, b
    <3>7. /\ a \o b \in Seq(SpendRows) /\ Len(a \o b) = Len(a) + Len(b)
          /\ \A i \in 1..(Len(a) + Len(b)) :
               (a \o b)[i] = IF i <= Len(a) THEN a[i] ELSE b[i - Len(a)]
      BY <3>3, ConcatProperties
    <3>8. ~Returned(m)' BY <2>3, <2>9, <3>2, <3>7, SpendingReturnsNothing
    <3>9. a \o b \in Seq(LedgerRows) BY <2>7, <3>7
    <3>10. Has(m, "RESERVE") => Has(m, "RESERVE")' BY <3>2, <3>9, BookedRows
    <3>11. CASE Has(m, "RESERVE")
      <4>1. LedgerOrder(m)' BY <3>8, <3>10, <3>11 DEF LedgerOrder, OneReturn, Returned
      <4> QED BY <2>5, <4>1
    <3>12. CASE ~Has(m, "RESERVE") /\ call[s].price.amount # 0
      <4>1. 1 \in DOMAIN (a \o b) /\ (a \o b)[1].op = "RESERVE"
        <5>1. Len(a) = 1 /\ Len(b) \in Nat BY <3>3, <3>4, <3>12
        <5>2. 1 \in 1..(Len(a) + Len(b)) BY <5>1
        <5> QED BY <3>4, <3>7, <3>12, <5>1, <5>2
      <4>2. Has(m, "RESERVE")' BY <3>2, <3>9, <4>1, BookedRows
      <4>3. LedgerOrder(m)' BY <3>8, <4>2 DEF LedgerOrder, OneReturn, Returned
      <4> QED BY <2>5, <4>3
    <3>13. CASE ~Has(m, "RESERVE") /\ call[s].price.amount = 0
      <4>1. call[s].spend.amount = 0 BY <3>1, <3>13 DEF ReturnInv, PricedCall
      <4>2. ~Has(m, "WRITE_OFF") BY <3>13 DEF ReturnInv, LedgerOrder
      <4>3. ASSUME NEW j \in DOMAIN (a \o b) PROVE (a \o b)[j].op = "RESERVE"
        <5>1. Len(b) = 0 /\ Len(a) \in Nat BY <3>3, <3>5, <4>1
        <5>2. j \in 1..(Len(a) + Len(b)) /\ j <= Len(a) /\ j \in DOMAIN a BY <3>3, <3>7, <5>1
        <5> QED BY <3>6, <3>7, <5>2
      <4>4. ~Has(m, "WRITE_OFF")'
        <5>1. Has(m, "WRITE_OFF")' <=>
                Has(m, "WRITE_OFF") \/ \E j \in DOMAIN (a \o b) : (a \o b)[j].op = "WRITE_OFF"
          BY <3>2, <3>9, BookedRows
        <5> QED BY <4>2, <4>3, <5>1
      <4>5. LedgerOrder(m)' BY <3>8, <4>4 DEF LedgerOrder, OneReturn, Returned
      <4> QED BY <2>5, <4>5
    <3> QED BY <3>11, <3>12, <3>13
  <2>10. CASE CancelCommit(s)
    <3>1. m = call[s].req BY <2>3, <2>10 DEF CancelCommit, At, MainOf, PcsOfMain
    <3> DEFINE op == ReturnOperation(m)
               p == BudgetSource(m)
    <3>2. RefundBudget(m) BY <2>10, <3>1 DEF CancelCommit
    <3>3. CASE op = "NONE" \/ p.amount = 0
      <4>1. UNCHANGED ledger BY <3>2, <3>3 DEF RefundBudget
      <4> QED BY <1>0, <2>5, <4>1
    <3>4. CASE op # "NONE" /\ p.amount # 0
      <4>1. op \in Returns /\ Has(m, "RESERVE")
        BY <3>4 DEF ReturnOperation, Returns, ReturnInv, LedgerOrder
      <4>2. p \in Prices BY SourceType
      <4> DEFINE row == [op |-> op, contract |-> p.contract, amount |-> p.amount]
      <4>3. Entry(op, p) = <<row>> BY <3>4 DEF Entry
      <4>4. Book(m, <<row>>) BY <3>2, <3>4, <4>3 DEF RefundBudget
      <4> HIDE DEF op, p
      <4>5. row \in LedgerRows BY <3>4, <4>1, <4>2 DEF LedgerRows, Prices, Returns
      <4> HIDE DEF row
      <4>6. ledger' = [ledger EXCEPT ![m] = Append(@, row)] BY <4>4, <4>5, BookOne
      <4>7. Has(m, "RESERVE")'
        <5>1. <<row>> \in Seq(LedgerRows) BY <4>5
        <5>2. Has(m, "RESERVE") => Has(m, "RESERVE")' BY <4>4, <5>1, BookedRows
        <5> QED BY <4>1, <5>2
      <4>8. OneReturn(m)'
        <5> DEFINE old == ledger[m]
        <5>1. old \in Seq(LedgerRows) /\ DOMAIN ledger = Mains BY DEF TypeOK
        <5>2. ledger'[m] = Append(old, row) BY <4>6, <5>1
        <5>3. \A i \in DOMAIN old : old[i].op \notin Returns BY <2>3, <2>10 DEF Returned
        <5> HIDE DEF old
        <5>4. \A i \in DOMAIN Append(old, row) :
                Append(old, row)[i].op \in Returns => i = Len(old) + 1
          BY <5>1, <5>3
        <5> QED BY <5>2, <5>4 DEF OneReturn
      <4>9. LedgerOrder(m)' BY <4>7, <4>8 DEF LedgerOrder
      <4> QED BY <2>5, <4>9
    <3> QED BY <3>3, <3>4
  <2>11. CASE EditInsert(s) \/ DecideCommit(s) \/ PrepareCommit(s) \/ RemoveDelete(s)
              \/ StatusUpdate(s)
    <3>1. UNCHANGED ledger
      BY <2>11 DEF EditInsert, DecideCommit, PrepareCommit, RemoveDelete, StatusUpdate
    <3> QED BY <1>0, <2>5, <3>1
  <2> QED BY <1>4, <2>8, <2>9, <2>10, <2>11 DEF Commits
<1>5. ASSUME NEW s \in Sessions, Fail(s) PROVE ReturnInv'
  <2>1. call'[s].pc = "idle" BY <1>5, CallEnds DEF Idle
  <2>2. UNCHANGED <<main, ledger>> BY <1>5 DEF Fail
  <2>3. PricedCall(call[s])' BY <2>1 DEF PricedCall
  <2> QED BY <1>0, <1>5, <1>a, <2>2, <2>3 DEF ReturnInv, Acts
<1>6. CASE UNCHANGED vars
  <2>1. UNCHANGED <<main, ledger, call>> BY <1>6 DEF vars
  <2> QED BY <1>0, <2>1 DEF ReturnInv, PricedCall, Has, BudgetSource
<1> QED BY <1>1, <1>2, <1>3, <1>4, <1>5, <1>6 DEF Next

(* The rows counted are those of a finite ledger.                          *)
LEMMA OneIsEnough ==
  ASSUME TypeOK, NEW m \in Mains, LedgerOrder(m)
  PROVE  Count(m, {"RELEASE", "REFUND"}) <= Count(m, {"RESERVE"})
<1> DEFINE back == {i \in DOMAIN ledger[m] : ledger[m][i].op \in {"RELEASE", "REFUND"}}
           taken == {i \in DOMAIN ledger[m] : ledger[m][i].op \in {"RESERVE"}}
<1>1. IsFiniteSet(DOMAIN ledger[m])
  <2>1. ledger[m] \in Seq(LedgerRows) BY DEF TypeOK
  <2>2. DOMAIN ledger[m] = 1..Len(ledger[m]) /\ Len(ledger[m]) \in Int BY <2>1
  <2> QED BY <2>2, FS_Interval
<1>2. IsFiniteSet(taken) BY <1>1, FS_Subset
<1>3. Cardinality(taken) \in Nat BY <1>2, FS_CardinalityType
<1>4. CASE back = {}
  <2>1. Cardinality(back) = 0 BY <1>4, FS_EmptySet
  <2> QED BY <1>3, <2>1 DEF Count
<1>5. CASE back # {}
  <2>1. PICK i \in back : TRUE BY <1>5
  <2>2. back = {i} BY <2>1 DEF LedgerOrder, OneReturn, Returns
  <2>3. Cardinality(back) = 1 BY <2>2, FS_Singleton
  <2>4. taken # {} BY <2>1 DEF LedgerOrder, Returned, Returns, Has
  <2>5. Cardinality(taken) # 0 BY <1>2, <2>4, FS_EmptySet
  <2> QED BY <1>3, <2>3, <2>5 DEF Count
<1> QED BY <1>4, <1>5

(* As long as calls that write the status of one request do not overlap,   *)
(* money comes back at most once per reservation, whatever the request     *)
(* goes through.                                                           *)
THEOREM MoneyComesBackOnce == Spec /\ []StatusesApart => []ReturnOnce
<1>1. Init => CancelInv /\ ReturnInv
  BY DEF Init, CancelInv, GivenBack, Returned, Idle, StatusPcs, PcsOfMain, Decides, ReturnInv,
         LedgerOrder, OneReturn, Has, PricedCall
<1>2. StatusesApart /\ TypeOK /\ CancelInv /\ [Next]_vars => CancelInv' BY CancelStep
<1>3. StatusesApart /\ TypeOK /\ ArchiveInv /\ CancelInv /\ ReturnInv /\ [Next]_vars => ReturnInv' BY ReturnStep
<1>4. TypeOK /\ ReturnInv => ReturnOnce BY OneIsEnough DEF ReturnInv, ReturnOnce
<1> QED BY <1>1, <1>2, <1>3, <1>4, ArchiveCorrect, TypeCorrect, PTL DEF Spec
=============================================================================
