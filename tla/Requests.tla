------------------------------ MODULE Requests ------------------------------
(***************************************************************************)
(* The training-request workflow of orgstructure/requests/requests.go:     *)
(* an administrator's main request is split into one subrequest per DZO,   *)
(* HRs decide the subrequests, the administrator finalises or cancels, and *)
(* the contract of the training event pays.                                *)
(*                                                                         *)
(* Every HTTP call runs in a session.  A handler first reads the request   *)
(* outside any transaction and checks it, then opens a READ COMMITTED      *)
(* transaction that does not check again, so the state may have moved in   *)
(* between.  A session's "pc" says which statement comes next and the rest *)
(* of its record is what the handler read so far.  Uncommitted writes are  *)
(* invisible to the other sessions, so each transaction's writes appear at *)
(* its last step; the row locks it holds until then are the definitions    *)
(* MainLocked, ChildLocked and ContractLocked.                             *)
(***************************************************************************)
EXTENDS Integers, Sequences, FiniteSets

CONSTANTS Mains,         \* ids main requests may get
          Dzos, Emps,    \* organisations and employees
          DzoOf,         \* employee -> its DZO
          HrOf,          \* DZO -> the HR user resolveHRByDZOs finds
          Admins,        \* users with role ADM or SA
          SuperAdmins,   \* those of them with role SA
          Events,        \* training events
          ContractOf,    \* event -> its supplier contract, or Null
          Contracts, Opening,  \* contract_suppliers rows, remaining_amount at start
          Costs,         \* positive values of cost_amount
          Sessions,      \* concurrent HTTP calls
          Null,          \* SQL NULL / uuid.Nil / no row
          MaxRounds,     \* bound: times one request is split
          MaxRows        \* bound: ledger rows of one request

ASSUME RequestsAssumption ==
  /\ DzoOf \in [Emps -> Dzos]
  /\ SuperAdmins \subseteq Admins
  /\ ContractOf \in [Events -> Contracts \cup {Null}]
  /\ Opening \in [Contracts -> Nat]
  /\ Costs \subseteq Nat \ {0}
  /\ MaxRounds \in Nat /\ MaxRows \in Nat
  /\ Null \notin Contracts /\ Null \notin Mains /\ Null \notin Events

VARIABLES main,       \* rows of requests with request_type MAIN
          child,      \* rows with request_type SUBREQUEST
          remaining,  \* contract_suppliers.remaining_amount
          ledger,     \* request_budget_transactions, per request in order
          call        \* what each session is doing

vars == <<main, child, remaining, ledger, call>>

Statuses == {"DRAFT", "IN_PROGRESS", "PENDING", "APPROVED", "REJECTED", "COMPLETED"}
OpenStatuses == {"IN_PROGRESS", "PENDING"}
ClosedStatuses == {"APPROVED", "COMPLETED", "REJECTED"}

\* A subrequest is identified by its parent, the submission that created it and
\* its target DZO: parent_request_id and target_dzo_id are never updated.
Rounds == 1..MaxRounds
Children == Mains \X Rounds \X Dzos
ChildrenOf(m) == {r \in Children : r[1] = m}
DzoStaff(d) == {e \in Emps : DzoOf[e] = d}

NoMain == [status |-> "NONE", kind |-> "REGULAR", initiator |-> Null, event |-> Null,
           cost |-> 0, emps |-> {}, dzos |-> {}]
NoChild == [status |-> "NONE", emps |-> {}]
NoPrice == [contract |-> Null, amount |-> 0]
Idle == [pc |-> "idle", req |-> Null, emps |-> {}, rows |-> {}, dzos |-> {},
         verdict |-> "NONE", parent |-> "NONE", event |-> Null, cost |-> 0,
         price |-> NoPrice, spend |-> NoPrice]

Init == /\ main = [m \in Mains |-> NoMain]
        /\ child = [r \in Children |-> NoChild]
        /\ remaining = Opening
        /\ ledger = [m \in Mains |-> <<>>]
        /\ call = [s \in Sessions |-> Idle]
-----------------------------------------------------------------------------
(* Row locks.  A transaction holds the rows it has updated, or selected    *)
(* FOR UPDATE, until it commits.                                           *)
MainLocked(m) == \E s \in Sessions : call[s].pc = "prepare.commit" /\ call[s].req = m
ChildLocked(r) == \E s \in Sessions : call[s].pc = "decide.commit" /\ call[s].req = r

HoldsBudget(s) == /\ call[s].pc \in {"submit.split", "finalize.writeoff", "finalize.approve"}
                  /\ call[s].price.amount > 0
\* Mutant: the SELECT of reserveBudgetTx without FOR UPDATE.
ContractNeverLocked(c) == FALSE
ContractLocked(c) == \E s \in Sessions : HoldsBudget(s) /\ call[s].price.contract = c

(* Session bookkeeping: one call at a time, one statement after another.   *)
Start(s, rec) == call[s] = Idle /\ call' = [call EXCEPT ![s] = rec]
At(s, pc) == call[s].pc = pc
Return(s) == call' = [call EXCEPT ![s] = Idle]

Open(r) == child[r].status \in OpenStatuses
-----------------------------------------------------------------------------
(* The budget helpers.  getRequestBudgetSource reads through db, not tx,   *)
(* so it sees the last committed event and cost of the request.            *)
BudgetSource(m) ==
  IF main[m].cost = 0 THEN NoPrice
  ELSE [contract |-> IF main[m].event = Null THEN Null ELSE ContractOf[main[m].event],
        amount |-> main[m].cost]

Has(m, op) == \E i \in DOMAIN ledger[m] : ledger[m][i].op = op

\* The ledger rows one operation writes: none for a request without a price.
\* Mutant: the amount <= 0 test dropped.
EntryAlways(op, p) == <<[op |-> op, contract |-> p.contract, amount |-> p.amount]>>
Entry(op, p) ==
  IF p.amount = 0 THEN <<>>
  ELSE <<[op |-> op, contract |-> p.contract, amount |-> p.amount]>>

\* INSERT INTO request_budget_transactions.
Book(m, rows) == /\ Len(ledger[m]) + Len(rows) <= MaxRows
                 /\ ledger' = [ledger EXCEPT ![m] = @ \o rows]

\* UPDATE contract_suppliers SET remaining_amount = remaining_amount + d: no row
\* matches when the request has no contract.
AddToRemaining(c, d) ==
  remaining' = [x \in Contracts |-> IF x = c THEN remaining[x] + d ELSE remaining[x]]

\* reserveBudgetTx, its writes: the locked row was found to have enough.
\* Mutant: the reservation is logged and the UPDATE is lost.
TakeNothing(p) == UNCHANGED remaining
TakeReserved(p) == AddToRemaining(p.contract, 0 - p.amount)

\* SELECT remaining_amount ... FOR UPDATE, then the "not enough budget" check.
LockBudget(s, pc, next) ==
  LET p == call[s].price IN
  /\ At(s, pc)
  /\ p.contract \in Contracts
  /\ ~ContractLocked(p.contract)
  /\ remaining[p.contract] >= p.amount
  /\ call' = [call EXCEPT ![s].pc = next]
  /\ UNCHANGED <<main, child, remaining, ledger>>

\* The operation refundBudgetTx books for the request, if any.
\* Mutants: the RESERVE tested first; the test for a RESERVE dropped.
ReleaseFirst(m) == IF Has(m, "RESERVE") THEN "RELEASE"
                   ELSE IF Has(m, "WRITE_OFF") THEN "REFUND" ELSE "NONE"
ReleaseAlways(m) == IF Has(m, "WRITE_OFF") THEN "REFUND" ELSE "RELEASE"
ReturnOperation(m) == IF Has(m, "WRITE_OFF") THEN "REFUND"
                      ELSE IF Has(m, "RESERVE") THEN "RELEASE" ELSE "NONE"

\* refundBudgetTx.
RefundBudget(m) ==
  LET p == BudgetSource(m)
      op == ReturnOperation(m)
  IN IF op = "NONE" \/ p.amount = 0
     THEN UNCHANGED <<remaining, ledger>>
     ELSE /\ p.contract \in Contracts => ~ContractLocked(p.contract)
          /\ AddToRemaining(p.contract, p.amount)
          /\ Book(m, Entry(op, p))
-----------------------------------------------------------------------------
(* Creating requests: the checks read only the directory, the insert is    *)
(* one transaction.                                                        *)
\* RecreateRejectedRequest names an old request and leaves it as it is.
Recreatable(old) == old # Null => main[old].status = "REJECTED"

CreateAdminRequest(old, m, a, ev, cost, E, D) ==
  /\ Recreatable(old)
  /\ main[m] = NoMain
  /\ E # {} \/ D # {}
  /\ main' = [main EXCEPT ![m] = [NoMain EXCEPT !.status = "DRAFT", !.initiator = a,
                                   !.event = ev, !.cost = cost, !.emps = E, !.dzos = D]]
  /\ UNCHANGED <<child, remaining, ledger, call>>

CreateHRRequest(m, d, E) ==
  /\ main[m] = NoMain
  /\ E \subseteq DzoStaff(d)
  /\ main' = [main EXCEPT ![m] = [NoMain EXCEPT !.status = "IN_PROGRESS",
                                   !.initiator = HrOf[d], !.emps = E, !.dzos = {d}]]
  /\ UNCHANGED <<child, remaining, ledger, call>>

\* CLOSED and ARCHIVED behave alike: every guard only asks for REGULAR.
CreateArchiveRequest(m, a, E) ==
  /\ main[m] = NoMain
  /\ E # {}
  /\ main' = [main EXCEPT ![m] = [NoMain EXCEPT !.status = "COMPLETED",
                                   !.kind = "ARCHIVED", !.initiator = a, !.emps = E]]
  /\ UNCHANGED <<child, remaining, ledger, call>>
-----------------------------------------------------------------------------
(* submitRequest: split the main request into one subrequest per DZO.      *)
\* Mutant: only the explicitly targeted DZOs get a subrequest.
SplitTargetsOnly(m) == main[m].dzos
SplitDzos(m) == main[m].dzos \cup {DzoOf[e] : e \in main[m].emps}

SubmitCheck(s, m, a) ==
  /\ main[m].status = "DRAFT"
  /\ main[m].kind = "REGULAR"
  /\ main[m].initiator = a \/ a \in SuperAdmins
  /\ SplitDzos(m) # {}
  /\ Start(s, [Idle EXCEPT !.pc = "submit.reserve", !.req = m,
                           !.emps = main[m].emps, !.dzos = SplitDzos(m)])
  /\ UNCHANGED <<main, child, remaining, ledger>>

\* reserveBudgetTx up to its SELECT ... FOR UPDATE.
SubmitReserve(s) ==
  LET p == BudgetSource(call[s].req) IN
  /\ At(s, "submit.reserve")
  /\ call' = [call EXCEPT ![s].price = p,
                          ![s].pc = IF p.amount = 0 THEN "submit.split" ELSE "submit.lock"]
  /\ UNCHANGED <<main, child, remaining, ledger>>

SubmitLock(s) == LockBudget(s, "submit.lock", "submit.split")

\* Mutant: every subrequest gets all participants.
SplitEveryone(s, d) == call[s].emps
SplitEmps(s, d) == call[s].emps \cap DzoStaff(d)

Unused(m, k) == \A d \in Dzos : child[<<m, k, d>>] = NoChild

SubmitSplit(s) ==
  LET m == call[s].req IN
  /\ At(s, "submit.split")
  /\ ~MainLocked(m)
  /\ \E k \in Rounds :
       /\ Unused(m, k)
       /\ \A j \in 1..(k - 1) : ~Unused(m, j)
       /\ child' = [r \in Children |->
            IF r[1] = m /\ r[2] = k /\ r[3] \in call[s].dzos
            THEN [status |-> "IN_PROGRESS", emps |-> SplitEmps(s, r[3])]
            ELSE child[r]]
  /\ main' = [main EXCEPT ![m].status = "IN_PROGRESS"]
  /\ TakeReserved(call[s].price)
  /\ Book(m, Entry("RESERVE", call[s].price))
  /\ Return(s)
-----------------------------------------------------------------------------
(* updateHRRequestEmployees: the assigned HR replaces the participants.    *)
\* Mutant: the whole row is saved back with the status the check has seen.
EditedAsRead(row, E) == [row EXCEPT !.emps = E, !.status = "IN_PROGRESS"]
Edited(row, E) == [row EXCEPT !.emps = E]

EditCheck(s, r, E) ==
  /\ Open(r)
  /\ E \subseteq DzoStaff(r[3])
  /\ Start(s, [Idle EXCEPT !.pc = "edit.delete", !.req = r, !.emps = E])
  /\ UNCHANGED <<main, child, remaining, ledger>>

\* DELETE FROM request_participants: the rows this statement can see.
EditDelete(s) ==
  /\ At(s, "edit.delete")
  /\ call' = [call EXCEPT ![s].pc = "edit.insert", ![s].rows = child[call[s].req].emps]
  /\ UNCHANGED <<main, child, remaining, ledger>>

\* The inserts fail on the unique (request_id, employee_id) index if a
\* concurrent edit has put one of them back meanwhile; the rows this edit puts
\* in are new ones that a concurrent DELETE does not see.
EditInsert(s) ==
  LET r == call[s].req
      E == call[s].emps
      kept == child[r].emps \ call[s].rows
  IN /\ At(s, "edit.insert")
     /\ ~ChildLocked(r)
     /\ E \cap kept = {}
     /\ child' = [child EXCEPT ![r] = Edited(@, kept \cup E)]
     /\ call' = [t \in Sessions |->
                   CASE t = s -> Idle
                     [] t # s /\ At(t, "edit.insert") /\ call[t].req = r ->
                          [call[t] EXCEPT !.rows = @ \ E]
                     [] OTHER -> call[t]]
     /\ UNCHANGED <<main, remaining, ledger>>
-----------------------------------------------------------------------------
(* finalizeHRRequest: ApproveHRRequest (v = APPROVED) and CancelHRRequest. *)
\* Mutant: the participant count is not asked for.
MayDecideEmpty(r, v) == Open(r)
MayDecide(r, v) == Open(r) /\ (v = "APPROVED" => child[r].emps # {})

DecideCheck(s, r, v) ==
  /\ MayDecide(r, v)
  /\ Start(s, [Idle EXCEPT !.pc = "decide.update", !.req = r, !.verdict = v])
  /\ UNCHANGED <<main, child, remaining, ledger>>

\* syncParentRequestStatusTx: the status the parent gets when the children of m
\* have the statuses st; only committed statuses and the own update are seen.
\* Mutant: approved only if every child is.
ParentStatusAll(m, st) ==
  IF \E r \in ChildrenOf(m) : st[r] \in OpenStatuses THEN "IN_PROGRESS"
  ELSE IF \A r \in ChildrenOf(m) : st[r] # "REJECTED" THEN "APPROVED" ELSE "REJECTED"
ParentStatus(m, st) ==
  IF \E r \in ChildrenOf(m) : st[r] \in OpenStatuses THEN "IN_PROGRESS"
  ELSE IF \E r \in ChildrenOf(m) : st[r] = "APPROVED" THEN "APPROVED" ELSE "REJECTED"

\* UPDATE the subrequest (waits for its row) and count its siblings.
DecideUpdate(s) ==
  LET r == call[s].req
      seen == [x \in Children |-> IF x = r THEN call[s].verdict ELSE child[x].status]
  IN /\ At(s, "decide.update")
     /\ ~ChildLocked(r)
     /\ call' = [call EXCEPT ![s].pc = "decide.commit",
                             ![s].parent = ParentStatus(r[1], seen)]
     /\ UNCHANGED <<main, child, remaining, ledger>>

\* UPDATE the parent (waits for its row) and commit both.
DecideCommit(s) ==
  LET r == call[s].req IN
  /\ At(s, "decide.commit")
  /\ ~MainLocked(r[1])
  /\ child' = [child EXCEPT ![r].status = call[s].verdict]
  /\ main' = [main EXCEPT ![r[1]].status = call[s].parent]
  /\ Return(s)
  /\ UNCHANGED <<remaining, ledger>>
-----------------------------------------------------------------------------
(* prepareAdminRequest, and ContinueAdminRequestWithInactiveEmployees.     *)
\* Mutant: archive requests are not refused.
PreparableAnyKind(m) == main[m].status \notin {"NONE", "REJECTED", "COMPLETED"}
Preparable(m) == /\ main[m].status \notin {"NONE", "REJECTED", "COMPLETED"}
                 /\ main[m].kind = "REGULAR"

PrepareCheck(s, m, ev, cost) ==
  /\ Preparable(m)
  /\ Start(s, [Idle EXCEPT !.pc = "prepare.update", !.req = m, !.event = ev, !.cost = cost])
  /\ UNCHANGED <<main, child, remaining, ledger>>

\* UPDATE the request, then checkAvailableBudgetTx: its budget source is read
\* outside the transaction, so it is the one before this update.
PrepareUpdate(s) ==
  LET m == call[s].req
      p == BudgetSource(m)
  IN /\ At(s, "prepare.update")
     /\ ~MainLocked(m)
     /\ p.amount > 0 => p.contract \in Contracts
     /\ call' = [call EXCEPT ![s].pc = "prepare.commit",
                             ![s].verdict = IF p.amount > 0 /\ remaining[p.contract] < p.amount
                                            THEN "DRAFT" ELSE main[m].status]
     /\ UNCHANGED <<main, child, remaining, ledger>>

PrepareCommit(s) ==
  /\ At(s, "prepare.commit")
  /\ main' = [main EXCEPT ![call[s].req] = [@ EXCEPT !.event = call[s].event,
                                                     !.cost = call[s].cost,
                                                     !.status = call[s].verdict]]
  /\ Return(s)
  /\ UNCHANGED <<child, remaining, ledger>>
-----------------------------------------------------------------------------
(* removeAdminRequestEmployee.                                             *)
RemoveCheck(s, m, e) ==
  /\ main[m].status \notin ClosedStatuses \cup {"NONE"}
  /\ Start(s, [Idle EXCEPT !.pc = "remove.delete", !.req = m, !.emps = {e}])
  /\ UNCHANGED <<main, child, remaining, ledger>>

RemoveDelete(s) ==
  /\ At(s, "remove.delete")
  /\ main' = [main EXCEPT ![call[s].req].emps = @ \ call[s].emps]
  /\ Return(s)
  /\ UNCHANGED <<child, remaining, ledger>>
-----------------------------------------------------------------------------
(* saveAdminRequestDraft, approveAdminRequest and rejectAdminRequest: a    *)
(* check and one UPDATE that asks for nothing but the id.                  *)
SaveDraftCheck(s, m) ==
  /\ main[m].status \notin ClosedStatuses \cup {"NONE"}
  /\ Start(s, [Idle EXCEPT !.pc = "status.update", !.req = m, !.verdict = "DRAFT"])
  /\ UNCHANGED <<main, child, remaining, ledger>>

ApproveCheck(s, m) ==
  /\ main[m].status \in OpenStatuses \cup {"DRAFT"}
  /\ Start(s, [Idle EXCEPT !.pc = "status.update", !.req = m, !.verdict = "APPROVED"])
  /\ UNCHANGED <<main, child, remaining, ledger>>

RejectCheck(s, m) ==
  /\ main[m].status \in OpenStatuses
  /\ Start(s, [Idle EXCEPT !.pc = "status.update", !.req = m, !.verdict = "REJECTED"])
  /\ UNCHANGED <<main, child, remaining, ledger>>

StatusUpdate(s) ==
  /\ At(s, "status.update")
  /\ ~MainLocked(call[s].req)
  /\ main' = [main EXCEPT ![call[s].req].status = call[s].verdict]
  /\ Return(s)
  /\ UNCHANGED <<child, remaining, ledger>>
-----------------------------------------------------------------------------
(* finalizeAdminRequest.                                                   *)
FinalizeCheck(s, m) ==
  /\ main[m].status \notin {"NONE", "REJECTED"}
  /\ Start(s, [Idle EXCEPT !.pc = "finalize.count", !.req = m])
  /\ UNCHANGED <<main, child, remaining, ledger>>

AllDecided(m) == \A r \in ChildrenOf(m) : ~Open(r)

FinalizeCount(s) ==
  /\ At(s, "finalize.count")
  /\ AllDecided(call[s].req)
  /\ call' = [call EXCEPT ![s].pc = "finalize.reserve"]
  /\ UNCHANGED <<main, child, remaining, ledger>>

\* budgetOperationExistsTx and, without a RESERVE, the start of reserveBudgetTx.
FinalizeReserve(s) ==
  LET m == call[s].req
      p == IF Has(m, "RESERVE") THEN NoPrice ELSE BudgetSource(m)
  IN /\ At(s, "finalize.reserve")
     /\ call' = [call EXCEPT ![s].price = p,
                   ![s].pc = IF p.amount = 0 THEN "finalize.writeoff" ELSE "finalize.lock"]
     /\ UNCHANGED <<main, child, remaining, ledger>>

FinalizeLock(s) == LockBudget(s, "finalize.lock", "finalize.writeoff")

\* writeOffBudgetTx reads the budget source a second time, and books nothing if
\* the request was written off before.
Spend(m) == IF Has(m, "WRITE_OFF") THEN NoPrice ELSE BudgetSource(m)

FinalizeWriteOff(s) ==
  /\ At(s, "finalize.writeoff")
  /\ call' = [call EXCEPT ![s].pc = "finalize.approve", ![s].spend = Spend(call[s].req)]
  /\ UNCHANGED <<main, child, remaining, ledger>>

FinalizeApprove(s) ==
  LET m == call[s].req IN
  /\ At(s, "finalize.approve")
  /\ ~MainLocked(m)
  /\ main' = [main EXCEPT ![m].status = "APPROVED"]
  /\ TakeReserved(call[s].price)
  /\ Book(m, Entry("RESERVE", call[s].price) \o Entry("WRITE_OFF", call[s].spend))
  /\ Return(s)
  /\ UNCHANGED child
-----------------------------------------------------------------------------
(* cancelAdminRequest: the transaction holds the request and its open      *)
(* subrequests, so nothing it reads can change before it commits.          *)
\* Mutant: without the "already cancelled" check.
CancellableAgain(m) == main[m].status # "NONE"
Cancellable(m) == main[m].status \notin {"NONE", "REJECTED"}

CancelCheck(s, m) ==
  /\ Cancellable(m)
  /\ Start(s, [Idle EXCEPT !.pc = "cancel.commit", !.req = m])
  /\ UNCHANGED <<main, child, remaining, ledger>>

\* Mutant: only the legacy PENDING subrequests are closed.
ClosesPending(m, r) == r[1] = m /\ child[r].status = "PENDING"
Closes(m, r) == r[1] = m /\ Open(r)

CancelCommit(s) ==
  LET m == call[s].req IN
  /\ At(s, "cancel.commit")
  /\ ~MainLocked(m)
  /\ \A r \in Children : Closes(m, r) => ~ChildLocked(r)
  /\ main' = [main EXCEPT ![m].status = "REJECTED"]
  /\ child' = [r \in Children |-> IF Closes(m, r)
                                  THEN [child[r] EXCEPT !.status = "REJECTED"]
                                  ELSE child[r]]
  /\ RefundBudget(m)
  /\ Return(s)
-----------------------------------------------------------------------------
\* Any call may end early: a refused check inside the transaction ("not enough
\* budget", open subrequests), a failed statement, a deadlock broken by the
\* database, a lost client.  defer tx.Rollback() leaves nothing behind.
Fail(s) == /\ call[s] # Idle
           /\ Return(s)
           /\ UNCHANGED <<main, child, remaining, ledger>>

Create ==
  \/ \E old \in Mains \cup {Null}, m \in Mains, a \in Admins, ev \in Events,
        cost \in Costs \cup {0}, E \in SUBSET Emps, D \in SUBSET Dzos :
       CreateAdminRequest(old, m, a, ev, cost, E, D)
  \/ \E m \in Mains, d \in Dzos, E \in SUBSET Emps : CreateHRRequest(m, d, E)
  \/ \E m \in Mains, a \in Admins, E \in SUBSET Emps : CreateArchiveRequest(m, a, E)

AdminCall(s) ==
  \E m \in Mains :
    \/ \E a \in Admins : SubmitCheck(s, m, a)
    \/ \E ev \in Events, cost \in Costs \cup {0} : PrepareCheck(s, m, ev, cost)
    \/ \E e \in Emps : RemoveCheck(s, m, e)
    \/ SaveDraftCheck(s, m)
    \/ ApproveCheck(s, m)
    \/ RejectCheck(s, m)
    \/ FinalizeCheck(s, m)
    \/ CancelCheck(s, m)

HRCall(s) ==
  \E r \in Children :
    \/ \E E \in SUBSET Emps : EditCheck(s, r, E)
    \/ \E v \in {"APPROVED", "REJECTED"} : DecideCheck(s, r, v)

\* The statements after the check: those that only read, those that commit.
Reads(s) == \/ SubmitReserve(s) \/ SubmitLock(s) \/ EditDelete(s) \/ DecideUpdate(s)
            \/ PrepareUpdate(s) \/ FinalizeCount(s) \/ FinalizeReserve(s)
            \/ FinalizeLock(s) \/ FinalizeWriteOff(s)
Commits(s) == \/ SubmitSplit(s) \/ EditInsert(s) \/ DecideCommit(s) \/ PrepareCommit(s)
              \/ RemoveDelete(s) \/ StatusUpdate(s) \/ FinalizeApprove(s) \/ CancelCommit(s)

Next == \/ Create
        \/ \E s \in Sessions : AdminCall(s) \/ HRCall(s) \/ Reads(s) \/ Commits(s) \/ Fail(s)

Spec == Init /\ [][Next]_vars
-----------------------------------------------------------------------------
(***************************************************************************)
(* Properties.                                                             *)
(***************************************************************************)
Prices == [contract : Contracts \cup {Null}, amount : Costs \cup {0}]
Initiators == Admins \cup {HrOf[d] : d \in Dzos}
MainRows == [status : Statuses \cup {"NONE"}, kind : {"REGULAR", "ARCHIVED"},
             initiator : Initiators \cup {Null},
             event : Events \cup {Null}, cost : Costs \cup {0},
             emps : SUBSET Emps, dzos : SUBSET Dzos]
ChildRows == [status : Statuses \cup {"NONE"}, emps : SUBSET Emps]
LedgerRows == [op : {"RESERVE", "WRITE_OFF", "RELEASE", "REFUND"},
               contract : Contracts \cup {Null}, amount : Costs]
PcsOfMain == {"submit.reserve", "submit.lock", "submit.split", "prepare.update",
              "prepare.commit", "remove.delete", "status.update", "finalize.count",
              "finalize.reserve", "finalize.lock", "finalize.writeoff",
              "finalize.approve", "cancel.commit"}
PcsOfChild == {"edit.delete", "edit.insert", "decide.update", "decide.commit"}
Calls == [pc : {"idle"} \cup PcsOfMain \cup PcsOfChild,
          req : Mains \cup Children \cup {Null},
          emps : SUBSET Emps, rows : SUBSET Emps, dzos : SUBSET Dzos,
          verdict : Statuses \cup {"NONE"}, parent : Statuses \cup {"NONE"},
          event : Events \cup {Null}, cost : Costs \cup {0},
          price : Prices, spend : Prices]

TypeOK ==
  /\ main \in [Mains -> MainRows]
  /\ child \in [Children -> ChildRows]
  /\ remaining \in [Contracts -> Int]
  /\ ledger \in [Mains -> Seq(LedgerRows)]
  /\ call \in [Sessions -> Calls]
  /\ \A s \in Sessions : /\ call[s].pc \in PcsOfMain => call[s].req \in Mains
                         /\ call[s].pc \in PcsOfChild => call[s].req \in Children

\* The workflow implements the abstract ledger of ContractBudget.tla: whatever
\* calls run concurrently, money moves only in the ways promised there.
Budget == INSTANCE ContractBudget WITH Amounts <- Costs
BudgetSpec == Budget!Spec

\* reserveBudgetTx: concurrent submissions and finalisations never overdraw a
\* contract, although the price is read before the contract row is locked.
NoOverdraft == Budget!NoOverdraft

\* refundBudgetTx: a REFUND only after a WRITE_OFF, a RELEASE only after a
\* RESERVE and never after a WRITE_OFF, for cancellations racing finalisation.
ReturnsFollow == Budget!ReturnsFollow

\* The balance of every contract is explained by the ledger to the last unit.
LedgerBalanced == Budget!LedgerBalanced

\* Each transaction moves a balance by exactly what the rows it adds say.
EveryStepBalanced == [][Budget!StepBalanced]_<<remaining, ledger>>

\* Archive requests document past trainings: whatever is called on them, no
\* contract pays for one and no HR is asked about one.
ArchiveNeverCharged ==
  \A m \in Mains : main[m].kind = "ARCHIVED" =>
    ledger[m] = <<>> /\ \A r \in ChildrenOf(m) : child[r] = NoChild

\* Neither the split nor any interleaving of HR edits puts an employee of
\* another DZO on a subrequest.
ChildrenStayInDzo == \A r \in Children : child[r].emps \subseteq DzoStaff(r[3])

\* A subrequest that was decided, by its HR or by the cancellation of its
\* parent, never becomes open again, not even for a call that read it earlier.
NeverReopened ==
  [][\A r \in Children : ~Open(r) /\ child[r] # NoChild => ~Open(r)']_child

\* Lemma of the proofs: a session that holds a contract row found enough money
\* in it, and nobody else holds that row or moves its money.
BudgetLockInv ==
  \A s \in Sessions : HoldsBudget(s) =>
    LET p == call[s].price IN
    /\ p.contract \in Contracts
    /\ remaining[p.contract] >= p.amount
    /\ \A t \in Sessions \ {s} : HoldsBudget(t) => call[t].price.contract # p.contract
-----------------------------------------------------------------------------
(* What the checks at the start of a handler promise of its commit.  All   *)
(* but SplitCovers need that certain calls do not overlap: one session.    *)
Finishes(s, pc) == /\ At(s, pc) /\ call'[s] = Idle
                   /\ <<main, child, ledger>>' # <<main, child, ledger>>
Count(m, ops) == Cardinality({i \in DOMAIN ledger[m] : ledger[m][i].op \in ops})

\* finalizeHRRequest: "cannot approve request without employees", and no later
\* edit empties an approved subrequest.
ApprovedHasEmployees ==
  \A r \in Children : child[r].status = "APPROVED" => child[r].emps # {}

\* syncParentRequestStatusTx: the HR decision that closes the last open
\* subrequest leaves the parent APPROVED if any was approved, else REJECTED.
ParentFollowsChildren ==
  [][\A s \in Sessions : LET r == call[s].req IN
       Finishes(s, "decide.commit")
         /\ (\A x \in ChildrenOf(r[1]) : child'[x].status \notin OpenStatuses) =>
         main'[r[1]].status =
           IF \E x \in ChildrenOf(r[1]) : child'[x].status = "APPROVED"
           THEN "APPROVED" ELSE "REJECTED"]_vars

\* submitRequest: every participant of the request is on exactly the subrequest
\* of the own DZO, and every targeted DZO gets a subrequest.  The list was read
\* before the transaction; nothing adds to it once the request exists.
SplitCovers ==
  [][\A s \in Sessions : LET m == call[s].req IN
       Finishes(s, "submit.split") =>
         \E k \in Rounds : \A d \in Dzos :
           LET r == <<m, k, d>> IN
           /\ child[r] = NoChild
           /\ main[m].emps \cap DzoStaff(d) \subseteq child'[r].emps
           /\ d \in main[m].dzos => child'[r].status = "IN_PROGRESS"]_vars

\* cancelAdminRequest: "request is already cancelled", money comes back at most
\* once per reservation, through any sequence of submit, draft, finalise, cancel.
ReturnOnce ==
  \A m \in Mains : Count(m, {"RELEASE", "REFUND"}) <= Count(m, {"RESERVE"})

\* cancelAdminRequest closes the request for good: what was given back can not
\* be decided, finalised or submitted again.
CancelledIsFinal ==
  \A m \in Mains : Count(m, {"RELEASE", "REFUND"}) > 0 =>
    main[m].status = "REJECTED" /\ \A r \in ChildrenOf(m) : ~Open(r)

\* CancelAdminRequest: "cancels a main request and refunds budget"; a request
\* that got money back holds nothing back from any contract any more.  The code
\* does not keep this (README, Disagreements); no run checks it.
CancelRestoresBudget ==
  \A m \in Mains : Count(m, {"RELEASE", "REFUND"}) > 0 =>
    \A c \in Contracts : Budget!Held(m, c) = 0
=============================================================================
