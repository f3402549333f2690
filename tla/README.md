# Verification of sana-platform

TLA+ models of the learning-management backend in `src/` (Go, Encore, PostgreSQL),
checked with TLC on small instances and, where it matters most, proved with TLAPS
for every value of the parameters. Everything here was translated from the code;
line numbers refer to it.

## 1. The system

All services share one PostgreSQL database (`lms`). An HTTP call is one handler
running to completion; many run at once, in several processes, and meet only in the
database. Transactions are opened with `Client.Tx(ctx)` and default options, so they
run at READ COMMITTED. Nothing else is shared: what is hard about this program is
*the order of statements of concurrent calls*.

| Component | State | Operations | Hard behaviour | Correct when |
|---|---|---|---|---|
| Training requests (`orgstructure/requests`) | `requests` (MAIN and SUBREQUEST rows), `request_participants` | create, recreate, HR and archive creation, prepare, submit, HR edit, HR approve/cancel, remove employee, save draft, approve, reject, finalise, cancel | every handler checks before its transaction and never again inside it; parent status derived from children | no decision is undone, participants stay with their DZO, the parent follows its subrequests |
| Contract budget (same package) | `contract_suppliers.remaining_amount`, `request_budget_transactions` | reserve, write off, refund | price and contract read outside the transaction, check and update under a row lock | never overdrawn, money back at most once and only after it was taken, rows explain the balance |
| Supplier contracts (`orgstructure/contracts_suppliers`) | contract rows, amendments, documents in a bucket | create, update, amend, delete, upload | no transaction at all: checks and sums come from a row read before; row and bucket are two stores | at most one amendment; amendments respect reservations; the row's document exists |
| Contract history | audit rows | insert after each contract change, read | written after the change, failure only logged | the newest record shows the row |
| Events (`courses/events`) | `events`, `event_participants` | create, update, cancel, complete, (un)register, attendance | the last place, replacing participants while someone registers | capacity, attendance, terminal status |
| Courses (`orgstructure/courses`) | `training_events`, files | CRUD | deletion of an event a request refers to | – |
| External trainings, suppliers, DZO, organisations, clients, categories | directory rows | CRUD, import | – | – |
| Users, employees (`orgstructure/users`, `orgstructure/employees`) | rows of `users` and `employees`, the account in Keycloak | create, import, register admin, patch, delete, roles, block, first login | two systems without a common transaction; compensations that fail themselves | no account without its user, one e-mail per person, Keycloak agrees when nothing was given up |
| SCORM progress (`orgstructure/scorm_progress`) | `scorm_progresses`, no unique index | assign, reassign, report | existing rows are read before the transaction that inserts; reports race resets | bounded number of rows per employee and course, a completed course has its date |
| Certificates, certificate requests (`learning/certificates`, `certrequests`) | rows, uploaded files, renewal requests | create, update, delete, upload, renew, review, weekly job | mails that fail, a job killed half-way, a job overlapping itself | every expiry is announced, a linked file exists |
| Notifications | `notifications` | notify | check, send, save are three steps | at least one mail per key; a SENT row is never older than its mail |
| Authentication | cached keys | validate | – | – |
| ORM, mail tool | generated code; a command line tool | – | – | – |

Interaction: requests read courses (`training_events.contract_id`), employees, users
(HR of a DZO) and write contracts; contracts write the audit trail the history
service reads; certificates call notifications; events read employees and users.

Hazards are listed with their lines in `PROJECT.json`.

## 2. Modules

    ContractBudget        the abstract ledger: what reserve, write-off and refund promise
      ContractBudgetProofs  its theorems
    Requests              the request workflow, statement by statement where calls interleave
      RequestsProofs        its theorems; Requests implements ContractBudget
      MCRequests            TLC instances (three configurations)
    Contracts             supplier contracts on top of ContractBudget (EXTENDS)
      ContractsProofs       its theorems
      MCContracts           TLC instances
    Events                training events: places, registration, attendance
      EventsProofs          its theorems
      MCEvents              TLC instances
    Waiting               row locks and connections: what the transactions wait for
      WaitingProofs         its theorems
      MCWaiting             TLC instance
    Accounts              users and employees in the database and in Keycloak
      AccountsProofs        its theorems
      MCAccounts            TLC instance
    Certificates          certificates, renewals, notifications and the weekly job
      CertificatesProofs    its theorems
      MCCertificates        TLC instance
    Progress              assignment of courses and reports of progress
      ProgressProofs        its theorems
      MCProgress            TLC instance

### ContractBudget

State: `remaining` per contract, `ledger` per request. Three operations: `Reserve`
(only with enough money), `WriteOff` (books, moves nothing), `GiveBack` (a `REFUND`
after a `WRITE_OFF`, else a `RELEASE` after a `RESERVE`). A `Reserve` and a
`WriteOff` of one finalisation may be one step. It has no idea of statuses, HRs or
sessions, and it deliberately promises no more than the code keeps under concurrency:
an amount is returned *after* one was taken, not that it is the same amount.

### Requests

| Variable | Code |
|---|---|
| `main` | `requests` rows of type MAIN: status, kind, initiator, training event, cost, participants, target DZOs |
| `child` | SUBREQUEST rows: status and participants; the key is (parent, submission, DZO) because `parent_request_id` and `target_dzo_id` never change |
| `remaining` | `contract_suppliers.remaining_amount` |
| `ledger` | `request_budget_transactions` by request, in order |
| `call` | one record per session: where its handler is (`pc`) and what it has read |

A handler is a chain of actions. `...Check` is everything before `Client.Tx`: it reads
the request and applies every guard. The following actions are the statements of the
transaction at which other calls can make a difference: a read of committed data that
is used later, the acquisition of a row lock, the commit. Writes of a transaction become
visible together, at its last action; the locks held until then are the derived
predicates `MainLocked`, `ChildLocked` and `ContractLocked`. `Fail` ends any call with
nothing written: a refused check inside the transaction, a failing statement, a
deadlock victim, a lost client (`defer tx.Rollback()`).

Decisions behind it:

* Several reads of one pre-transaction check are one step; a create is one step, since
  its checks read only the directory.
* `getRequestBudgetSource` reads through `db`, not through the transaction, so
  `BudgetSource` always yields committed values, also after the transaction's own
  UPDATE (`checkAvailableBudgetTx` in prepare therefore tests the *old* price).
* Cancellation commits in one step: it first updates the parent, which every
  transaction that books on the same request also updates, and the open subrequests.
* Participants are replaced by DELETE and INSERT: a DELETE removes only what it can
  see, and the unique index lets overlapping edits merge or fail (`EditInsert`).
* `CreateAdminRequest` is both creation and `RecreateRejectedRequest`, which additionally
  names a rejected request (`old`) and does not touch it; the runs of Requests have one
  main request and exercise it as a plain creation.
* CLOSED and ARCHIVED requests are treated alike by every guard and are one kind.
  Status PENDING is legacy: guards mention it, no code writes it.
* `ContinueAdminRequestWithInactiveEmployees` changes the state as prepare does.
* Directory data (DZO, HR of a DZO, employees, contract of an event) is constant.
  Roles are the sets `Admins` and `SuperAdmins`; other role tests are left out, as are
  search, listing, formatting, and the active flag of employees.
* Amounts are natural numbers (cents). The code uses float64 over numeric(14,2).
* `request_budget_transactions` has no migration in the repository; its shape is taken
  from the INSERT and SELECT statements.

### Events

| Variable | Code |
|---|---|
| `event` | rows of `events`: status, company, host, places |
| `part` | `event_participants` by event and employee: the attendance status, or NONE for no row (the pair is unique) |
| `call` | one record per session, as in Requests |

`ReplaceCheck`, `UpdateDelete`, `UpdateInsert` are UpdateEvent with a list of employees:
the DELETE takes the rows it can see and locks them; an employee who registers before the
INSERT stays, or makes the INSERT fail. `RegisterGet`, `RegisterCount`, `RegisterInsert`,
`RegisterCommit` are the statements of `enrollEmployee`; the second count is part of
`RegisterInsert` because only the wait for the unique key lies between the two.
`AttendanceMark` updates one employee, `AttendanceCommit` makes the marks visible.
An INSERT of a participant takes a key-share lock on the event, which an UPDATE of status
or places does not conflict with, so registrations never wait for administrators.
`canSeeEvent` compares the company of the token; the model takes it to be the company of
the employee record. Left out: dates, titles and links, `reviewed_by` and `reviewed_at`,
roles, duplicate employees in one attendance request, and the materials link.

### Contracts

Extends ContractBudget with what administrators do to the contracts the requests draw on.

| Variable | Code |
|---|---|
| `row` | rows of `contract_suppliers`: status (`is_active`), amount, total with amendment, amendment, file; 0 stands for no amendment, whose amounts are positive |
| `remaining`, `ledger` | those of ContractBudget |
| `bucket` | keys present in the bucket `contract-files` |
| `newest` | the newest `contract_supplier_history` record of a contract: operation and snapshot |
| `call` | one record per session, as in Requests |

A handler is check, save, audit; an upload is check, object, removal of the old object,
row, audit. No transaction spans two of them. A save goes by id alone and writes only the
columns it sets, so `AmendSave` stores sums of what `AmendCheck` has read while
`remaining` moved on. `BudgetCall` is a step of ContractBudget by a session of its own: the
transaction holds the contract row, so it is atomic for these handlers, and one session
alone means that nothing overlaps with it. `Fault` stops a call before its next statement;
before the audit that is also the audit failure the handlers only log. `LinkFails` is the
failing row update of an upload with its clean-up. Left out: numbers, dates, currencies,
the diff of an audit record and its older records, file sizes and types.

### Waiting

Requests, Events and Accounts let a statement wait for a row by a guard; they do not ask
who waits for whom. `Waiting` does, and nothing else: a handler is the sequence of rows it
locks and of the connections it asks for.

| Variable | Code |
|---|---|
| `run[s].prog`, `at` | the handler and its current statement, `SubmitRequest(m)` = `ReserveBudget(m)` then the request, and so on |
| `run[s].held` | rows its UPDATEs and `ForUpdate` reads have locked |
| `run[s].want` | the row it waits for |

`Query` is a query through the pool inside a transaction (`getRequestBudgetSource`,
`checkEmailUnique`): it needs a free connection while the transaction holds one.
A statement over several rows locks them one by one in any order. `AbortVictim` is
PostgreSQL's deadlock detection: one transaction of a cycle is rolled back. `Rollback` is
every other early end; in `patchEmployee` a bad `birth_date` or a missing user skips the
deferred rollback (the `err` it tests is shadowed, employees.go:958), and only the end of
the request's context rolls back, which comes to the same `Rollback`. The programs are
split in `Ordered` (subrequest or contract before main request, user before employee) and
`Unordered` (cancellation, attendance lists, new rosters). Left out: the key locks of
inserts and foreign keys, and handlers that update one row.

### Accounts

| Variable | Code |
|---|---|
| `account` | accounts in Keycloak by id: e-mail, enabled, business roles |
| `user`, `emp` | rows of `users` and `employees`, named by the Keycloak id, which is unique |
| `call` | one record per session: the handler (`kind`), where it is (`pc`), what it has read (`past`, `rep`), which accounts it has made (`made`), what it has changed in Keycloak (`did`), whether it takes it back (`undo`) |
| `overlapped`, `lost` | history for the properties: calls have overlapped; Keycloak did not answer, or a call was cut off, with this id in hand |

Every call of Keycloak is a step with its failing alternative, every transaction another
one, and `CallDies` cuts a call off anywhere. Decisions behind it:

* `CreateEmployee`, `ImportEmployees` and `RegisterAdmin` are one chain: accounts one after
  the other (`CreateAccount`, or `CreateConflict` and the take-over of a disabled account),
  their roles, one transaction for all rows, and the deletion of the accounts if it fails.
  An empty role always fails the insert (employees.go:101-104): the failing alternative of
  `CreateInsert`.
* A patch is: reads, role in Keycloak, role in the row, GET and PUT of the whole account,
  the rest of the rows and the commit; on failure of a statement the same calls backwards.
  A failing *profile* call returns without taking the role back, as the code does.
* `RemoveRoles` is one step for the GET and DELETE of the roles.
* Employees are not named by positions, DZO and other fields: a change of any of them is
  `other`, which matters because it makes the patch write the account.

### Certificates

| Variable | Code |
|---|---|
| `cert`, `stored` | rows of `certificates`; files in `/tmp/certificates` |
| `renewal` | renewal requests |
| `note` | the row of `notifications` of the certificate's owner: NONE, SENT or FAILED |
| `job` | executions of `CheckExpiringCertificates`: what is left to do, and the attempts at the current HR |
| `told`, `mailed`, `recorded` | history: who was sent a mail, and how many mails left a SENT row |

`Time` moves a certificate into the six months before its expiry and past it. The job reads
its batch once and works on stale rows from then on, while calls update and delete.
`NotifyCheck`, `NotifySend`, `NotifySave` are the three steps of `NotifyUserWithEntity`. The
mail provider is a stub today; `ProviderMayFail` says whether it fails. `JobCrash` is a restart.
Left out: field validation, download, and the loss of `/tmp` at a restart.

### Progress

`row` are the rows of `scorm_progresses` by id, `live` the employees that are not deleted.
`AssignCheck` reads the existing rows, `AssignSave` is the transaction that resets those and
inserts the others; `UpdateCheck` and `UpdateSave` read and write one row by id, so that a
report that was on its way during a reassignment marks the new attempt (a late report after
a reset brings the old status back). Score and suspend data are left out.

## 3. Runs

| Run | Question | Instance |
|---|---|---|
| `race_budget` | two concurrent calls of any kind on a request with a price: refinement of ContractBudget, `LedgerBalanced`, and the row lock that keeps submission and finalisation from overdrawing | 1 request, 1 DZO, costs 0..2, 2 sessions, 3 rows |
| `race_split` | two calls on a request over two DZOs: participants never mix, none is lost when the request is split, decisions never reopen | 2 DZOs, 2 employees, 2 sessions, no price |
| `serial` | what the guards promise if calls do not overlap: archive requests stay free, no approval without employees, money back once, a cancellation is final, the parent follows its subrequests | 1 session, 2 submissions, 2 DZOs, 2 employees, 3 rows |
| `events_race` | two calls on one event: companies stay apart, marks never restore a removed participant | 1 event with 1 place, 2 employees of 2 companies, 2 sessions |
| `events_serial` | places and attendance if calls do not overlap | 1 event, places 1 and 2, 3 employees, 2 hosts, 1 session |
| `last_place` | a disagreement of the code with its comment (below) | 1 place, 2 employees, empty rosters only, 2 sessions |
| `contracts_race` | two overlapping calls on a contract, statements may fail: never overdrawn | 1 contract, amounts 0 and 1, 1 file, 1 request, 2 sessions |
| `contracts_serial` | totals, document and audit trail agree with the row, and an amendment keeps what is reserved, if calls neither overlap nor fail | 1 contract, amounts 0..2, 2 files, 1 request with 3 rows, 1 session |
| `certificates` | the weekly job next to uploads, updates, deletions and renewals, with failing mails and statements and a restart: every expiry is announced, a SENT row stands for a mail, a linked file exists | 1 certificate, employee, HR, job, session and renewal; 2 attempts, 1 restart (55 thousand states) |
| `accounts` | two overlapping calls, four in all, with every call of Keycloak and every transaction free to fail: no orphan account, one e-mail per person, Keycloak agrees, a blocked user stays out | 2 ids, 2 e-mails, 2 roles, 2 sessions (1.1 million states) |
| `waiting` | which handlers can deadlock, and that every call ends | 1 request with a subrequest, 1 event with 2 guests, 1 employee, 3 sessions, 3 connections (0.4 million states) |
| `progress` | two overlapping assignments and reports: rows and completion dates | 1 course, 2 employees, 4 rows, 2 sessions (0.4 million states) |

**Bounds.** `MaxRounds` bounds how often one request is split (each time needs a return to
DRAFT; two show the effect of a second reservation), `MaxRows` the ledger rows of one
request (three hold RESERVE, WRITE_OFF, REFUND, or a doubled RELEASE). They appear as
guards of `SubmitSplit` and `Book`. `MaxRows` and `MaxBalance` of MCContracts are a
CONSTRAINT: a balance grows without bound when money is patched in again and again, and a
balance of twice the largest amount already holds every order of patch, amendment,
reservation and return. Two sessions are enough for every race between a
check and a commit; a third adds no new pair. A contract of 3 with costs 1 and 2 makes
"enough for one, not for both" and "exactly enough" happen.

`MaxCalls` of Accounts bounds the calls of a behaviour: four are enough for create, patch,
delete and the re-creation that takes the account over, with any two of them overlapping.
Two e-mails make a conflict possible, and an import lists both. `MaxAttempts` is 2 instead
of 3 (one repetition and giving up), `MaxCrashes` allows one restart in any state of the
job. Three sessions and a pool of three in `waiting` give circles of two and three, a victim
with a bystander, and the pool that is used up. Four row ids in `progress` hold two rows of
each employee: exactly the bound of `OneRowPerOverlap`, so that a fifth row is never needed
to violate it for one employee.

Sessions, ids, e-mails, employees, rows and the files of a contract are symmetric where a
run checks safety only; runs with liveness use no symmetry. `CHECK_DEADLOCK FALSE` is in all
configurations but those of Contracts: ids are used up, closed requests and events really end,
and in `waiting` the standstill described below is a real one.

Every property of a passing run has a mutant: a plausible bug in one definition, written
next to it under a name of its own, that makes TLC report the property violated.

**Fairness.** Two modules assume any.

* Certificates, `LiveSpec`: weak fairness of the steps of a job, because the scheduler starts
  it every week and nothing in it waits for anybody; strong fairness of the mail to an HR,
  the mail to the owner, the check before it and the read of the user map, because these may
  fail and are tried again every week, and a service that fails now and then does not fail
  every time. Nothing is assumed of HTTP calls, crashes are bounded.
* Waiting, `LiveSpec`: strong fairness of `Advance` for each session. A handler runs on by
  itself; PostgreSQL grants a lock to its waiters in order, the pool hands out connections
  in order, and `deadlock_timeout` resolves a circle. Clients are not obliged to do anything.

Elsewhere none is assumed: a handler may stop after any statement, nobody retries it, and no
background job repairs a half-done workflow; nothing in the code promises that a request is
ever decided.

## 4. Disagreements

Where the code and its tests or comments disagree.

**Run.** `last_place`: the comment of `enrollEmployee` says that of two overlapping
registrations the loser rolls back; under READ COMMITTED neither second count sees the
other's row and both commit. The instance allows no roster lists and one value of places,
so the overbooking comes from the two registrations alone.

**Stated in the modules, not run.** Each of the following can be reproduced by checking the
named definition under the change given; TLC finds a counterexample within seconds.

| Definition | Change | What happens |
|---|---|---|
| `ReturnOnce` | `race_budget` | two overlapping cancellations both pass "request is already cancelled" outside the transaction; `refundBudgetTx` looks for a RESERVE or WRITE_OFF, never for an earlier return, and pays twice |
| `ParentFollowsChildren` | `race_split` | two HRs decide the last two subrequests at once: each transaction counts the other's as open, both write IN_PROGRESS to the parent, nothing computes it again |
| `ApprovedHasEmployees` | `race_split` | an edit passes its check on an open subrequest, a second call approves the subrequest, and the edit then replaces the participants by an empty list |
| `CancelledIsFinal` | `race_budget` | a save as draft passes its check, the request is cancelled, and the late update by id writes DRAFT: the cancelled request can be submitted again |
| `CancelRestoresBudget` | `serial` with `Costs = {1, 2}` | `prepareAdminRequest` changes the price of a submitted request; the cancellation returns the new price |
| `NoDanglingKey` | `contracts_serial` with `Faults = TRUE` | `UploadFile` removes the old object, or overwrites it under the same name, before it updates the row; if that fails it removes the new object as well ("Roll back the bucket upload to avoid orphaned objects") and the row names an object that is gone |
| `BlockedIsDisabled` | `accounts` | a user is blocked, then the employee is patched with `is_active: true` and another field: the employee was active all along, so `users` stays blocked, and the account in Keycloak is enabled |
| one row of `OneRowPerOverlap` (`<= 1`) | `progress` | two overlapping assignments of a course create two rows where the tests expect one (scorm_progress_test.go:269), and `GetMyCourseProgress` (`.Only`) fails from then on |

**Also met, not stated as a property.**

* Contracts: patching the amount resets `remaining_amount` and forgets what requests have
  reserved; two overlapping amendments both pass the "only one amendment" test.
* Requests: `TestFinalizeMarksRequestCompleted` (requests_test.go:842) expects COMPLETED
  while the code sets APPROVED, and `TestFinalizeBlockedWhenChildRejected` (894) expects a
  refusal that `finalizeAdminRequest` does not make, which also accepts drafts that were
  never submitted; the recreate tests (1185–1302) expect `is_blocked` and a replacement link
  nothing writes, so a rejected request can be recreated any number of times; approve and
  reject ask only for the type MAIN, not for a main request created by HR as their comments
  say; reject leaves the reservation and the open subrequests in place.
* Events: `CompleteEvent` and `DeleteEvent` check the status and update by id, so the later
  of two overlapping calls decides; `max_participants` may be lowered below the number of
  participants when no list is sent.
* Accounts: a creation that fails after it took over a disabled account deletes that account;
  a patch whose profile call fails leaves the new role in Keycloak and the old one in `users`;
  the PUT of a whole account that was read before undoes a block that came in between.
* Certificates: the key of a notification is the certificate, without its expiry date: after
  a renewal of the date the owner is not mailed a second time. A FAILED row keeps the SENT row
  out (ON CONFLICT DO NOTHING), so the mail that finally succeeds is repeated every week. Of
  two overlapping reviews the later one wins (certificate_requests.go:202).

## 5. Proofs

`ContractBudgetProofs` proves for any number of requests, contracts and amounts: types,
`NoOverdraft`, `ReturnsFollow`, that each step moves a balance by what its rows say, and from
that `LedgerBalanced`: a balance is its opening minus all that was ever booked. The last needs
a theory of sums over finite sets (`IsSum`, `Total`), proved first. The library's induction
theorems take an operator as a parameter, so the induction is stated on *sets*: a nonempty set
of naturals has a least member, and a smallest counterexample is refuted. It assumes
`IsFiniteSet(Mains)`: a table holds finitely many rows.

`RequestsProofs` proves for any number of requests, DZOs, employees, contracts and
**sessions**:

* `TypeCorrect`: `Spec => []TypeOK`;
* `LockDiscipline`: `Spec => []BudgetLockInv`. `NoOverdraft` alone is not inductive: a
  session has checked the balance some statements before it debits it. `BudgetLockInv`
  says what the row lock preserves in between: whoever is past `LockBudget` still finds
  its amount there, and no other session is past the lock of the same contract.
  `TypeOK /\ BudgetLockInv` is inductive; the proof has one step per action;
* `Implements`: `Spec => BudgetSpec`. Each action is a step of ContractBudget or leaves
  `remaining` and `ledger` alone; only submit, finalise and cancel are not stutters, and
  the first two need `BudgetLockInv`;
* `NeverOverdrawn`, `ReturnsAreEarned`, `StepsAreBalanced` and, for finitely many requests,
  `LedgerStaysBalanced` (`LedgerBalanced`) follow from the theorems of ContractBudget through
  the refinement;
* `ParticipantsOfDzo` (`ChildrenStayInDzo`), with `DzoInv`: what an edit is about to write
  belongs to the DZO of its subrequest; and `DecisionsAreFinal` (`NeverReopened`), with
  `VerdictInv`: the verdict a decision carries is never an open status;
* `ArchiveIsFree` (`ArchiveNeverCharged`). Its invariant `ArchiveInv` follows an archive
  request through every call that accepts one (draft, approve, finalise, cancel): it has no
  cost, so no call in flight carries a price for it, and calls that split, prepare or decide
  hold only requests that were found regular;
* `SplitIsComplete` (`SplitCovers`), whatever overlaps: a submission reads the participants
  before its transaction, but the rows of a request are only removed after its creation and its
  target DZOs never change, so what `SplitInv` carries from the check covers the rows at commit.

Four more depend on what a handler has read outside its transaction. They are proved for any
number of sessions under a hypothesis about the behaviour, `Spec /\ []H`, that names the calls
which must not overlap and leaves all others free:

| Theorem | Calls that must not overlap | Inductive invariant |
|---|---|---|
| `ApprovalsHaveEmployees` (`ApprovedHasEmployees`) | two calls of an HR on one subrequest (`OneHrCall`) | `ApprovedInv`: who is about to approve still finds employees, and nobody edits an approved subrequest |
| `ParentFollows` (`ParentFollowsChildren`) | decisions, submissions and cancellations of one main request (`DecisionsApart`) | `ParentInv`: the status carried to the commit follows from the subrequests as they are |
| `CancellationIsFinal` (`CancelledIsFinal`) | calls that write the status of one main request or of its subrequests (`StatusesApart`); HR edits and the removal of participants may | `CancelInv`: a request with a RELEASE or a REFUND is rejected, has no open subrequest, and no call that could change that is about it |
| `MoneyComesBackOnce` (`ReturnOnce`) | the same | `ReturnInv`, on top of `CancelInv`: at most one such row, and a RESERVE before any WRITE_OFF, RELEASE or REFUND (finalisation has either seen the RESERVE or carries the price to book one) |

Each hypothesis is satisfied by every behaviour of `serial` and by many that overlap, and none
can be dropped: TLC violates all four properties with two sessions and no hypothesis (section 4).

`EventsProofs` proves for any number of events, employees, companies and sessions:
`TypeCorrect`; `CompaniesApart` (`ParticipantsOfCompany`: what a call inserts was checked
against a company that can not change any more, `CallsOfCompany`); and `MarksKeepRoster`
(`MarkedRowsStay`). The last two are one induction: `AttendanceCommit` writes rows it
locked earlier, and creates none only because the row locks kept them in place, so the
inductive invariant is `TypeOK`, `RowsOfEvents`, `MarkedRowsStay`, `CallsOfCompany` and
`ParticipantsOfCompany` together. Two more need only that calls on *one* event do not overlap (`Apart`, a hypothesis
about the behaviour, `Spec /\ []Apart`): `PlacesAreChecked` (`PlacesChecked`, for a finite
staff) and `MarksAfterCompletion` (`AttendanceAfterEvent`). Both rest on `SeenInv`: what a call
has read of its event's row and roster is still there when it writes.

`ContractsProofs` proves for any number of contracts, requests, amounts and sessions, with
stale reads and failures: `ContractsTypeCorrect`; `ContractsNeverOverdrawn`, where
`NoOverdraft` is strengthened by `FundsRead` (what a pending amendment has read was not
negative) and the steps of requests are taken from the proof about ContractBudget
(`OverdraftStep`); and `DeletionIsFinal` (a deleted contract is never active again, an action
property no run repeats).
As long as calls on one contract do not overlap (`Apart`; calls on different contracts and the
budget transactions of requests may): `TotalsStayExplained` (`TotalExplained`, failures
included); and, where no statement fails, `HistoryStaysCurrent` (`HistoryCurrent`, with
`HistoryInv`: the record about to be written shows the row) and `FilesStayPresent`
(`FilePresent`, with `FileInv`: the objects of a contract at each point of an upload).
`AmendmentsKeepHeld` (`AmendmentKeepsHeld`) assumes besides `Apart` that no budget transaction
moves the balance of a contract whose amendment is pending (`BudgetKeepsOff`): the amendment
saves a balance computed from the one it read, so a reservation in between is lost. These hypotheses are needed:
the code does not enforce them, and section 4 shows what happens without some of them.

`WaitingProofs` proves for any number of calls, requests, events and people
`OrderedNeverDeadlock` (`DeadlockNeedsUnordered`). The inductive invariant `IInv` says that
what a session holds and wants is named by the statements it has come to. Rows get a rank
(subrequest, contract and user 1, main request and employee 2) and every ordered handler
locks upward (`Ascending`); so an ordered transaction that waits for a row holds only rows
below it, and along a circle of them the ranks would have to grow for ever.

`AccountsProofs` proves for any number of ids, e-mails and calls, with every failure:
`TypeCorrect`, `OneEmail` (`EmailAgrees`), `NoAccountLeftBehind` (`NoOrphanAccount`) and
`NoLoginUnblocks` (`BlockedStaysOut`, with `LoginInv`: whoever was found pending still is when
the activation is written, unless calls have overlapped). The
inductive invariant adds `CallOK`, what a call may rely on at each point although the others
go on, and `Owned`: an account without a user, or with a deleted employee, is in `made` of
some call (which will insert its rows or delete it), or was given up. `KeycloakStaysInStep`
(`KeycloakAgrees`) rests on `AgreeInv`: as long as calls have not overlapped, every id outside
`lost` is `Fine` (its rows and its account agree) once no call is at work, and the one call
at work keeps the ids it is about in the shape its next statements expect (`KeptMade`,
`KeptTaken`, `KeptPatch`, `KeptUser`), whichever of them fails. It was checked as an invariant of
the instance of `accounts` before it was proved.

`CertificatesProofs` proves for any number of certificates, HRs, jobs and calls:
`TypeCorrect`; `SentIsMailed` (with `SentInv`: who is about to save has sent); `RecordsAreBounded`
(with `RecordInv`: the SENT rows kept and the jobs past their check of a certificate without
one are together at most the jobs there are); `LinkedIsStored` (with `FiledInv`: who links has
written, and no call removes a file).

`ProgressProofs` proves for any courses, employees, finite set of rows and of calls: `TypeCorrect`,
`CompletionIsDated`, and `RowsAreBounded`, where `RowsInv` counts the rows of a pair together
with the calls that are about to add one.

The proofs rest on the assumptions about the constants named `RequestsAssumption`,
`BudgetAssumption`, `EventsAssumption`, `ContractsAssumption`, `WaitingAssumption`,
`AccountsAssumption`, `CertificatesAssumption` and `ProgressAssumption`. Where a theorem needs
more (finitely many rows in a table, calls that do not overlap, statements that do not fail) its
statement says so.

**Only model-checked.** The two liveness properties (`EveryExpiryAnnounced`, `EveryCallEnds`):
liveness under fairness and ENABLED are out of the prover's reach. So are RECURSIVE operators
(none is used) and inductions that need an operator as a parameter; the sums above avoid
one. Every safety invariant and action property of a passing run is stated by a theorem.

## 6. Not modelled

* **Courses, external trainings, suppliers, DZO, organisations, clients, categories.**
  Handlers that write one row by id (or one row and one object) and keep no relation between
  calls; the other models read them as constants. The import of suppliers is one transaction.
* **Contract history and events, in part.** The diff and list of older audit records, and the
  materials link of an event, have no effect on the rest of the state.
* **Authentication** keeps no state of the platform. **The mail template sender** is a
  command line tool.
* **The database layer.** `src/db/ent` is generated by ent and makes up more than four
  fifths of the repository's lines of Go. Modelling it line by line would say nothing about this
  program; its unique indexes and defaults appear where a model depends on them. It is also
  why the map of `PROJECT.json` covers a small share of all lines while it covers most of the
  state-changing code of the modelled services.
* **In the modelled services**: listing, search, download, formatting, role checks beyond
  those named above, spreadsheet parsing.
