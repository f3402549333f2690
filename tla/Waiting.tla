------------------------------- MODULE Waiting -------------------------------
(***************************************************************************)
(* What the transactions of the platform wait for: rows another one has    *)
(* updated, and a second connection of the pool they already hold one of   *)
(* (getRequestBudgetSource and checkEmailUnique query through the pool,    *)
(* not through the transaction).  Each handler is reduced to the order in  *)
(* which it locks rows and asks for that connection.                       *)
(*                                                                         *)
(* PostgreSQL and its pool are external: an UPDATE or SELECT FOR UPDATE    *)
(* locks its row until the transaction ends, in an order of PostgreSQL's   *)
(* choice when it hits several; a cycle of transactions waiting for each   *)
(* other is found and one of them is aborted.  The key locks that inserts  *)
(* take on the rows they refer to are left out.                            *)
(***************************************************************************)
EXTENDS Integers, Sequences, FiniteSets

CONSTANTS Requests,     \* main requests
          Subs,         \* request -> its subrequests
          Contracts, ContractOf,
          Events, Roster,  \* event -> its participants
          People,       \* users that have an employee
          Sessions,     \* concurrent calls
          Watched,      \* those whose end is asked for: one stands for all
          Pool,         \* connections of the pool, 30 by default
          Null

ASSUME WaitingAssumption ==
  /\ ContractOf \in [Requests -> Contracts]
  /\ DOMAIN Subs = Requests /\ DOMAIN Roster = Events
  /\ Watched \subseteq Sessions
  /\ Pool \in Nat \ {0}

VARIABLE run  \* what the transaction of each session has done and wants

Row(table, key) == [table |-> table, key |-> key]
Mains(m) == {Row("main", m)}
SubsOf(m) == {Row("sub", c) : c \in Subs[m]}
Contract(m) == {Row("contract", ContractOf[m])}
RosterOf(x) == {Row("participant", <<x, e>>) : e \in Roster[x]}
Rows == (UNION {Mains(m) \cup SubsOf(m) \cup Contract(m) : m \in Requests})
        \cup (UNION {{Row("event", x)} \cup RosterOf(x) : x \in Events})
        \cup {Row(t, k) : t \in {"user", "employee"}, k \in People}

\* Lock takes all the rows, in any order; Some those that match a condition.
Lock(rows) == [kind |-> "lock", rows |-> rows]
Some(rows) == [kind |-> "some", rows |-> rows]
Query == [kind |-> "query", rows |-> {}]
-----------------------------------------------------------------------------
(* The handlers.                                                           *)

\* reserveBudgetTx: the source of the budget, then the contract unless the price is 0.
ReserveBudget(m) == <<Query, Some(Contract(m))>>
\* refundBudgetTx updates the contract when there is something to give back.
RefundBudget(m) == <<Query, Some(Contract(m))>>

SubmitRequest(m) == ReserveBudget(m) \o <<Lock(Mains(m))>>
PrepareAdminRequest(m) == <<Lock(Mains(m)), Query>>
\* Mutant: syncParent gets the id of the subrequest instead of its parent's.
SyncsItself(m, c) == <<Lock({Row("sub", c)}), Lock(Mains(c))>>
FinalizeHRRequest(m, c) == <<Lock({Row("sub", c)}), Lock(Mains(m))>>

\* finalizeAdminRequest of a request whose budget is reserved, and of one that has to
\* reserve first.  Mutant: the status is written first.
FinalizeReserved(m) == <<Query, Lock(Mains(m))>>
StatusFirst(m) == <<Lock(Mains(m))>> \o ReserveBudget(m) \o <<Query>>
FinalizeAdminRequest(m) == ReserveBudget(m) \o FinalizeReserved(m)

CancelAdminRequest(m) == <<Lock(Mains(m)), Some(SubsOf(m))>> \o RefundBudget(m)

\* bulkUpdateAttendance goes through the list in the order of the client.
BulkUpdateAttendance(x) == <<Some(RosterOf(x))>>
\* UpdateEvent with employee_ids.
UpdateEvent(x) == <<Lock({Row("event", x)}), Lock(RosterOf(x))>>

\* patchEmployee, softDeleteEmployee.
PatchEmployee(k) == <<Query, Some({Row("user", k)}), Lock({Row("employee", k)})>>
DeleteEmployee(k) == <<Lock({Row("user", k)}), Lock({Row("employee", k)})>>

\* Handlers that lock in the order subrequest or contract, then main request; user,
\* then employee.
Ordered ==
  {SubmitRequest(m) : m \in Requests} \cup {PrepareAdminRequest(m) : m \in Requests}
  \cup {FinalizeReserved(m) : m \in Requests} \cup {FinalizeAdminRequest(m) : m \in Requests}
  \cup (UNION {{FinalizeHRRequest(m, c) : c \in Subs[m]} : m \in Requests})
  \cup {PatchEmployee(k) : k \in People} \cup {DeleteEmployee(k) : k \in People}

\* Handlers that do not.
Unordered ==
  {CancelAdminRequest(m) : m \in Requests}
  \cup {BulkUpdateAttendance(x) : x \in Events} \cup {UpdateEvent(x) : x \in Events}
-----------------------------------------------------------------------------
Idle == [prog |-> << >>, at |-> 0, held |-> {}, want |-> Null]

Init == run = [s \in Sessions |-> Idle]

Running(s) == run[s].at > 0
Doing(s, kinds) == Running(s) /\ run[s].prog[run[s].at].kind \in kinds
Step(s) == run[s].prog[run[s].at]
Holders(r) == {s \in Sessions : r \in run[s].held}

\* One connection for each transaction.  A nested query takes another one for a
\* step: once it has it, it waits for nothing.
FreeConnection == Cardinality({s \in Sessions : Running(s)}) < Pool

To(s, rec) == run' = [run EXCEPT ![s] = rec]

Begin(s) ==
  /\ ~Running(s) /\ FreeConnection
  /\ \E p \in Ordered \cup Unordered : To(s, [Idle EXCEPT !.prog = p, !.at = 1])

\* The rows a statement has yet to hit: it locks the next one, or waits for the one
\* that holds it.
Ahead(s) == IF Doing(s, {"lock", "some"}) /\ run[s].want = Null
              THEN Step(s).rows \ run[s].held ELSE {}

Take(s, r) == Holders(r) = {} /\ To(s, [run[s] EXCEPT !.held = @ \cup {r}])
Wait(s, r) == Holders(r) # {} /\ To(s, [run[s] EXCEPT !.want = r])

Grant(s) == /\ run[s].want # Null /\ Holders(run[s].want) = {}
            /\ To(s, [run[s] EXCEPT !.held = @ \cup {run[s].want}, !.want = Null])

\* Mutant: the handler returns and leaves its transaction open.
LeftOpen(s) == IF run[s].at = Len(run[s].prog) THEN run[s]
               ELSE [run[s] EXCEPT !.at = @ + 1]
\* After the last step the transaction commits, which frees its rows and connection.
StepDone(s) == IF run[s].at = Len(run[s].prog) THEN Idle
               ELSE [run[s] EXCEPT !.at = @ + 1]

StatementDone(s) ==
  /\ Doing(s, {"lock", "some"}) /\ run[s].want = Null
  /\ Step(s).kind = "lock" => Step(s).rows \subseteq run[s].held
  /\ To(s, StepDone(s))

NestedQuery(s) == Doing(s, {"query"}) /\ FreeConnection /\ To(s, StepDone(s))

\* A statement fails, or the client leaves, and the handler rolls back.
Rollback(s) == Running(s) /\ To(s, Idle)

\* S is a cycle (or several): each waits for one of S and each is waited for.
Waiters == {s \in Sessions : run[s].want # Null}
WaitsFor(s) == Holders(run[s].want)
Cycle(S) == /\ S # {}
            /\ \A s \in S : WaitsFor(s) # {} /\ WaitsFor(s) \subseteq S
            /\ S = UNION {WaitsFor(s) : s \in S}

Deadlocked(s) == s \in Waiters /\ \E S \in SUBSET Waiters : s \in S /\ Cycle(S)
AbortVictim(s) == Deadlocked(s) /\ To(s, Idle)

Advance(s) ==
  \/ \E r \in Ahead(s) : Take(s, r) \/ Wait(s, r)
  \/ Grant(s) \/ StatementDone(s) \/ NestedQuery(s) \/ AbortVictim(s)

Next == \E s \in Sessions : Begin(s) \/ Advance(s) \/ Rollback(s)

Spec == Init /\ [][Next]_run

\* A handler that can go on does, locks and connections are given in the order they
\* were asked for, and PostgreSQL looks for deadlocks after deadlock_timeout: what a
\* call waits for may come and go, but is not withheld from it for ever.
Fairness == \A s \in Sessions : SF_run(Advance(s))

LiveSpec == Spec /\ Fairness
-----------------------------------------------------------------------------
(***************************************************************************)
(* Properties.                                                             *)
(***************************************************************************)
TypeOK ==
  /\ run \in [Sessions -> [prog : Ordered \cup Unordered \cup {<< >>}, at : Nat,
                           held : SUBSET Rows, want : Rows \cup {Null}]]
  /\ \A s \in Sessions : IF Running(s) THEN run[s].at <= Len(run[s].prog) ELSE run[s] = Idle

\* finalizeHRRequest, submitRequest, prepareAdminRequest, finalizeAdminRequest and the
\* handlers of employees lock in one order: a deadlock always has a cancellation, an
\* attendance list or a new roster in it.
DeadlockNeedsUnordered ==
  \A S \in SUBSET Waiters : Cycle(S) => \E s \in S : run[s].prog \in Unordered

\* The one standstill nobody resolves: every connection is in use, and a transaction
\* wants a second one while the others wait for it, or for one as well.
Stuck(s) ==
  /\ Running(s)
  /\ \/ s \in Waiters /\ WaitsFor(s) # {}
     \/ Doing(s, {"query"}) /\ ~FreeConnection
AllStuck == (\E s \in Sessions : Running(s)) /\ \A s \in Sessions : Running(s) => Stuck(s)
Standstill == /\ AllStuck /\ ~FreeConnection
              /\ \A s \in Waiters : ~Deadlocked(s)

\* Every call ends, also one that waits for rows others keep locking, unless the
\* pool is used up by transactions that wait for it.
EveryCallEnds == \A s \in Watched : Running(s) ~> ~Running(s) \/ Standstill
=============================================================================
