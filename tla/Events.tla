------------------------------- MODULE Events -------------------------------
(***************************************************************************)
(* Training events of courses/events/events.go: an administrator publishes *)
(* an event with a number of places and a first roster, employees of the   *)
(* same company take and leave places, the event is completed or           *)
(* cancelled, and its host marks who attended.                             *)
(*                                                                         *)
(* As in Requests.tla a handler checks first and writes later, nothing is  *)
(* checked again, transactions are READ COMMITTED, and their writes appear *)
(* at their last step.  Inserting a participant needs no lock on the event *)
(* that an UPDATE of its status or places would conflict with.             *)
(***************************************************************************)
EXTENDS Integers, FiniteSets

CONSTANTS Events,       \* ids events may get
          Emps, Clients,
          ClientOf,     \* employee -> its company
          Hosts,        \* users that may host an event
          Seats,        \* positive values of max_participants
          Rosters,      \* the employee_ids lists administrators send
          Sessions,     \* concurrent HTTP calls
          Null

ASSUME EventsAssumption ==
  /\ ClientOf \in [Emps -> Clients]
  /\ Seats \subseteq Nat \ {0}
  /\ Rosters \subseteq SUBSET Emps
  /\ Null \notin Clients /\ Null \notin Hosts /\ Null \notin Seats
  /\ Null \notin {"ACTIVE", "COMPLETED", "CANCELLED"}

VARIABLES event,   \* rows of events
          part,    \* event_participants: attendance_status, or NONE for no row
          call     \* what each session is doing

vars == <<event, part, call>>

Statuses == {"ACTIVE", "COMPLETED", "CANCELLED"}
Reviewed == {"ATTENDED", "MISSED"}
Staff(c) == {e \in Emps : ClientOf[e] = c}

NoEvent == [status |-> "NONE", client |-> Null, host |-> Null, max |-> 0]
NoChange == [status |-> Null, host |-> Null, max |-> Null]
Idle == [pc |-> "idle", event |-> Null, emp |-> Null, max |-> 0, set |-> NoChange,
         emps |-> {}, attended |-> {}, rows |-> {}]

Init == /\ event = [x \in Events |-> NoEvent]
        /\ part = [x \in Events |-> [e \in Emps |-> "NONE"]]
        /\ call = [s \in Sessions |-> Idle]

Participants(x) == {e \in Emps : part[x][e] # "NONE"}
Taken(x) == Cardinality(Participants(x))
-----------------------------------------------------------------------------
(* Session bookkeeping and the row locks open transactions hold.           *)
Start(s, rec) == /\ call[s] = Idle
                 /\ call' = [call EXCEPT ![s] = rec]
                 /\ UNCHANGED <<event, part>>
At(s, pc) == call[s].pc = pc
Return(s) == call' = [call EXCEPT ![s] = Idle]

EventLocked(x) == \E s \in Sessions : At(s, "update.insert") /\ call[s].event = x

\* A participant row, or the key of one that is being inserted.
RowLocked(x, e) ==
  \E s \in Sessions :
    /\ call[s].event = x
    /\ \/ At(s, "update.insert") /\ e \in call[s].rows
       \/ At(s, "attendance.mark") /\ e \in call[s].rows
       \/ At(s, "register.commit") /\ e = call[s].emp

Exists(x) == event[x].status # "NONE"
-----------------------------------------------------------------------------
(* CreateEvent: the checks read only the directory, insertEvent is one     *)
(* transaction.                                                            *)
CreateEvent(x, c, h, n, E) ==
  /\ ~Exists(x)
  /\ Cardinality(E) <= n
  /\ E \subseteq Staff(c)
  /\ event' = [event EXCEPT ![x] = [status |-> "ACTIVE", client |-> c, host |-> h, max |-> n]]
  /\ part' = [part EXCEPT ![x] = [e \in Emps |-> IF e \in E THEN "PENDING" ELSE "NONE"]]
  /\ UNCHANGED call
-----------------------------------------------------------------------------
(* UpdateEvent: fields left out (Null) stay; a list of employees replaces  *)
(* the roster.                                                             *)
Applied(row, set) ==
  [row EXCEPT !.status = IF set.status = Null THEN @ ELSE set.status,
              !.host = IF set.host = Null THEN @ ELSE set.host,
              !.max = IF set.max = Null THEN @ ELSE set.max]

\* Mutant: the list is checked against the places the event has now.
EffectiveMaxNow(x, set) == event[x].max
EffectiveMax(x, set) == Applied(event[x], set).max

\* validateEmployeesInClient: all of them in the company of the caller, which is
\* the company of the event (the event is looked up by id and client).
\* Mutant: the employees only have to exist.
InAnyClient(x, E) == TRUE
InClient(x, E) == E \subseteq Staff(event[x].client)

UpdateCheck(s, x, set) ==
  /\ Exists(x)
  /\ Start(s, [Idle EXCEPT !.pc = "update.commit", !.event = x, !.set = set])

ReplaceCheck(s, x, set, E) ==
  /\ Exists(x)
  /\ Cardinality(E) <= EffectiveMax(x, set)
  /\ InClient(x, E)
  /\ Start(s, [Idle EXCEPT !.pc = "update.delete", !.event = x, !.set = set, !.emps = E])

UpdateCommit(s) ==
  LET x == call[s].event IN
  /\ At(s, "update.commit")
  /\ ~EventLocked(x)
  /\ event' = [event EXCEPT ![x] = Applied(@, call[s].set)]
  /\ Return(s)
  /\ UNCHANGED part

\* UPDATE events, then DELETE FROM event_participants: the rows it can see.
UpdateDelete(s) ==
  LET x == call[s].event IN
  /\ At(s, "update.delete")
  /\ ~EventLocked(x)
  /\ \A e \in Participants(x) : ~RowLocked(x, e)
  /\ call' = [call EXCEPT ![s].pc = "update.insert", ![s].rows = Participants(x)]
  /\ UNCHANGED <<event, part>>

\* bulkInsertParticipants fails on the unique index when an employee registered
\* after the DELETE; other late registrations stay.
RosterAfter(x, rows, E) ==
  [e \in Emps |-> IF e \in E THEN "PENDING" ELSE IF e \in rows THEN "NONE" ELSE part[x][e]]

UpdateInsert(s) ==
  LET x == call[s].event
      E == call[s].emps
  IN /\ At(s, "update.insert")
     /\ E \cap (Participants(x) \ call[s].rows) = {}
     /\ \A e \in E \ call[s].rows : ~RowLocked(x, e)
     /\ event' = [event EXCEPT ![x] = Applied(@, call[s].set)]
     /\ part' = [part EXCEPT ![x] = RosterAfter(x, call[s].rows, E)]
     /\ Return(s)
-----------------------------------------------------------------------------
(* RegisterForEvent and UnregisterFromEvent by an employee.                *)
CanSeeEvent(x, e) == event[x].status = "ACTIVE" /\ event[x].client = ClientOf[e]

RegisterCheck(s, x, e) ==
  /\ CanSeeEvent(x, e)
  /\ Start(s, [Idle EXCEPT !.pc = "register.get", !.event = x, !.emp = e])

\* enrollEmployee: SELECT the event, count, insert and count again, commit.
RegisterGet(s) ==
  /\ At(s, "register.get")
  /\ call' = [call EXCEPT ![s].pc = "register.count", ![s].max = event[call[s].event].max]
  /\ UNCHANGED <<event, part>>

RegisterCount(s) ==
  /\ At(s, "register.count")
  /\ Taken(call[s].event) < call[s].max
  /\ call' = [call EXCEPT ![s].pc = "register.insert"]
  /\ UNCHANGED <<event, part>>

\* The insert waits for, or fails on, the unique (event_id, employee_id); the
\* second count sees the committed rows and the own one.
RegisterInsert(s) ==
  LET x == call[s].event IN
  /\ At(s, "register.insert")
  /\ call[s].emp \notin Participants(x)
  /\ ~RowLocked(x, call[s].emp)
  /\ Taken(x) + 1 <= call[s].max
  /\ call' = [call EXCEPT ![s].pc = "register.commit"]
  /\ UNCHANGED <<event, part>>

RegisterCommit(s) ==
  /\ At(s, "register.commit")
  /\ part' = [part EXCEPT ![call[s].event][call[s].emp] = "PENDING"]
  /\ Return(s)
  /\ UNCHANGED event

UnregisterCheck(s, x, e) ==
  /\ CanSeeEvent(x, e)
  /\ Start(s, [Idle EXCEPT !.pc = "unregister.delete", !.event = x, !.emp = e])

UnregisterDelete(s) ==
  LET x == call[s].event IN
  /\ At(s, "unregister.delete")
  /\ call[s].emp \in Participants(x)
  /\ ~RowLocked(x, call[s].emp)
  /\ part' = [part EXCEPT ![x][call[s].emp] = "NONE"]
  /\ Return(s)
  /\ UNCHANGED event
-----------------------------------------------------------------------------
(* CompleteEvent and DeleteEvent: a check and an UPDATE by id.             *)
SetStatus(status) == [NoChange EXCEPT !.status = status]

CompleteCheck(s, x) ==
  /\ event[x].status = "ACTIVE"
  /\ Start(s, [Idle EXCEPT !.pc = "status.update", !.event = x,
                           !.set = SetStatus("COMPLETED")])

\* Mutant: without the existence query.
DeleteUnseen(s, x) == Start(s, [Idle EXCEPT !.pc = "status.update", !.event = x,
                                            !.set = SetStatus("CANCELLED")])
DeleteCheck(s, x) ==
  /\ event[x].status \notin {"NONE", "CANCELLED"}
  /\ Start(s, [Idle EXCEPT !.pc = "status.update", !.event = x,
                           !.set = SetStatus("CANCELLED")])

StatusUpdate(s) ==
  LET x == call[s].event IN
  /\ At(s, "status.update")
  /\ ~EventLocked(x)
  /\ event' = [event EXCEPT ![x] = Applied(@, call[s].set)]
  /\ Return(s)
  /\ UNCHANGED part
-----------------------------------------------------------------------------
(* UpdateAttendance: the host marks the employees D, of whom A attended.   *)
\* Mutant: the event may be running or cancelled.
MarkableAnyStatus(x, u) == Exists(x) /\ event[x].host = u
Markable(x, u) == event[x].status = "COMPLETED" /\ event[x].host = u

AttendanceCheck(s, x, u, D, A) ==
  /\ Markable(x, u)
  /\ D # {} /\ A \subseteq D
  /\ Start(s, [Idle EXCEPT !.pc = "attendance.mark", !.event = x,
                           !.emps = D, !.attended = A])

\* bulkUpdateAttendance: one UPDATE per employee; unknown employees are skipped.
\* Mutant: an unknown employee is inserted.
Upserted(x, e) == {e}
Updated(x, e) == {e} \cap Participants(x)

AttendanceMark(s, e) ==
  LET x == call[s].event IN
  /\ At(s, "attendance.mark")
  /\ e \in call[s].emps
  /\ ~RowLocked(x, e)
  /\ call' = [call EXCEPT ![s].emps = @ \ {e},
                          ![s].rows = @ \cup Updated(x, e)]
  /\ UNCHANGED <<event, part>>

AttendanceCommit(s) ==
  LET x == call[s].event IN
  /\ At(s, "attendance.mark")
  /\ call[s].emps = {}
  /\ part' = [part EXCEPT ![x] = [e \in Emps |->
                IF e \notin call[s].rows THEN part[x][e]
                ELSE IF e \in call[s].attended THEN "ATTENDED" ELSE "MISSED"]]
  /\ Return(s)
  /\ UNCHANGED event
-----------------------------------------------------------------------------
\* A refused check inside a transaction ("no slots available", "already
\* registered"), a failed statement or a lost client: rolled back.
Fail(s) == /\ call[s] # Idle
           /\ Return(s)
           /\ UNCHANGED <<event, part>>

Changes == [status : Statuses \cup {Null}, host : Hosts \cup {Null}, max : Seats \cup {Null}]

Create == \E x \in Events, c \in Clients, h \in Hosts, n \in Seats, E \in Rosters :
            CreateEvent(x, c, h, n, E)

AdminCall(s) ==
  \E x \in Events :
    \/ \E set \in Changes : UpdateCheck(s, x, set)
    \/ \E set \in Changes, E \in Rosters : ReplaceCheck(s, x, set, E)
    \/ CompleteCheck(s, x)
    \/ DeleteCheck(s, x)
    \/ \E u \in Hosts, D, A \in SUBSET Emps : AttendanceCheck(s, x, u, D, A)

EmployeeCall(s) ==
  \E x \in Events, e \in Emps : RegisterCheck(s, x, e) \/ UnregisterCheck(s, x, e)

Reads(s) == \/ UpdateDelete(s) \/ RegisterGet(s) \/ RegisterCount(s) \/ RegisterInsert(s)
            \/ \E e \in Emps : AttendanceMark(s, e)
Commits(s) == \/ UpdateCommit(s) \/ UpdateInsert(s) \/ RegisterCommit(s)
              \/ UnregisterDelete(s) \/ StatusUpdate(s) \/ AttendanceCommit(s)

Next == \/ Create
        \/ \E s \in Sessions :
             AdminCall(s) \/ EmployeeCall(s) \/ Reads(s) \/ Commits(s) \/ Fail(s)

Spec == Init /\ [][Next]_vars
-----------------------------------------------------------------------------
(***************************************************************************)
(* Properties.                                                             *)
(***************************************************************************)
EventRows == [status : Statuses \cup {"NONE"}, client : Clients \cup {Null},
              host : Hosts \cup {Null}, max : Seats \cup {0}]
PcsOfEvent == {"update.commit", "update.delete", "update.insert", "status.update",
               "attendance.mark"}
PcsOfEmployee == {"register.get", "register.count", "register.insert",
                  "register.commit", "unregister.delete"}
Calls == [pc : {"idle"} \cup PcsOfEvent \cup PcsOfEmployee,
          event : Events \cup {Null}, emp : Emps \cup {Null}, max : Seats \cup {0},
          set : Changes, emps : SUBSET Emps, attended : SUBSET Emps, rows : SUBSET Emps]

TypeOK ==
  /\ event \in [Events -> EventRows]
  /\ part \in [Events -> [Emps -> {"NONE", "PENDING"} \cup Reviewed]]
  /\ call \in [Sessions -> Calls]
  /\ \A s \in Sessions :
       /\ call[s].pc # "idle" => call[s].event \in Events /\ Exists(call[s].event)
       /\ call[s].pc \in PcsOfEmployee => call[s].emp \in Emps

\* canSeeEvent and validateEmployeesInClient keep companies apart: no
\* interleaving of registrations and roster changes, each checked before its
\* transaction, seats an employee at another company's event.
ParticipantsOfCompany ==
  \A x \in Events : \A e \in Participants(x) : ClientOf[e] = event[x].client

\* bulkUpdateAttendance: the rows an uncommitted marking has updated stay until it
\* commits, and no replacement of the roster has deleted them: marking never
\* brings back somebody who left or was removed meanwhile.
MarkedRowsStay ==
  \A s \in Sessions : At(s, "attendance.mark") =>
    /\ call[s].rows \subseteq Participants(call[s].event)
    /\ \A t \in Sessions : At(t, "update.insert") /\ call[t].event = call[s].event =>
         call[s].rows \cap call[t].rows = {}

\* Lemma of the proofs: what a call is about to insert was checked against a
\* company that can not change any more.
CallsOfCompany ==
  \A s \in Sessions : LET c == call[s] IN
    /\ c.pc \in PcsOfEmployee => ClientOf[c.emp] = event[c.event].client
    /\ c.pc \in {"update.delete", "update.insert"} => c.emps \subseteq Staff(event[c.event].client)

Finishes(s, pc) == At(s, pc) /\ call'[s] = Idle /\ <<event, part>>' # <<event, part>>

\* enrollEmployee: "Capacity is enforced inside a transaction", a registration
\* never leaves more participants than places.
RegistrationFits ==
  [][\A s \in Sessions : Finishes(s, "register.commit") =>
       Cardinality({e \in Emps : part'[call[s].event][e] # "NONE"})
         <= event[call[s].event].max]_vars

-----------------------------------------------------------------------------
(* Properties of the handlers when calls do not overlap: one session.      *)

\* Whoever adds participants, by creation, replacement or registration, leaves
\* no more of them than the event has places from then on.
PlacesChecked ==
  [][\A x \in Events :
       (\E e \in Emps : part[x][e] = "NONE" /\ part'[x][e] # "NONE") =>
         Cardinality({e \in Emps : part'[x][e] # "NONE"}) <= event'[x].max]_vars

\* UpdateAttendance: "attendance is only meaningful after the event is over";
\* marks appear on completed events and only for people on the roster.
AttendanceAfterEvent ==
  [][\A x \in Events, e \in Emps :
       part'[x][e] \in Reviewed /\ part'[x][e] # part[x][e] =>
         event[x].status = "COMPLETED" /\ part[x][e] # "NONE"]_part
=============================================================================
