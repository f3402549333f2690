---------------------------- MODULE EventsProofs ----------------------------
(***************************************************************************)
(* Proofs about training events, for any set of events, employees,         *)
(* companies and concurrent sessions: types, and that companies stay       *)
(* apart; then, for calls on one event that do not overlap, places and     *)
(* attendance.                                                             *)
(***************************************************************************)
EXTENDS Events, FiniteSetTheorems, TLAPS

(* A session whose record changes to a well-typed one, on an event that    *)
(* exists, keeps the sessions well typed as long as no event disappears.   *)
LEMMA CallTypes ==
  ASSUME TypeOK, NEW s \in Sessions, NEW rec \in Calls,
         call' = [call EXCEPT ![s] = rec],
         rec.pc # "idle" => rec.event \in Events /\ Exists(rec.event),
         rec.pc \in PcsOfEmployee => rec.emp \in Emps,
         \A x \in Events : event[x].status # "NONE" => event'[x].status # "NONE"
  PROVE  /\ call' \in [Sessions -> Calls]
         /\ (\A t \in Sessions :
              /\ call[t].pc # "idle" => call[t].event \in Events /\ Exists(call[t].event)
              /\ call[t].pc \in PcsOfEmployee => call[t].emp \in Emps)'
BY DEF TypeOK, Exists

(* The record of a session at rest.                                        *)
LEMMA IdleType == Idle \in Calls /\ Idle.pc = "idle" /\ Idle.pc \notin PcsOfEmployee
BY DEF Idle, Calls, NoChange, Changes, PcsOfEmployee, PcsOfEvent

(* A new call starts on an event that exists and leaves the tables alone.  *)
LEMMA StartTypes ==
  ASSUME TypeOK, NEW s \in Sessions, NEW rec \in Calls, Start(s, rec),
         rec.event \in Events, Exists(rec.event),
         rec.pc \in PcsOfEmployee => rec.emp \in Emps
  PROVE  TypeOK'
<1>1. \A x \in Events : event[x].status # "NONE" => event'[x].status # "NONE" BY DEF Start
<1>2. call' = [call EXCEPT ![s] = rec] /\ UNCHANGED <<event, part>> BY DEF Start
<1> QED BY <1>1, <1>2, CallTypes DEF TypeOK

(* UpdateEvent keeps a row well typed and never deletes it or moves it to  *)
(* another company.                                                        *)
LEMMA AppliedType ==
  ASSUME NEW row \in EventRows, NEW set \in Changes, row.status # "NONE"
  PROVE  /\ Applied(row, set) \in EventRows
         /\ Applied(row, set).status # "NONE"
         /\ Applied(row, set).client = row.client
BY EventsAssumption DEF EventRows, Changes, Applied, Statuses

(* The checks of the handlers start well-typed calls.                      *)
LEMMA CheckTypes ==
  ASSUME TypeOK, NEW s \in Sessions, AdminCall(s) \/ EmployeeCall(s)
  PROVE  TypeOK'
<1> USE IdleType DEF Calls, PcsOfEmployee, PcsOfEvent
<1>1. ASSUME NEW x \in Events, NEW set \in Changes, UpdateCheck(s, x, set) PROVE TypeOK'
  <2> DEFINE rec == [Idle EXCEPT !.pc = "update.commit", !.event = x, !.set = set]
  <2>1. rec \in Calls /\ rec.event = x /\ rec.pc = "update.commit" BY DEF Idle
  <2>2. Start(s, rec) /\ Exists(x) BY <1>1 DEF UpdateCheck
  <2> QED BY <2>1, <2>2, StartTypes
<1>2. ASSUME NEW x \in Events, NEW set \in Changes, NEW E \in Rosters,
             ReplaceCheck(s, x, set, E)
      PROVE  TypeOK'
  <2> DEFINE rec == [Idle EXCEPT !.pc = "update.delete", !.event = x, !.set = set, !.emps = E]
  <2>1. rec \in Calls /\ rec.event = x /\ rec.pc = "update.delete"
    BY EventsAssumption DEF Idle
  <2>2. Start(s, rec) /\ Exists(x) BY <1>2 DEF ReplaceCheck
  <2> QED BY <2>1, <2>2, StartTypes
<1>3. ASSUME NEW x \in Events, CompleteCheck(s, x) \/ DeleteCheck(s, x) PROVE TypeOK'
  <2>1. \A v \in Statuses : SetStatus(v) \in Changes
    BY DEF SetStatus, Changes, NoChange
  <2>2. PICK v \in Statuses :
          Start(s, [Idle EXCEPT !.pc = "status.update", !.event = x, !.set = SetStatus(v)])
    BY <1>3 DEF CompleteCheck, DeleteCheck, Statuses
  <2> DEFINE rec == [Idle EXCEPT !.pc = "status.update", !.event = x, !.set = SetStatus(v)]
  <2>3. rec \in Calls /\ rec.event = x /\ rec.pc = "status.update" BY <2>1 DEF Idle
  <2>4. Exists(x) BY <1>3 DEF CompleteCheck, DeleteCheck, Exists
  <2> QED BY <2>2, <2>3, <2>4, StartTypes
<1>4. ASSUME NEW x \in Events, NEW u \in Hosts, NEW D \in SUBSET Emps, NEW A \in SUBSET Emps,
             AttendanceCheck(s, x, u, D, A)
      PROVE  TypeOK'
  <2> DEFINE rec == [Idle EXCEPT !.pc = "attendance.mark", !.event = x,
                                 !.emps = D, !.attended = A]
  <2>1. rec \in Calls /\ rec.event = x /\ rec.pc = "attendance.mark" BY DEF Idle
  <2>2. Start(s, rec) /\ Exists(x) BY <1>4 DEF AttendanceCheck, Markable, Exists
  <2> QED BY <2>1, <2>2, StartTypes
<1>5. ASSUME NEW x \in Events, NEW e \in Emps, RegisterCheck(s, x, e) PROVE TypeOK'
  <2> DEFINE rec == [Idle EXCEPT !.pc = "register.get", !.event = x, !.emp = e]
  <2>1. rec \in Calls /\ rec.event = x /\ rec.emp = e /\ rec.pc = "register.get" BY DEF Idle
  <2>2. Start(s, rec) /\ Exists(x) BY <1>5 DEF RegisterCheck, CanSeeEvent, Exists
  <2> QED BY <2>1, <2>2, StartTypes
<1>6. ASSUME NEW x \in Events, NEW e \in Emps, UnregisterCheck(s, x, e) PROVE TypeOK'
  <2> DEFINE rec == [Idle EXCEPT !.pc = "unregister.delete", !.event = x, !.emp = e]
  <2>1. rec \in Calls /\ rec.event = x /\ rec.emp = e /\ rec.pc = "unregister.delete"
    BY DEF Idle
  <2>2. Start(s, rec) /\ Exists(x) BY <1>6 DEF UnregisterCheck, CanSeeEvent, Exists
  <2> QED BY <2>1, <2>2, StartTypes
<1> QED BY <1>1, <1>2, <1>3, <1>4, <1>5, <1>6 DEF AdminCall, EmployeeCall

(* A statement that only reads moves its own session on.                   *)
LEMMA ReadTypes ==
  ASSUME TypeOK, NEW s \in Sessions, Reads(s)
  PROVE  TypeOK'
<1> USE DEF PcsOfEmployee, PcsOfEvent
<1>1. UNCHANGED <<event, part>>
  BY DEF Reads, UpdateDelete, RegisterGet, RegisterCount, RegisterInsert, AttendanceMark
<1>2. ASSUME NEW rec \in Calls, call' = [call EXCEPT ![s] = rec],
             rec.event \in Events, Exists(rec.event), rec.pc \in PcsOfEmployee => rec.emp \in Emps
      PROVE  TypeOK'
  BY <1>1, <1>2, CallTypes DEF TypeOK
<1> DEFINE c == call[s]
<1>3. /\ c \in Calls
      /\ c.pc # "idle" => c.event \in Events /\ Exists(c.event)
      /\ c.pc \in PcsOfEmployee => c.emp \in Emps
  BY DEF TypeOK
<1>4. CASE UpdateDelete(s)
  <2> DEFINE rec == [c EXCEPT !.pc = "update.insert", !.rows = Participants(c.event)]
  <2>1. rec \in Calls /\ rec.event = c.event /\ rec.pc = "update.insert"
    BY <1>3 DEF Calls, Participants
  <2>2. call' = [call EXCEPT ![s] = rec] /\ c.pc # "idle"
    BY <1>4, <1>3 DEF UpdateDelete, At
  <2> QED BY <1>2, <1>3, <2>1, <2>2
<1>5. CASE RegisterGet(s)
  <2> DEFINE rec == [c EXCEPT !.pc = "register.count", !.max = event[c.event].max]
  <2>1. c.pc = "register.get" BY <1>5 DEF RegisterGet, At
  <2>2. event[c.event].max \in Seats \cup {0} BY <1>3, <2>1 DEF TypeOK, EventRows
  <2>3. rec \in Calls /\ rec.event = c.event /\ rec.emp = c.emp
    BY <1>3, <2>2 DEF Calls
  <2>4. call' = [call EXCEPT ![s] = rec] BY <1>5 DEF RegisterGet
  <2> QED BY <1>2, <1>3, <2>1, <2>3, <2>4
<1>6. CASE RegisterCount(s)
  <2> DEFINE rec == [c EXCEPT !.pc = "register.insert"]
  <2>1. c.pc = "register.count" BY <1>6 DEF RegisterCount, At
  <2>2. rec \in Calls /\ rec.event = c.event /\ rec.emp = c.emp BY <1>3 DEF Calls
  <2>3. call' = [call EXCEPT ![s] = rec] BY <1>6 DEF RegisterCount
  <2> QED BY <1>2, <1>3, <2>1, <2>2, <2>3
<1>7. CASE RegisterInsert(s)
  <2> DEFINE rec == [c EXCEPT !.pc = "register.commit"]
  <2>1. c.pc = "register.insert" BY <1>7 DEF RegisterInsert, At
  <2>2. rec \in Calls /\ rec.event = c.event /\ rec.emp = c.emp BY <1>3 DEF Calls
  <2>3. call' = [call EXCEPT ![s] = rec] BY <1>7 DEF RegisterInsert
  <2> QED BY <1>2, <1>3, <2>1, <2>2, <2>3
<1>8. ASSUME NEW e \in Emps, AttendanceMark(s, e) PROVE TypeOK'
  <2> DEFINE rec == [c EXCEPT !.emps = @ \ {e},
                              !.rows = @ \cup Updated(c.event, e)]
  <2>1. c.pc = "attendance.mark" BY <1>8 DEF AttendanceMark, At
  <2>2. rec \in Calls /\ rec.event = c.event /\ rec.pc = c.pc
    BY <1>3 DEF Calls, Participants, Updated
  <2>3. call' = [call EXCEPT ![s] = rec] BY <1>8 DEF AttendanceMark
  <2> QED BY <1>2, <1>3, <2>1, <2>2, <2>3
<1> QED BY <1>4, <1>5, <1>6, <1>7, <1>8 DEF Reads

(* A call that ends leaves an idle session.                                *)
LEMMA ReturnTypes ==
  ASSUME TypeOK, NEW s \in Sessions, Return(s),
         event' \in [Events -> EventRows],
         part' \in [Events -> [Emps -> {"NONE", "PENDING"} \cup Reviewed]],
         \A x \in Events : event[x].status # "NONE" => event'[x].status # "NONE"
  PROVE  TypeOK'
<1>1. call' = [call EXCEPT ![s] = Idle] BY DEF Return
<1> QED BY <1>1, IdleType, CallTypes DEF TypeOK

(* An UPDATE of an existing event.                                         *)
LEMMA ApplyTypes ==
  ASSUME TypeOK, NEW x \in Events, NEW set \in Changes, Exists(x),
         event' = [event EXCEPT ![x] = Applied(@, set)]
  PROVE  /\ event' \in [Events -> EventRows]
         /\ \A y \in Events : /\ event[y].status # "NONE" => event'[y].status # "NONE"
                              /\ event'[y].client = event[y].client
<1>1. event[x] \in EventRows /\ event[x].status # "NONE" BY DEF TypeOK, Exists
<1>2. /\ Applied(event[x], set) \in EventRows
      /\ Applied(event[x], set).status # "NONE"
      /\ Applied(event[x], set).client = event[x].client
  BY <1>1, AppliedType
<1>3. event' = [event EXCEPT ![x] = Applied(event[x], set)] OBVIOUS
<1> QED BY <1>2, <1>3 DEF TypeOK

(* Each transaction leaves well-typed tables.                              *)
LEMMA CommitTypes ==
  ASSUME TypeOK, NEW s \in Sessions, Commits(s)
  PROVE  TypeOK'
<1> USE DEF PcsOfEmployee, PcsOfEvent
<1> DEFINE c == call[s]
<1>1. /\ c \in Calls
      /\ c.pc # "idle" => c.event \in Events /\ Exists(c.event)
      /\ c.pc \in PcsOfEmployee => c.emp \in Emps
  BY DEF TypeOK
<1>2. event \in [Events -> EventRows]
      /\ part \in [Events -> [Emps -> {"NONE", "PENDING"} \cup Reviewed]]
  BY DEF TypeOK
<1>3. CASE UpdateCommit(s) \/ StatusUpdate(s)
  <2>1. /\ c.event \in Events /\ Exists(c.event) /\ c.set \in Changes
        /\ event' = [event EXCEPT ![c.event] = Applied(@, c.set)]
        /\ UNCHANGED part /\ Return(s)
    BY <1>1, <1>3 DEF UpdateCommit, StatusUpdate, At, Calls
  <2> QED BY <1>2, <2>1, ApplyTypes, ReturnTypes
<1>4. CASE UpdateInsert(s)
  <2>1. /\ c.event \in Events /\ Exists(c.event) /\ c.set \in Changes
        /\ event' = [event EXCEPT ![c.event] = Applied(@, c.set)]
        /\ part' = [part EXCEPT ![c.event] = RosterAfter(c.event, c.rows, c.emps)]
        /\ Return(s)
    BY <1>1, <1>4 DEF UpdateInsert, At, Calls
  <2>2. RosterAfter(c.event, c.rows, c.emps) \in [Emps -> {"NONE", "PENDING"} \cup Reviewed]
    BY <1>2, <2>1 DEF RosterAfter
  <2>3. part' \in [Events -> [Emps -> {"NONE", "PENDING"} \cup Reviewed]]
    BY <1>2, <2>1, <2>2
  <2> QED BY <2>1, <2>3, ApplyTypes, ReturnTypes
<1>5. CASE RegisterCommit(s)
  <2>1. /\ c.event \in Events /\ c.emp \in Emps /\ UNCHANGED event /\ Return(s)
        /\ part' = [part EXCEPT ![c.event][c.emp] = "PENDING"]
    BY <1>1, <1>5 DEF RegisterCommit, At
  <2>2. part' \in [Events -> [Emps -> {"NONE", "PENDING"} \cup Reviewed]]
    BY <1>2, <2>1
  <2> QED BY <1>2, <2>1, <2>2, ReturnTypes
<1>6. CASE UnregisterDelete(s)
  <2>1. /\ c.event \in Events /\ c.emp \in Emps /\ UNCHANGED event /\ Return(s)
        /\ part' = [part EXCEPT ![c.event][c.emp] = "NONE"]
    BY <1>1, <1>6 DEF UnregisterDelete, At
  <2>2. part' \in [Events -> [Emps -> {"NONE", "PENDING"} \cup Reviewed]]
    BY <1>2, <2>1
  <2> QED BY <1>2, <2>1, <2>2, ReturnTypes
<1>7. CASE AttendanceCommit(s)
  <2> DEFINE marked == [e \in Emps |-> IF e \notin c.rows THEN part[c.event][e]
                                       ELSE IF e \in c.attended THEN "ATTENDED" ELSE "MISSED"]
  <2>1. /\ c.event \in Events /\ UNCHANGED event /\ Return(s)
        /\ part' = [part EXCEPT ![c.event] = marked]
    BY <1>1, <1>7 DEF AttendanceCommit, At
  <2>2. marked \in [Emps -> {"NONE", "PENDING"} \cup Reviewed]
    BY <1>2, <2>1 DEF Reviewed
  <2> HIDE DEF marked
  <2>3. part' \in [Events -> [Emps -> {"NONE", "PENDING"} \cup Reviewed]]
    BY <1>2, <2>1, <2>2
  <2> QED BY <1>2, <2>1, <2>3, ReturnTypes
<1> QED BY <1>3, <1>4, <1>5, <1>6, <1>7 DEF Commits

(* A new event is ACTIVE and nobody is marked yet.                         *)
LEMMA CreateTypes == TypeOK /\ Create => TypeOK'
<1> SUFFICES ASSUME TypeOK, NEW x \in Events, NEW k \in Clients, NEW h \in Hosts,
                    NEW n \in Seats, NEW E \in Rosters, CreateEvent(x, k, h, n, E)
             PROVE  TypeOK'
  BY DEF Create
<1> DEFINE row == [status |-> "ACTIVE", client |-> k, host |-> h, max |-> n]
           roster == [e \in Emps |-> IF e \in E THEN "PENDING" ELSE "NONE"]
<1>1. row \in EventRows /\ row.status # "NONE" BY DEF EventRows, Statuses
<1>2. roster \in [Emps -> {"NONE", "PENDING"} \cup Reviewed] OBVIOUS
<1>3. /\ event' = [event EXCEPT ![x] = row] /\ part' = [part EXCEPT ![x] = roster]
      /\ UNCHANGED call
  BY DEF CreateEvent
<1> HIDE DEF row, roster
<1>4. /\ event' \in [Events -> EventRows]
      /\ \A y \in Events : event[y].status # "NONE" => event'[y].status # "NONE"
  BY <1>1, <1>3 DEF TypeOK
<1>5. part' \in [Events -> [Emps -> {"NONE", "PENDING"} \cup Reviewed]]
  BY <1>2, <1>3 DEF TypeOK
<1> QED BY <1>3, <1>4, <1>5 DEF TypeOK, Exists

(* The empty tables are well typed.                                        *)
LEMMA InitTypes == Init => TypeOK
<1>1. NoEvent \in EventRows BY DEF NoEvent, EventRows
<1> QED BY <1>1, IdleType DEF Init, TypeOK

(* No step leaves the types.                                               *)
LEMMA NextTypes == TypeOK /\ [Next]_vars => TypeOK'
<1> SUFFICES ASSUME TypeOK, [Next]_vars PROVE TypeOK'
  OBVIOUS
<1>1. CASE Create BY <1>1, CreateTypes
<1>2. ASSUME NEW s \in Sessions, AdminCall(s) \/ EmployeeCall(s) PROVE TypeOK'
  BY <1>2, CheckTypes
<1>3. ASSUME NEW s \in Sessions, Reads(s) PROVE TypeOK' BY <1>3, ReadTypes
<1>4. ASSUME NEW s \in Sessions, Commits(s) PROVE TypeOK' BY <1>4, CommitTypes
<1>5. ASSUME NEW s \in Sessions, Fail(s) PROVE TypeOK'
  <2>1. Return(s) /\ UNCHANGED <<event, part>> BY <1>5 DEF Fail
  <2> QED BY <2>1, ReturnTypes DEF TypeOK
<1>6. CASE UNCHANGED vars BY <1>6 DEF vars, TypeOK, Exists
<1> QED BY <1>1, <1>2, <1>3, <1>4, <1>5, <1>6 DEF Next

(* Events, rosters and calls keep their types, for any number of sessions: *)
(* no handler works on an event that does not exist.                       *)
THEOREM TypeCorrect == Spec => []TypeOK
<1> QED BY InitTypes, NextTypes, PTL DEF Spec
-----------------------------------------------------------------------------
(* What a call record owes to the company of its event.                    *)
Checked(c, ev) ==
  /\ c.pc \in PcsOfEmployee => ClientOf[c.emp] = ev[c.event].client
  /\ c.pc \in {"update.delete", "update.insert"} => c.emps \subseteq Staff(ev[c.event].client)

(* An existing event does not disappear and stays at its company.          *)
LEMMA ClientFixed ==
  ASSUME TypeOK, [Next]_vars, NEW x \in Events, Exists(x)
  PROVE  event'[x].client = event[x].client /\ event'[x].status # "NONE"
<1>0. event[x].status # "NONE" BY DEF Exists
<1>1. CASE Create
  <2>1. PICK y \in Events, k \in Clients, h \in Hosts, n \in Seats, E \in Rosters :
          CreateEvent(y, k, h, n, E)
    BY <1>1 DEF Create
  <2> QED BY <1>0, <2>1 DEF CreateEvent, TypeOK, Exists
<1>2. ASSUME NEW s \in Sessions, Commits(s)
      PROVE  event'[x].client = event[x].client /\ event'[x].status # "NONE"
  <2> DEFINE c == call[s]
  <2>1. CASE UpdateCommit(s) \/ UpdateInsert(s) \/ StatusUpdate(s)
    <3>1. /\ c.event \in Events /\ Exists(c.event) /\ c.set \in Changes
          /\ event' = [event EXCEPT ![c.event] = Applied(@, c.set)]
      BY <2>1 DEF UpdateCommit, UpdateInsert, StatusUpdate, At, TypeOK, Calls
    <3> QED BY <1>0, <3>1, ApplyTypes
  <2>2. CASE RegisterCommit(s) \/ UnregisterDelete(s) \/ AttendanceCommit(s)
    BY <1>0, <2>2 DEF RegisterCommit, UnregisterDelete, AttendanceCommit
  <2> QED BY <1>2, <2>1, <2>2 DEF Commits
<1>3. ASSUME NEW s \in Sessions, AdminCall(s) \/ EmployeeCall(s) \/ Reads(s) \/ Fail(s)
      PROVE  event' = event
  BY <1>3 DEF AdminCall, EmployeeCall, Reads, Fail, Start, UpdateCheck, ReplaceCheck,
     CompleteCheck, DeleteCheck, AttendanceCheck, RegisterCheck, UnregisterCheck,
     UpdateDelete, RegisterGet, RegisterCount, RegisterInsert, AttendanceMark
<1>4. CASE UNCHANGED vars BY <1>0, <1>4 DEF vars
<1> QED BY <1>0, <1>1, <1>2, <1>3, <1>4 DEF Next

(* If the record of one session changes to one that was checked, every     *)
(* call still is.                                                          *)
LEMMA CheckedKeeps ==
  ASSUME TypeOK, CallsOfCompany, [Next]_vars, NEW s \in Sessions, NEW rec,
         call' = [call EXCEPT ![s] = rec],
         rec.pc # "idle" => rec.event \in Events /\ Exists(rec.event),
         Checked(rec, event)
  PROVE  CallsOfCompany'
<1> USE DEF PcsOfEmployee
<1>1. ASSUME NEW t \in Sessions PROVE Checked(call'[t], event')
  <2>1. /\ call'[t].pc # "idle" => call'[t].event \in Events /\ Exists(call'[t].event)
        /\ Checked(call'[t], event)
    BY DEF TypeOK, CallsOfCompany, Checked
  <2>2. call'[t].pc # "idle" => event'[call'[t].event].client = event[call'[t].event].client
    BY <2>1, ClientFixed
  <2> QED BY <2>1, <2>2 DEF Checked
<1> QED BY <1>1 DEF CallsOfCompany, Checked

(* A new call was checked against the company of its event.                *)
LEMMA StartChecked ==
  ASSUME TypeOK, CallsOfCompany, [Next]_vars, NEW s \in Sessions,
         AdminCall(s) \/ EmployeeCall(s)
  PROVE  CallsOfCompany'
<1> USE DEF Checked, PcsOfEmployee, Idle
<1>1. ASSUME NEW x \in Events, NEW set \in Changes, UpdateCheck(s, x, set)
      PROVE  CallsOfCompany'
  BY <1>1, CheckedKeeps DEF UpdateCheck, Start
<1>2. ASSUME NEW x \in Events, NEW set \in Changes, NEW E \in Rosters,
             ReplaceCheck(s, x, set, E)
      PROVE  CallsOfCompany'
  BY <1>2, CheckedKeeps DEF ReplaceCheck, InClient, Start
<1>3. ASSUME NEW x \in Events, CompleteCheck(s, x) \/ DeleteCheck(s, x)
      PROVE  CallsOfCompany'
  BY <1>3, CheckedKeeps DEF CompleteCheck, DeleteCheck, Start, Exists
<1>4. ASSUME NEW x \in Events, NEW u \in Hosts, NEW D \in SUBSET Emps, NEW A \in SUBSET Emps,
             AttendanceCheck(s, x, u, D, A)
      PROVE  CallsOfCompany'
  BY <1>4, CheckedKeeps DEF AttendanceCheck, Markable, Start, Exists
<1>5. ASSUME NEW x \in Events, NEW e \in Emps, RegisterCheck(s, x, e)
      PROVE  CallsOfCompany'
  BY <1>5, CheckedKeeps DEF RegisterCheck, CanSeeEvent, Start, Exists
<1>6. ASSUME NEW x \in Events, NEW e \in Emps, UnregisterCheck(s, x, e)
      PROVE  CallsOfCompany'
  BY <1>6, CheckedKeeps DEF UnregisterCheck, CanSeeEvent, Start, Exists
<1> QED BY <1>1, <1>2, <1>3, <1>4, <1>5, <1>6 DEF AdminCall, EmployeeCall

(* A statement that reads changes neither the event nor the employees of   *)
(* its call; one that commits ends the call.                               *)
LEMMA MoveChecked ==
  ASSUME TypeOK, CallsOfCompany, [Next]_vars, NEW s \in Sessions,
         Reads(s) \/ Commits(s) \/ Fail(s)
  PROVE  CallsOfCompany'
<1> USE DEF PcsOfEmployee
<1> DEFINE c == call[s]
<1>1. /\ c \in Calls
      /\ c.pc # "idle" => c.event \in Events /\ Exists(c.event)
      /\ Checked(c, event)
  BY DEF TypeOK, CallsOfCompany, Checked
<1>2. CASE UpdateDelete(s)
  <2> DEFINE rec == [c EXCEPT !.pc = "update.insert", !.rows = Participants(c.event)]
  <2>1. call' = [call EXCEPT ![s] = rec] /\ c.pc = "update.delete"
    BY <1>2 DEF UpdateDelete, At
  <2>2. rec.event = c.event /\ rec.emps = c.emps /\ rec.pc = "update.insert"
    BY <1>1 DEF Calls
  <2> QED BY <1>1, <2>1, <2>2, CheckedKeeps DEF Checked
<1>3. CASE RegisterGet(s) \/ RegisterCount(s) \/ RegisterInsert(s)
  <2> DEFINE rec == call'[s]
  <2>1. /\ call' = [call EXCEPT ![s] = rec]
        /\ rec.event = c.event /\ rec.emp = c.emp /\ rec.pc \in PcsOfEmployee
        /\ c.pc \in PcsOfEmployee
    <3>1. CASE RegisterGet(s)
      BY <1>1, <3>1 DEF RegisterGet, At, Calls, TypeOK
    <3>2. CASE RegisterCount(s)
      BY <1>1, <3>2 DEF RegisterCount, At, Calls, TypeOK
    <3>3. CASE RegisterInsert(s)
      BY <1>1, <3>3 DEF RegisterInsert, At, Calls, TypeOK
    <3> QED BY <1>3, <3>1, <3>2, <3>3
  <2> HIDE DEF rec
  <2> QED BY <1>1, <2>1, CheckedKeeps DEF Checked
<1>4. ASSUME NEW e \in Emps, AttendanceMark(s, e) PROVE CallsOfCompany'
  <2> DEFINE rec == [c EXCEPT !.emps = @ \ {e},
                              !.rows = @ \cup Updated(c.event, e)]
  <2>1. call' = [call EXCEPT ![s] = rec] /\ c.pc = "attendance.mark"
    BY <1>4 DEF AttendanceMark, At
  <2>2. rec.event = c.event /\ rec.pc = c.pc BY <1>1 DEF Calls
  <2> QED BY <1>1, <2>1, <2>2, CheckedKeeps DEF Checked
<1>5. CASE Commits(s) \/ Fail(s)
  <2>1. call' = [call EXCEPT ![s] = Idle]
    BY <1>5 DEF Commits, Fail, Return, UpdateCommit, UpdateInsert, StatusUpdate, RegisterCommit,
       UnregisterDelete, AttendanceCommit
  <2>2. Idle.pc = "idle" BY DEF Idle
  <2> QED BY <2>1, <2>2, CheckedKeeps DEF Checked
<1> QED BY <1>2, <1>3, <1>4, <1>5 DEF Reads

(* A step that gives a row to nobody but employees of the company of the   *)
(* event keeps the companies apart.                                        *)
LEMMA RowsKeep ==
  ASSUME TypeOK, ParticipantsOfCompany, [Next]_vars,
         \A x \in Events : Participants(x) # {} => Exists(x),
         \A x \in Events, e \in Emps :
           part'[x][e] # "NONE" /\ part[x][e] = "NONE" =>
             Exists(x) /\ ClientOf[e] = event[x].client
  PROVE  ParticipantsOfCompany'
<1>1. ASSUME NEW x \in Events, NEW e \in Emps, part'[x][e] # "NONE"
      PROVE  ClientOf[e] = event'[x].client
  <2>1. Exists(x) /\ ClientOf[e] = event[x].client
    <3>1. CASE part[x][e] = "NONE" BY <1>1, <3>1
    <3>2. CASE part[x][e] # "NONE" BY <3>2 DEF ParticipantsOfCompany, Participants
    <3> QED BY <3>1, <3>2
  <2> QED BY <2>1, ClientFixed
<1> QED BY <1>1 DEF ParticipantsOfCompany, Participants

(* Only events that exist have participants.                               *)
RowsOfEvents == \A x \in Events : Participants(x) # {} => Exists(x)

Inv == TypeOK /\ RowsOfEvents /\ MarkedRowsStay /\ CallsOfCompany /\ ParticipantsOfCompany

(* Who gets a row was checked when the call started, and the company of    *)
(* the event has not changed since.                                        *)
LEMMA RowsChecked ==
  ASSUME Inv, [Next]_vars, ~Create, NEW x \in Events, NEW e \in Emps,
         part'[x][e] # "NONE", part[x][e] = "NONE"
  PROVE  Exists(x) /\ ClientOf[e] = event[x].client
<1>1. PICK s \in Sessions : Commits(s)
  BY DEF Inv, Next, vars, AdminCall, EmployeeCall, Reads, Fail, Start, UpdateCheck, ReplaceCheck,
     CompleteCheck, DeleteCheck, AttendanceCheck, RegisterCheck, UnregisterCheck,
     UpdateDelete, RegisterGet, RegisterCount, RegisterInsert, AttendanceMark
<1> DEFINE c == call[s]
<1>2. /\ c.pc # "idle" => c.event \in Events /\ Exists(c.event)
      /\ c.pc \in PcsOfEmployee => c.emp \in Emps
      /\ Checked(c, event)
  BY DEF Inv, TypeOK, CallsOfCompany, Checked
<1>3. CASE UpdateInsert(s)
  <2>1. /\ c.pc = "update.insert"
        /\ part' = [part EXCEPT ![c.event] = RosterAfter(c.event, c.rows, c.emps)]
    BY <1>3 DEF UpdateInsert, At
  <2>2. x = c.event /\ e \in c.emps BY <1>2, <2>1 DEF RosterAfter, Inv, TypeOK
  <2> QED BY <1>2, <2>1, <2>2 DEF Checked, Staff
<1>4. CASE RegisterCommit(s)
  <2>1. /\ c.pc = "register.commit"
        /\ part' = [part EXCEPT ![c.event][c.emp] = "PENDING"]
    BY <1>4 DEF RegisterCommit, At
  <2>2. c.event \in Events /\ c.emp \in Emps BY <1>2, <2>1 DEF PcsOfEmployee
  <2>3. x = c.event /\ e = c.emp BY <2>1, <2>2 DEF Inv, TypeOK
  <2> QED BY <1>2, <2>1, <2>3 DEF Checked, PcsOfEmployee
<1>5. CASE UnregisterDelete(s)
  <2>1. /\ c.event \in Events /\ c.emp \in Emps
        /\ part' = [part EXCEPT ![c.event][c.emp] = "NONE"]
    BY <1>2, <1>5 DEF UnregisterDelete, At, PcsOfEmployee
  <2>2. part'[x][e] \in {"NONE", part[x][e]} BY <2>1 DEF Inv, TypeOK
  <2> QED BY <2>2
<1>6. CASE AttendanceCommit(s)
  <2> DEFINE marked == [f \in Emps |-> IF f \notin c.rows THEN part[c.event][f]
                                       ELSE IF f \in c.attended THEN "ATTENDED" ELSE "MISSED"]
  <2>1. /\ c.pc = "attendance.mark" /\ c.event \in Events
        /\ part' = [part EXCEPT ![c.event] = marked]
    BY <1>2, <1>6 DEF AttendanceCommit, At
  <2>2. c.rows \subseteq Participants(c.event) BY <2>1 DEF Inv, MarkedRowsStay, At
  <2>3. e \notin c.rows \/ x # c.event BY <2>2 DEF Participants
  <2>4. part'[x][e] = part[x][e] BY <2>1, <2>3 DEF Inv, TypeOK
  <2> QED BY <2>4
<1>7. CASE UpdateCommit(s) \/ StatusUpdate(s)
  BY <1>7 DEF UpdateCommit, StatusUpdate
<1> QED BY <1>1, <1>3, <1>4, <1>5, <1>6, <1>7 DEF Commits

(* Participants in the next state.                                         *)
NextParticipants(x) == {e \in Emps : part'[x][e] # "NONE"}

(* What a step of one session has to keep of the locked rows.              *)
LEMMA LocksOf ==
  ASSUME Inv, NEW a \in Sessions, NEW rec, call' = [call EXCEPT ![a] = rec],
         \A s \in Sessions \ {a} : call[s].pc = "attendance.mark" =>
            call[s].rows \subseteq NextParticipants(call[s].event),
         rec.pc = "attendance.mark" => rec.rows \subseteq NextParticipants(rec.event),
         rec.pc = "attendance.mark" => \A t \in Sessions \ {a} :
            call[t].pc = "update.insert" /\ call[t].event = rec.event => rec.rows \cap call[t].rows = {},
         rec.pc = "update.insert" => \A s \in Sessions \ {a} :
            call[s].pc = "attendance.mark" /\ call[s].event = rec.event => call[s].rows \cap rec.rows = {}
  PROVE  MarkedRowsStay'
<1>1. \A t \in Sessions : call'[t] = IF t = a THEN rec ELSE call[t]
  BY DEF Inv, TypeOK
<1>2. ASSUME NEW s \in Sessions, call'[s].pc = "attendance.mark"
      PROVE  call'[s].rows \subseteq NextParticipants(call'[s].event)
  BY <1>1, <1>2
<1>3. ASSUME NEW s \in Sessions, call'[s].pc = "attendance.mark",
             NEW t \in Sessions, call'[t].pc = "update.insert", call'[t].event = call'[s].event
      PROVE  call'[s].rows \cap call'[t].rows = {}
  <2>1. CASE s = a /\ t # a BY <1>1, <1>3, <2>1
  <2>2. CASE s # a /\ t = a BY <1>1, <1>3, <2>2
  <2>3. CASE s # a /\ t # a
    <3>1. call'[s] = call[s] /\ call'[t] = call[t] BY <1>1, <2>3
    <3> QED BY <1>3, <3>1 DEF Inv, MarkedRowsStay, At
  <2>4. CASE s = a /\ t = a BY <1>3, <2>4
  <2> QED BY <2>1, <2>2, <2>3, <2>4
<1> QED BY <1>2, <1>3 DEF MarkedRowsStay, At, Participants, NextParticipants

(* Locked rows are rows now.                                               *)
LEMMA LocksNow ==
  ASSUME Inv, NEW s \in Sessions, call[s].pc = "attendance.mark"
  PROVE  call[s].rows \subseteq Participants(call[s].event)
BY DEF Inv, MarkedRowsStay, At

(* A new call holds no rows.                                               *)
LEMMA StartLocks ==
  ASSUME Inv, NEW a \in Sessions, AdminCall(a) \/ EmployeeCall(a)
  PROVE  MarkedRowsStay'
<1> DEFINE rec == call'[a]
<1>1. /\ call' = [call EXCEPT ![a] = rec] /\ UNCHANGED part
      /\ rec.rows = {} /\ rec.pc # "update.insert"
  <2> USE DEF Idle, Start, Inv, TypeOK
  <2>1. ASSUME NEW x \in Events, NEW set \in Changes, UpdateCheck(a, x, set) PROVE <1>1!:
    BY <2>1 DEF UpdateCheck
  <2>2. ASSUME NEW x \in Events, NEW set \in Changes, NEW E \in Rosters,
               ReplaceCheck(a, x, set, E)
        PROVE  <1>1!:
    BY <2>2 DEF ReplaceCheck
  <2>3. ASSUME NEW x \in Events, CompleteCheck(a, x) \/ DeleteCheck(a, x) PROVE <1>1!:
    BY <2>3 DEF CompleteCheck, DeleteCheck
  <2>4. ASSUME NEW x \in Events, NEW u \in Hosts, NEW D \in SUBSET Emps,
               NEW A \in SUBSET Emps, AttendanceCheck(a, x, u, D, A)
        PROVE  <1>1!:
    BY <2>4 DEF AttendanceCheck
  <2>5. ASSUME NEW x \in Events, NEW e \in Emps, RegisterCheck(a, x, e) \/ UnregisterCheck(a, x, e)
        PROVE  <1>1!:
    BY <2>5 DEF RegisterCheck, UnregisterCheck
  <2> QED BY <2>1, <2>2, <2>3, <2>4, <2>5 DEF AdminCall, EmployeeCall
<1>2. \A x : NextParticipants(x) = Participants(x) BY <1>1 DEF NextParticipants, Participants
<1> HIDE DEF rec
<1> QED BY <1>1, <1>2, LocksNow, LocksOf

(* Deleting takes only rows that are not locked, updating likewise.        *)
LEMMA ReadLocks ==
  ASSUME Inv, NEW a \in Sessions, Reads(a)
  PROVE  MarkedRowsStay'
<1> DEFINE c == call[a]
           rec == call'[a]
<1>1. c \in Calls BY DEF Inv, TypeOK
<1>2. UNCHANGED part /\ call' = [call EXCEPT ![a] = rec]
  BY DEF Inv, TypeOK, Reads, UpdateDelete, RegisterGet, RegisterCount, RegisterInsert, AttendanceMark
<1>3. \A x : NextParticipants(x) = Participants(x) BY <1>2 DEF NextParticipants, Participants
<1>4. CASE UpdateDelete(a)
  <2>1. /\ rec.pc = "update.insert" /\ rec.event = c.event /\ rec.rows = Participants(c.event)
        /\ \A e \in Participants(c.event) : ~RowLocked(c.event, e)
    BY <1>1, <1>4 DEF UpdateDelete, Calls, Inv, TypeOK
  <2>2. ASSUME NEW s \in Sessions, call[s].pc = "attendance.mark", call[s].event = rec.event
        PROVE  call[s].rows \cap rec.rows = {}
    BY <2>1, <2>2 DEF RowLocked, At
  <2> HIDE DEF rec
  <2> QED BY <1>2, <1>3, <2>1, <2>2, LocksNow, LocksOf
<1>5. CASE RegisterGet(a) \/ RegisterCount(a) \/ RegisterInsert(a)
  <2>1. rec.pc \in PcsOfEmployee
    BY <1>1, <1>5 DEF RegisterGet, RegisterCount, RegisterInsert, Calls, PcsOfEmployee, Inv, TypeOK
  <2>2. rec.pc # "update.insert" /\ rec.pc # "attendance.mark" BY <2>1 DEF PcsOfEmployee
  <2> HIDE DEF rec
  <2> QED BY <1>2, <1>3, <2>2, LocksNow, LocksOf
<1>6. ASSUME NEW e \in Emps, AttendanceMark(a, e) PROVE MarkedRowsStay'
  <2>1. /\ c.pc = "attendance.mark" /\ rec.pc = c.pc /\ rec.event = c.event
        /\ rec.rows = c.rows \cup ({e} \cap Participants(c.event))
        /\ ~RowLocked(c.event, e)
    BY <1>1, <1>6 DEF AttendanceMark, At, Calls, Updated, Inv, TypeOK
  <2>2. rec.rows \subseteq Participants(rec.event) BY <2>1, LocksNow
  <2>3. ASSUME NEW t \in Sessions, call[t].pc = "update.insert", call[t].event = rec.event
        PROVE  rec.rows \cap call[t].rows = {}
    <3>1. e \notin call[t].rows BY <2>1, <2>3 DEF RowLocked, At
    <3>2. c.rows \cap call[t].rows = {} BY <2>1, <2>3 DEF Inv, MarkedRowsStay, At
    <3> QED BY <2>1, <3>1, <3>2
  <2>4. rec.pc # "update.insert" BY <2>1
  <2> HIDE DEF rec
  <2> QED BY <1>2, <1>3, <2>2, <2>3, <2>4, LocksNow, LocksOf
<1> QED BY <1>4, <1>5, <1>6 DEF Reads

(* A commit removes only rows of its own.                                  *)
LEMMA CommitLocks ==
  ASSUME Inv, NEW a \in Sessions, Commits(a) \/ Fail(a)
  PROVE  MarkedRowsStay'
<1> DEFINE c == call[a]
<1>1. call' = [call EXCEPT ![a] = Idle]
  BY DEF Commits, Fail, Return, UpdateCommit, UpdateInsert, StatusUpdate, RegisterCommit,
     UnregisterDelete, AttendanceCommit
<1>2. Idle.pc # "attendance.mark" /\ Idle.pc # "update.insert" BY DEF Idle
<1> SUFFICES ASSUME NEW s \in Sessions \ {a}, call[s].pc = "attendance.mark",
                    NEW e \in call[s].rows
             PROVE  e \in NextParticipants(call[s].event)
  BY <1>1, <1>2, LocksOf
<1> DEFINE x == call[s].event
<1>3. e \in Emps /\ part[x][e] # "NONE" BY LocksNow DEF Participants
<1>4. /\ c.pc # "idle" => c.event \in Events
      /\ c.pc \in PcsOfEmployee => c.emp \in Emps
      /\ x \in Events
  BY DEF Inv, TypeOK
<1>5. part \in [Events -> [Emps -> {"NONE", "PENDING"} \cup Reviewed]] BY DEF Inv, TypeOK
<1>6. CASE UpdateInsert(a)
  <2>1. /\ c.pc = "update.insert" /\ c.event \in Events
        /\ part' = [part EXCEPT ![c.event] = RosterAfter(c.event, c.rows, c.emps)]
    BY <1>4, <1>6 DEF UpdateInsert, At
  <2>2. x = c.event => e \notin c.rows BY <2>1 DEF Inv, MarkedRowsStay, At
  <2>3. part'[x][e] # "NONE"
    <3>1. CASE x = c.event
      <4>1. part'[x] = RosterAfter(c.event, c.rows, c.emps) BY <1>5, <2>1, <3>1
      <4> QED BY <1>3, <2>2, <3>1, <4>1 DEF RosterAfter
    <3>2. CASE x # c.event BY <1>3, <1>4, <1>5, <2>1, <3>2
    <3> QED BY <3>1, <3>2
  <2> QED BY <1>3, <2>3 DEF NextParticipants
<1>7. CASE RegisterCommit(a)
  <2>1. /\ c.event \in Events /\ c.emp \in Emps
        /\ part' = [part EXCEPT ![c.event][c.emp] = "PENDING"]
    BY <1>4, <1>7 DEF RegisterCommit, At, PcsOfEmployee
  <2>2. part'[x][e] \in {"PENDING", part[x][e]} BY <1>3, <1>4, <1>5, <2>1
  <2> QED BY <1>3, <2>2 DEF NextParticipants
<1>8. CASE UnregisterDelete(a)
  <2>1. /\ c.event \in Events /\ c.emp \in Emps /\ ~RowLocked(c.event, c.emp)
        /\ part' = [part EXCEPT ![c.event][c.emp] = "NONE"]
    BY <1>4, <1>8 DEF UnregisterDelete, At, PcsOfEmployee
  <2>2. x # c.event \/ e # c.emp BY <2>1 DEF RowLocked, At
  <2>3. part'[x][e] = part[x][e] BY <1>3, <1>4, <1>5, <2>1, <2>2
  <2> QED BY <1>3, <2>3 DEF NextParticipants
<1>9. CASE AttendanceCommit(a)
  <2> DEFINE marked == [f \in Emps |-> IF f \notin c.rows THEN part[c.event][f]
                                       ELSE IF f \in c.attended THEN "ATTENDED" ELSE "MISSED"]
  <2>1. c.event \in Events /\ part' = [part EXCEPT ![c.event] = marked]
    BY <1>4, <1>9 DEF AttendanceCommit, At
  <2>2. part'[x][e] \in {"ATTENDED", "MISSED", part[x][e]} BY <1>3, <1>4, <1>5, <2>1
  <2> QED BY <1>3, <2>2 DEF NextParticipants
<1>10. CASE UpdateCommit(a) \/ StatusUpdate(a) \/ Fail(a)
  BY <1>3, <1>10 DEF UpdateCommit, StatusUpdate, Fail, NextParticipants
<1> QED BY <1>6, <1>7, <1>8, <1>9, <1>10 DEF Commits

(* A step of any kind keeps the locked rows.                               *)
LEMMA LocksKeep == Inv /\ [Next]_vars => MarkedRowsStay'
<1> SUFFICES ASSUME Inv, [Next]_vars PROVE MarkedRowsStay'
  OBVIOUS
<1>1. CASE Create
  <2>1. PICK x \in Events, k \in Clients, h \in Hosts, n \in Seats, E \in Rosters :
          CreateEvent(x, k, h, n, E)
    BY <1>1 DEF Create
  <2>2. UNCHANGED call BY <2>1 DEF CreateEvent
  <2>3. ASSUME NEW s \in Sessions, call[s].pc = "attendance.mark"
        PROVE  NextParticipants(call[s].event) = Participants(call[s].event)
    <3>1. call[s].event \in Events /\ call[s].event # x
      BY <2>1, <2>3 DEF Inv, TypeOK, CreateEvent
    <3>2. part'[call[s].event] = part[call[s].event]
      BY <2>1, <3>1 DEF CreateEvent, Inv, TypeOK
    <3> QED BY <3>2 DEF NextParticipants, Participants
  <2> QED BY <2>2, <2>3, LocksNow DEF Inv, MarkedRowsStay, At, NextParticipants, Participants
<1>2. CASE UNCHANGED vars
  BY <1>2 DEF vars, Inv, MarkedRowsStay, At, Participants
<1> QED BY <1>1, <1>2, StartLocks, ReadLocks, CommitLocks DEF Next

(* Created events exist, and events do not disappear.                      *)
LEMMA RowsExist == Inv /\ [Next]_vars => RowsOfEvents' /\ ParticipantsOfCompany'
<1> SUFFICES ASSUME Inv, [Next]_vars PROVE RowsOfEvents' /\ ParticipantsOfCompany'
  OBVIOUS
<1>1. CASE Create
  <2>1. PICK x \in Events, k \in Clients, h \in Hosts, n \in Seats, E \in Rosters :
          CreateEvent(x, k, h, n, E)
    BY <1>1 DEF Create
  <2>2. ASSUME NEW y \in Events, NEW e \in Emps, part'[y][e] # "NONE"
        PROVE  event'[y].status # "NONE" /\ ClientOf[e] = event'[y].client
    <3>1. CASE y = x
      <4>1. /\ event'[y] = [status |-> "ACTIVE", client |-> k, host |-> h, max |-> n]
            /\ part'[y] = [f \in Emps |-> IF f \in E THEN "PENDING" ELSE "NONE"]
        BY <2>1, <3>1 DEF CreateEvent, Inv, TypeOK
      <4>2. e \in E /\ E \subseteq Staff(k) BY <2>1, <2>2, <4>1 DEF CreateEvent
      <4> QED BY <4>1, <4>2 DEF Staff
    <3>2. CASE y # x
      <4>1. event'[y] = event[y] /\ part'[y] = part[y]
        BY <2>1, <3>2 DEF CreateEvent, Inv, TypeOK
      <4> QED BY <2>2, <4>1 DEF Inv, RowsOfEvents, ParticipantsOfCompany, Participants, Exists
    <3> QED BY <3>1, <3>2
  <2> QED BY <2>2 DEF RowsOfEvents, ParticipantsOfCompany, Participants, Exists
<1>2. CASE ~Create
  <2>1. ASSUME NEW x \in Events, NEW e \in Emps, part'[x][e] # "NONE"
        PROVE  Exists(x) /\ ClientOf[e] = event[x].client
    <3>1. CASE part[x][e] = "NONE" BY <1>2, <2>1, <3>1, RowsChecked
    <3>2. CASE part[x][e] # "NONE"
      BY <3>2 DEF Inv, RowsOfEvents, ParticipantsOfCompany, Participants
    <3> QED BY <3>1, <3>2
  <2>2. ASSUME NEW x \in Events, Exists(x)
        PROVE  event'[x].client = event[x].client /\ event'[x].status # "NONE"
    BY <2>2, ClientFixed DEF Inv
  <2> QED BY <2>1, <2>2 DEF RowsOfEvents, ParticipantsOfCompany, Participants, Exists
<1> QED BY <1>1, <1>2

(* The empty tables have no participants and no locks.                     *)
LEMMA InitInv == Init => Inv
<1> SUFFICES ASSUME Init PROVE Inv
  OBVIOUS
<1>1. TypeOK BY InitTypes
<1>2. \A s \in Sessions : call[s].pc = "idle" BY DEF Init, Idle
<1>3. \A x \in Events : Participants(x) = {} BY DEF Init, Participants
<1> QED BY <1>1, <1>2, <1>3 DEF Inv, RowsOfEvents, MarkedRowsStay, At, CallsOfCompany,
        ParticipantsOfCompany, PcsOfEmployee

(* The invariant is inductive.                                             *)
LEMMA NextInv == Inv /\ [Next]_vars => Inv'
<1> SUFFICES ASSUME Inv, [Next]_vars PROVE Inv'
  OBVIOUS
<1>1. TypeOK' BY NextTypes DEF Inv
<1>2. MarkedRowsStay' BY LocksKeep
<1>3. RowsOfEvents' /\ ParticipantsOfCompany' BY RowsExist
<1>4. CallsOfCompany'
  <2>1. CASE \E s \in Sessions : AdminCall(s) \/ EmployeeCall(s) BY <2>1, StartChecked DEF Inv
  <2>2. CASE \E s \in Sessions : Reads(s) \/ Commits(s) \/ Fail(s) BY <2>2, MoveChecked DEF Inv
  <2>3. CASE Create \/ UNCHANGED vars
    <3>1. UNCHANGED call BY <2>3 DEF Create, CreateEvent, vars
    <3>2. ASSUME NEW s \in Sessions, call[s].pc # "idle"
          PROVE  event'[call[s].event].client = event[call[s].event].client
      BY <3>2, ClientFixed DEF Inv, TypeOK
    <3> QED BY <3>1, <3>2 DEF Inv, CallsOfCompany, PcsOfEmployee
  <2> QED BY <2>1, <2>2, <2>3 DEF Next
<1> QED BY <1>1, <1>2, <1>3, <1>4 DEF Inv

(* Nobody sits at another company's event, whatever registrations and      *)
(* roster changes overlap.                                                 *)
THEOREM CompaniesApart == Spec => []ParticipantsOfCompany
<1>1. Inv => ParticipantsOfCompany BY DEF Inv
<1> QED BY InitInv, NextInv, <1>1, PTL DEF Spec

(* Marking attendance never brings back a participant who left or was      *)
(* replaced while the marking was under way.                               *)
THEOREM MarksKeepRoster == Spec => []MarkedRowsStay
<1>1. Inv => MarkedRowsStay BY DEF Inv
<1> QED BY InitInv, NextInv, <1>1, PTL DEF Spec
-----------------------------------------------------------------------------
(* Calls on one event do not overlap; calls on different events may.  What *)
(* a call has seen of its event is then still so when it writes.           *)
Apart ==
  \A s, t \in Sessions : s # t /\ call[s].pc # "idle" /\ call[t].pc # "idle" =>
    call[s].event # call[t].event

\* The people a roster holds.
OnRoster(roster) == {e \in Emps : roster[e] # "NONE"}

\* What call c has seen of its event, now row and roster.
Seen(c, row, roster) ==
  /\ c.pc \in {"update.delete", "update.insert"} =>
       Cardinality(c.emps) <= Applied(row, c.set).max
  /\ c.pc = "update.insert" => c.rows = OnRoster(roster)
  /\ c.pc \in {"register.count", "register.insert", "register.commit"} => c.max = row.max
  /\ c.pc = "register.commit" => /\ c.emp \notin OnRoster(roster)
                                 /\ Cardinality(OnRoster(roster)) + 1 <= c.max
  /\ c.pc = "attendance.mark" => row.status = "COMPLETED"

SeenCall(c) == Seen(c, event[c.event], part[c.event])
SeenInv == \A s \in Sessions : SeenCall(call[s])

(* A step of one call changes at most the event it is about.               *)
LEMMA SeenKept ==
  ASSUME TypeOK, Apart, SeenInv, NEW s \in Sessions, NEW k, call' = [call EXCEPT ![s] = k],
         \/ UNCHANGED <<event, part>>
         \/ /\ call[s].pc # "idle"
            /\ \A x \in Events : x # call[s].event => event'[x] = event[x] /\ part'[x] = part[x],
         SeenCall(k)'
  PROVE  SeenInv'
<1>1. call'[s] = k /\ \A t \in Sessions : t # s => call'[t] = call[t] BY DEF TypeOK
<1>2. ASSUME NEW t \in Sessions PROVE SeenCall(call[t])'
  <2>1. CASE t = s BY <1>1, <2>1 DEF SeenCall
  <2>2. CASE t # s
    <3>1. SeenCall(call[t]) /\ call'[t] = call[t] BY <1>1, <2>2 DEF SeenInv
    <3>2. call[t].pc # "idle" =>
            event'[call[t].event] = event[call[t].event] /\ part'[call[t].event] = part[call[t].event]
      BY <2>2 DEF Apart, TypeOK
    <3>3. CASE call[t].pc = "idle" BY <3>1, <3>3 DEF SeenCall, Seen
    <3>4. CASE call[t].pc # "idle" BY <3>1, <3>2, <3>4 DEF SeenCall
    <3> QED BY <3>3, <3>4
  <2> QED BY <2>1, <2>2
<1> QED BY <1>2 DEF SeenInv

(* A check has seen what it hands on.                                      *)
LEMMA SeenStarts ==
  ASSUME TypeOK, Apart, SeenInv, NEW s \in Sessions, AdminCall(s) \/ EmployeeCall(s)
  PROVE  SeenInv'
<1>1. ASSUME NEW k, Start(s, k), SeenCall(k) PROVE SeenInv'
  <2>1. call' = [call EXCEPT ![s] = k] /\ UNCHANGED <<event, part>> BY <1>1 DEF Start
  <2>2. SeenCall(k)' BY <1>1, <2>1 DEF SeenCall
  <2> QED BY <2>1, <2>2, SeenKept
<1>2. ASSUME NEW x \in Events, NEW set \in Changes, NEW E \in Rosters, ReplaceCheck(s, x, set, E)
      PROVE  SeenInv'
  <2> DEFINE k == [Idle EXCEPT !.pc = "update.delete", !.event = x, !.set = set, !.emps = E]
  <2>1. k.pc = "update.delete" /\ k.event = x /\ k.set = set /\ k.emps = E BY DEF Idle
  <2>2. Start(s, k) /\ Cardinality(E) <= Applied(event[x], set).max
    BY <1>2 DEF ReplaceCheck, EffectiveMax
  <2> HIDE DEF k
  <2>3. SeenCall(k) BY <2>1, <2>2 DEF SeenCall, Seen
  <2> QED BY <1>1, <2>2, <2>3
<1>3. ASSUME NEW x \in Events, NEW u \in Hosts, NEW D \in SUBSET Emps, NEW A \in SUBSET Emps,
             AttendanceCheck(s, x, u, D, A)
      PROVE  SeenInv'
  <2> DEFINE k == [Idle EXCEPT !.pc = "attendance.mark", !.event = x, !.emps = D, !.attended = A]
  <2>1. k.pc = "attendance.mark" /\ k.event = x BY DEF Idle
  <2>2. Start(s, k) /\ event[x].status = "COMPLETED" BY <1>3 DEF AttendanceCheck, Markable
  <2> HIDE DEF k
  <2>3. SeenCall(k) BY <2>1, <2>2 DEF SeenCall, Seen
  <2> QED BY <1>1, <2>2, <2>3
<1>4. ASSUME NEW x \in Events,
             \/ \E set \in Changes : UpdateCheck(s, x, set)
             \/ CompleteCheck(s, x) \/ DeleteCheck(s, x)
             \/ \E e \in Emps : RegisterCheck(s, x, e) \/ UnregisterCheck(s, x, e)
      PROVE  SeenInv'
  <2> DEFINE Others == {"update.commit", "status.update", "register.get", "unregister.delete"}
  <2>1. \E k : Start(s, k) /\ k.pc \in Others
    <3>1. ASSUME NEW set \in Changes, UpdateCheck(s, x, set) PROVE <2>1!:
      <4> DEFINE k == [Idle EXCEPT !.pc = "update.commit", !.event = x, !.set = set]
      <4>1. Start(s, k) /\ k.pc \in Others BY <3>1 DEF UpdateCheck, Idle
      <4> QED BY <4>1
    <3>2. ASSUME CompleteCheck(s, x) \/ DeleteCheck(s, x) PROVE <2>1!:
      <4>1. PICK v : Start(s, [Idle EXCEPT !.pc = "status.update", !.event = x,
                                           !.set = SetStatus(v)])
        BY <3>2 DEF CompleteCheck, DeleteCheck
      <4> DEFINE k == [Idle EXCEPT !.pc = "status.update", !.event = x, !.set = SetStatus(v)]
      <4>2. Start(s, k) /\ k.pc \in Others BY <4>1 DEF Idle
      <4> QED BY <4>2
    <3>3. ASSUME NEW e \in Emps, RegisterCheck(s, x, e) PROVE <2>1!:
      <4> DEFINE k == [Idle EXCEPT !.pc = "register.get", !.event = x, !.emp = e]
      <4>1. Start(s, k) /\ k.pc \in Others BY <3>3 DEF RegisterCheck, Idle
      <4> QED BY <4>1
    <3>4. ASSUME NEW e \in Emps, UnregisterCheck(s, x, e) PROVE <2>1!:
      <4> DEFINE k == [Idle EXCEPT !.pc = "unregister.delete", !.event = x, !.emp = e]
      <4>1. Start(s, k) /\ k.pc \in Others BY <3>4 DEF UnregisterCheck, Idle
      <4> QED BY <4>1
    <3> QED BY <1>4, <3>1, <3>2, <3>3, <3>4
  <2>2. \A k : k.pc \in Others => SeenCall(k)
    BY DEF SeenCall, Seen
  <2> QED BY <1>1, <2>1, <2>2
<1> QED BY <1>2, <1>3, <1>4 DEF AdminCall, EmployeeCall

(* Each statement of a transaction has seen what the next one relies on.  *)
LEMMA SeenReads ==
  ASSUME TypeOK, Apart, SeenInv, NEW s \in Sessions, Reads(s)
  PROVE  SeenInv'
<1> DEFINE c == call[s]
<1>1. c \in Calls /\ SeenCall(c) BY DEF TypeOK, SeenInv
<1>2. UNCHANGED <<event, part>>
  BY DEF Reads, UpdateDelete, RegisterGet, RegisterCount, RegisterInsert, AttendanceMark
<1>3. ASSUME NEW k, call' = [call EXCEPT ![s] = k], SeenCall(k) PROVE SeenInv'
  <2>1. SeenCall(k)' BY <1>2, <1>3 DEF SeenCall
  <2> QED BY <1>2, <1>3, <2>1, SeenKept
<1>4. CASE UpdateDelete(s)
  <2> DEFINE k == [c EXCEPT !.pc = "update.insert", !.rows = Participants(c.event)]
  <2>1. /\ k.pc = "update.insert" /\ k.event = c.event /\ k.rows = OnRoster(part[c.event])
        /\ k.emps = c.emps /\ k.set = c.set
    BY <1>1 DEF Calls, Participants, OnRoster
  <2>2. call' = [call EXCEPT ![s] = k] /\ c.pc = "update.delete" BY <1>4 DEF UpdateDelete, At
  <2> HIDE DEF k
  <2>3. SeenCall(k) BY <1>1, <2>1, <2>2 DEF SeenCall, Seen
  <2> QED BY <1>3, <2>2, <2>3
<1>5. CASE RegisterGet(s)
  <2> DEFINE k == [c EXCEPT !.pc = "register.count", !.max = event[c.event].max]
  <2>1. k.pc = "register.count" /\ k.event = c.event /\ k.max = event[c.event].max
    BY <1>1 DEF Calls
  <2>2. call' = [call EXCEPT ![s] = k] BY <1>5 DEF RegisterGet
  <2> HIDE DEF k
  <2>3. SeenCall(k) BY <2>1 DEF SeenCall, Seen
  <2> QED BY <1>3, <2>2, <2>3
<1>6. CASE RegisterCount(s)
  <2> DEFINE k == [c EXCEPT !.pc = "register.insert"]
  <2>1. k.pc = "register.insert" /\ k.event = c.event /\ k.max = c.max BY <1>1 DEF Calls
  <2>2. call' = [call EXCEPT ![s] = k] /\ c.pc = "register.count" BY <1>6 DEF RegisterCount, At
  <2> HIDE DEF k
  <2>3. SeenCall(k) BY <1>1, <2>1, <2>2 DEF SeenCall, Seen
  <2> QED BY <1>3, <2>2, <2>3
<1>7. CASE RegisterInsert(s)
  <2> DEFINE k == [c EXCEPT !.pc = "register.commit"]
  <2>1. k.pc = "register.commit" /\ k.event = c.event /\ k.max = c.max /\ k.emp = c.emp
    BY <1>1 DEF Calls
  <2>2. /\ call' = [call EXCEPT ![s] = k] /\ c.pc = "register.insert"
        /\ c.emp \notin OnRoster(part[c.event])
        /\ Cardinality(OnRoster(part[c.event])) + 1 <= c.max
    BY <1>7 DEF RegisterInsert, At, Taken, Participants, OnRoster
  <2> HIDE DEF k
  <2>3. SeenCall(k) BY <1>1, <2>1, <2>2 DEF SeenCall, Seen
  <2> QED BY <1>3, <2>2, <2>3
<1>8. ASSUME NEW e \in Emps, AttendanceMark(s, e) PROVE SeenInv'
  <2> DEFINE k == [c EXCEPT !.emps = @ \ {e}, !.rows = @ \cup Updated(c.event, e)]
  <2>1. k.pc = c.pc /\ k.event = c.event BY <1>1 DEF Calls
  <2>2. call' = [call EXCEPT ![s] = k] /\ c.pc = "attendance.mark" BY <1>8 DEF AttendanceMark, At
  <2> HIDE DEF k
  <2>3. SeenCall(k) BY <1>1, <2>1, <2>2 DEF SeenCall, Seen
  <2> QED BY <1>3, <2>2, <2>3
<1> QED BY <1>4, <1>5, <1>6, <1>7, <1>8 DEF Reads

(* A commit writes what its call has seen room for, and ends it.           *)
LEMMA CommitWrites ==
  ASSUME TypeOK, NEW s \in Sessions, Commits(s)
  PROVE  /\ call' = [call EXCEPT ![s] = Idle] /\ call[s].pc # "idle"
         /\ \A x \in Events : x # call[s].event => event'[x] = event[x] /\ part'[x] = part[x]
<1>1. call' = [call EXCEPT ![s] = Idle] /\ call[s].pc # "idle"
  BY DEF Commits, Return, At, UpdateCommit, UpdateInsert, StatusUpdate, RegisterCommit,
     UnregisterDelete, AttendanceCommit
<1>2. \A x \in Events : x # call[s].event => event'[x] = event[x]
  BY DEF Commits, UpdateCommit, UpdateInsert, StatusUpdate, RegisterCommit, UnregisterDelete,
     AttendanceCommit, TypeOK
<1>3. \A x \in Events : x # call[s].event => part'[x] = part[x]
  <2>1. CASE UpdateInsert(s) BY <2>1 DEF UpdateInsert, TypeOK
  <2>2. CASE RegisterCommit(s) \/ UnregisterDelete(s)
    BY <2>2 DEF RegisterCommit, UnregisterDelete, TypeOK
  <2>3. CASE AttendanceCommit(s) BY <2>3 DEF AttendanceCommit, TypeOK
  <2>4. CASE UpdateCommit(s) \/ StatusUpdate(s) BY <2>4 DEF UpdateCommit, StatusUpdate
  <2> QED BY <2>1, <2>2, <2>3, <2>4 DEF Commits
<1> QED BY <1>1, <1>2, <1>3

(* No step takes from a call what it has seen.                             *)
LEMMA SeenStep == ASSUME Inv, Apart, SeenInv, [Next]_vars PROVE SeenInv'
<1>0. TypeOK BY DEF Inv
<1>1. CASE Create
  <2>1. PICK x \in Events, k \in Clients, h \in Hosts, n \in Seats, E \in Rosters :
          CreateEvent(x, k, h, n, E)
    BY <1>1 DEF Create
  <2>2. call' = call /\ ~Exists(x) BY <2>1 DEF CreateEvent
  <2>3. \A y \in Events : y # x => event'[y] = event[y] /\ part'[y] = part[y]
    BY <1>0, <2>1 DEF CreateEvent, TypeOK
  <2>4. ASSUME NEW t \in Sessions PROVE SeenCall(call[t])'
    <3>1. CASE call[t].pc = "idle" BY <2>2, <3>1 DEF SeenCall, Seen
    <3>2. CASE call[t].pc # "idle"
      <4>1. event'[call[t].event] = event[call[t].event] /\ part'[call[t].event] = part[call[t].event]
        BY <1>0, <2>2, <2>3, <3>2 DEF TypeOK
      <4> QED BY <2>2, <4>1 DEF SeenInv, SeenCall
    <3> QED BY <3>1, <3>2
  <2> QED BY <2>4 DEF SeenInv
<1>2. ASSUME NEW s \in Sessions, AdminCall(s) \/ EmployeeCall(s) PROVE SeenInv'
  BY <1>0, <1>2, SeenStarts
<1>3. ASSUME NEW s \in Sessions, Reads(s) PROVE SeenInv' BY <1>0, <1>3, SeenReads
<1>4. SeenCall(Idle)' BY DEF SeenCall, Seen, Idle
<1>5. ASSUME NEW s \in Sessions, Commits(s) PROVE SeenInv'
  BY <1>0, <1>4, <1>5, CommitWrites, SeenKept
<1>6. ASSUME NEW s \in Sessions, Fail(s) PROVE SeenInv'
  <2>1. call' = [call EXCEPT ![s] = Idle] /\ UNCHANGED <<event, part>>
    BY <1>6 DEF Fail, Return
  <2> QED BY <1>0, <1>4, <2>1, SeenKept
<1>7. CASE UNCHANGED vars BY <1>7 DEF vars, SeenInv, SeenCall
<1> QED BY <1>1, <1>2, <1>3, <1>5, <1>6, <1>7 DEF Next

(* The steps that write participants.                                      *)
LEMMA PartWrites ==
  ASSUME TypeOK, [Next]_vars, NEW x \in Events, part'[x] # part[x]
  PROVE  \/ Create
         \/ \E s \in Sessions :
              /\ call[s].event = x
              /\ UpdateInsert(s) \/ RegisterCommit(s) \/ UnregisterDelete(s) \/ AttendanceCommit(s)
<1>1. part' # part OBVIOUS
<1>2. Create \/ \E s \in Sessions : Commits(s)
  BY <1>1 DEF Next, vars, AdminCall, EmployeeCall, Reads, Fail, Start, UpdateCheck, ReplaceCheck,
     CompleteCheck, DeleteCheck, AttendanceCheck, RegisterCheck, UnregisterCheck,
     UpdateDelete, RegisterGet, RegisterCount, RegisterInsert, AttendanceMark
<1>3. ASSUME NEW s \in Sessions, Commits(s)
      PROVE  /\ call[s].event = x
             /\ UpdateInsert(s) \/ RegisterCommit(s) \/ UnregisterDelete(s) \/ AttendanceCommit(s)
  <2>1. call[s].event = x BY <1>3, CommitWrites
  <2>2. ~UpdateCommit(s) /\ ~StatusUpdate(s) BY <1>1 DEF UpdateCommit, StatusUpdate
  <2> QED BY <1>3, <2>1, <2>2 DEF Commits
<1> QED BY <1>2, <1>3

(* The rows each of them leaves.                                           *)
LEMMA PartAfter ==
  ASSUME Inv, SeenInv, NEW x \in Events, NEW s \in Sessions, call[s].event = x
  PROVE  /\ UpdateInsert(s) =>
              /\ OnRoster(part'[x]) = call[s].emps /\ event'[x] = Applied(event[x], call[s].set)
              /\ \A e \in Emps : part'[x][e] \notin Reviewed
         /\ RegisterCommit(s) =>
              /\ call[s].emp \in Emps /\ event' = event
              /\ \A e \in Emps : part'[x][e] = IF e = call[s].emp THEN "PENDING" ELSE part[x][e]
         /\ UnregisterDelete(s) => \A e \in Emps : part'[x][e] \in {"NONE", part[x][e]}
         /\ AttendanceCommit(s) =>
              \A e \in Emps : part[x][e] = "NONE" => part'[x][e] = "NONE"
<1>1. part \in [Events -> [Emps -> {"NONE", "PENDING"} \cup Reviewed]]
      /\ event \in [Events -> EventRows] /\ call[s] \in Calls /\ SeenCall(call[s])
  BY DEF Inv, TypeOK, SeenInv
<1>2. ASSUME UpdateInsert(s)
      PROVE  /\ OnRoster(part'[x]) = call[s].emps /\ event'[x] = Applied(event[x], call[s].set)
             /\ \A e \in Emps : part'[x][e] \notin Reviewed
  <2>1. call[s].rows = OnRoster(part[x]) BY <1>1, <1>2 DEF UpdateInsert, At, SeenCall, Seen
  <2>2. part'[x] = RosterAfter(x, call[s].rows, call[s].emps)
        /\ event'[x] = Applied(event[x], call[s].set)
    BY <1>1, <1>2 DEF UpdateInsert
  <2>3. \A e \in Emps : part'[x][e] = IF e \in call[s].emps THEN "PENDING" ELSE "NONE"
    BY <2>1, <2>2 DEF RosterAfter, OnRoster
  <2>4. call[s].emps \subseteq Emps BY <1>1 DEF Calls
  <2> QED BY <2>2, <2>3, <2>4 DEF OnRoster, Reviewed
<1>3. ASSUME RegisterCommit(s) \/ UnregisterDelete(s) PROVE call[s].emp \in Emps
  BY <1>3 DEF RegisterCommit, UnregisterDelete, At, PcsOfEmployee, Inv, TypeOK
<1>4. ASSUME RegisterCommit(s)
      PROVE  /\ event' = event
             /\ \A e \in Emps : part'[x][e] = IF e = call[s].emp THEN "PENDING" ELSE part[x][e]
  BY <1>1, <1>3, <1>4 DEF RegisterCommit
<1>5. ASSUME UnregisterDelete(s) PROVE \A e \in Emps : part'[x][e] \in {"NONE", part[x][e]}
  BY <1>1, <1>3, <1>5 DEF UnregisterDelete
<1>6. ASSUME AttendanceCommit(s) PROVE \A e \in Emps : part[x][e] = "NONE" => part'[x][e] = "NONE"
  <2>1. call[s].rows \subseteq OnRoster(part[x])
    BY <1>6, LocksNow DEF AttendanceCommit, At, Participants, OnRoster
  <2>2. \A e \in Emps : e \notin call[s].rows => part'[x][e] = part[x][e]
    BY <1>1, <1>6 DEF AttendanceCommit
  <2> QED BY <2>1, <2>2 DEF OnRoster
<1> QED BY <1>2, <1>3, <1>4, <1>5, <1>6

(* Whoever adds participants has seen places for them.                     *)
LEMMA PlacesStep ==
  ASSUME IsFiniteSet(Emps), Inv, SeenInv, [Next]_vars, NEW x \in Events, NEW e \in Emps,
         part[x][e] = "NONE", part'[x][e] # "NONE"
  PROVE  Cardinality(OnRoster(part'[x])) <= event'[x].max
<1>0. TypeOK BY DEF Inv
<1>1. CASE Create
  <2>1. PICK y \in Events, k \in Clients, h \in Hosts, n \in Seats, E \in Rosters :
          CreateEvent(y, k, h, n, E)
    BY <1>1 DEF Create
  <2>2. x = y BY <1>0, <2>1 DEF CreateEvent, TypeOK
  <2>3. /\ event'[x].max = n /\ Cardinality(E) <= n /\ E \subseteq Emps
        /\ part'[x] = [f \in Emps |-> IF f \in E THEN "PENDING" ELSE "NONE"]
    BY <1>0, <2>1, <2>2 DEF CreateEvent, TypeOK, Staff
  <2>4. OnRoster(part'[x]) = E BY <2>3 DEF OnRoster
  <2> QED BY <2>3, <2>4
<1>2. CASE ~Create
  <2>1. PICK s \in Sessions :
          /\ call[s].event = x
          /\ UpdateInsert(s) \/ RegisterCommit(s) \/ UnregisterDelete(s) \/ AttendanceCommit(s)
    BY <1>0, <1>2, PartWrites
  <2>2. SeenCall(call[s]) BY DEF SeenInv
  <2>3. CASE UpdateInsert(s)
    <3>1. Cardinality(call[s].emps) <= Applied(event[x], call[s].set).max
      BY <2>1, <2>2, <2>3 DEF UpdateInsert, At, SeenCall, Seen
    <3> QED BY <2>1, <2>3, <3>1, PartAfter
  <2>4. CASE RegisterCommit(s)
    <3> DEFINE p == OnRoster(part[x])
               u == call[s].emp
    <3>1. /\ u \in Emps /\ event' = event
          /\ \A f \in Emps : part'[x][f] = IF f = u THEN "PENDING" ELSE part[x][f]
      BY <2>1, <2>4, PartAfter
    <3>2. OnRoster(part'[x]) = p \cup {u} BY <3>1 DEF OnRoster
    <3>3. u \notin p /\ Cardinality(p) + 1 <= event[x].max
      BY <2>1, <2>2, <2>4 DEF RegisterCommit, At, SeenCall, Seen
    <3>4. IsFiniteSet(p) BY FS_Subset DEF OnRoster
    <3> HIDE DEF p, u
    <3>5. Cardinality(p \cup {u}) = Cardinality(p) + 1 BY <3>3, <3>4, FS_AddElement
    <3> QED BY <3>1, <3>2, <3>3, <3>5
  <2>5. CASE UnregisterDelete(s) \/ AttendanceCommit(s)
    <3>1. part'[x][e] = "NONE" BY <2>1, <2>5, PartAfter
    <3> QED BY <3>1
  <2> QED BY <2>1, <2>3, <2>4, <2>5
<1> QED BY <1>1, <1>2

(* Publishing, replacing a roster and registering never leave more people  *)
(* than places, as long as calls on one event do not overlap.              *)
THEOREM PlacesAreChecked ==
  ASSUME IsFiniteSet(Emps) PROVE Spec /\ []Apart => PlacesChecked
<1>1. Init => SeenInv BY DEF Init, SeenInv, SeenCall, Seen, Idle
<1>2. Inv /\ Apart /\ SeenInv /\ [Next]_vars => SeenInv' BY SeenStep
<1>3. Inv /\ SeenInv /\ [Next]_vars =>
        [\A x \in Events :
           (\E e \in Emps : part[x][e] = "NONE" /\ part'[x][e] # "NONE") =>
             Cardinality({e \in Emps : part'[x][e] # "NONE"}) <= event'[x].max]_vars
  BY PlacesStep DEF OnRoster
<1> QED BY <1>1, <1>2, <1>3, InitInv, NextInv, PTL DEF Spec, PlacesChecked

(* Marks appear on completed events and for people on the roster only, as  *)
(* long as calls on one event do not overlap.                              *)
THEOREM MarksAfterCompletion == Spec /\ []Apart => AttendanceAfterEvent
<1>1. Init => SeenInv BY DEF Init, SeenInv, SeenCall, Seen, Idle
<1>2. Inv /\ Apart /\ SeenInv /\ [Next]_vars => SeenInv' BY SeenStep
<1>3. ASSUME Inv, SeenInv, [Next]_vars, NEW x \in Events, NEW e \in Emps,
             part'[x][e] \in Reviewed, part'[x][e] # part[x][e]
      PROVE  event[x].status = "COMPLETED" /\ part[x][e] # "NONE"
  <2>0. TypeOK BY <1>3 DEF Inv
  <2>1. ~Create
    <3>1. ASSUME NEW y \in Events, NEW k \in Clients, NEW h \in Hosts, NEW n \in Seats,
                 NEW E \in Rosters, CreateEvent(y, k, h, n, E)
          PROVE  part'[x][e] \in {"PENDING", "NONE", part[x][e]}
      BY <2>0, <3>1 DEF CreateEvent, TypeOK
    <3> QED BY <1>3, <3>1 DEF Create, Reviewed
  <2>2. PICK s \in Sessions :
          /\ call[s].event = x
          /\ UpdateInsert(s) \/ RegisterCommit(s) \/ UnregisterDelete(s) \/ AttendanceCommit(s)
    BY <1>3, <2>0, <2>1, PartWrites
  <2>3. ~UpdateInsert(s) BY <1>3, <2>2, PartAfter
  <2>4. ~RegisterCommit(s) /\ ~UnregisterDelete(s) BY <1>3, <2>2, PartAfter DEF Reviewed
  <2>5. AttendanceCommit(s) BY <2>2, <2>3, <2>4
  <2>6. event[x].status = "COMPLETED"
    <3>1. call[s].pc = "attendance.mark" BY <2>5 DEF AttendanceCommit, At
    <3>2. SeenCall(call[s]) BY <1>3 DEF SeenInv
    <3> QED BY <2>2, <3>1, <3>2 DEF SeenCall, Seen
  <2>7. part[x][e] # "NONE"
    <3>1. "NONE" \notin Reviewed BY DEF Reviewed
    <3> QED BY <1>3, <2>2, <2>5, <3>1, PartAfter
  <2> QED BY <2>6, <2>7
<1>4. Inv /\ SeenInv /\ [Next]_vars =>
        [\A x \in Events, e \in Emps :
           part'[x][e] \in Reviewed /\ part'[x][e] # part[x][e] =>
             event[x].status = "COMPLETED" /\ part[x][e] # "NONE"]_part
  BY <1>3
<1> QED BY <1>1, <1>2, <1>4, InitInv, NextInv, PTL DEF Spec, AttendanceAfterEvent
=============================================================================
