------------------------------- MODULE Progress -------------------------------
(***************************************************************************)
(* The progress of employees in SCORM courses (orgstructure/               *)
(* scorm_progress): courses are assigned and assigned again, employees     *)
(* report.  AssignCourseEmployees reads the rows there are before it opens *)
(* its transaction, and no index keeps a second row of an employee and a   *)
(* course out; GetMyCourseProgress (.Only) fails for good once there is    *)
(* one.  Score and suspend data are left out.                              *)
(***************************************************************************)
EXTENDS Integers, FiniteSets, Functions

CONSTANTS Courses, Emps,
          Ids,       \* ids rows may get
          Sessions,  \* concurrent calls
          Null

ASSUME ProgressAssumption == /\ IsFiniteSet(Sessions) /\ IsFiniteSet(Ids)
                             /\ Null \notin Courses /\ Null \notin Emps /\ Null \notin Ids

VARIABLES live,  \* employees that are not deleted
          row,   \* id -> row of scorm_progresses
          call   \* what each HTTP call is doing

vars == <<live, row, call>>

Statuses == {"NOT_STARTED", "IN_PROGRESS", "COMPLETED"}
\* completed: completed_at is set.
NoRow == [course |-> Null, emp |-> Null, status |-> "NOT_STARTED", completed |-> FALSE]
\* Mutant: SetCourseID is forgotten.
CourseForgotten(c, e) == [NoRow EXCEPT !.emp = e]
NewRow(c, e) == [NoRow EXCEPT !.course = c, !.emp = e]

\* known: employees the call found a row for; new: those it did not.
Idle == [pc |-> "idle", course |-> Null, known |-> {}, new |-> {},
         id |-> Null, status |-> Null, dated |-> FALSE]

Init == /\ live = Emps
        /\ row = [i \in Ids |-> NoRow]
        /\ call = [s \in Sessions |-> Idle]

RowsOf(c, e) == {i \in Ids : row[i].course = c /\ row[i].emp = e}
At(s, pc) == call[s].pc = pc
Start(s, rec) == /\ call[s] = Idle
                 /\ call' = [call EXCEPT ![s] = rec]
                 /\ UNCHANGED <<live, row>>
Return(s) == call' = [call EXCEPT ![s] = Idle]
-----------------------------------------------------------------------------
(* AssignCourseEmployees.                                                  *)

\* existingRows.  Mutant: only rows the employee has not completed count.
Unfinished(c, e) == \E i \in RowsOf(c, e) : row[i].status # "COMPLETED"
Assigned(c, e) == RowsOf(c, e) # {}

\* Without reassign one existing row is enough to change nothing.
AssignCheck(s, c, es, reassign) ==
  LET known == {e \in es : Assigned(c, e)} IN
  /\ es # {} /\ es \subseteq live
  /\ reassign \/ known = {}
  /\ Start(s, [Idle EXCEPT !.pc = "assign", !.course = c, !.known = known, !.new = es \ known])

\* The transaction: known rows start over, the others are created.
AssignSave(s) ==
  LET c == call[s].course
      free == {i \in Ids : row[i] = NoRow} IN
  /\ At(s, "assign")
  /\ \E id \in Injection(call[s].new, free) :
       row' = [i \in Ids |->
                 IF i \in Range(id) THEN NewRow(c, CHOOSE e \in call[s].new : id[e] = i)
                 ELSE IF row[i].course = c /\ row[i].emp \in call[s].known THEN NewRow(c, row[i].emp)
                 ELSE row[i]]
  /\ Return(s)
  /\ UNCHANGED live
-----------------------------------------------------------------------------
(* UpdateCourseProgress, by the employee or a manager.                     *)

\* status is Null when none is sent; dated: completed_at is sent.
UpdateCheck(s, i, status, dated) ==
  /\ row[i] # NoRow /\ row[i].emp \in live
  /\ Start(s, [Idle EXCEPT !.pc = "update", !.id = i, !.status = status, !.dated = dated])

\* completed_at stays when the status goes back.  Mutant: only a course in progress
\* gets a date when it is completed.
OnlyFromProgress(s) ==
  call[s].dated \/ (call[s].status = "COMPLETED" /\ row[call[s].id].status = "IN_PROGRESS")
CompletedAtSet(s) == call[s].dated \/ call[s].status = "COMPLETED"

UpdateSave(s) ==
  /\ At(s, "update")
  /\ row' = [row EXCEPT ![call[s].id].status = IF call[s].status = Null THEN @ ELSE call[s].status,
                        ![call[s].id].completed = @ \/ CompletedAtSet(s)]
  /\ Return(s)
  /\ UNCHANGED live

\* A failed statement, or the client is gone.
CallFails(s) == call[s] # Idle /\ Return(s) /\ UNCHANGED <<live, row>>

\* DeleteEmployee of orgstructure/employees leaves the progress where it is.
DeleteEmployee(e) == e \in live /\ live' = live \ {e} /\ UNCHANGED <<row, call>>

Next ==
  \/ \E s \in Sessions :
       \/ \E c \in Courses, es \in SUBSET Emps, reassign \in BOOLEAN : AssignCheck(s, c, es, reassign)
       \/ \E i \in Ids, status \in Statuses \cup {Null}, dated \in BOOLEAN :
            UpdateCheck(s, i, status, dated)
       \/ AssignSave(s) \/ UpdateSave(s) \/ CallFails(s)
  \/ \E e \in Emps : DeleteEmployee(e)

Spec == Init /\ [][Next]_vars
-----------------------------------------------------------------------------
(***************************************************************************)
(* Properties.                                                             *)
(***************************************************************************)
Rows == [course : Courses, emp : Emps, status : Statuses, completed : BOOLEAN]
Calls == [pc : {"idle", "assign", "update"}, course : Courses \cup {Null},
          known : SUBSET Emps, new : SUBSET Emps, id : Ids \cup {Null},
          status : Statuses \cup {Null}, dated : BOOLEAN]

TypeOK ==
  /\ live \subseteq Emps
  /\ row \in [Ids -> Rows \cup {NoRow}]
  /\ call \in [Sessions -> Calls]
  /\ \A s \in Sessions :
       /\ call[s].pc = "assign" => call[s].course \in Courses
       /\ call[s].pc = "update" => call[s].id \in Ids /\ row[call[s].id] # NoRow

\* AssignCourseEmployees: an employee has at most one row of a course for each call
\* that may overlap: one when assignments do not overlap, and however many there
\* have been, none is added once the first is there to be seen.
OneRowPerOverlap ==
  \A c \in Courses, e \in Emps : Cardinality(RowsOf(c, e)) <= Cardinality(Sessions)

\* UpdateCourseProgress: a completed course has a date, also when it is reset and
\* reported on at the same time.
CompletedHasDate == \A i \in Ids : row[i].status = "COMPLETED" => row[i].completed
=============================================================================
