--------------------------- MODULE ProgressProofs ---------------------------
(***************************************************************************)
(* Proofs about the progress in courses, for any set of courses and        *)
(* employees and any number of overlapping calls: types, that a completed  *)
(* course has a date, and that calls add no row of an employee and a       *)
(* course beyond one for each of them that may overlap.                    *)
(***************************************************************************)
EXTENDS Progress, FiniteSetTheorems, TLAPS

LEMMA BlankTypes ==
  /\ Idle \in Calls /\ Idle.pc = "idle" /\ Idle.new = {}
  /\ NoRow \notin Rows
  /\ \A c \in Courses, e \in Emps : NewRow(c, e) \in Rows /\ ~NewRow(c, e).completed
       /\ NewRow(c, e).course = c /\ NewRow(c, e).emp = e /\ NewRow(c, e).status = "NOT_STARTED"
BY ProgressAssumption DEF Idle, Calls, NoRow, Rows, NewRow, Statuses

(* What the row of id i is after AssignSave.                               *)
LEMMA AssignedRow ==
  ASSUME TypeOK, NEW s \in Sessions, At(s, "assign"),
         NEW id \in Injection(call[s].new, {i \in Ids : row[i] = NoRow}),
         NEW i \in Ids,
         row' = [j \in Ids |->
                  IF j \in Range(id)
                    THEN NewRow(call[s].course, CHOOSE e \in call[s].new : id[e] = j)
                  ELSE IF row[j].course = call[s].course /\ row[j].emp \in call[s].known
                    THEN NewRow(call[s].course, row[j].emp)
                  ELSE row[j]]
  PROVE  \/ \E e \in call[s].new : /\ id[e] = i /\ row[i] = NoRow
                                   /\ row'[i] = NewRow(call[s].course, e)
         \/ /\ i \notin Range(id)
            /\ row[i] \in Rows /\ row[i].course = call[s].course
            /\ row'[i] = NewRow(row[i].course, row[i].emp)
         \/ i \notin Range(id) /\ row'[i] = row[i]
<1> DEFINE c == call[s].course
<1>1. call[s] \in Calls /\ c \in Courses BY DEF TypeOK, At
<1>2. CASE i \in Range(id)
  <2>1. PICK e \in call[s].new : id[e] = i BY <1>2 DEF Range, Injection
  <2>2. (CHOOSE f \in call[s].new : id[f] = i) \in call[s].new
        /\ id[CHOOSE f \in call[s].new : id[f] = i] = i
    BY <2>1
  <2>3. row[i] = NoRow BY <2>1 DEF Injection
  <2> QED BY <1>2, <2>2, <2>3
<1>3. CASE i \notin Range(id) /\ row[i].course = c /\ row[i].emp \in call[s].known
  <2>1. row[i] # NoRow BY <1>1, <1>3, ProgressAssumption DEF NoRow
  <2>2. row[i] \in Rows BY <2>1 DEF TypeOK
  <2> QED BY <1>3, <2>2
<1>4. CASE i \notin Range(id) /\ ~(row[i].course = c /\ row[i].emp \in call[s].known)
  BY <1>4
<1> QED BY <1>2, <1>3, <1>4

LEMMA AssignedRowType ==
  ASSUME TypeOK, NEW s \in Sessions, AssignSave(s)
  PROVE  /\ row' \in [Ids -> Rows \cup {NoRow}]
         /\ \A i \in Ids : row[i] # NoRow => row'[i] # NoRow
<1>1. PICK id \in Injection(call[s].new, {i \in Ids : row[i] = NoRow}) :
        row' = [j \in Ids |->
                  IF j \in Range(id)
                    THEN NewRow(call[s].course, CHOOSE e \in call[s].new : id[e] = j)
                  ELSE IF row[j].course = call[s].course /\ row[j].emp \in call[s].known
                    THEN NewRow(call[s].course, row[j].emp)
                  ELSE row[j]]
  BY DEF AssignSave
<1>2. At(s, "assign") /\ call[s] \in Calls /\ call[s].course \in Courses
  <2>1. At(s, "assign") BY DEF AssignSave
  <2> QED BY <2>1 DEF TypeOK, At
<1>3. SUFFICES ASSUME NEW i \in Ids
               PROVE  /\ row'[i] \in Rows \cup {NoRow}
                      /\ row[i] # NoRow => row'[i] # NoRow
  BY <1>1
<1>4. CASE \E e \in call[s].new : row'[i] = NewRow(call[s].course, e)
  <2>1. call[s].new \subseteq Emps BY <1>2 DEF Calls
  <2> QED BY <1>2, <1>4, <2>1, BlankTypes
<1>5. CASE row[i] \in Rows /\ row'[i] = NewRow(row[i].course, row[i].emp)
  <2>1. row[i].course \in Courses /\ row[i].emp \in Emps BY <1>5 DEF Rows
  <2> QED BY <1>5, <2>1, BlankTypes
<1>6. CASE row'[i] = row[i]
  BY <1>6 DEF TypeOK
<1> QED BY <1>1, <1>2, <1>4, <1>5, <1>6, AssignedRow

(* A report changes neither whose row it is nor that it is one.            *)
LEMMA UpdatedRow ==
  ASSUME TypeOK, NEW s \in Sessions, UpdateSave(s)
  PROVE  /\ row' \in [Ids -> Rows \cup {NoRow}]
         /\ \A i \in Ids : /\ row[i] # NoRow => row'[i] # NoRow
                           /\ row'[i].course = row[i].course /\ row'[i].emp = row[i].emp
         /\ \A i \in Ids : row'[i] # row[i] =>
              /\ i = call[s].id
              /\ row'[i].status = IF call[s].status = Null THEN row[i].status ELSE call[s].status
              /\ row'[i].completed = (row[i].completed \/ CompletedAtSet(s))
<1> DEFINE k == call[s].id
           st == IF call[s].status = Null THEN row[k].status ELSE call[s].status
           done == row[k].completed \/ CompletedAtSet(s)
<1>1. call[s] \in Calls /\ k \in Ids /\ row[k] \in Rows
  BY DEF UpdateSave, At, TypeOK
<1>2. row' = [row EXCEPT ![k] = [[@ EXCEPT !.status = st] EXCEPT !.completed = done]]
  BY <1>1 DEF UpdateSave, TypeOK
<1>3. st \in Statuses BY <1>1 DEF Calls, Rows
<1>4. done \in BOOLEAN BY <1>1 DEF Calls, Rows, CompletedAtSet
<1> HIDE DEF st, done
<1>5. [[row[k] EXCEPT !.status = st] EXCEPT !.completed = done] \in Rows
  BY <1>1, <1>3, <1>4 DEF Rows
<1>6. row'[k] \in Rows /\ row'[k].course = row[k].course /\ row'[k].emp = row[k].emp
      /\ row'[k].status = st /\ row'[k].completed = done
  BY <1>1, <1>2, <1>5 DEF TypeOK, Rows
<1>7. \A i \in Ids \ {k} : row'[i] = row[i] BY <1>2 DEF TypeOK
<1>8. row' \in [Ids -> Rows \cup {NoRow}] BY <1>2, <1>5 DEF TypeOK
<1> QED BY <1>1, <1>6, <1>7, <1>8, BlankTypes DEF st, done

(* A call that starts or returns leaves the rows alone.                    *)
LEMMA CallTypes ==
  ASSUME TypeOK, NEW s \in Sessions, NEW rec \in Calls,
         call' = [call EXCEPT ![s] = rec], live' = live,
         row' \in [Ids -> Rows \cup {NoRow}],
         \A i \in Ids : row[i] # NoRow => row'[i] # NoRow,
         rec.pc = "assign" => rec.course \in Courses,
         rec.pc = "update" => rec.id \in Ids /\ row'[rec.id] # NoRow
  PROVE  TypeOK'
<1>1. call' \in [Sessions -> Calls] BY DEF TypeOK
<1>2. ASSUME NEW t \in Sessions
      PROVE  /\ call'[t].pc = "assign" => call'[t].course \in Courses
             /\ call'[t].pc = "update" => call'[t].id \in Ids /\ row'[call'[t].id] # NoRow
  BY DEF TypeOK, At
<1> QED BY <1>1, <1>2 DEF TypeOK, At
-----------------------------------------------------------------------------
LEMMA TypeStep == TypeOK /\ [Next]_vars => TypeOK'
<1> SUFFICES ASSUME TypeOK, [Next]_vars PROVE TypeOK' OBVIOUS
<1>1. ASSUME NEW s \in Sessions, NEW c \in Courses, NEW es \in SUBSET Emps,
             NEW reassign \in BOOLEAN, AssignCheck(s, c, es, reassign)
      PROVE  TypeOK'
  <2> DEFINE known == {e \in es : Assigned(c, e)}
             rec == [Idle EXCEPT !.pc = "assign", !.course = c, !.known = known,
                                 !.new = es \ known]
  <2>1. call' = [call EXCEPT ![s] = rec] /\ live' = live /\ row' = row
    BY <1>1 DEF AssignCheck, Start
  <2>2. rec \in Calls /\ rec.pc = "assign" /\ rec.course = c
    <3> HIDE DEF known
    <3>1. known \in SUBSET Emps /\ es \ known \in SUBSET Emps BY DEF known
    <3> QED BY <3>1 DEF Idle, Calls
  <2> HIDE DEF rec
  <2> QED BY <2>1, <2>2, CallTypes DEF TypeOK
<1>2. ASSUME NEW s \in Sessions, NEW i \in Ids, NEW status \in Statuses \cup {Null},
             NEW dated \in BOOLEAN, UpdateCheck(s, i, status, dated)
      PROVE  TypeOK'
  <2> DEFINE rec == [Idle EXCEPT !.pc = "update", !.id = i, !.status = status, !.dated = dated]
  <2>1. call' = [call EXCEPT ![s] = rec] /\ live' = live /\ row' = row /\ row[i] # NoRow
    BY <1>2 DEF UpdateCheck, Start
  <2>2. rec \in Calls /\ rec.pc = "update" /\ rec.id = i
    BY DEF Idle, Calls
  <2> HIDE DEF rec
  <2> QED BY <2>1, <2>2, CallTypes DEF TypeOK
<1>3. ASSUME NEW s \in Sessions, AssignSave(s) PROVE TypeOK'
  <2>1. call' = [call EXCEPT ![s] = Idle] /\ live' = live
    BY <1>3 DEF AssignSave, Return
  <2> QED BY <1>3, <2>1, AssignedRowType, BlankTypes, CallTypes
<1>4. ASSUME NEW s \in Sessions, UpdateSave(s) PROVE TypeOK'
  <2>1. call' = [call EXCEPT ![s] = Idle] /\ live' = live
    BY <1>4 DEF UpdateSave, Return
  <2> QED BY <1>4, <2>1, UpdatedRow, BlankTypes, CallTypes
<1>5. ASSUME NEW s \in Sessions, CallFails(s) PROVE TypeOK'
  <2>1. call' = [call EXCEPT ![s] = Idle] /\ live' = live /\ row' = row
    BY <1>5 DEF CallFails, Return
  <2> QED BY <2>1, BlankTypes, CallTypes DEF TypeOK
<1>6. ASSUME NEW e \in Emps, DeleteEmployee(e) PROVE TypeOK'
  BY <1>6 DEF DeleteEmployee, TypeOK, At
<1>7. CASE UNCHANGED vars
  BY <1>7 DEF vars, TypeOK, At
<1> QED BY <1>1, <1>2, <1>3, <1>4, <1>5, <1>6, <1>7 DEF Next

LEMMA TypeInit == Init => TypeOK
BY BlankTypes DEF Init, TypeOK, At

(* Rows and calls keep their types whatever calls overlap or fail.         *)
THEOREM TypeCorrect == Spec => []TypeOK
<1> QED BY TypeInit, TypeStep, PTL DEF Spec
-----------------------------------------------------------------------------
LEMMA DateStep == TypeOK /\ CompletedHasDate /\ [Next]_vars => CompletedHasDate'
<1> SUFFICES ASSUME TypeOK, CompletedHasDate, [Next]_vars, NEW i \in Ids,
                    row'[i].status = "COMPLETED"
             PROVE  row'[i].completed
  BY DEF CompletedHasDate
<1>1. ASSUME NEW s \in Sessions, AssignSave(s) PROVE row'[i].completed
  <2>1. PICK id \in Injection(call[s].new, {j \in Ids : row[j] = NoRow}) :
          row' = [j \in Ids |->
                  IF j \in Range(id)
                    THEN NewRow(call[s].course, CHOOSE e \in call[s].new : id[e] = j)
                  ELSE IF row[j].course = call[s].course /\ row[j].emp \in call[s].known
                    THEN NewRow(call[s].course, row[j].emp)
                  ELSE row[j]]
    BY <1>1 DEF AssignSave
  <2>2. At(s, "assign") BY <1>1 DEF AssignSave
  <2>3. \A c, e : NewRow(c, e).status # "COMPLETED" BY DEF NewRow, NoRow
  <2>4. row'[i] = row[i] BY <2>1, <2>2, <2>3, AssignedRow
  <2> QED BY <2>4 DEF CompletedHasDate
<1>2. ASSUME NEW s \in Sessions, UpdateSave(s) PROVE row'[i].completed
  <2>1. CASE row'[i] = row[i] BY <2>1 DEF CompletedHasDate
  <2>2. CASE row'[i] # row[i]
    <3>1. row[i].status = "COMPLETED" \/ call[s].status = "COMPLETED"
      BY <1>2, <2>2, UpdatedRow
    <3> QED BY <1>2, <2>2, <3>1, UpdatedRow DEF CompletedHasDate, CompletedAtSet
  <2> QED BY <2>1, <2>2
<1>3. ASSUME row' = row PROVE row'[i].completed
  BY <1>3 DEF CompletedHasDate
<1>4. \/ \E s \in Sessions : AssignSave(s) \/ UpdateSave(s)
      \/ row' = row
  BY DEF Next, AssignCheck, UpdateCheck, Start, CallFails, DeleteEmployee, vars
<1> QED BY <1>1, <1>2, <1>3, <1>4

(* No interleaving of reports, resets and failures leaves a completed      *)
(* course without its date.                                                *)
THEOREM CompletionIsDated == Spec => []CompletedHasDate
<1>1. Init => CompletedHasDate BY DEF Init, CompletedHasDate, NoRow
<1> QED BY <1>1, DateStep, TypeCorrect, PTL DEF Spec
-----------------------------------------------------------------------------
(* Calls that are about to add a row of e in c.                            *)
Adding(c, e) == {s \in Sessions : At(s, "assign") /\ call[s].course = c /\ e \in call[s].new}

RowsInv == \A c \in Courses, e \in Emps :
             Cardinality(RowsOf(c, e)) + Cardinality(Adding(c, e)) <= Cardinality(Sessions)

LEMMA Finite ==
  \A c, e : /\ IsFiniteSet(RowsOf(c, e)) /\ Cardinality(RowsOf(c, e)) \in Nat
            /\ IsFiniteSet(Adding(c, e)) /\ Cardinality(Adding(c, e)) \in Nat
            /\ Cardinality(Adding(c, e)) <= Cardinality(Sessions)
            /\ IsFiniteSet(Adding(c, e)') /\ Cardinality(Adding(c, e)') \in Nat
            /\ Cardinality(Adding(c, e)') <= Cardinality(Sessions)
<1> SUFFICES ASSUME NEW c, NEW e
             PROVE  /\ IsFiniteSet(RowsOf(c, e)) /\ Cardinality(RowsOf(c, e)) \in Nat
                    /\ IsFiniteSet(Adding(c, e)) /\ Cardinality(Adding(c, e)) \in Nat
                    /\ Cardinality(Adding(c, e)) <= Cardinality(Sessions)
                    /\ IsFiniteSet(Adding(c, e)') /\ Cardinality(Adding(c, e)') \in Nat
                    /\ Cardinality(Adding(c, e)') <= Cardinality(Sessions)
  OBVIOUS
<1>1. RowsOf(c, e) \in SUBSET Ids BY DEF RowsOf
<1>2. Adding(c, e) \in SUBSET Sessions /\ Adding(c, e)' \in SUBSET Sessions BY DEF Adding
<1>3. IsFiniteSet(Ids) /\ IsFiniteSet(Sessions) BY ProgressAssumption
<1> QED BY <1>1, <1>2, <1>3, FS_Subset, FS_CardinalityType

(* A step that changes neither whose rows there are nor lets a call begin. *)
LEMMA NothingAdded ==
  ASSUME RowsInv,
         \A c \in Courses, e \in Emps : RowsOf(c, e)' = RowsOf(c, e),
         \A c \in Courses, e \in Emps : Adding(c, e)' \subseteq Adding(c, e)
  PROVE  RowsInv'
<1> SUFFICES ASSUME NEW c \in Courses, NEW e \in Emps
             PROVE  Cardinality(RowsOf(c, e)') + Cardinality(Adding(c, e)')
                      <= Cardinality(Sessions)
  BY DEF RowsInv
<1>1. Cardinality(Adding(c, e)') <= Cardinality(Adding(c, e))
  BY Finite, FS_Subset
<1>2. Cardinality(RowsOf(c, e)) + Cardinality(Adding(c, e)) <= Cardinality(Sessions)
  BY DEF RowsInv
<1>3. Cardinality(Sessions) \in Nat BY ProgressAssumption, FS_CardinalityType
<1> QED BY <1>1, <1>2, <1>3, Finite

(* The transaction turns the claim of its call into a row.                 *)
LEMMA RowAdded ==
  ASSUME TypeOK, RowsInv, NEW s \in Sessions, AssignSave(s),
         NEW c \in Courses, NEW e \in Emps
  PROVE  Cardinality(RowsOf(c, e)') + Cardinality(Adding(c, e)') <= Cardinality(Sessions)
<1>1. PICK id \in Injection(call[s].new, {j \in Ids : row[j] = NoRow}) :
        row' = [j \in Ids |->
                  IF j \in Range(id)
                    THEN NewRow(call[s].course, CHOOSE f \in call[s].new : id[f] = j)
                  ELSE IF row[j].course = call[s].course /\ row[j].emp \in call[s].known
                    THEN NewRow(call[s].course, row[j].emp)
                  ELSE row[j]]
  BY DEF AssignSave
<1>2. /\ At(s, "assign") /\ call' = [call EXCEPT ![s] = Idle]
      /\ call[s] \in Calls /\ call[s].course \in Courses /\ call[s].new \subseteq Emps
  <2>1. At(s, "assign") /\ Return(s) BY DEF AssignSave
  <2> QED BY <2>1 DEF Return, TypeOK, At, Calls
<1>3. Adding(c, e)' = Adding(c, e) \ {s}
  BY <1>2, BlankTypes DEF Adding, At, TypeOK
<1>4. \A j \in Ids : row[j] = NoRow => j \notin RowsOf(c, e)
  BY ProgressAssumption DEF RowsOf, NoRow
<1>5. ASSUME NEW j \in Ids, j \notin Range(id)
      PROVE  j \in RowsOf(c, e)' <=> j \in RowsOf(c, e)
  <2>1. CASE row'[j] = row[j] BY <2>1 DEF RowsOf
  <2>2. CASE row[j] \in Rows /\ row'[j] = NewRow(row[j].course, row[j].emp)
    <3>1. row'[j].course = row[j].course /\ row'[j].emp = row[j].emp
      BY <2>2, BlankTypes DEF Rows
    <3> QED BY <3>1 DEF RowsOf
  <2>3. \A f \in call[s].new : id[f] # j BY <1>5 DEF Range, Injection
  <2> QED BY <1>1, <1>2, <2>1, <2>2, <2>3, AssignedRow
<1>6. ASSUME NEW f \in call[s].new
      PROVE  /\ id[f] \in Ids /\ row[id[f]] = NoRow
             /\ row'[id[f]].course = call[s].course /\ row'[id[f]].emp = f
  <2>1. id[f] \in Ids /\ row[id[f]] = NoRow /\ id[f] \in Range(id)
    BY <1>6 DEF Injection, Range
  <2>2. PICK g \in call[s].new : id[g] = id[f] /\ row'[id[f]] = NewRow(call[s].course, g)
    BY <1>1, <1>2, <2>1, AssignedRow
  <2>3. g = f BY <2>2 DEF Injection, IsInjective
  <2> QED BY <1>2, <2>1, <2>2, <2>3, BlankTypes
<1>7. \A j \in Ids \cap Range(id) : \E f \in call[s].new : j = id[f]
  BY DEF Range, Injection
<1>8. Cardinality(RowsOf(c, e)) + Cardinality(Adding(c, e)) <= Cardinality(Sessions)
  BY DEF RowsInv
<1>9. Cardinality(Sessions) \in Nat BY ProgressAssumption, FS_CardinalityType
<1>10. CASE c = call[s].course /\ e \in call[s].new
  <2>1. RowsOf(c, e)' = RowsOf(c, e) \cup {id[e]}
    <3>1. ASSUME NEW j \in Ids PROVE j \in RowsOf(c, e)' <=> j \in RowsOf(c, e) \/ j = id[e]
      <4>1. CASE j \notin Range(id) BY <1>5, <1>6, <1>10, <4>1 DEF Range, Injection
      <4>2. CASE j \in Range(id)
        <5>1. PICK f \in call[s].new : j = id[f] BY <1>7, <4>2
        <5>2. j \in RowsOf(c, e)' <=> f = e BY <1>6, <1>10, <5>1 DEF RowsOf
        <5>3. j \notin RowsOf(c, e) BY <1>4, <1>6, <5>1
        <5>4. j = id[e] <=> f = e BY <1>6, <1>10, <5>1 DEF Injection, IsInjective
        <5> QED BY <5>2, <5>3, <5>4
      <4> QED BY <4>1, <4>2
    <3>2. RowsOf(c, e)' \subseteq Ids /\ RowsOf(c, e) \subseteq Ids /\ id[e] \in Ids
      BY <1>6, <1>10 DEF RowsOf
    <3> QED BY <3>1, <3>2
  <2>2. s \in Adding(c, e) BY <1>2, <1>10 DEF Adding
  <2>3. Cardinality(RowsOf(c, e)') <= Cardinality(RowsOf(c, e)) + 1
    <3>1. IsFiniteSet(RowsOf(c, e)) /\ Cardinality(RowsOf(c, e)) \in Nat BY Finite
    <3>2. Cardinality(RowsOf(c, e) \cup {id[e]})
            = IF id[e] \in RowsOf(c, e) THEN Cardinality(RowsOf(c, e))
              ELSE Cardinality(RowsOf(c, e)) + 1
      BY <3>1, FS_AddElement
    <3> QED BY <2>1, <3>1, <3>2
  <2>4. Cardinality(Adding(c, e)') = Cardinality(Adding(c, e)) - 1
    BY <1>3, <2>2, Finite, FS_RemoveElement
  <2>5. Cardinality(RowsOf(c, e)') \in Nat
    BY <2>1, Finite, FS_AddElement, FS_CardinalityType
  <2> QED BY <1>8, <1>9, <2>3, <2>4, <2>5, Finite
<1>11. CASE ~(c = call[s].course /\ e \in call[s].new)
  <2>1. RowsOf(c, e)' = RowsOf(c, e)
    <3>1. ASSUME NEW j \in Ids PROVE j \in RowsOf(c, e)' <=> j \in RowsOf(c, e)
      <4>1. CASE j \in Range(id)
        <5>1. PICK f \in call[s].new : j = id[f] BY <1>7, <4>1
        <5>2. j \notin RowsOf(c, e)' BY <1>6, <1>11, <5>1 DEF RowsOf
        <5> QED BY <1>4, <1>6, <5>1, <5>2
      <4> QED BY <1>5, <4>1
    <3>2. RowsOf(c, e)' \subseteq Ids /\ RowsOf(c, e) \subseteq Ids
      BY DEF RowsOf
    <3> QED BY <3>1, <3>2
  <2>2. Cardinality(Adding(c, e)') <= Cardinality(Adding(c, e))
    BY <1>3, Finite, FS_Subset
  <2> QED BY <1>8, <1>9, <2>1, <2>2, Finite
<1> QED BY <1>10, <1>11

LEMMA RowsStep == TypeOK /\ RowsInv /\ [Next]_vars => RowsInv'
<1> SUFFICES ASSUME TypeOK, RowsInv, [Next]_vars PROVE RowsInv' OBVIOUS
<1>1. ASSUME NEW s \in Sessions, NEW k \in Courses, NEW es \in SUBSET Emps,
             NEW reassign \in BOOLEAN, AssignCheck(s, k, es, reassign)
      PROVE  RowsInv'
  <2> DEFINE known == {e \in es : Assigned(k, e)}
             rec == [Idle EXCEPT !.pc = "assign", !.course = k, !.known = known,
                                 !.new = es \ known]
  <2>1. call[s] = Idle /\ call' = [call EXCEPT ![s] = rec] /\ row' = row
    BY <1>1 DEF AssignCheck, Start
  <2>2. rec.pc = "assign" /\ rec.course = k /\ rec.new = es \ known
    <3> HIDE DEF known
    <3>1. known \in SUBSET Emps /\ es \ known \in SUBSET Emps BY DEF known
    <3> QED BY <3>1 DEF Idle, Calls
  <2>3. \A e \in rec.new : RowsOf(k, e) = {} BY <2>2 DEF Assigned
  <2> HIDE DEF rec
  <2>4. SUFFICES ASSUME NEW c \in Courses, NEW e \in Emps
                 PROVE  Cardinality(RowsOf(c, e)') + Cardinality(Adding(c, e)')
                          <= Cardinality(Sessions)
    BY DEF RowsInv
  <2>5. RowsOf(c, e)' = RowsOf(c, e) BY <2>1 DEF RowsOf
  <2>6. Cardinality(Sessions) \in Nat BY ProgressAssumption, FS_CardinalityType
  <2>7. CASE c = k /\ e \in rec.new
    <3>1. Cardinality(RowsOf(c, e)) = 0 BY <2>3, <2>7, FS_EmptySet
    <3> QED BY <2>5, <2>6, <3>1, Finite
  <2>8. CASE ~(c = k /\ e \in rec.new)
    <3>1. Adding(c, e)' = Adding(c, e)
      BY <2>1, <2>2, <2>8, BlankTypes DEF Adding, At, TypeOK
    <3> QED BY <2>5, <3>1 DEF RowsInv
  <2> QED BY <2>7, <2>8
<1>2. ASSUME NEW s \in Sessions, NEW i \in Ids, NEW status \in Statuses \cup {Null},
             NEW dated \in BOOLEAN, UpdateCheck(s, i, status, dated)
      PROVE  RowsInv'
  <2> DEFINE rec == [Idle EXCEPT !.pc = "update", !.id = i, !.status = status, !.dated = dated]
  <2>1. call' = [call EXCEPT ![s] = rec] /\ row' = row
    BY <1>2 DEF UpdateCheck, Start
  <2>2. rec.pc = "update" BY DEF Idle
  <2> HIDE DEF rec
  <2>3. \A c, e : Adding(c, e)' \subseteq Adding(c, e) BY <2>1, <2>2 DEF Adding, At, TypeOK
  <2>4. \A c, e : RowsOf(c, e)' = RowsOf(c, e) BY <2>1 DEF RowsOf
  <2> QED BY <2>3, <2>4, NothingAdded
<1>3. ASSUME NEW s \in Sessions, AssignSave(s) PROVE RowsInv'
  BY <1>3, RowAdded DEF RowsInv
<1>4. ASSUME NEW s \in Sessions, UpdateSave(s) PROVE RowsInv'
  <2>1. call' = [call EXCEPT ![s] = Idle] BY <1>4 DEF UpdateSave, Return
  <2>2. \A c, e : Adding(c, e)' \subseteq Adding(c, e)
    BY <2>1, BlankTypes DEF Adding, At, TypeOK
  <2>3. \A c, e : RowsOf(c, e)' = RowsOf(c, e) BY <1>4, UpdatedRow DEF RowsOf
  <2> QED BY <2>2, <2>3, NothingAdded
<1>5. ASSUME NEW s \in Sessions, CallFails(s) PROVE RowsInv'
  <2>1. call' = [call EXCEPT ![s] = Idle] /\ row' = row BY <1>5 DEF CallFails, Return
  <2>2. \A c, e : Adding(c, e)' \subseteq Adding(c, e)
    BY <2>1, BlankTypes DEF Adding, At, TypeOK
  <2>3. \A c, e : RowsOf(c, e)' = RowsOf(c, e) BY <2>1 DEF RowsOf
  <2> QED BY <2>2, <2>3, NothingAdded
<1>6. ASSUME row' = row, call' = call PROVE RowsInv'
  BY <1>6 DEF RowsInv, RowsOf, Adding, At
<1>7. \A e \in Emps : DeleteEmployee(e) => row' = row /\ call' = call BY DEF DeleteEmployee
<1> QED BY <1>1, <1>2, <1>3, <1>4, <1>5, <1>6, <1>7 DEF Next, vars

LEMMA RowsInit == Init => RowsInv
<1> SUFFICES ASSUME Init, NEW c \in Courses, NEW e \in Emps
             PROVE  Cardinality(RowsOf(c, e)) + Cardinality(Adding(c, e)) <= Cardinality(Sessions)
  BY DEF RowsInv
<1>1. RowsOf(c, e) = {} BY ProgressAssumption DEF Init, RowsOf, NoRow
<1>2. Adding(c, e) = {} BY DEF Init, Adding, At, Idle
<1>3. Cardinality(Sessions) \in Nat BY ProgressAssumption, FS_CardinalityType
<1> QED BY <1>1, <1>2, <1>3, FS_EmptySet

(* However many assignments there are, an employee gets at most one row of *)
(* a course for each call that can overlap with another.                   *)
THEOREM RowsAreBounded == Spec => []OneRowPerOverlap
<1>1. RowsInv => OneRowPerOverlap
  <2> SUFFICES ASSUME RowsInv, NEW c \in Courses, NEW e \in Emps
               PROVE  Cardinality(RowsOf(c, e)) <= Cardinality(Sessions)
    BY DEF OneRowPerOverlap
  <2>1. Cardinality(RowsOf(c, e)) + Cardinality(Adding(c, e)) <= Cardinality(Sessions)
    BY DEF RowsInv
  <2>2. Cardinality(Sessions) \in Nat BY ProgressAssumption, FS_CardinalityType
  <2> QED BY <2>1, <2>2, Finite
<1> QED BY <1>1, RowsInit, RowsStep, TypeCorrect, PTL DEF Spec
=============================================================================
