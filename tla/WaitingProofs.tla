---------------------------- MODULE WaitingProofs ----------------------------
(***************************************************************************)
(* Proofs about locking, for any number of requests, contracts, events,    *)
(* people and overlapping calls: types, and that transactions which lock   *)
(* in the common order never wait for each other in a circle.              *)
(*                                                                         *)
(* The order is a rank: subrequests, contracts and users before main       *)
(* requests and employees.  An ordered transaction that waits for a row    *)
(* holds only rows of a lower rank, so that along a circle the ranks of    *)
(* the rows waited for would grow for ever; there are two.                 *)
(***************************************************************************)
EXTENDS Waiting, SequenceTheorems, TLAPS

Steps == {st \in [kind : {"lock", "some", "query"}, rows : SUBSET Rows] :
            st.kind = "query" => st.rows = {}}

LEMMA StepTypes ==
  /\ \A rows \in SUBSET Rows : /\ Lock(rows) \in Steps /\ Lock(rows).rows = rows
                               /\ Some(rows) \in Steps /\ Some(rows).rows = rows
  /\ Query \in Steps /\ Query.rows = {}
BY DEF Lock, Some, Query, Steps

(* The rows of a request, of an event and of a person are rows.            *)
LEMMA RowTypes ==
  /\ \A m \in Requests : /\ Mains(m) \subseteq Rows /\ SubsOf(m) \subseteq Rows
                         /\ Contract(m) \subseteq Rows
                         /\ \A c \in Subs[m] : {Row("sub", c)} \subseteq Rows
  /\ \A x \in Events : {Row("event", x)} \subseteq Rows /\ RosterOf(x) \subseteq Rows
  /\ \A k \in People : {Row("user", k)} \subseteq Rows /\ {Row("employee", k)} \subseteq Rows
<1> DEFINE OfRequests == UNION {Mains(m) \cup SubsOf(m) \cup Contract(m) : m \in Requests}
           OfEvents == UNION {{Row("event", x)} \cup RosterOf(x) : x \in Events}
           OfPeople == {Row(t, k) : t \in {"user", "employee"}, k \in People}
<1>1. Rows = OfRequests \cup OfEvents \cup OfPeople BY DEF Rows
<1>2. ASSUME NEW m \in Requests
      PROVE  /\ Mains(m) \subseteq Rows /\ SubsOf(m) \subseteq Rows /\ Contract(m) \subseteq Rows
             /\ \A c \in Subs[m] : {Row("sub", c)} \subseteq Rows
  <2>1. Mains(m) \cup SubsOf(m) \cup Contract(m) \subseteq OfRequests BY Zenon
  <2>2. \A c \in Subs[m] : Row("sub", c) \in SubsOf(m) BY DEF SubsOf
  <2> HIDE DEF OfRequests, OfEvents, OfPeople
  <2> QED BY <1>1, <2>1, <2>2
<1>3. ASSUME NEW x \in Events
      PROVE  {Row("event", x)} \subseteq Rows /\ RosterOf(x) \subseteq Rows
  <2>1. {Row("event", x)} \cup RosterOf(x) \subseteq OfEvents BY Zenon
  <2> HIDE DEF OfRequests, OfEvents, OfPeople
  <2> QED BY <1>1, <2>1
<1>4. ASSUME NEW k \in People
      PROVE  {Row("user", k)} \subseteq Rows /\ {Row("employee", k)} \subseteq Rows
  <2>1. Row("user", k) \in OfPeople /\ Row("employee", k) \in OfPeople OBVIOUS
  <2> HIDE DEF OfRequests, OfEvents, OfPeople
  <2> QED BY <1>1, <2>1
<1> HIDE DEF OfRequests, OfEvents, OfPeople
<1> QED BY <1>2, <1>3, <1>4

LEMMA Concatenated ==
  ASSUME NEW S, NEW a \in S, NEW b \in S, NEW c \in S, NEW d \in S
  PROVE  /\ <<a, b>> \o <<c>> = <<a, b, c>>
         /\ <<a, b>> \o <<c, d>> = <<a, b, c, d>>
<1>1. <<a, b>> \o <<c>> = <<a, b, c>>
  <2> DEFINE p == <<a, b>>  q == <<c>>  w == <<a, b, c>>
  <2>1. /\ p \in Seq(S) /\ q \in Seq(S) /\ w \in Seq(S) /\ Len(p) = 2 /\ Len(q) = 1 /\ Len(w) = 3
        /\ w[1] = p[1] /\ w[2] = p[2] /\ w[3] = q[1]
    OBVIOUS
  <2> HIDE DEF p, q, w
  <2>0. /\ p \o q \in Seq(S) /\ Len(p \o q) = Len(p) + Len(q)
        /\ \A i \in 1 .. Len(p) + Len(q) :
              (p \o q)[i] = IF i <= Len(p) THEN p[i] ELSE q[i - Len(p)]
    BY <2>1, ConcatProperties, Zenon
  <2>2. p \o q \in Seq(S) /\ Len(p \o q) = 3
    BY <2>0, <2>1
  <2>3. (p \o q)[1] = p[1] /\ (p \o q)[2] = p[2] /\ (p \o q)[3] = q[1]
    BY <2>0, <2>1
  <2>4. \A i \in 1 .. Len(p \o q) : (p \o q)[i] = w[i]
    BY <2>1, <2>2, <2>3
  <2>5. p \o q = w BY <2>1, <2>2, <2>4, SeqEqual
  <2> QED BY <2>5 DEF p, q, w
<1>2. <<a, b>> \o <<c, d>> = <<a, b, c, d>>
  <2> DEFINE p == <<a, b>>  q == <<c, d>>  w == <<a, b, c, d>>
  <2>1. /\ p \in Seq(S) /\ q \in Seq(S) /\ w \in Seq(S) /\ Len(p) = 2 /\ Len(q) = 2 /\ Len(w) = 4
        /\ w[1] = p[1] /\ w[2] = p[2] /\ w[3] = q[1] /\ w[4] = q[2]
    OBVIOUS
  <2> HIDE DEF p, q, w
  <2>0. /\ p \o q \in Seq(S) /\ Len(p \o q) = Len(p) + Len(q)
        /\ \A i \in 1 .. Len(p) + Len(q) :
              (p \o q)[i] = IF i <= Len(p) THEN p[i] ELSE q[i - Len(p)]
    BY <2>1, ConcatProperties, Zenon
  <2>2. p \o q \in Seq(S) /\ Len(p \o q) = 4
    BY <2>0, <2>1
  <2>3. /\ (p \o q)[1] = p[1] /\ (p \o q)[2] = p[2]
        /\ (p \o q)[3] = q[1] /\ (p \o q)[4] = q[2]
    BY <2>0, <2>1
  <2>4. \A i \in 1 .. Len(p \o q) : (p \o q)[i] = w[i]
    BY <2>1, <2>2, <2>3
  <2>5. p \o q = w BY <2>1, <2>2, <2>4, SeqEqual
  <2> QED BY <2>5 DEF p, q, w
<1> QED BY <1>1, <1>2

LEMMA TupleTypes ==
  ASSUME NEW a \in Steps, NEW b \in Steps, NEW c \in Steps, NEW d \in Steps
  PROVE  /\ <<a>> \in Seq(Steps) /\ Len(<<a>>) = 1
         /\ <<a, b>> \in Seq(Steps) /\ Len(<<a, b>>) = 2
         /\ <<a, b, c>> \in Seq(Steps) /\ Len(<<a, b, c>>) = 3
         /\ <<a, b, c, d>> \in Seq(Steps) /\ Len(<<a, b, c, d>>) = 4
OBVIOUS

Programs == {p \in Seq(Steps) : Len(p) > 0}

(* The handlers of a request as one list of steps each.                    *)
LEMMA RequestPrograms ==
  ASSUME NEW m \in Requests
  PROVE  /\ SubmitRequest(m) = <<Query, Some(Contract(m)), Lock(Mains(m))>>
         /\ FinalizeAdminRequest(m) = <<Query, Some(Contract(m)), Query, Lock(Mains(m))>>
         /\ CancelAdminRequest(m) = <<Lock(Mains(m)), Some(SubsOf(m)), Query, Some(Contract(m))>>
<1> DEFINE l == Lock(Mains(m))  o == Some(Contract(m))  n == Some(SubsOf(m))
<1>1. l \in Steps /\ o \in Steps /\ n \in Steps /\ Query \in Steps BY RowTypes, StepTypes
<1>2. /\ SubmitRequest(m) = <<Query, o>> \o <<l>>
      /\ FinalizeAdminRequest(m) = <<Query, o>> \o <<Query, l>>
      /\ CancelAdminRequest(m) = <<l, n>> \o <<Query, o>>
  BY DEF SubmitRequest, FinalizeAdminRequest, CancelAdminRequest, ReserveBudget, RefundBudget,
         FinalizeReserved
<1> HIDE DEF l, o, n
<1>3. /\ <<Query, o>> \o <<l>> = <<Query, o, l>>
      /\ <<Query, o>> \o <<Query, l>> = <<Query, o, Query, l>>
      /\ <<l, n>> \o <<Query, o>> = <<l, n, Query, o>>
  <2>1. <<Query, o>> \o <<l>> = <<Query, o, l>> BY <1>1, Concatenated, Zenon
  <2>2. <<Query, o>> \o <<Query, l>> = <<Query, o, Query, l>> BY <1>1, Concatenated, Zenon
  <2>3. <<l, n>> \o <<Query, o>> = <<l, n, Query, o>> BY <1>1, Concatenated, Zenon
  <2> QED BY <2>1, <2>2, <2>3
<1>4. /\ SubmitRequest(m) = <<Query, o, l>> /\ FinalizeAdminRequest(m) = <<Query, o, Query, l>>
      /\ CancelAdminRequest(m) = <<l, n, Query, o>>
  BY <1>2, <1>3, Zenon
<1> QED BY <1>4, Zenon DEF l, o, n

LEMMA ProgramTypes == Ordered \cup Unordered \subseteq Programs
<1>1. ASSUME NEW m \in Requests
      PROVE  /\ SubmitRequest(m) \in Programs /\ PrepareAdminRequest(m) \in Programs
             /\ FinalizeReserved(m) \in Programs /\ FinalizeAdminRequest(m) \in Programs
             /\ CancelAdminRequest(m) \in Programs
  <2>1. {Lock(Mains(m)), Some(SubsOf(m)), Query, Some(Contract(m))} \subseteq Steps
    BY RowTypes, StepTypes
  <2>2. PrepareAdminRequest(m) \in Programs /\ FinalizeReserved(m) \in Programs
    BY <2>1, TupleTypes DEF PrepareAdminRequest, FinalizeReserved, Programs
  <2>3. \A a, b, c, d \in Steps : <<a, b, c>> \in Programs /\ <<a, b, c, d>> \in Programs
    BY TupleTypes DEF Programs
  <2>4. /\ SubmitRequest(m) \in Programs /\ FinalizeAdminRequest(m) \in Programs
        /\ CancelAdminRequest(m) \in Programs
    BY <2>1, <2>3, RequestPrograms, Zenon
  <2> QED BY <2>2, <2>4
<1>2. ASSUME NEW m \in Requests, NEW c \in Subs[m] PROVE FinalizeHRRequest(m, c) \in Programs
  <2>1. Lock({Row("sub", c)}) \in Steps /\ Lock(Mains(m)) \in Steps BY RowTypes, StepTypes
  <2> QED BY <2>1, TupleTypes DEF FinalizeHRRequest, Programs
<1>3. ASSUME NEW x \in Events
      PROVE  BulkUpdateAttendance(x) \in Programs /\ UpdateEvent(x) \in Programs
  <2>1. {Some(RosterOf(x)), Lock({Row("event", x)}), Lock(RosterOf(x))} \subseteq Steps
    BY RowTypes, StepTypes
  <2> QED BY <2>1, TupleTypes DEF BulkUpdateAttendance, UpdateEvent, Programs
<1>4. ASSUME NEW k \in People PROVE PatchEmployee(k) \in Programs /\ DeleteEmployee(k) \in Programs
  <2>1. {Query, Some({Row("user", k)}), Lock({Row("user", k)}), Lock({Row("employee", k)})}
          \subseteq Steps
    BY RowTypes, StepTypes
  <2> QED BY <2>1, TupleTypes DEF PatchEmployee, DeleteEmployee, Programs
<1>5. ASSUME NEW p \in Ordered PROVE p \in Programs
  <2>1. \/ \E m \in Requests : p = SubmitRequest(m)
        \/ \E m \in Requests : p = PrepareAdminRequest(m)
        \/ \E m \in Requests : p = FinalizeReserved(m)
        \/ \E m \in Requests : p = FinalizeAdminRequest(m)
        \/ \E m \in Requests : \E c \in Subs[m] : p = FinalizeHRRequest(m, c)
        \/ \E k \in People : p = PatchEmployee(k)
        \/ \E k \in People : p = DeleteEmployee(k)
    BY Zenon DEF Ordered
  <2> QED BY <2>1, <1>1, <1>2, <1>4, Zenon
<1>6. ASSUME NEW p \in Unordered PROVE p \in Programs
  <2>1. \/ \E m \in Requests : p = CancelAdminRequest(m)
        \/ \E x \in Events : p = BulkUpdateAttendance(x)
        \/ \E x \in Events : p = UpdateEvent(x)
    BY Zenon DEF Unordered
  <2> QED BY <2>1, <1>1, <1>3, Zenon
<1> QED BY <1>5, <1>6
-----------------------------------------------------------------------------
(* The order of the handlers in Ordered.                                   *)
Rank(row) == IF row.table \in {"sub", "contract", "user"} THEN 1 ELSE 2

Ascending(p) ==
  \A i, j \in 1 .. Len(p) : \A q \in p[j].rows, r \in p[i].rows :
    IF i = j THEN q = r ELSE j < i => Rank(q) < Rank(r)

LEMMA Ranks ==
  /\ \A m \in Requests : /\ \A r \in Mains(m) : r = Row("main", m) /\ Rank(r) = 2
                         /\ \A r \in Contract(m) : r = Row("contract", ContractOf[m]) /\ Rank(r) = 1
  /\ \A c : Rank(Row("sub", c)) = 1
  /\ \A k : Rank(Row("user", k)) = 1 /\ Rank(Row("employee", k)) = 2
BY DEF Mains, Contract, Rank, Row

LEMMA OrderedAscends == \A p \in Ordered : Ascending(p)
<1>1. ASSUME NEW m \in Requests
      PROVE  /\ Ascending(SubmitRequest(m)) /\ Ascending(PrepareAdminRequest(m))
             /\ Ascending(FinalizeReserved(m)) /\ Ascending(FinalizeAdminRequest(m))
  <2> DEFINE l == Lock(Mains(m))  o == Some(Contract(m))
  <2>1. /\ l \in Steps /\ l.rows = Mains(m) /\ o \in Steps /\ o.rows = Contract(m)
        /\ Query \in Steps /\ Query.rows = {}
    BY RowTypes, StepTypes
  <2>2. /\ \A r \in l.rows : Rank(r) = 2 /\ \A q \in l.rows : q = r
        /\ \A r \in o.rows : Rank(r) = 1 /\ \A q \in o.rows : q = r
    BY <2>1, Ranks
  <2>3. /\ SubmitRequest(m) = <<Query, o, l>> /\ PrepareAdminRequest(m) = <<l, Query>>
        /\ FinalizeReserved(m) = <<Query, l>> /\ FinalizeAdminRequest(m) = <<Query, o, Query, l>>
    BY RequestPrograms DEF PrepareAdminRequest, FinalizeReserved
  <2> HIDE DEF l, o
  <2>4. Ascending(<<Query, o, l>>)
    <3> DEFINE p == <<Query, o, l>>
    <3>1. /\ Len(p) = 3 /\ p[1].rows = {} /\ p[2].rows = o.rows /\ p[3].rows = l.rows BY <2>1
    <3> HIDE DEF p
    <3>2. Ascending(p) BY <3>1, <2>2 DEF Ascending
    <3> QED BY <3>2 DEF p
  <2>5. Ascending(<<Query, o, Query, l>>)
    <3> DEFINE p == <<Query, o, Query, l>>
    <3>1. /\ Len(p) = 4 /\ p[1].rows = {} /\ p[2].rows = o.rows /\ p[3].rows = {}
          /\ p[4].rows = l.rows
      BY <2>1
    <3> HIDE DEF p
    <3>2. Ascending(p) BY <3>1, <2>2 DEF Ascending
    <3> QED BY <3>2 DEF p
  <2>6. Ascending(<<l, Query>>) /\ Ascending(<<Query, l>>)
    BY <2>1, <2>2 DEF Ascending
  <2> QED BY <2>3, <2>4, <2>5, <2>6
<1>2. ASSUME NEW m \in Requests, NEW c \in Subs[m] PROVE Ascending(FinalizeHRRequest(m, c))
  <2> DEFINE l == Lock(Mains(m))  o == Lock({Row("sub", c)})
  <2>1. l.rows = Mains(m) /\ o.rows = {Row("sub", c)} BY RowTypes, StepTypes
  <2>2. /\ \A r \in l.rows : Rank(r) = 2 /\ \A q \in l.rows : q = r
        /\ \A r \in o.rows : Rank(r) = 1 /\ \A q \in o.rows : q = r
    BY <2>1, Ranks
  <2>3. FinalizeHRRequest(m, c) = <<o, l>> BY DEF FinalizeHRRequest
  <2> HIDE DEF l, o
  <2> QED BY <2>2, <2>3 DEF Ascending
<1>3. ASSUME NEW k \in People PROVE Ascending(PatchEmployee(k)) /\ Ascending(DeleteEmployee(k))
  <2> DEFINE l == Lock({Row("employee", k)})  o == Lock({Row("user", k)})
             n == Some({Row("user", k)})
  <2>1. /\ l.rows = {Row("employee", k)} /\ o.rows = {Row("user", k)} /\ n.rows = {Row("user", k)}
        /\ Query.rows = {}
    BY RowTypes, StepTypes
  <2>2. /\ \A r \in l.rows : Rank(r) = 2 /\ \A q \in l.rows : q = r
        /\ \A r \in o.rows : Rank(r) = 1 /\ \A q \in o.rows : q = r
        /\ \A r \in n.rows : Rank(r) = 1 /\ \A q \in n.rows : q = r
    BY <2>1, Ranks
  <2>3. PatchEmployee(k) = <<Query, n, l>> /\ DeleteEmployee(k) = <<o, l>>
    BY DEF PatchEmployee, DeleteEmployee
  <2> HIDE DEF l, o, n
  <2>4. Ascending(<<Query, n, l>>)
    <3> DEFINE p == <<Query, n, l>>
    <3>1. /\ Len(p) = 3 /\ p[1].rows = {} /\ p[2].rows = n.rows /\ p[3].rows = l.rows BY <2>1
    <3> HIDE DEF p
    <3>2. Ascending(p) BY <3>1, <2>2 DEF Ascending
    <3> QED BY <3>2 DEF p
  <2>5. Ascending(<<o, l>>) BY <2>2 DEF Ascending
  <2> QED BY <2>3, <2>4, <2>5
<1>4. ASSUME NEW p \in Ordered PROVE Ascending(p)
  <2>1. \/ \E m \in Requests : p = SubmitRequest(m)
        \/ \E m \in Requests : p = PrepareAdminRequest(m)
        \/ \E m \in Requests : p = FinalizeReserved(m)
        \/ \E m \in Requests : p = FinalizeAdminRequest(m)
        \/ \E m \in Requests : \E c \in Subs[m] : p = FinalizeHRRequest(m, c)
        \/ \E k \in People : p = PatchEmployee(k)
        \/ \E k \in People : p = DeleteEmployee(k)
    BY Zenon DEF Ordered
  <2> QED BY <2>1, <1>1, <1>2, <1>3, Zenon
<1> QED BY <1>4
-----------------------------------------------------------------------------
(* What a session holds and waits for is what its statements so far name.  *)
Runs == [prog : Ordered \cup Unordered \cup {<< >>}, at : Nat,
         held : SUBSET Rows, want : Rows \cup {Null}]

Named(r) ==
  /\ \A q \in r.held : \E j \in 1 .. r.at : q \in r.prog[j].rows
  /\ r.want # Null => r.want \in r.prog[r.at].rows \ r.held

RunOK(r) == IF r.at > 0 THEN r.at <= Len(r.prog) /\ Named(r) ELSE r = Idle

IInv == run \in [Sessions -> Runs] /\ \A s \in Sessions : RunOK(run[s])

LEMMA IdleOK == Idle \in Runs /\ RunOK(Idle)
BY DEF Idle, Runs, RunOK

LEMMA ProgramSteps ==
  ASSUME NEW r \in Runs, r.at > 0, r.at <= Len(r.prog)
  PROVE  /\ r.prog \in Ordered \cup Unordered /\ r.prog \in Programs
         /\ \A j \in 1 .. Len(r.prog) : r.prog[j] \in Steps
<1>1. r.at \in Nat /\ r.prog \in Ordered \cup Unordered \cup {<< >>} BY DEF Runs
<1>2. r.prog # << >> BY <1>1
<1>3. r.prog \in Ordered \cup Unordered BY <1>1, <1>2
<1>4. r.prog \in Programs BY <1>3, ProgramTypes
<1>5. r.prog \in Seq(Steps) BY <1>4 DEF Programs
<1> QED BY <1>3, <1>4, <1>5

LEMMA Updated ==
  ASSUME IInv, NEW s \in Sessions, NEW rec, rec \in Runs, RunOK(rec), To(s, rec)
  PROVE  IInv'
<1>1. run' = [run EXCEPT ![s] = rec] BY DEF To
<1>2. run' \in [Sessions -> Runs] BY <1>1 DEF IInv
<1>3. ASSUME NEW q \in Sessions PROVE RunOK(run'[q])
  <2>1. CASE q = s
    <3>1. run'[q] = rec BY <1>1, <2>1 DEF IInv
    <3> QED BY <3>1, Zenon
  <2>2. CASE q # s
    <3>1. run'[q] = run[q] BY <1>1, <2>2 DEF IInv
    <3>2. RunOK(run[q]) BY Zenon DEF IInv
    <3> QED BY <3>1, <3>2, Zenon
  <2> QED BY <2>1, <2>2
<1> QED BY <1>2, <1>3, Zenon DEF IInv, RunOK, Named, Idle

LEMMA BeginOK == ASSUME IInv, NEW s \in Sessions, Begin(s) PROVE IInv'
<1>1. PICK p \in Ordered \cup Unordered : To(s, [Idle EXCEPT !.prog = p, !.at = 1])
  BY DEF Begin
<1> DEFINE rec == [Idle EXCEPT !.prog = p, !.at = 1]
<1>2. rec \in Runs /\ rec.at = 1 /\ rec.prog = p /\ rec.held = {} /\ rec.want = Null
  BY DEF Idle, Runs
<1>3. p \in Programs BY ProgramTypes
<1>4. Len(p) \in Nat /\ Len(p) > 0 BY <1>3 DEF Programs
<1>5. To(s, rec) BY <1>1
<1> HIDE DEF rec
<1>6. RunOK(rec) BY <1>2, <1>4 DEF RunOK, Named
<1> QED BY <1>2, <1>5, <1>6, Updated

(* A row added to those held, or to be waited for, is one the step names.  *)
LEMMA HoldOK ==
  ASSUME NEW r \in Runs, RunOK(r), r.at > 0, NEW q \in r.prog[r.at].rows, NEW rec, rec \in Runs,
         rec.prog = r.prog, rec.at = r.at,
         \/ rec.held = r.held \cup {q} /\ rec.want = Null
         \/ rec.held = r.held /\ rec.want = q /\ q \notin r.held
  PROVE  RunOK(rec)
<1>1. r.at \in Nat /\ r.at <= Len(r.prog) /\ Named(r) BY DEF RunOK, Runs
<1>2. r.at \in 1 .. r.at BY <1>1
<1>3. \A x \in rec.held : \E j \in 1 .. rec.at : x \in rec.prog[j].rows
  BY <1>1, <1>2 DEF Named
<1>4. rec.want # Null => rec.want \in rec.prog[rec.at].rows \ rec.held
  OBVIOUS
<1> QED BY <1>1, <1>3, <1>4 DEF RunOK, Named

LEMMA TakeOrWaitOK ==
  ASSUME IInv, NEW s \in Sessions, NEW q \in Ahead(s), Take(s, q) \/ Wait(s, q)
  PROVE  IInv'
<1> DEFINE r == run[s]
           took == [r EXCEPT !.held = @ \cup {q}]
           waits == [r EXCEPT !.want = q]
<1>1. r \in Runs /\ RunOK(r) BY DEF IInv
<1>2. r.at > 0 /\ r.want = Null /\ q \in r.prog[r.at].rows /\ q \notin r.held
  BY DEF Ahead, Doing, Running, Step
<1>3. q \in Rows
  <2>1. r.at <= Len(r.prog) /\ r.at \in Nat BY <1>1, <1>2 DEF RunOK, Runs
  <2>2. r.prog[r.at] \in Steps BY <1>1, <1>2, <2>1, ProgramSteps
  <2> QED BY <1>2, <2>2 DEF Steps
<1>4. /\ took \in Runs /\ took.prog = r.prog /\ took.at = r.at /\ took.held = r.held \cup {q}
      /\ took.want = r.want
      /\ waits \in Runs /\ waits.prog = r.prog /\ waits.at = r.at /\ waits.held = r.held
      /\ waits.want = q
  BY <1>1, <1>3 DEF Runs
<1>5. To(s, took) \/ To(s, waits) BY DEF Take, Wait
<1> HIDE DEF r, took, waits
<1>6. RunOK(took) BY <1>1, <1>2, <1>4, HoldOK
<1>7. RunOK(waits) BY <1>1, <1>2, <1>4, HoldOK
<1>8. CASE To(s, took) BY <1>4, <1>6, <1>8, Updated
<1>9. CASE To(s, waits) BY <1>4, <1>7, <1>9, Updated
<1> QED BY <1>5, <1>8, <1>9

LEMMA GrantOK == ASSUME IInv, NEW s \in Sessions, Grant(s) PROVE IInv'
<1> DEFINE r == run[s]
           rec == [r EXCEPT !.held = @ \cup {r.want}, !.want = Null]
<1>1. r \in Runs /\ RunOK(r) /\ r.want # Null BY DEF IInv, Grant
<1>2. r.at > 0 BY <1>1 DEF RunOK, Idle
<1>3. r.want \in r.prog[r.at].rows /\ r.want \in Rows BY <1>1, <1>2 DEF RunOK, Named, Runs
<1>4. /\ rec \in Runs /\ rec.prog = r.prog /\ rec.at = r.at /\ rec.held = r.held \cup {r.want}
      /\ rec.want = Null
  BY <1>1, <1>3 DEF Runs
<1>5. To(s, rec) BY DEF Grant
<1> HIDE DEF r, rec
<1>6. RunOK(rec) BY <1>1, <1>2, <1>3, <1>4, HoldOK
<1> QED BY <1>4, <1>5, <1>6, Updated

(* The next step of the same transaction, or none.                         *)
LEMMA StepDoneOK ==
  ASSUME IInv, NEW s \in Sessions, Running(s), run[s].want = Null
  PROVE  StepDone(s) \in Runs /\ RunOK(StepDone(s))
<1> DEFINE r == run[s]
           rec == [r EXCEPT !.at = @ + 1]
<1>1. r \in Runs /\ RunOK(r) /\ r.at > 0 BY DEF IInv, Running
<1>2. r.at \in Nat /\ r.at <= Len(r.prog) /\ Named(r) BY <1>1 DEF RunOK, Runs
<1>3. /\ rec \in Runs /\ rec.prog = r.prog /\ rec.at = r.at + 1 /\ rec.held = r.held
      /\ rec.want = r.want
  BY <1>1 DEF Runs
<1>4. StepDone(s) = IF r.at = Len(r.prog) THEN Idle ELSE rec BY DEF StepDone
<1>5. r.want = Null OBVIOUS
<1>6. Len(r.prog) \in Nat
  <2>1. r.prog \in Programs BY <1>1, <1>2, ProgramSteps
  <2> QED BY <2>1 DEF Programs
<1> HIDE DEF r, rec
<1>7. ASSUME r.at # Len(r.prog) PROVE RunOK(rec)
  <2>1. rec.at <= Len(rec.prog) /\ rec.at > 0 BY <1>2, <1>3, <1>6, <1>7
  <2>2. \A q \in rec.held : \E j \in 1 .. rec.at : q \in rec.prog[j].rows
    <3>1. \A j \in 1 .. r.at : j \in 1 .. rec.at BY <1>2, <1>3
    <3> QED BY <3>1, <1>2, <1>3, Zenon DEF Named
  <2> QED BY <2>1, <2>2, <1>3, <1>5 DEF RunOK, Named
<1>8. CASE r.at = Len(r.prog) BY <1>4, <1>8, IdleOK
<1>9. CASE r.at # Len(r.prog) BY <1>3, <1>4, <1>7, <1>9
<1> QED BY <1>8, <1>9

LEMMA StatementDoneOK == ASSUME IInv, NEW s \in Sessions, StatementDone(s) PROVE IInv'
<1>1. Running(s) /\ run[s].want = Null /\ To(s, StepDone(s)) BY DEF StatementDone, Doing
<1>2. StepDone(s) \in Runs /\ RunOK(StepDone(s)) BY <1>1, StepDoneOK
<1> QED BY <1>1, <1>2, Updated

(* A query waits for no row: it names none.                                *)
LEMMA NestedQueryOK == ASSUME IInv, NEW s \in Sessions, NestedQuery(s) PROVE IInv'
<1>1. /\ Running(s) /\ run[s].prog[run[s].at].kind \in {"query"} /\ To(s, StepDone(s))
  BY DEF NestedQuery, Doing
<1>2. run[s] \in Runs /\ RunOK(run[s]) /\ run[s].at > 0 BY <1>1 DEF IInv, Running
<1>3. run[s].at \in Nat /\ run[s].at <= Len(run[s].prog) /\ Named(run[s]) BY <1>2 DEF RunOK, Runs
<1>4. run[s].prog[run[s].at] \in Steps BY <1>2, <1>3, ProgramSteps
<1>5. run[s].prog[run[s].at].rows = {} BY <1>1, <1>4 DEF Steps
<1>6. run[s].want = Null BY <1>3, <1>5 DEF Named
<1>7. StepDone(s) \in Runs /\ RunOK(StepDone(s)) BY <1>1, <1>6, StepDoneOK
<1> QED BY <1>1, <1>7, Updated

LEMMA EndOK == ASSUME IInv, NEW s \in Sessions, To(s, Idle) PROVE IInv'
BY IdleOK, Updated

LEMMA InitOK == Init => IInv
<1> SUFFICES ASSUME Init PROVE IInv OBVIOUS
<1>1. run = [s \in Sessions |-> Idle] BY DEF Init
<1> QED BY <1>1, IdleOK, Zenon DEF IInv

LEMMA StepOK == IInv /\ [Next]_run => IInv'
<1> SUFFICES ASSUME IInv, [Next]_run PROVE IInv' OBVIOUS
<1>1. ASSUME NEW s \in Sessions, Begin(s) PROVE IInv' BY <1>1, BeginOK
<1>2. ASSUME NEW s \in Sessions, NEW r \in Ahead(s), Take(s, r) \/ Wait(s, r) PROVE IInv'
  BY <1>2, TakeOrWaitOK
<1>3. ASSUME NEW s \in Sessions, Grant(s) PROVE IInv' BY <1>3, GrantOK
<1>4. ASSUME NEW s \in Sessions, StatementDone(s) PROVE IInv' BY <1>4, StatementDoneOK
<1>5. ASSUME NEW s \in Sessions, NestedQuery(s) PROVE IInv' BY <1>5, NestedQueryOK
<1>6. ASSUME NEW s \in Sessions, AbortVictim(s) \/ Rollback(s) PROVE IInv'
  BY <1>6, EndOK DEF AbortVictim, Rollback
<1>7. CASE UNCHANGED run BY <1>7, Zenon DEF IInv, RunOK, Named, Idle
<1>8. CASE Next BY <1>8, <1>1, <1>2, <1>3, <1>4, <1>5, <1>6, Zenon DEF Next, Advance
<1> QED BY <1>7, <1>8
-----------------------------------------------------------------------------
LEMMA InvHolds == Spec => []IInv
BY InitOK, StepOK, PTL DEF Spec

(* The runs of the transactions stay well formed: a session without one    *)
(* holds nothing, the others are at one of their steps.                    *)
THEOREM TypeCorrect == Spec => []TypeOK
<1>1. IInv => TypeOK BY DEF IInv, TypeOK, RunOK, Runs, Running
<1> QED BY <1>1, InvHolds, PTL

(* An ordered transaction waits for a row of a higher rank than it holds.  *)
LEMMA WaitsUpward ==
  ASSUME IInv, NEW s \in Waiters, run[s].prog \in Ordered
  PROVE  /\ Rank(run[s].want) \in 1 .. 2
         /\ \A q \in run[s].held : Rank(q) < Rank(run[s].want)
<1> DEFINE r == run[s]
<1>1. r \in Runs /\ RunOK(r) /\ r.want # Null BY DEF IInv, Waiters
<1>2. r.at > 0 BY <1>1 DEF RunOK, Idle
<1>3. r.at \in Nat /\ r.at <= Len(r.prog) /\ Named(r) BY <1>1, <1>2 DEF RunOK, Runs
<1>4. r.prog \in Seq(Steps) BY <1>1, <1>2, <1>3, ProgramSteps DEF Programs
<1>5. Ascending(r.prog) BY OrderedAscends
<1>6. Rank(r.want) \in 1 .. 2 BY DEF Rank
<1> HIDE DEF r
<1>7. ASSUME NEW q \in r.held PROVE Rank(q) < Rank(r.want)
  <2>1. PICK j \in 1 .. r.at : q \in r.prog[j].rows BY <1>3 DEF Named
  <2>2. r.want \in r.prog[r.at].rows /\ r.want # q BY <1>1, <1>3 DEF Named
  <2>3. j \in 1 .. Len(r.prog) /\ r.at \in 1 .. Len(r.prog) BY <1>2, <1>3, <1>4
  <2>4. IF r.at = j THEN q = r.want ELSE j < r.at => Rank(q) < Rank(r.want)
    BY <1>5, <2>1, <2>2, <2>3 DEF Ascending
  <2> QED BY <2>1, <2>2, <2>4, <1>3
<1> QED BY <1>6, <1>7 DEF r

(* The handlers of requests (but the cancellation) and of employees never  *)
(* deadlock among themselves, whatever is called at once: a circle of      *)
(* transactions that wait for each other has another handler in it.        *)
THEOREM OrderedNeverDeadlock == Spec => []DeadlockNeedsUnordered
<1>1. ASSUME IInv, NEW S \in SUBSET Waiters, Cycle(S),
             \A s \in S : run[s].prog \notin Unordered
      PROVE  FALSE
  <2>1. ASSUME NEW s \in S PROVE run[s].prog \in Ordered
    <3>1. s \in Sessions /\ run[s].want # Null BY DEF Waiters
    <3>2. run[s] \in Runs /\ RunOK(run[s]) BY <1>1, <3>1 DEF IInv
    <3>3. run[s].at > 0 BY <3>1, <3>2 DEF RunOK, Idle
    <3>4. run[s].at <= Len(run[s].prog) BY <3>2, <3>3 DEF RunOK
    <3>5. run[s].prog \in Ordered \cup Unordered BY <3>2, <3>3, <3>4, ProgramSteps
    <3> QED BY <1>1, <3>5
  <2>2. ASSUME NEW s \in S
        PROVE  \E t \in S : Rank(run[s].want) < Rank(run[t].want)
    <3>1. PICK t \in Holders(run[s].want) : t \in S
      BY <1>1 DEF Cycle, WaitsFor
    <3>2. run[s].want \in run[t].held BY DEF Holders
    <3>3. t \in Waiters /\ run[t].prog \in Ordered BY <3>1, <2>1
    <3> QED BY <1>1, <3>1, <3>2, <3>3, WaitsUpward
  <2>3. \A s \in S : Rank(run[s].want) \in 1 .. 2 BY <1>1, <2>1, WaitsUpward
  <2>4. PICK a \in S : TRUE BY <1>1 DEF Cycle
  <2>5. PICK b \in S : Rank(run[a].want) < Rank(run[b].want) BY <2>2
  <2>6. PICK c \in S : Rank(run[b].want) < Rank(run[c].want) BY <2>2
  <2> QED BY <2>3, <2>5, <2>6
<1>2. IInv => DeadlockNeedsUnordered BY <1>1, Zenon DEF DeadlockNeedsUnordered
<1> QED BY <1>2, InvHolds, PTL
=============================================================================
