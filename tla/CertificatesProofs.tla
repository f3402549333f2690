------------------------- MODULE CertificatesProofs -------------------------
(***************************************************************************)
(* Proofs about certificates, for any number of them, of HRs, of jobs that *)
(* overlap and of concurrent calls: types, that a SENT row stands for a    *)
(* mail, that of the mails whose row was kept there is at most one for     *)
(* each job that may overlap, and that a linked file was stored.           *)
(***************************************************************************)
EXTENDS Certificates, FiniteSetTheorems, TLAPS

LEMMA BlankTypes ==
  /\ IdleJob \in JobRows /\ IdleJob.pc = "idle"
  /\ Idle \in Calls /\ Idle.pc = "idle"
  /\ NoCert \in CertRows /\ ~NoCert.filed
BY CertificatesAssumption DEF IdleJob, JobRows, Idle, Calls, NoCert, CertRows, CertPcs, Phases

(* One call goes on; nothing but the tables it writes changes.             *)
LEMMA CallTypes ==
  ASSUME TypeOK, NEW s \in Sessions, NEW rec \in Calls,
         rec.pc \in CertPcs => rec.cert \in Certs,
         rec.pc = "review.save" => rec.renewal \in Renewals /\ rec.status # Null,
         call' = [call EXCEPT ![s] = rec],
         cert' \in [Certs -> CertRows], stored' \subseteq Certs,
         renewal' \in [Renewals -> RenewalRows],
         UNCHANGED <<note, job, crashes, history>>
  PROVE  TypeOK'
<1>1. call' \in [Sessions -> Calls] BY DEF TypeOK
<1>2. ASSUME NEW t \in Sessions
      PROVE  /\ call'[t].pc \in CertPcs => call'[t].cert \in Certs
             /\ call'[t].pc = "review.save" => call'[t].renewal \in Renewals
                                               /\ call'[t].status # Null
  BY DEF TypeOK
<1> QED BY <1>1, <1>2 DEF TypeOK, history

(* One job goes on.                                                        *)
LEMMA JobTypes ==
  ASSUME TypeOK, NEW k \in Jobs, NEW rec \in JobRows, Job(k, rec),
         rec.pc \in {"send", "save"} => rec.cert \in Certs,
         UNCHANGED <<rows, call>>, crashes' \in 0..MaxCrashes,
         note' \in [Certs -> {"NONE", "SENT", "FAILED"}],
         told' \in [Hrs -> SUBSET Certs], mailed' \subseteq Certs, recorded' \in [Certs -> Nat]
  PROVE  TypeOK'
<1>1. job' \in [Jobs -> JobRows] BY DEF TypeOK, Job
<1>2. ASSUME NEW j \in Jobs
      PROVE  job'[j].pc \in {"send", "save"} => job'[j].cert \in Certs
  BY DEF TypeOK, Job
<1> QED BY <1>1, <1>2 DEF TypeOK, rows

LEMMA OnlyJobTypes ==
  ASSUME TypeOK, NEW k \in Jobs, NEW rec \in JobRows, Job(k, rec), OnlyJob,
         rec.pc \in {"send", "save"} => rec.cert \in Certs
  PROVE  TypeOK'
BY JobTypes DEF OnlyJob, history, TypeOK

(* What a statement of a call does to the tables.                          *)
LEMMA CallStep ==
  ASSUME TypeOK, NEW s \in Sessions, CertCall(s) \/ RenewalCall(s) \/ CallFails(s)
  PROVE  TypeOK'
<1> USE DEF CertPcs
<1>1. ASSUME NEW c \in Certs, NEW phase \in (Phases \ {"NONE"}) \cup {Null},
             UpdateCheck(s, c, phase)
      PROVE  TypeOK'
  <2> DEFINE rec == [Idle EXCEPT !.pc = "update.save", !.cert = c, !.expiry = phase]
  <2>1. rec \in Calls /\ rec.pc = "update.save" /\ rec.cert = c BY DEF Idle, Calls
  <2>2. call' = [call EXCEPT ![s] = rec] /\ UNCHANGED <<rows, note, job, crashes, history>>
    BY <1>1 DEF UpdateCheck, Start
  <2> HIDE DEF rec
  <2> QED BY <2>1, <2>2, CallTypes DEF rows, TypeOK
<1>2. ASSUME NEW c \in Certs, NEW pc \in CertPcs,
             call' = [call EXCEPT ![s] = [Idle EXCEPT !.pc = pc, !.cert = c]],
             UNCHANGED <<rows, note, job, crashes, history>>
      PROVE  TypeOK'
  <2> DEFINE rec == [Idle EXCEPT !.pc = pc, !.cert = c]
  <2>1. rec \in Calls /\ rec.pc = pc /\ rec.cert = c BY DEF Idle, Calls
  <2> HIDE DEF rec
  <2>2. call' = [call EXCEPT ![s] = rec] BY <1>2 DEF rec
  <2> QED BY <1>2, <2>1, <2>2, CallTypes DEF rows, TypeOK
<1>3. ASSUME NEW c \in Certs, DeleteCheck(s, c) PROVE TypeOK'
  BY <1>2, <1>3 DEF DeleteCheck, Start
<1>4. ASSUME NEW c \in Certs, UploadCheck(s, c) PROVE TypeOK'
  BY <1>2, <1>4 DEF UploadCheck, Start
<1>5. ASSUME NEW h \in Hrs, NEW c \in Certs, RenewCheck(s, h, c) PROVE TypeOK'
  BY <1>2, <1>5 DEF RenewCheck, Start
<1>6. ASSUME NEW r \in Renewals, NEW status \in {"APPROVED", "REJECTED"},
             ReviewCheck(s, r, status)
      PROVE  TypeOK'
  <2> DEFINE rec == [Idle EXCEPT !.pc = "review.save", !.renewal = r, !.status = status]
  <2>1. rec \in Calls /\ rec.pc = "review.save" /\ rec.renewal = r /\ rec.status = status
    BY DEF Idle, Calls
  <2>2. call' = [call EXCEPT ![s] = rec] /\ UNCHANGED <<rows, note, job, crashes, history>>
    BY <1>6 DEF ReviewCheck, Start
  <2> HIDE DEF rec
  <2> QED BY CertificatesAssumption, <2>1, <2>2, CallTypes DEF rows, TypeOK
<1>7. ASSUME Return(s), UNCHANGED <<note, job, crashes, history>>,
             cert' \in [Certs -> CertRows], stored' \subseteq Certs,
             renewal' \in [Renewals -> RenewalRows]
      PROVE  TypeOK'
  BY <1>7, BlankTypes, CallTypes DEF Return
<1>8. CASE UpdateSave(s) \/ DeleteSave(s) \/ UploadLink(s)
  <2>1. /\ Return(s) /\ UNCHANGED <<note, job, crashes, history>>
        /\ UNCHANGED <<stored, renewal>> /\ call[s].cert \in Certs /\ call[s] \in Calls
    BY <1>8 DEF UpdateSave, DeleteSave, UploadLink, Finish, At, TypeOK
  <2>2. cert[call[s].cert] \in CertRows BY <2>1 DEF TypeOK
  <2>3. cert' \in [Certs -> CertRows]
    <3>1. CASE UpdateSave(s)
      <4> DEFINE phase == IF call[s].expiry = Null THEN cert[call[s].cert].expiry ELSE call[s].expiry
      <4>1. phase \in Phases BY <2>1, <2>2 DEF Calls, CertRows
      <4>2. cert' = [cert EXCEPT ![call[s].cert].expiry = phase]
        BY <3>1 DEF UpdateSave
      <4> HIDE DEF phase
      <4> QED BY <2>1, <4>1, <4>2 DEF TypeOK, CertRows
    <3>2. CASE DeleteSave(s) BY <2>1, <3>2 DEF DeleteSave, TypeOK, CertRows
    <3>3. CASE UploadLink(s) BY <2>1, <3>3 DEF UploadLink, TypeOK, CertRows
    <3> QED BY <1>8, <3>1, <3>2, <3>3
  <2> QED BY <1>7, <2>1, <2>3 DEF TypeOK
<1>9. CASE UploadWrite(s)
  <2>1. call[s] \in Calls /\ call[s].cert \in Certs BY <1>9 DEF UploadWrite, At, TypeOK
  <2>2. stored' \subseteq Certs /\ UNCHANGED <<cert, renewal, note, job, crashes, history>>
    BY <1>9, <2>1 DEF UploadWrite, TypeOK
  <2>3. CASE Return(s) BY <1>7, <2>2, <2>3 DEF TypeOK
  <2>4. CASE call' = [call EXCEPT ![s].pc = "upload.link"]
    <3> DEFINE rec == [call[s] EXCEPT !.pc = "upload.link"]
    <3>1. rec \in Calls /\ rec.pc = "upload.link" /\ rec.cert \in Certs BY <2>1 DEF Calls
    <3>2. call' = [call EXCEPT ![s] = rec] BY <2>4
    <3> HIDE DEF rec
    <3> QED BY <2>2, <3>1, <3>2, CallTypes DEF TypeOK
  <2> QED BY <1>9, <2>3, <2>4 DEF UploadWrite
<1>10. ASSUME NEW r \in Renewals, RenewInsert(s, r) PROVE TypeOK'
  <2>1. call[s] \in Calls /\ call[s].cert \in Certs BY <1>10 DEF RenewInsert, At, TypeOK
  <2>2. renewal' \in [Renewals -> RenewalRows]
    BY <1>10, <2>1 DEF RenewInsert, TypeOK, RenewalRows
  <2> QED BY <1>7, <1>10, <2>2 DEF RenewInsert, Finish, TypeOK
<1>11. CASE ReviewSave(s)
  <2>1. /\ call[s] \in Calls /\ call[s].renewal \in Renewals
        /\ call[s].status \in {"APPROVED", "REJECTED"}
    BY <1>11 DEF ReviewSave, At, TypeOK, Calls
  <2>2. renewal' \in [Renewals -> RenewalRows]
    BY <1>11, <2>1 DEF ReviewSave, TypeOK, RenewalRows
  <2> QED BY <1>7, <1>11, <2>2 DEF ReviewSave, Finish, TypeOK
<1>12. CASE CallFails(s)
  BY <1>7, <1>12 DEF CallFails, rows, TypeOK
<1> QED
  BY <1>1, <1>3, <1>4, <1>5, <1>6, <1>8, <1>9, <1>10, <1>11, <1>12 DEF CertCall, RenewalCall

(* A step of the weekly job.                                               *)
LEMMA JobRecords ==
  ASSUME TypeOK, NEW k \in Jobs
  PROVE  /\ \A h \in Hrs : NextHr(k, h) \in JobRows /\ NextHr(k, h).pc = job[k].pc
         /\ \A h \in Hrs : AfterFailure(k, h) \in JobRows /\ AfterFailure(k, h).pc = job[k].pc
         /\ \A c \in Certs : NextOwner(k, c) \in JobRows /\ NextOwner(k, c).pc = "owners"
         /\ \A c \in Certs : LET rec == [job[k] EXCEPT !.pc = "send", !.cert = c]
                             IN  rec \in JobRows /\ rec.pc = "send" /\ rec.cert = c
         /\ LET rec == [job[k] EXCEPT !.pc = "save"]
            IN  rec \in JobRows /\ rec.pc = "save" /\ rec.cert = job[k].cert
<1>1. job[k] \in JobRows BY DEF TypeOK
<1>2. MaxAttempts \in Nat \ {0} /\ 0 \in 0..MaxAttempts - 1 BY CertificatesAssumption
<1>3. ASSUME NEW h \in Hrs
      PROVE  NextHr(k, h) \in JobRows /\ NextHr(k, h).pc = job[k].pc
  BY <1>1, <1>2 DEF NextHr, JobRows
<1>4. ASSUME NEW h \in Hrs
      PROVE  AfterFailure(k, h) \in JobRows /\ AfterFailure(k, h).pc = job[k].pc
  <2>1. CASE job[k].tries + 1 < MaxAttempts
    <3>1. job[k].tries + 1 \in 0..MaxAttempts - 1 BY <1>1, <1>2, <2>1 DEF JobRows
    <3> QED BY <1>1, <2>1, <3>1 DEF AfterFailure, JobRows
  <2> QED BY <1>3, <2>1 DEF AfterFailure
<1>5. ASSUME NEW c \in Certs
      PROVE  /\ NextOwner(k, c) \in JobRows /\ NextOwner(k, c).pc = "owners"
             /\ LET rec == [job[k] EXCEPT !.pc = "send", !.cert = c]
                IN  rec \in JobRows /\ rec.pc = "send" /\ rec.cert = c
  BY <1>1 DEF NextOwner, JobRows
<1>6. LET rec == [job[k] EXCEPT !.pc = "save"]
      IN  rec \in JobRows /\ rec.pc = "save" /\ rec.cert = job[k].cert
  BY <1>1 DEF JobRows
<1> QED BY <1>3, <1>4, <1>5, <1>6

LEMMA JobStepTypes ==
  ASSUME TypeOK, NEW k \in Jobs, JobStep(k) \/ JobCrash(k)
  PROVE  TypeOK'
<1>0. job[k] \in JobRows BY DEF TypeOK
<1>1. CASE JobStart(k)
  <2> DEFINE batch == {c \in Certs : Expiring(c)}
             hrs == {h \in Hrs : \E c \in batch : DzoOfCert(c) = HrDzo[h]}
             rec == [IdleJob EXCEPT !.pc = "hrs", !.batch = batch, !.hrs = hrs]
  <2>1. batch \subseteq Certs /\ hrs \subseteq Hrs OBVIOUS
  <2>2. Job(k, rec) /\ OnlyJob BY <1>1 DEF JobStart
  <2> HIDE DEF batch, hrs
  <2>3. rec \in JobRows /\ rec.pc = "hrs"
    BY <2>1, BlankTypes DEF JobRows
  <2> HIDE DEF rec
  <2> QED BY <2>2, <2>3, OnlyJobTypes
<1>2. CASE MapRead(k)
  <2> DEFINE left == {c \in job[k].batch : EmpOf[c] \in Linked}
             rec == [job[k] EXCEPT !.pc = "owners", !.left = left]
  <2>1. left \subseteq Certs BY <1>0 DEF JobRows
  <2>2. Job(k, rec) /\ OnlyJob BY <1>2 DEF MapRead
  <2> HIDE DEF left
  <2>3. rec \in JobRows /\ rec.pc = "owners" BY <1>0, <2>1 DEF JobRows
  <2> HIDE DEF rec
  <2> QED BY <2>2, <2>3, OnlyJobTypes
<1>3. CASE MapFails(k) \/ JobEnd(k)
  BY <1>3, BlankTypes, OnlyJobTypes DEF MapFails, JobEnd
<1>4. ASSUME NEW h \in Hrs, HrMailed(k, h) PROVE TypeOK'
  <2>1. GroupOf(k, h) \subseteq Certs BY <1>0 DEF GroupOf, JobRows
  <2>2. told' \in [Hrs -> SUBSET Certs] BY <1>4, <2>1 DEF HrMailed, TypeOK
  <2>3. NextHr(k, h) \in JobRows /\ NextHr(k, h).pc = "hrs"
    BY <1>4, JobRecords DEF HrMailed, Turn, JobAt
  <2> QED BY <1>4, <2>2, <2>3, JobTypes DEF HrMailed, TypeOK
<1>5. ASSUME NEW h \in Hrs, HrMailFails(k, h) PROVE TypeOK'
  <2>1. AfterFailure(k, h) \in JobRows /\ AfterFailure(k, h).pc = "hrs"
    BY <1>5, JobRecords DEF HrMailFails, Turn, JobAt
  <2> QED BY <1>5, <2>1, OnlyJobTypes DEF HrMailFails
<1>6. ASSUME NEW d \in Dzos, DzoSkipped(k, d) PROVE TypeOK'
  <2> DEFINE hrs == {h \in Hrs : HrDzo[h] = d}
             rec == [job[k] EXCEPT !.hrs = @ \ hrs]
  <2>1. Job(k, rec) /\ OnlyJob /\ job[k].pc = "hrs" BY <1>6 DEF DzoSkipped, JobAt
  <2> HIDE DEF hrs
  <2>2. rec \in JobRows /\ rec.pc = "hrs" BY <1>0, <2>1 DEF JobRows
  <2> HIDE DEF rec
  <2> QED BY <2>1, <2>2, OnlyJobTypes
<1>7. ASSUME NEW c \in Certs, NotifyCheck(k, c) PROVE TypeOK'
  <2>1. CASE NotificationExists(c)
    BY <1>7, <2>1, JobRecords, OnlyJobTypes DEF NotifyCheck
  <2>2. CASE ~NotificationExists(c)
    <3> DEFINE rec == [job[k] EXCEPT !.pc = "send", !.cert = c]
    <3>1. rec \in JobRows /\ rec.pc = "send" /\ rec.cert = c BY <1>0 DEF JobRows
    <3>2. Job(k, rec) /\ OnlyJob BY <1>7, <2>2 DEF NotifyCheck
    <3> HIDE DEF rec
    <3> QED BY <3>1, <3>2, OnlyJobTypes
  <2> QED BY <2>1, <2>2
<1>8. ASSUME NEW c \in Certs, NotifyCheckFails(k, c) \/ NotifySaveFails(k, c) PROVE TypeOK'
  BY <1>8, JobRecords, OnlyJobTypes DEF NotifyCheckFails, NotifySaveFails
<1>9. ASSUME NEW c \in Certs, NotifySend(k, c) PROVE TypeOK'
  <2> DEFINE rec == [job[k] EXCEPT !.pc = "save"]
  <2>1. rec \in JobRows /\ rec.pc = "save" /\ rec.cert \in Certs
    BY <1>0, <1>9 DEF JobRows, NotifySend
  <2>2. Job(k, rec) BY <1>9 DEF NotifySend
  <2> HIDE DEF rec
  <2>3. /\ UNCHANGED <<rows, call>> /\ crashes' = crashes /\ note' = note /\ told' = told
        /\ recorded' = recorded /\ mailed' = mailed \cup {c}
    BY <1>9 DEF NotifySend
  <2> QED BY <2>1, <2>2, <2>3, JobTypes DEF TypeOK
<1>10. ASSUME NEW c \in Certs
       PROVE  /\ Inserted(c, "SENT") \in [Certs -> {"NONE", "SENT", "FAILED"}]
              /\ Inserted(c, "FAILED") \in [Certs -> {"NONE", "SENT", "FAILED"}]
  BY DEF TypeOK, Inserted
<1>11. ASSUME NEW c \in Certs, NotifySendFails(k, c) PROVE TypeOK'
  <2>1. note' \in [Certs -> {"NONE", "SENT", "FAILED"}]
    BY <1>10, <1>11 DEF NotifySendFails, TypeOK
  <2>2. /\ UNCHANGED <<rows, call>> /\ crashes' = crashes /\ told' = told
        /\ recorded' = recorded /\ mailed' = mailed /\ Job(k, NextOwner(k, c))
    BY <1>11 DEF NotifySendFails, history
  <2> QED BY <2>1, <2>2, JobRecords, JobTypes DEF TypeOK
<1>12. ASSUME NEW c \in Certs, NotifySave(k, c) PROVE TypeOK'
  <2>1. recorded' \in [Certs -> Nat] BY <1>12 DEF NotifySave, TypeOK
  <2>2. /\ UNCHANGED <<rows, call>> /\ crashes' = crashes /\ told' = told
        /\ mailed' = mailed /\ Job(k, NextOwner(k, c)) /\ note' = Inserted(c, "SENT")
    BY <1>12 DEF NotifySave
  <2> QED BY <1>10, <2>1, <2>2, JobRecords, JobTypes DEF TypeOK
<1>13. CASE JobCrash(k)
  <2>1. /\ UNCHANGED <<rows, call>> /\ crashes' \in 0..MaxCrashes /\ note' = note
        /\ told' = told /\ recorded' = recorded /\ mailed' = mailed /\ Job(k, IdleJob)
    BY <1>13, CertificatesAssumption DEF JobCrash, history, TypeOK
  <2> QED BY <2>1, BlankTypes, JobTypes DEF TypeOK
<1> QED
  BY <1>1, <1>2, <1>3, <1>4, <1>5, <1>6, <1>7, <1>8, <1>9, <1>11, <1>12, <1>13 DEF JobStep

LEMMA TypeStep == TypeOK /\ [Next]_vars => TypeOK'
<1> SUFFICES ASSUME TypeOK, [Next]_vars PROVE TypeOK' OBVIOUS
<1>1. ASSUME NEW c \in Certs, NEW phase \in Phases, Create(c, phase) PROVE TypeOK'
  <2>1. cert' \in [Certs -> CertRows] BY <1>1 DEF Create, TypeOK, CertRows
  <2> QED BY <1>1, <2>1 DEF Create, TypeOK, history
<1>2. ASSUME NEW c \in Certs, Time(c) PROVE TypeOK'
  <2>1. cert' \in [Certs -> CertRows]
    <3>1. ASSUME NEW phase \in Phases, cert' = [cert EXCEPT ![c].expiry = phase]
          PROVE  cert' \in [Certs -> CertRows]
      BY <3>1 DEF TypeOK, CertRows
    <3>2. "SOON" \in Phases /\ "PAST" \in Phases BY DEF Phases
    <3> QED BY <1>2, <3>1, <3>2 DEF Time
  <2> QED BY <1>2, <2>1 DEF Time, TypeOK, history
<1>3. CASE UNCHANGED vars BY <1>3 DEF vars, rows, history, TypeOK
<1> QED BY <1>1, <1>2, <1>3, CallStep, JobStepTypes DEF Next

LEMMA TypeInit == Init => TypeOK
BY BlankTypes, CertificatesAssumption DEF Init, TypeOK, RenewalRows, CertPcs

(* Rows, jobs and calls keep their types whatever overlaps or fails.       *)
THEOREM TypeCorrect == Spec => []TypeOK
<1> QED BY TypeInit, TypeStep, PTL DEF Spec
-----------------------------------------------------------------------------
(* What a step of a job does to mails and their rows: nothing, or one of    *)
(* the three steps that announce a certificate to its owner.               *)
Elsewhere(k) ==
  /\ \E rec \in JobRows : Job(k, rec) /\ rec.pc \notin {"send", "save"}
  /\ UNCHANGED <<mailed, recorded>>
  /\ \A c \in Certs : note'[c] = "SENT" <=> note[c] = "SENT"

LEMMA JobShape ==
  ASSUME TypeOK, NEW k \in Jobs, JobStep(k) \/ JobCrash(k)
  PROVE  \/ Elsewhere(k)
         \/ \E c \in Certs : \/ NotifyCheck(k, c) /\ ~NotificationExists(c)
                             \/ NotifySend(k, c)
                             \/ NotifySave(k, c)
<1>0. job[k] \in JobRows BY DEF TypeOK
<1>1. ASSUME NEW rec \in JobRows, Job(k, rec), OnlyJob, rec.pc \notin {"send", "save"}
      PROVE  Elsewhere(k)
  BY <1>1 DEF OnlyJob, history, Elsewhere
<1>2. CASE JobStart(k)
  <2> DEFINE batch == {c \in Certs : Expiring(c)}
             hrs == {h \in Hrs : \E c \in batch : DzoOfCert(c) = HrDzo[h]}
             rec == [IdleJob EXCEPT !.pc = "hrs", !.batch = batch, !.hrs = hrs]
  <2>1. batch \subseteq Certs /\ hrs \subseteq Hrs OBVIOUS
  <2>2. Job(k, rec) /\ OnlyJob BY <1>2 DEF JobStart
  <2> HIDE DEF batch, hrs
  <2>3. rec \in JobRows /\ rec.pc = "hrs" BY <2>1, BlankTypes DEF JobRows
  <2> HIDE DEF rec
  <2> QED BY <1>1, <2>2, <2>3
<1>3. CASE MapRead(k)
  <2> DEFINE left == {c \in job[k].batch : EmpOf[c] \in Linked}
             rec == [job[k] EXCEPT !.pc = "owners", !.left = left]
  <2>1. left \subseteq Certs BY <1>0 DEF JobRows
  <2>2. Job(k, rec) /\ OnlyJob BY <1>3 DEF MapRead
  <2> HIDE DEF left
  <2>3. rec \in JobRows /\ rec.pc = "owners" BY <1>0, <2>1 DEF JobRows
  <2> HIDE DEF rec
  <2> QED BY <1>1, <2>2, <2>3
<1>4. CASE MapFails(k) \/ JobEnd(k)
  BY <1>1, <1>4, BlankTypes DEF MapFails, JobEnd
<1>5. CASE JobCrash(k)
  BY <1>5, BlankTypes DEF JobCrash, history, Elsewhere
<1>6. ASSUME NEW h \in Hrs, HrMailed(k, h) \/ HrMailFails(k, h) PROVE Elsewhere(k)
  <2>1. job[k].pc = "hrs" BY <1>6 DEF HrMailed, HrMailFails, Turn, JobAt
  <2>2. /\ NextHr(k, h) \in JobRows /\ NextHr(k, h).pc = "hrs"
        /\ AfterFailure(k, h) \in JobRows /\ AfterFailure(k, h).pc = "hrs"
    BY <2>1, JobRecords
  <2>3. CASE HrMailed(k, h) BY <2>2, <2>3 DEF HrMailed, Elsewhere
  <2>4. CASE HrMailFails(k, h) BY <1>1, <2>2, <2>4 DEF HrMailFails
  <2> QED BY <1>6, <2>3, <2>4
<1>7. ASSUME NEW d \in Dzos, DzoSkipped(k, d) PROVE Elsewhere(k)
  <2> DEFINE hrs == {h \in Hrs : HrDzo[h] = d}
             rec == [job[k] EXCEPT !.hrs = @ \ hrs]
  <2>1. Job(k, rec) /\ OnlyJob /\ job[k].pc = "hrs" BY <1>7 DEF DzoSkipped, JobAt
  <2> HIDE DEF hrs
  <2>2. rec \in JobRows /\ rec.pc = "hrs" BY <1>0, <2>1 DEF JobRows
  <2> HIDE DEF rec
  <2> QED BY <1>1, <2>1, <2>2
<1>8. ASSUME NEW c \in Certs, NotifyCheck(k, c), NotificationExists(c) PROVE Elsewhere(k)
  BY <1>1, <1>8, JobRecords DEF NotifyCheck
<1>9. ASSUME NEW c \in Certs, NotifyCheckFails(k, c) \/ NotifySaveFails(k, c)
      PROVE  Elsewhere(k)
  BY <1>1, <1>9, JobRecords DEF NotifyCheckFails, NotifySaveFails
<1>10. ASSUME NEW c \in Certs, NotifySendFails(k, c) PROVE Elsewhere(k)
  <2>1. \A d \in Certs : note'[d] = "SENT" <=> note[d] = "SENT"
    BY <1>10 DEF NotifySendFails, Inserted, TypeOK
  <2> QED BY <1>10, <2>1, JobRecords DEF NotifySendFails, history, Elsewhere
<1> QED
  BY <1>2, <1>3, <1>4, <1>5, <1>6, <1>7, <1>8, <1>9, <1>10 DEF JobStep

(* No other step touches them.                                             *)
LEMMA OtherSteps ==
  [Next]_vars => \/ \E k \in Jobs : JobStep(k) \/ JobCrash(k)
                 \/ note' = note /\ job' = job /\ mailed' = mailed /\ recorded' = recorded
BY DEF Next, vars, history, Create, Time, CertCall, RenewalCall, CallFails, UpdateCheck,
       DeleteCheck, UploadCheck, UpdateSave, DeleteSave, UploadWrite, UploadLink, RenewCheck,
       RenewInsert, ReviewCheck, ReviewSave, Start, Finish

(* What the three steps do to the job that takes them.                     *)
LEMMA Announcing ==
  ASSUME TypeOK, NEW k \in Jobs, NEW c \in Certs
  PROVE  /\ NotifyCheck(k, c) /\ ~NotificationExists(c) =>
              /\ job' = [job EXCEPT ![k] = job'[k]] /\ job[k].pc = "owners"
              /\ job'[k].pc = "send" /\ job'[k].cert = c
              /\ note' = note /\ mailed' = mailed /\ recorded' = recorded
         /\ NotifySend(k, c) =>
              /\ job' = [job EXCEPT ![k] = job'[k]] /\ job[k].pc = "send" /\ job[k].cert = c
              /\ job'[k].pc = "save" /\ job'[k].cert = c
         /\ NotifySave(k, c) =>
              /\ job' = [job EXCEPT ![k] = job'[k]] /\ job[k].pc = "save" /\ job[k].cert = c
              /\ job'[k].pc = "owners"
<1>0. job[k] \in JobRows BY DEF TypeOK
<1>1. ASSUME NEW rec, Job(k, rec)
      PROVE  job' = [job EXCEPT ![k] = job'[k]] /\ job'[k] = rec
  BY <1>1 DEF Job, TypeOK
<1>2. ASSUME NotifyCheck(k, c), ~NotificationExists(c)
      PROVE  /\ job' = [job EXCEPT ![k] = job'[k]] /\ job[k].pc = "owners"
             /\ job'[k].pc = "send" /\ job'[k].cert = c
             /\ note' = note /\ mailed' = mailed /\ recorded' = recorded
  <2> DEFINE rec == [job[k] EXCEPT !.pc = "send", !.cert = c]
  <2>1. Job(k, rec) BY <1>2 DEF NotifyCheck
  <2>2. rec.pc = "send" /\ rec.cert = c BY <1>0 DEF JobRows
  <2> HIDE DEF rec
  <2> QED BY <1>1, <1>2, <2>1, <2>2 DEF NotifyCheck, OnlyJob, history, JobAt
<1>3. ASSUME NotifySend(k, c)
      PROVE  /\ job' = [job EXCEPT ![k] = job'[k]] /\ job[k].pc = "send" /\ job[k].cert = c
             /\ job'[k].pc = "save" /\ job'[k].cert = c
  <2> DEFINE rec == [job[k] EXCEPT !.pc = "save"]
  <2>1. Job(k, rec) /\ job[k].pc = "send" /\ job[k].cert = c BY <1>3 DEF NotifySend, JobAt
  <2>2. rec.pc = "save" /\ rec.cert = c BY <1>0, <2>1 DEF JobRows
  <2> HIDE DEF rec
  <2> QED BY <1>1, <2>1, <2>2
<1>4. ASSUME NotifySave(k, c)
      PROVE  /\ job' = [job EXCEPT ![k] = job'[k]] /\ job[k].pc = "save" /\ job[k].cert = c
             /\ job'[k].pc = "owners"
  <2>1. Job(k, NextOwner(k, c)) /\ job[k].pc = "save" /\ job[k].cert = c
    BY <1>4 DEF NotifySave, JobAt
  <2>2. NextOwner(k, c).pc = "owners" BY JobRecords
  <2> QED BY <1>1, <2>1, <2>2
<1> QED BY <1>2, <1>3, <1>4
-----------------------------------------------------------------------------
(* Where a job that has sent a mail stands before it saves the row.        *)
SentInv == /\ SentMeansMailed
           /\ \A k \in Jobs : job[k].pc = "save" => job[k].cert \in mailed

LEMMA SentStep == TypeOK /\ SentInv /\ [Next]_vars => SentInv'
<1> SUFFICES ASSUME TypeOK, SentInv, [Next]_vars PROVE SentInv' OBVIOUS
<1> USE DEF SentInv, SentMeansMailed
<1>1. ASSUME NEW k \in Jobs, Elsewhere(k) PROVE SentInv'
  BY <1>1 DEF Elsewhere, Job, TypeOK
<1>2. ASSUME NEW k \in Jobs, NEW c \in Certs, NotifyCheck(k, c), ~NotificationExists(c)
      PROVE  SentInv'
  BY <1>2, Announcing DEF TypeOK
<1>3. ASSUME NEW k \in Jobs, NEW c \in Certs, NotifySend(k, c) PROVE SentInv'
  <2>1. note' = note /\ mailed' = mailed \cup {c} BY <1>3 DEF NotifySend
  <2> QED BY <1>3, <2>1, Announcing DEF TypeOK
<1>4. ASSUME NEW k \in Jobs, NEW c \in Certs, NotifySave(k, c) PROVE SentInv'
  <2>1. mailed' = mailed /\ \A d \in Certs : note'[d] = "SENT" => note[d] = "SENT" \/ d = c
    BY <1>4 DEF NotifySave, Inserted, TypeOK
  <2> QED BY <1>4, <2>1, Announcing DEF TypeOK
<1>5. CASE note' = note /\ job' = job /\ mailed' = mailed
  BY <1>5
<1> QED BY <1>1, <1>2, <1>3, <1>4, <1>5, JobShape, OtherSteps

(* A SENT row is never older than its mail, whatever call of whatever job  *)
(* failed and wherever one was killed.                                     *)
THEOREM SentIsMailed == Spec => []SentMeansMailed
<1>1. Init => SentInv BY DEF Init, SentInv, SentMeansMailed, IdleJob
<1>2. SentInv => SentMeansMailed BY DEF SentInv
<1> QED BY <1>1, <1>2, SentStep, TypeCorrect, PTL DEF Spec
-----------------------------------------------------------------------------
(* Jobs that found no SENT row for c and may yet write one.                *)
Announcers(c) == {k \in Jobs : job[k].pc \in {"send", "save"} /\ job[k].cert = c}

RecordInv ==
  \A c \in Certs : /\ note[c] # "SENT" => recorded[c] = 0
                   /\ recorded[c] + Cardinality(Announcers(c)) <= Cardinality(Jobs)

LEMMA Finite ==
  ASSUME NEW c
  PROVE  /\ IsFiniteSet(Announcers(c)) /\ Cardinality(Announcers(c)) \in Nat
         /\ IsFiniteSet(Announcers(c)') /\ Cardinality(Announcers(c)') \in Nat
         /\ Cardinality(Announcers(c)') <= Cardinality(Jobs)
         /\ Cardinality(Jobs) \in Nat
<1>1. Announcers(c) \in SUBSET Jobs /\ Announcers(c)' \in SUBSET Jobs BY DEF Announcers
<1>2. IsFiniteSet(Jobs) BY CertificatesAssumption
<1> QED BY <1>1, <1>2, FS_Subset, FS_CardinalityType

LEMMA RecordStep == TypeOK /\ RecordInv /\ [Next]_vars => RecordInv'
<1> SUFFICES ASSUME TypeOK, RecordInv, [Next]_vars, NEW d \in Certs
             PROVE  /\ note'[d] # "SENT" => recorded'[d] = 0
                    /\ recorded'[d] + Cardinality(Announcers(d)') <= Cardinality(Jobs)
  BY DEF RecordInv
<1> DEFINE Goal == /\ note'[d] # "SENT" => recorded'[d] = 0
                   /\ recorded'[d] + Cardinality(Announcers(d)') <= Cardinality(Jobs)
<1>0. /\ note[d] # "SENT" => recorded[d] = 0
      /\ recorded[d] + Cardinality(Announcers(d)) <= Cardinality(Jobs)
      /\ recorded[d] \in Nat
  BY DEF RecordInv, TypeOK
<1>1. ASSUME Announcers(d)' \subseteq Announcers(d), recorded'[d] = recorded[d],
             note[d] = "SENT" => note'[d] = "SENT"
      PROVE  Goal
  <2>1. Cardinality(Announcers(d)') <= Cardinality(Announcers(d))
    BY <1>1, Finite, FS_Subset
  <2> QED BY <1>0, <1>1, <2>1, Finite
<1>2. ASSUME NEW k \in Jobs, Elsewhere(k) PROVE Goal
  <2>1. Announcers(d)' \subseteq Announcers(d)
    BY <1>2 DEF Elsewhere, Announcers, Job, TypeOK
  <2> QED BY <1>1, <1>2, <2>1 DEF Elsewhere
<1>3. ASSUME NEW k \in Jobs, NEW c \in Certs, NotifyCheck(k, c), ~NotificationExists(c)
      PROVE  Goal
  <2>1. note' = note /\ recorded' = recorded BY <1>3, Announcing
  <2>2. CASE d = c
    <3>1. recorded[d] = 0 BY <1>0, <1>3, <2>2 DEF NotificationExists
    <3> QED BY <1>0, <2>1, <3>1, Finite
  <2>3. CASE d # c
    <3>1. Announcers(d)' \subseteq Announcers(d)
      BY <1>3, <2>3, Announcing DEF Announcers, TypeOK
    <3> QED BY <1>1, <2>1, <3>1
  <2> QED BY <2>2, <2>3
<1>4. ASSUME NEW k \in Jobs, NEW c \in Certs, NotifySend(k, c) PROVE Goal
  <2>1. note' = note /\ recorded' = recorded BY <1>4 DEF NotifySend
  <2>2. Announcers(d)' \subseteq Announcers(d) BY <1>4, Announcing DEF Announcers, TypeOK
  <2> QED BY <1>1, <2>1, <2>2
<1>5. ASSUME NEW k \in Jobs, NEW c \in Certs, NotifySave(k, c) PROVE Goal
  <2>1. note[d] = "SENT" => note'[d] = "SENT" BY <1>5 DEF NotifySave, Inserted, TypeOK
  <2>2. recorded' = [recorded EXCEPT ![c] = IF note'[c] = "SENT" THEN @ + 1 ELSE @]
    BY <1>5 DEF NotifySave
  <2>3. Announcers(d)' \subseteq Announcers(d) BY <1>5, Announcing DEF Announcers, TypeOK
  <2>4. CASE d # c \/ note'[c] # "SENT"
    <3>1. recorded'[d] = recorded[d] BY <2>2, <2>4 DEF TypeOK
    <3> QED BY <1>1, <2>1, <2>3, <3>1
  <2>5. CASE d = c /\ note'[c] = "SENT"
    <3>1. recorded'[d] = recorded[d] + 1 BY <2>2, <2>5 DEF TypeOK
    <3>2. k \in Announcers(d) BY <1>5, <2>5, Announcing DEF Announcers
    <3>3. Announcers(d)' = Announcers(d) \ {k}
      BY <1>5, <2>3, Announcing DEF Announcers, TypeOK
    <3>4. Cardinality(Announcers(d)') = Cardinality(Announcers(d)) - 1
      BY <3>2, <3>3, Finite, FS_RemoveElement
    <3> QED BY <1>0, <2>5, <3>1, <3>4, Finite
  <2> QED BY <2>4, <2>5
<1>6. CASE note' = note /\ job' = job /\ mailed' = mailed /\ recorded' = recorded
  BY <1>1, <1>6 DEF Announcers
<1> QED BY <1>2, <1>3, <1>4, <1>5, <1>6, JobShape, OtherSteps

(* Of the mails whose SENT row was kept there is one for each job that may *)
(* overlap with another: one only, when the weekly runs do not.            *)
THEOREM RecordsAreBounded == Spec => []RecordedOncePerJob
<1>1. Init => RecordInv
  <2> SUFFICES ASSUME Init, NEW c \in Certs
               PROVE  recorded[c] = 0 /\ recorded[c] + Cardinality(Announcers(c)) <= Cardinality(Jobs)
    BY DEF RecordInv
  <2>1. Announcers(c) = {} /\ recorded[c] = 0 BY DEF Init, Announcers, IdleJob
  <2> QED BY <2>1, FS_EmptySet, Finite
<1>2. TypeOK /\ RecordInv => RecordedOncePerJob
  <2> SUFFICES ASSUME TypeOK, RecordInv, NEW c \in Certs
               PROVE  recorded[c] <= Cardinality(Jobs)
    BY DEF RecordedOncePerJob
  <2>1. recorded[c] \in Nat /\ recorded[c] + Cardinality(Announcers(c)) <= Cardinality(Jobs)
    BY DEF TypeOK, RecordInv
  <2> QED BY <2>1, Finite
<1> QED BY <1>1, <1>2, RecordStep, TypeCorrect, PTL DEF Spec
-----------------------------------------------------------------------------
(* Between the file and the row that will name it.                         *)
FiledInv == /\ FiledIsStored
            /\ \A s \in Sessions : call[s].pc = "upload.link" => call[s].cert \in stored

LEMMA FiledStep == TypeOK /\ FiledInv /\ [Next]_vars => FiledInv'
<1> SUFFICES ASSUME TypeOK, FiledInv, [Next]_vars PROVE FiledInv' OBVIOUS
<1> USE DEF FiledInv, FiledIsStored
<1>1. ASSUME cert' = cert, stored' = stored,
             \A s \in Sessions : call'[s].pc = "upload.link" => call'[s] = call[s]
      PROVE  FiledInv'
  BY <1>1
<1>2. ASSUME stored' = stored, \A c \in Certs : cert'[c].filed => cert[c].filed,
             \A s \in Sessions : call'[s].pc = "upload.link" => call'[s] = call[s]
      PROVE  FiledInv'
  BY <1>2
<1>3. ASSUME NEW s \in Sessions, NEW rec, Start(s, rec), rec.pc # "upload.link" PROVE FiledInv'
  BY <1>1, <1>3 DEF Start, rows, TypeOK
<1>4. ASSUME NEW s \in Sessions,
             \/ \E c \in Certs, phase \in (Phases \ {"NONE"}) \cup {Null} : UpdateCheck(s, c, phase)
             \/ \E c \in Certs : DeleteCheck(s, c) \/ UploadCheck(s, c)
             \/ \E h \in Hrs, c \in Certs : RenewCheck(s, h, c)
             \/ \E r \in Renewals, st \in {"APPROVED", "REJECTED"} : ReviewCheck(s, r, st)
      PROVE  FiledInv'
  <2>1. ASSUME NEW c \in Certs, NEW phase, UpdateCheck(s, c, phase) PROVE FiledInv'
    <3> DEFINE rec == [Idle EXCEPT !.pc = "update.save", !.cert = c, !.expiry = phase]
    <3>1. Start(s, rec) /\ rec.pc = "update.save" BY <2>1 DEF UpdateCheck, Idle
    <3> HIDE DEF rec
    <3> QED BY <1>3, <3>1
  <2>2. ASSUME NEW c \in Certs, NEW pc \in CertPcs \ {"upload.link"},
               Start(s, [Idle EXCEPT !.pc = pc, !.cert = c])
        PROVE  FiledInv'
    <3> DEFINE rec == [Idle EXCEPT !.pc = pc, !.cert = c]
    <3>1. Start(s, rec) /\ rec.pc = pc BY <2>2 DEF Idle
    <3> HIDE DEF rec
    <3> QED BY <1>3, <3>1
  <2>3. ASSUME NEW c \in Certs,
               DeleteCheck(s, c) \/ UploadCheck(s, c) \/ \E h \in Hrs : RenewCheck(s, h, c)
        PROVE  FiledInv'
    <3>1. {"delete.save", "upload.write", "renew.insert"} \subseteq CertPcs \ {"upload.link"}
      BY DEF CertPcs
    <3> QED BY <2>2, <2>3, <3>1 DEF DeleteCheck, UploadCheck, RenewCheck
  <2>4. ASSUME NEW r \in Renewals, NEW st, ReviewCheck(s, r, st) PROVE FiledInv'
    <3> DEFINE rec == [Idle EXCEPT !.pc = "review.save", !.renewal = r, !.status = st]
    <3>1. Start(s, rec) /\ rec.pc = "review.save" BY <2>4 DEF ReviewCheck, Idle
    <3> HIDE DEF rec
    <3> QED BY <1>3, <3>1
  <2> QED BY <1>4, <2>1, <2>3, <2>4
<1>5. ASSUME NEW s \in Sessions, Return(s)
      PROVE  \A t \in Sessions : call'[t].pc = "upload.link" => call'[t] = call[t]
  BY <1>5, BlankTypes DEF Return, TypeOK
<1>6. ASSUME NEW s \in Sessions, UpdateSave(s) \/ DeleteSave(s) PROVE FiledInv'
  <2>1. \A c \in Certs : cert'[c].filed = cert[c].filed
    BY <1>6 DEF UpdateSave, DeleteSave, TypeOK, CertRows
  <2> QED BY <1>2, <1>5, <1>6, <2>1 DEF UpdateSave, DeleteSave, Finish
<1>7. ASSUME NEW s \in Sessions, UploadWrite(s) PROVE FiledInv'
  <2>1. call[s].cert \in stored' /\ stored \subseteq stored' /\ cert' = cert
    BY <1>7 DEF UploadWrite
  <2>2. CASE Return(s) BY <1>5, <2>1, <2>2
  <2>3. CASE call' = [call EXCEPT ![s].pc = "upload.link"]
    <3>1. call'[s].cert = call[s].cert /\ \A t \in Sessions \ {s} : call'[t] = call[t]
      BY <2>3 DEF TypeOK, Calls
    <3> QED BY <2>1, <3>1
  <2> QED BY <1>7, <2>2, <2>3 DEF UploadWrite
<1>8. ASSUME NEW s \in Sessions, UploadLink(s) PROVE FiledInv'
  <2>1. call[s].cert \in stored /\ stored' = stored /\ Return(s)
    BY <1>8 DEF UploadLink, At, Finish
  <2>2. \A c \in Certs : cert'[c].filed => cert[c].filed \/ c = call[s].cert
    BY <1>8 DEF UploadLink, TypeOK, CertRows
  <2> QED BY <1>5, <2>1, <2>2
<1>9. ASSUME NEW s \in Sessions,
             (\E r \in Renewals : RenewInsert(s, r)) \/ ReviewSave(s) \/ CallFails(s)
      PROVE  FiledInv'
  BY <1>1, <1>5, <1>9 DEF RenewInsert, ReviewSave, CallFails, Finish, rows
<1>10. ASSUME NEW c \in Certs, NEW phase \in Phases, Create(c, phase) PROVE FiledInv'
  <2>1. \A d \in Certs : cert'[d].filed => cert[d].filed BY <1>10 DEF Create, TypeOK
  <2> QED BY <1>2, <1>10, <2>1 DEF Create
<1>11. ASSUME NEW c \in Certs, Time(c) PROVE FiledInv'
  <2>1. \A d \in Certs : cert'[d].filed = cert[d].filed BY <1>11 DEF Time, TypeOK, CertRows
  <2> QED BY <1>2, <1>11, <2>1 DEF Time
<1>12. CASE UNCHANGED <<rows, call>> BY <1>1, <1>12 DEF rows
<1>13. ASSUME NEW k \in Jobs, JobStep(k) \/ JobCrash(k) PROVE UNCHANGED <<rows, call>>
  BY <1>13 DEF JobStep, JobCrash, JobStart, MapRead, MapFails, JobEnd, HrMailed, HrMailFails,
               DzoSkipped, NotifyCheck, NotifyCheckFails, NotifySend, NotifySendFails,
               NotifySave, NotifySaveFails, OnlyJob
<1> QED BY <1>4, <1>6, <1>7, <1>8, <1>9, <1>10, <1>11, <1>12, <1>13
        DEF Next, CertCall, RenewalCall, vars

(* A row that names the uploaded file has one, however uploads, updates    *)
(* and deletions overlap and fail.                                         *)
THEOREM LinkedIsStored == Spec => []FiledIsStored
<1>1. Init => FiledInv BY BlankTypes DEF Init, FiledInv, FiledIsStored
<1>2. FiledInv => FiledIsStored BY DEF FiledInv
<1> QED BY <1>1, <1>2, FiledStep, TypeCorrect, PTL DEF Spec
=============================================================================
