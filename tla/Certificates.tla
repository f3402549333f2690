---------------------------- MODULE Certificates ----------------------------
(***************************************************************************)
(* Certificates of employees (learning/certificates), the requests to      *)
(* renew them (certrequests), and the weekly job that announces the ones   *)
(* about to expire: by mail to the HRs of each DZO, then to the employee   *)
(* through notifications.NotifyUserWithEntity.                             *)
(*                                                                         *)
(* A job works on the rows it read at its start.  Every call it makes may  *)
(* fail; a failure is logged, and only the next weekly run tries again.    *)
(* What keeps it from announcing twice is a SENT row of notifications,     *)
(* written after the mail.  Dates are phases relative to the window of six *)
(* months in which queryExpiringCerts reports a certificate.               *)
(***************************************************************************)
EXTENDS Integers, FiniteSets

CONSTANTS Certs,           \* ids certificates may get
          Emps, EmpOf,     \* certificate -> the employee it belongs to
          Dzos, DzoOf,     \* employee -> DZO
          Hrs, HrDzo,      \* active HR users, and the DZO of each
          Linked,          \* employees queryEmployeeKeycloakMap finds a user for
          Renewals,        \* ids renewal requests may get
          Jobs,            \* executions of the weekly job that may overlap
          Sessions,        \* concurrent HTTP calls
          MaxAttempts,     \* maxAttempts of sendExpiryEmailWithRetry, 3 in the code
          ProviderMayFail, \* FALSE for the stub sendEmail is today
          MaxCrashes,      \* bound: times a job is killed half-way
          Null

ASSUME CertificatesAssumption ==
  /\ EmpOf \in [Certs -> Emps]
  /\ DzoOf \in [Emps -> Dzos]
  /\ HrDzo \in [Hrs -> Dzos]
  /\ Linked \subseteq Emps
  /\ IsFiniteSet(Jobs)
  /\ MaxAttempts \in Nat \ {0}
  /\ ProviderMayFail \in BOOLEAN
  /\ MaxCrashes \in Nat
  /\ Null \notin Certs /\ Null \notin Hrs /\ Null \notin Renewals
  /\ Null \notin {"APPROVED", "REJECTED"}

VARIABLES cert,      \* rows of certificates
          stored,    \* certificates with a file in /tmp/certificates
          renewal,   \* requests of entity type CERTIFICATE_RENEWAL
          note,      \* status of the row of notifications for the owner, or NONE
          job, call, \* what each job and each HTTP call is doing
          crashes,
          told,      \* history: HR -> certificates announced to it by mail
          mailed,    \* history: certificates whose owner was sent a mail
          recorded   \* history: mails after which a SENT row was in place

rows == <<cert, stored, renewal>>
history == <<told, mailed, recorded>>
vars == <<rows, note, job, call, crashes, history>>

Phases == {"NONE", "FAR", "SOON", "PAST"}
\* filed: file_url names the uploaded file (a file_url given at creation does not).
NoCert == [active |-> FALSE, expiry |-> "NONE", filed |-> FALSE]
IdleJob == [pc |-> "idle", batch |-> {}, hrs |-> {}, hr |-> Null, tries |-> 0,
            left |-> {}, cert |-> Null]
Idle == [pc |-> "idle", cert |-> Null, expiry |-> Null, renewal |-> Null, status |-> Null]

Init == /\ cert = [c \in Certs |-> NoCert]
        /\ stored = {}
        /\ renewal = [r \in Renewals |-> [status |-> "NONE", cert |-> Null]]
        /\ note = [c \in Certs |-> "NONE"]
        /\ job = [k \in Jobs |-> IdleJob]
        /\ call = [s \in Sessions |-> Idle]
        /\ crashes = 0
        /\ told = [h \in Hrs |-> {}]
        /\ mailed = {}
        /\ recorded = [c \in Certs |-> 0]

\* queryExpiringCerts: active, and now < expiry_date <= now + 6 months.
Expiring(c) == cert[c].active /\ cert[c].expiry = "SOON"
DzoOfCert(c) == DzoOf[EmpOf[c]]
-----------------------------------------------------------------------------
(* HTTP calls: certificates.                                               *)
At(s, pc) == call[s].pc = pc
Start(s, rec) == /\ call[s] = Idle
                 /\ call' = [call EXCEPT ![s] = rec]
                 /\ UNCHANGED <<rows, note, job, crashes, history>>
Return(s) == call' = [call EXCEPT ![s] = Idle]
Finish(s) == Return(s) /\ UNCHANGED <<note, job, crashes, history>>

Create(c, phase) ==
  /\ cert[c] = NoCert
  /\ cert' = [cert EXCEPT ![c] = [active |-> TRUE, expiry |-> phase, filed |-> FALSE]]
  /\ UNCHANGED <<stored, renewal, note, job, call, crashes, history>>

\* Update: SetNillableExpiryDate leaves the date alone when none is sent (Null).
UpdateCheck(s, c, phase) ==
  cert[c].active /\ Start(s, [Idle EXCEPT !.pc = "update.save", !.cert = c, !.expiry = phase])

UpdateSave(s) ==
  /\ At(s, "update.save")
  /\ cert' = [cert EXCEPT ![call[s].cert].expiry = IF call[s].expiry = Null THEN @ ELSE call[s].expiry]
  /\ UNCHANGED <<stored, renewal>>
  /\ Finish(s)

DeleteCheck(s, c) ==
  cert[c].active /\ Start(s, [Idle EXCEPT !.pc = "delete.save", !.cert = c])

DeleteSave(s) ==
  /\ At(s, "delete.save")
  /\ cert' = [cert EXCEPT ![call[s].cert].active = FALSE]
  /\ UNCHANGED <<stored, renewal>>
  /\ Finish(s)

\* handleUpload: os.Create truncates or creates <id>.pdf, io.Copy fills it, then
\* the row gets its path; a failed copy leaves what it has written.
UploadCheck(s, c) ==
  cert[c].active /\ Start(s, [Idle EXCEPT !.pc = "upload.write", !.cert = c])

\* Mutant: the row is updated before the file is written.
UploadLinkFirst(s) ==
  /\ At(s, "upload.write")
  /\ cert' = [cert EXCEPT ![call[s].cert].filed = TRUE]
  /\ call' = [call EXCEPT ![s].pc = "upload.link"]
  /\ UNCHANGED <<stored, renewal, note, job, crashes, history>>
UploadWrite(s) ==
  /\ At(s, "upload.write")
  /\ stored' = stored \cup {call[s].cert}
  /\ \/ call' = [call EXCEPT ![s].pc = "upload.link"]
     \/ Return(s)
  /\ UNCHANGED <<cert, renewal, note, job, crashes, history>>

UploadLink(s) ==
  /\ At(s, "upload.link")
  /\ cert' = [cert EXCEPT ![call[s].cert].filed = TRUE]
  /\ UNCHANGED <<stored, renewal>>
  /\ Finish(s)
-----------------------------------------------------------------------------
(* HTTP calls: renewal requests.                                           *)

\* validateCertForHR, then insertCertRenewal.
RenewCheck(s, h, c) ==
  /\ cert[c].active
  /\ HrDzo[h] = DzoOfCert(c)
  /\ Start(s, [Idle EXCEPT !.pc = "renew.insert", !.cert = c])

RenewInsert(s, r) ==
  /\ At(s, "renew.insert")
  /\ renewal[r].status = "NONE"
  /\ renewal' = [renewal EXCEPT ![r] = [status |-> "PENDING", cert |-> call[s].cert]]
  /\ UNCHANGED <<cert, stored>>
  /\ Finish(s)

ReviewCheck(s, r, status) ==
  /\ renewal[r].status = "PENDING"
  /\ Start(s, [Idle EXCEPT !.pc = "review.save", !.renewal = r, !.status = status])

ReviewSave(s) ==
  /\ At(s, "review.save")
  /\ renewal' = [renewal EXCEPT ![call[s].renewal].status = call[s].status]
  /\ UNCHANGED <<cert, stored>>
  /\ Finish(s)

\* A failed statement, or the client is gone.
CallFails(s) == /\ call[s] # Idle
                /\ Return(s)
                /\ UNCHANGED <<rows, note, job, crashes, history>>
-----------------------------------------------------------------------------
(* CheckExpiringCertificates, the weekly job.                              *)
JobAt(k, pc) == job[k].pc = pc
Job(k, rec) == job' = [job EXCEPT ![k] = rec]
OnlyJob == UNCHANGED <<rows, note, call, crashes, history>>

\* The reads before the first mail; when one fails the run is over.
JobStart(k) ==
  LET batch == {c \in Certs : Expiring(c)} IN
  /\ job[k] = IdleJob
  /\ batch # {}
  /\ Job(k, [IdleJob EXCEPT !.pc = "hrs", !.batch = batch,
                            !.hrs = {h \in Hrs : \E c \in batch : DzoOfCert(c) = HrDzo[h]}])
  /\ OnlyJob

\* GroupByDzo: an HR is told of the certificates of the own DZO.
GroupOf(k, h) == {c \in job[k].batch : DzoOfCert(c) = HrDzo[h]}

\* One HR after the other, up to MaxAttempts mails each.
NextHr(k, h) == [job[k] EXCEPT !.hrs = @ \ {h}, !.hr = Null, !.tries = 0]

\* Mutant: one attempt too many.
OneMoreAttempt(k, h) ==
  IF job[k].tries + 1 <= MaxAttempts
    THEN [job[k] EXCEPT !.hr = h, !.tries = @ + 1]
    ELSE NextHr(k, h)
AfterFailure(k, h) ==
  IF job[k].tries + 1 < MaxAttempts
    THEN [job[k] EXCEPT !.hr = h, !.tries = @ + 1]
    ELSE NextHr(k, h)

Turn(k, h) == JobAt(k, "hrs") /\ h \in job[k].hrs /\ job[k].hr \in {Null, h}

HrMailed(k, h) ==
  /\ Turn(k, h)
  /\ told' = [told EXCEPT ![h] = @ \cup GroupOf(k, h)]
  /\ Job(k, NextHr(k, h))
  /\ UNCHANGED <<rows, note, call, crashes, mailed, recorded>>

HrMailFails(k, h) == Turn(k, h) /\ Job(k, AfterFailure(k, h)) /\ OnlyJob

\* queryHREmailsByDzo fails: the next DZO is tried.
DzoSkipped(k, d) ==
  LET hrs == {h \in Hrs : HrDzo[h] = d} IN
  /\ JobAt(k, "hrs") /\ job[k].hr = Null
  /\ hrs # {} /\ hrs \subseteq job[k].hrs
  /\ Job(k, [job[k] EXCEPT !.hrs = @ \ hrs])
  /\ OnlyJob

\* queryEmployeeKeycloakMap: employees without a user are left out; when it
\* fails the run is over ("non-fatal: HR emails already sent").
MapRead(k) ==
  /\ JobAt(k, "hrs") /\ job[k].hrs = {}
  /\ Job(k, [job[k] EXCEPT !.pc = "owners", !.left = {c \in job[k].batch : EmpOf[c] \in Linked}])
  /\ OnlyJob

MapFails(k) == JobAt(k, "hrs") /\ job[k].hrs = {} /\ Job(k, IdleJob) /\ OnlyJob
-----------------------------------------------------------------------------
(* NotifyUserWithEntity, called for one certificate after the other.       *)
NextOwner(k, c) == [job[k] EXCEPT !.pc = "owners", !.left = @ \ {c}, !.cert = Null]

\* notificationExists asks for a row with status SENT.
\* Mutants: any row counts, or none does.
AnyRowExists(c) == note[c] # "NONE"
NeverExists(c) == FALSE
NotificationExists(c) == note[c] = "SENT"

\* INSERT ... ON CONFLICT DO NOTHING: the first row stays.
Inserted(c, status) == [note EXCEPT ![c] = IF @ = "NONE" THEN status ELSE @]

\* Mutant: the row is written before the mail is sent.
NotifyMarkFirst(k, c) ==
  /\ JobAt(k, "owners") /\ c \in job[k].left
  /\ Job(k, IF NotificationExists(c) THEN NextOwner(k, c)
            ELSE [job[k] EXCEPT !.pc = "send", !.cert = c])
  /\ note' = Inserted(c, "SENT")
  /\ UNCHANGED <<rows, call, crashes, history>>
NotifyCheck(k, c) ==
  /\ JobAt(k, "owners") /\ c \in job[k].left
  /\ Job(k, IF NotificationExists(c) THEN NextOwner(k, c)
            ELSE [job[k] EXCEPT !.pc = "send", !.cert = c])
  /\ OnlyJob

NotifyCheckFails(k, c) ==
  JobAt(k, "owners") /\ c \in job[k].left /\ Job(k, NextOwner(k, c)) /\ OnlyJob

NotifySend(k, c) ==
  /\ JobAt(k, "send") /\ job[k].cert = c
  /\ mailed' = mailed \cup {c}
  /\ Job(k, [job[k] EXCEPT !.pc = "save"])
  /\ UNCHANGED <<rows, note, call, crashes, told, recorded>>

\* saveFailedNotification; its own error is ignored.
NotifySendFails(k, c) ==
  /\ ProviderMayFail
  /\ JobAt(k, "send") /\ job[k].cert = c
  /\ note' \in {note, Inserted(c, "FAILED")}
  /\ Job(k, NextOwner(k, c))
  /\ UNCHANGED <<rows, call, crashes, history>>

NotifySave(k, c) ==
  /\ JobAt(k, "save") /\ job[k].cert = c
  /\ note' = Inserted(c, "SENT")
  /\ recorded' = [recorded EXCEPT ![c] = IF note'[c] = "SENT" THEN @ + 1 ELSE @]
  /\ Job(k, NextOwner(k, c))
  /\ UNCHANGED <<rows, call, crashes, told, mailed>>

NotifySaveFails(k, c) ==
  JobAt(k, "save") /\ job[k].cert = c /\ Job(k, NextOwner(k, c)) /\ OnlyJob

JobEnd(k) == JobAt(k, "owners") /\ job[k].left = {} /\ Job(k, IdleJob) /\ OnlyJob

\* The process is restarted; the next weekly run starts over.
JobCrash(k) ==
  /\ job[k] # IdleJob /\ crashes < MaxCrashes
  /\ crashes' = crashes + 1
  /\ Job(k, IdleJob)
  /\ UNCHANGED <<rows, note, call, history>>
-----------------------------------------------------------------------------
\* Months pass: a certificate enters the window, then expires.
Time(c) ==
  /\ \/ cert[c].expiry = "FAR" /\ cert' = [cert EXCEPT ![c].expiry = "SOON"]
     \/ cert[c].expiry = "SOON" /\ cert' = [cert EXCEPT ![c].expiry = "PAST"]
  /\ UNCHANGED <<stored, renewal, note, job, call, crashes, history>>

CertCall(s) ==
  \/ \E c \in Certs : \/ \E phase \in (Phases \ {"NONE"}) \cup {Null} : UpdateCheck(s, c, phase)
                     \/ DeleteCheck(s, c)
                     \/ UploadCheck(s, c)
  \/ UpdateSave(s) \/ DeleteSave(s) \/ UploadWrite(s) \/ UploadLink(s)

RenewalCall(s) ==
  \/ \E h \in Hrs, c \in Certs : RenewCheck(s, h, c)
  \/ \E r \in Renewals : RenewInsert(s, r)
  \/ \E r \in Renewals, status \in {"APPROVED", "REJECTED"} : ReviewCheck(s, r, status)
  \/ ReviewSave(s)

JobStep(k) ==
  \/ JobStart(k) \/ MapRead(k) \/ MapFails(k) \/ JobEnd(k)
  \/ \E h \in Hrs : HrMailed(k, h) \/ HrMailFails(k, h)
  \/ \E d \in Dzos : DzoSkipped(k, d)
  \/ \E c \in Certs : \/ NotifyCheck(k, c) \/ NotifyCheckFails(k, c)
                     \/ NotifySend(k, c) \/ NotifySendFails(k, c)
                     \/ NotifySave(k, c) \/ NotifySaveFails(k, c)

Next == \/ \E c \in Certs : (\E phase \in Phases : Create(c, phase)) \/ Time(c)
        \/ \E s \in Sessions : CertCall(s) \/ RenewalCall(s) \/ CallFails(s)
        \/ \E k \in Jobs : JobStep(k) \/ JobCrash(k)

Spec == Init /\ [][Next]_vars

\* The scheduler starts the job every week and its steps are taken; a call that
\* fails now and then does not fail every time it is tried.
Fairness ==
  \A k \in Jobs :
    /\ WF_vars(JobStep(k))
    /\ SF_vars(MapRead(k))
    /\ \A h \in Hrs : SF_vars(HrMailed(k, h))
    /\ \A c \in Certs : SF_vars(NotifyCheck(k, c)) /\ SF_vars(NotifySend(k, c))

LiveSpec == Spec /\ Fairness
-----------------------------------------------------------------------------
(***************************************************************************)
(* Properties.                                                             *)
(***************************************************************************)
CertRows == [active : BOOLEAN, expiry : Phases, filed : BOOLEAN]
JobRows == [pc : {"idle", "hrs", "owners", "send", "save"}, batch : SUBSET Certs,
            hrs : SUBSET Hrs, hr : Hrs \cup {Null}, tries : 0..MaxAttempts - 1,
            left : SUBSET Certs, cert : Certs \cup {Null}]
CertPcs == {"update.save", "delete.save", "upload.write", "upload.link", "renew.insert"}
Calls == [pc : {"idle", "review.save"} \cup CertPcs, cert : Certs \cup {Null},
          expiry : Phases \cup {Null}, renewal : Renewals \cup {Null},
          status : {"APPROVED", "REJECTED", Null}]
RenewalRows == [status : {"NONE", "PENDING", "APPROVED", "REJECTED"}, cert : Certs \cup {Null}]

TypeOK ==
  /\ cert \in [Certs -> CertRows]
  /\ stored \subseteq Certs
  /\ renewal \in [Renewals -> RenewalRows]
  /\ note \in [Certs -> {"NONE", "SENT", "FAILED"}]
  /\ job \in [Jobs -> JobRows]
  /\ call \in [Sessions -> Calls]
  /\ crashes \in 0..MaxCrashes
  /\ told \in [Hrs -> SUBSET Certs]
  /\ mailed \subseteq Certs
  /\ recorded \in [Certs -> Nat]
  /\ \A s \in Sessions :
       /\ call[s].pc \in CertPcs => call[s].cert \in Certs
       /\ call[s].pc = "review.save" => call[s].renewal \in Renewals /\ call[s].status # Null
  /\ \A k \in Jobs : job[k].pc \in {"send", "save"} => job[k].cert \in Certs

\* saveNotification: a row with status SENT is never older than the mail it
\* stands for, whatever call failed and wherever a run was killed, so that
\* notificationExists never swallows the only mail.
SentMeansMailed == \A c \in Certs : note[c] = "SENT" => c \in mailed

\* NotifyUserWithEntity is at-least-once: a mail is repeated only when its row was
\* lost, and of the mails whose row was kept there is one per overlapping run.
RecordedOncePerJob == \A c \in Certs : recorded[c] <= Cardinality(Jobs)

\* handleUpload: a row that names the uploaded file has one, also when uploads,
\* updates and deletions overlap and fail.
FiledIsStored == \A c \in Certs : cert[c].filed => c \in stored

\* CheckExpiringCertificates: while a certificate stays in the window, every HR of
\* the DZO is told of it and its owner is sent a mail.
EveryExpiryAnnounced ==
  \A c \in Certs :
    /\ Expiring(c) /\ EmpOf[c] \in Linked ~> c \in mailed \/ ~Expiring(c)
    /\ \A h \in Hrs : HrDzo[h] = DzoOfCert(c) =>
         (Expiring(c) ~> c \in told[h] \/ ~Expiring(c))
=============================================================================
