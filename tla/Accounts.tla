------------------------------ MODULE Accounts ------------------------------
(***************************************************************************)
(* People in three places: the account of Keycloak (an external service),  *)
(* the row of users and the row of employees.  orgstructure/users and      *)
(* orgstructure/employees keep them together by calling Keycloak before,   *)
(* during and after their transactions, and by undoing what was done when  *)
(* a later step fails.                                                     *)
(*                                                                         *)
(* Every call of Keycloak and every transaction is a step of its own and   *)
(* may fail; a call may be cut off after any step (the client leaves, the  *)
(* process is restarted).  Rows are named by the Keycloak id, which is     *)
(* unique in users.  A change of name or DZO is the flag other.            *)
(***************************************************************************)
EXTENDS Integers, FiniteSets

CONSTANTS Ids,        \* Keycloak ids
          Emails,
          Roles,      \* business roles
          Imports,    \* sets of emails a creation or an import may list
          Patches,    \* bodies of PATCH /employees/:id
          Sessions, Null,
          MaxCalls    \* bound: calls started in a behaviour

ASSUME AccountsAssumption ==
  /\ {"EMP", "ADM"} \subseteq Roles
  /\ Imports \subseteq SUBSET Emails
  /\ Patches \subseteq [email : Emails \cup {Null}, role : Roles \cup {Null},
                        active : BOOLEAN \cup {Null}, other : BOOLEAN]
  /\ MaxCalls \in Nat
  /\ Null \notin Ids /\ Null \notin Emails /\ Null \notin Roles /\ Null \notin BOOLEAN

VARIABLES account,    \* Keycloak: id -> account
          user, emp,  \* tables users and employees
          call,       \* what each HTTP call is doing
          started,    \* number of calls so far
          overlapped, \* history: two calls have been in flight together
          lost        \* history: ids where a change of Keycloak was given up half-way

vars == <<account, user, emp, call, started, overlapped, lost>>
rows == <<user, emp>>

NoAccount == [email |-> Null, enabled |-> FALSE, roles |-> {}]
NoUser == [email |-> Null, role |-> Null, active |-> FALSE, onboarded |-> FALSE]
NoEmp == [email |-> Null, active |-> FALSE, deleted |-> FALSE]

\* id, email, role, active, other: what the call works on; todo: emails to create;
\* made: accounts created, or to be deleted; past: values to restore; rep: what a GET returned;
\* did: changes of Keycloak that have been made; undo: they are being taken back.
Idle == [kind |-> "none", pc |-> "idle", id |-> Null, todo |-> {}, made |-> [k \in {} |-> Null],
         email |-> Null, role |-> Null, active |-> Null, other |-> FALSE,
         past |-> [email |-> Null, role |-> Null, active |-> Null],
         rep |-> NoAccount, did |-> {}, undo |-> FALSE]

Init == /\ account = [k \in Ids |-> NoAccount]
        /\ user = [k \in Ids |-> NoUser]
        /\ emp = [k \in Ids |-> NoEmp]
        /\ call = [s \in Sessions |-> Idle]
        /\ started = 0 /\ overlapped = FALSE /\ lost = {}

HasAccount(k) == account[k] # NoAccount
HasUser(k) == user[k] # NoUser
Live(k) == emp[k] # NoEmp /\ ~emp[k].deleted
At(s, pc) == call[s].pc = pc

Start(s, rec) == /\ call[s] = Idle /\ started < MaxCalls
                 /\ call' = [call EXCEPT ![s] = rec]
                 /\ started' = started + 1
                 /\ overlapped' = (overlapped \/ \E t \in Sessions : call[t] # Idle)
                 /\ UNCHANGED <<account, rows, lost>>
Go(s, rec) == call' = [call EXCEPT ![s] = rec] /\ UNCHANGED <<started, overlapped>>
GoTo(s, pc) == Go(s, [call[s] EXCEPT !.pc = pc])
Return(s) == Go(s, Idle)
GivenUp(ids) == lost' = lost \cup (ids \ {Null})

\* A transaction of PatchEmployee that has updated the role keeps the row of users
\* locked while it calls Keycloak.
Locked(s, k) == \E t \in Sessions \ {s} :
                  call[t].kind = "patch" /\ call[t].id = k /\ "role" \in call[t].did
-----------------------------------------------------------------------------
(* CreateEmployee, ImportEmployees (kind "create": an import creates all   *)
(* its accounts, then all its rows), RegisterAdmin (kind "admin").         *)

\* checkEmailUnique, and for an import applyUploadBusinessRules.
EmailTaken(e, except) == \E k \in Ids \ {except} : Live(k) /\ emp[k].email = e

CreateEmployee(s, es, role) ==
  /\ Cardinality(es) > 1 => role = "EMP"
  /\ \A e \in es : ~EmailTaken(e, Null)
  /\ Start(s, [Idle EXCEPT !.kind = "create", !.pc = "account", !.todo = es, !.role = role])

RegisterAdmin(s, e) ==
  Start(s, [Idle EXCEPT !.kind = "admin", !.pc = "account", !.todo = {e}, !.role = "ADM"])

With(f, k, e) == [j \in DOMAIN f \cup {k} |-> IF j = k THEN e ELSE f[j]]
\* Where a creation goes on: to the next account, or to its transaction.
NextRow(c) == [c EXCEPT !.pc = IF c.todo = {} THEN "insert" ELSE "account"]
\* Every account of the list is deleted; none is left to delete at the end.
Undo(c) == IF DOMAIN c.made = {} THEN Idle ELSE [c EXCEPT !.pc = "delete"]

CreateAccount(s, k) ==
  /\ At(s, "account")
  /\ ~HasAccount(k) /\ ~HasUser(k) /\ \A t \in Sessions : call[t].id # k /\ k \notin DOMAIN call[t].made
  /\ \E e \in call[s].todo :
       /\ \A j \in Ids : account[j].email # e
       /\ account' = [account EXCEPT ![k] = [email |-> e, enabled |-> TRUE, roles |-> {}]]
       /\ Go(s, [call[s] EXCEPT !.pc = "role", !.id = k, !.todo = @ \ {e}, !.made = With(@, k, e)])
  /\ UNCHANGED <<rows, lost>>

\* 409 Conflict: handleUserConflict takes over a disabled account.
CreateConflict(s, k) ==
  /\ At(s, "account") /\ HasAccount(k) /\ account[k].email \in call[s].todo
  /\ Go(s, IF account[k].enabled \/ call[s].kind = "admin" THEN Undo(call[s])
           ELSE [call[s] EXCEPT !.pc = "enable", !.id = k, !.email = account[k].email,
                                  !.todo = @ \ {account[k].email}])
  /\ UNCHANGED <<account, rows, lost>>

CreateEnable(s) ==
  LET k == call[s].id IN
  /\ At(s, "enable") /\ HasAccount(k)
  /\ account' = [account EXCEPT ![k].enabled = TRUE]
  /\ GoTo(s, "password")
  /\ UNCHANGED <<rows, lost>>

CreatePassword(s) ==
  /\ At(s, "password") /\ HasAccount(call[s].id)
  /\ Go(s, [call[s] EXCEPT !.pc = "role", !.made = With(@, call[s].id, call[s].email)])
  /\ UNCHANGED <<account, rows, lost>>

\* createKeycloakUser fails.  An account that was enabled but got no password stays.
CreateFails(s) ==
  /\ call[s].pc \in {"account", "enable", "password"}
  /\ GivenUp(IF At(s, "password") THEN {call[s].id} ELSE {})
  /\ Go(s, Undo(call[s]))
  /\ UNCHANGED <<account, rows>>

\* assignRealmRoleToUser.
CreateRole(s) ==
  LET k == call[s].id IN
  /\ At(s, "role")
  /\ \/ /\ HasAccount(k)
        /\ account' = [account EXCEPT ![k].roles = @ \cup {call[s].role}]
        /\ Go(s, NextRow(call[s]))
     \/ account' = account /\ Go(s, Undo(call[s]))
  /\ UNCHANGED <<rows, lost>>

\* The transaction inserts every row or none; keycloak_user_id is unique, and an
\* empty role is refused.  When it fails the accounts are deleted.
NoUndo(c) == Idle  \* mutant
AfterFailedInsert(c) == Undo(c)

CreateInsert(s) ==
  LET c == call[s]
      ids == DOMAIN c.made
      employees == c.kind = "create" IN
  /\ At(s, "insert")
  /\ \/ /\ \A k \in ids : ~HasUser(k)
        /\ user' = [k \in Ids |-> IF k \notin ids THEN user[k]
                      ELSE [email |-> c.made[k], role |-> c.role,
                            active |-> employees, onboarded |-> employees]]
        /\ emp' = [k \in Ids |-> IF employees /\ k \in ids
                     THEN [email |-> c.made[k], active |-> TRUE, deleted |-> FALSE] ELSE emp[k]]
        /\ Return(s)
     \/ UNCHANGED rows /\ Go(s, AfterFailedInsert(c))
  /\ UNCHANGED <<account, lost>>

\* deleteKeycloakUser, best effort: also the last step of a deletion.
DeleteAccount(s, k) ==
  LET rest == [call[s] EXCEPT !.made = [j \in DOMAIN @ \ {k} |-> @[j]]] IN
  /\ At(s, "delete") /\ k \in DOMAIN call[s].made
  /\ \/ account' = [account EXCEPT ![k] = NoAccount] /\ lost' = lost
     \/ account' = account /\ GivenUp({k})
  /\ Go(s, Undo(rest))
  /\ UNCHANGED rows
-----------------------------------------------------------------------------
(* DeleteEmployee; a bulk deletion is a sequence of these.                 *)
DeleteEmployee(s, k) ==
  /\ Live(k) /\ ~Locked(s, k)
  /\ call[s] = Idle /\ started < MaxCalls
  /\ user' = [user EXCEPT ![k].active = FALSE]
  /\ emp' = [emp EXCEPT ![k].deleted = TRUE]
  /\ call' = [call EXCEPT ![s] = [Idle EXCEPT !.kind = "delete", !.pc = "delete", !.id = k,
                                              !.made = [j \in {k} |-> emp[k].email]]]
  /\ started' = started + 1
  /\ overlapped' = (overlapped \/ \E t \in Sessions : call[t] # Idle)
  /\ UNCHANGED <<account, lost>>
-----------------------------------------------------------------------------
(* PatchEmployee.                                                          *)
PatchCheck(s, k, p) ==
  /\ Live(k)
  /\ Start(s, [Idle EXCEPT !.kind = "patch", !.pc = "read", !.id = k, !.email = p.email,
                           !.role = p.role, !.active = p.active, !.other = p.other])

Changed(new, old) == new # Null /\ new # old
ProfileChanged(c) == c.other \/ Changed(c.email, c.past.email) \/ Changed(c.active, c.past.active)
AfterRole(c) == IF ProfileChanged(c) THEN "profile.get" ELSE "save"

\* The employee is read without a look at is_deleted.
PatchRead(s) ==
  LET c == call[s]
      k == c.id
      read == [c EXCEPT !.past = [email |-> user[k].email, role |-> user[k].role,
                                  active |-> emp[k].active]] IN
  /\ At(s, "read")
  /\ ~EmailTaken(c.email, k)
  /\ Go(s, [read EXCEPT !.pc = IF Changed(c.role, read.past.role)
                                 THEN "role.remove" ELSE AfterRole(read)])
  /\ UNCHANGED <<account, rows, lost>>

\* UPDATE users SET role, in the transaction: the row is locked from here on.
PatchRole(s) ==
  /\ At(s, "role.save") /\ ~Locked(s, call[s].id)
  /\ Go(s, [call[s] EXCEPT !.pc = AfterRole(call[s]), !.did = @ \cup {"role"}])
  /\ UNCHANGED <<account, rows, lost>>

\* users.is_active is left alone when employees.is_active is what was asked for,
\* an e-mail is written to both.  Mutants: the e-mail is treated like is_active, or
\* written when none was sent.
SavedIfChanged(c) == Changed(c.email, c.past.email)
AlwaysSaved(c) == TRUE
UserEmailSaved(c) == c.email # Null

PatchSave(s) ==
  LET c == call[s]
      k == c.id IN
  /\ At(s, "save") /\ ~Locked(s, k)
  /\ user' = [user EXCEPT ![k].email = IF UserEmailSaved(c) THEN c.email ELSE @,
                          ![k].active = IF Changed(c.active, c.past.active) THEN c.active ELSE @,
                          ![k].role = IF "role" \in c.did THEN c.role ELSE @]
  /\ emp' = [emp EXCEPT ![k].email = IF c.email = Null THEN @ ELSE c.email,
                        ![k].active = IF c.active = Null THEN @ ELSE c.active]
  /\ Return(s)
  /\ UNCHANGED <<account, lost>>

\* What Keycloak was told is taken back: the role, then the profile.  Mutant: only
\* the profile.
ProfileOnly(c) == c.did \ {"role"}
ToRestore(c) == c.did

Restore(c) ==
  [c EXCEPT !.undo = TRUE, !.email = c.past.email, !.role = c.past.role,
            !.active = c.past.active,
            !.pc = IF "role" \in ToRestore(c) THEN "role.remove" ELSE
                   IF "profile" \in ToRestore(c) THEN "profile.get" ELSE "idle"]
Restored(c) == IF Restore(c).pc = "idle" THEN Idle ELSE Restore(c)

\* A statement of the transaction, or its commit, fails.
PatchFails(s) ==
  LET c == call[s] IN
  /\ c.pc \in {"role.save", "save"} /\ c.kind = "patch"
  /\ Go(s, Restored([c EXCEPT !.did = @ \cup (IF c.pc = "role.save" THEN {"role"} ELSE {})]))
  /\ UNCHANGED <<account, rows, lost>>
-----------------------------------------------------------------------------
(* AssignRole, RemoveRole, BlockUser, UnblockUser: the row, then Keycloak. *)
AssignRole(s, k, role) ==
  HasUser(k) /\ Start(s, [Idle EXCEPT !.kind = "assign", !.pc = "row", !.id = k, !.role = role])

RemoveRole(s, k) ==
  HasUser(k) /\ Start(s, [Idle EXCEPT !.kind = "remove", !.pc = "row", !.id = k, !.role = "EMP"])

SetActive(s, k, active) ==
  HasUser(k) /\ Start(s, [Idle EXCEPT !.kind = "block", !.pc = "row", !.id = k, !.active = active])

UpdateRow(s) ==
  LET c == call[s]
      k == c.id IN
  /\ At(s, "row") /\ ~Locked(s, k)
  /\ user' = [user EXCEPT ![k].role = IF c.kind = "block" THEN @ ELSE c.role,
                          ![k].active = IF c.kind = "block" THEN c.active ELSE @]
  /\ GoTo(s, IF c.kind = "block" THEN "enabled" ELSE "role.remove")
  /\ UNCHANGED <<account, emp, lost>>

\* syncEnabledToKeycloak.
SyncEnabled(s) ==
  LET k == call[s].id IN
  /\ At(s, "enabled") /\ HasAccount(k)
  /\ account' = [account EXCEPT ![k].enabled = call[s].active]
  /\ Return(s)
  /\ UNCHANGED <<rows, lost>>
-----------------------------------------------------------------------------
(* syncRoleToKeycloak, replaceBusinessRealmRoleForUser; updateUserProfile, *)
(* syncAttributesToKeycloak: read the account, then write all of it.       *)
RoleDone(c) ==
  IF c.kind = "patch" /\ ~c.undo THEN [c EXCEPT !.pc = "role.save"] ELSE
  IF c.kind = "assign" \/ "profile" \in c.did THEN [c EXCEPT !.pc = "profile.get"] ELSE Idle

RemoveRoles(s) ==
  LET k == call[s].id IN
  /\ At(s, "role.remove") /\ HasAccount(k)
  /\ account' = [account EXCEPT ![k].roles = {}]
  /\ GoTo(s, "role.add")
  /\ UNCHANGED <<rows, lost>>

AddRole(s) ==
  LET k == call[s].id IN
  /\ At(s, "role.add") /\ HasAccount(k)
  /\ account' = [account EXCEPT ![k].roles = @ \cup {call[s].role}]
  /\ Go(s, RoleDone(call[s]))
  /\ UNCHANGED <<rows, lost>>

ReadProfile(s) ==
  /\ At(s, "profile.get") /\ HasAccount(call[s].id)
  /\ Go(s, [call[s] EXCEPT !.pc = "profile.put", !.rep = account[call[s].id]])
  /\ UNCHANGED <<account, rows, lost>>

WriteProfile(s) ==
  LET c == call[s]
      k == c.id
      email == IF c.email = Null THEN c.rep.email ELSE c.email IN
  /\ At(s, "profile.put") /\ HasAccount(k)
  /\ \A j \in Ids \ {k} : account[j].email # email
  /\ account' = [account EXCEPT ![k].email = email,
                                ![k].enabled = IF c.active = Null THEN c.rep.enabled ELSE c.active]
  /\ Go(s, IF c.kind = "patch" /\ ~c.undo
             THEN [c EXCEPT !.pc = "save", !.did = @ \cup {"profile"}, !.rep = NoAccount] ELSE Idle)
  /\ UNCHANGED <<rows, lost>>

\* Keycloak refuses or does not answer.  A failed role does not keep AssignRole
\* from writing the attributes, nor a restoration from going on; PatchEmployee
\* returns and restores nothing.
SyncFails(s) ==
  LET c == call[s] IN
  /\ c.pc \in {"enabled", "role.remove", "role.add", "profile.get", "profile.put"}
  /\ GivenUp({c.id})
  /\ Go(s, IF c.pc \in {"role.remove", "role.add"} /\ ~(c.kind = "patch" /\ ~c.undo)
             THEN RoleDone(c) ELSE Idle)
  /\ UNCHANGED <<account, rows>>
-----------------------------------------------------------------------------
(* resolveCurrentUser.                                                     *)

\* autoProvision, or CreateUser by a super administrator.
InsertUser(k, role) ==
  /\ HasAccount(k) /\ ~HasUser(k)
  /\ user' = [user EXCEPT ![k] = [email |-> account[k].email, role |-> role,
                                  active |-> TRUE, onboarded |-> TRUE]]
  /\ UNCHANGED <<account, emp, call, started, overlapped, lost>>

\* Mutant: whoever is inactive is taken for a pending administrator.
Inactive(k) == ~user[k].active
IsPendingActivation(k) == ~user[k].onboarded /\ ~user[k].active

FirstLogin(s, k) ==
  /\ HasUser(k) /\ IsPendingActivation(k)
  /\ Start(s, [Idle EXCEPT !.kind = "login", !.pc = "activate", !.id = k])

Activate(s) ==
  LET k == call[s].id IN
  /\ At(s, "activate") /\ ~Locked(s, k)
  /\ user' = [user EXCEPT ![k].active = TRUE, ![k].onboarded = TRUE]
  /\ Return(s)
  /\ UNCHANGED <<account, emp, lost>>

\* An error that changes nothing, or the call is cut off.
CallDies(s) ==
  /\ call[s] # Idle
  /\ GivenUp({call[s].id} \cup DOMAIN call[s].made)
  /\ Return(s)
  /\ UNCHANGED <<account, rows>>

CreateStep(s) ==
  \/ \E es \in Imports, role \in Roles \ {"ADM"} : CreateEmployee(s, es, role)
  \/ \E e \in Emails : RegisterAdmin(s, e)
  \/ \E k \in Ids : CreateAccount(s, k) \/ CreateConflict(s, k) \/ DeleteAccount(s, k)
  \/ CreateEnable(s) \/ CreatePassword(s) \/ CreateFails(s) \/ CreateRole(s) \/ CreateInsert(s)

PatchStep(s) == \/ \E k \in Ids, p \in Patches : PatchCheck(s, k, p)
                \/ PatchRead(s) \/ PatchRole(s) \/ PatchSave(s) \/ PatchFails(s)

UserStep(s) ==
  \/ \E k \in Ids : \/ DeleteEmployee(s, k) \/ FirstLogin(s, k) \/ RemoveRole(s, k)
                    \/ \E role \in Roles : AssignRole(s, k, role)
                    \/ \E active \in BOOLEAN : SetActive(s, k, active)
  \/ UpdateRow(s) \/ Activate(s)

SyncStep(s) == SyncEnabled(s) \/ RemoveRoles(s) \/ AddRole(s) \/ ReadProfile(s) \/ WriteProfile(s)
               \/ SyncFails(s)

Next == \/ \E s \in Sessions : CreateStep(s) \/ PatchStep(s) \/ UserStep(s) \/ SyncStep(s) \/ CallDies(s)
        \/ \E k \in Ids, role \in Roles : InsertUser(k, role)

Spec == Init /\ [][Next]_vars
-----------------------------------------------------------------------------
(***************************************************************************)
(* Properties.                                                             *)
(***************************************************************************)
Options(S) == S \cup {Null}
Profiles == [email : Options(Emails), role : Options(Roles), active : Options(BOOLEAN)]
AccountRows == [email : Emails, enabled : BOOLEAN, roles : SUBSET Roles]
UserRows == [email : Emails, role : Roles, active : BOOLEAN, onboarded : BOOLEAN]
EmpRows == [email : Emails, active : BOOLEAN, deleted : BOOLEAN]
Made == UNION {[ids -> Emails] : ids \in SUBSET Ids}
Pcs == {"idle", "account", "enable", "password", "role", "insert", "delete", "read", "role.save",
        "save", "row", "enabled", "role.remove", "role.add", "profile.get", "profile.put", "activate"}
Calls == [kind : {"none", "create", "admin", "delete", "patch", "assign", "remove", "block", "login"},
          pc : Pcs, id : Options(Ids), todo : SUBSET Emails, made : Made,
          email : Options(Emails), role : Options(Roles), active : Options(BOOLEAN),
          other : BOOLEAN, past : Profiles, rep : AccountRows \cup {NoAccount},
          did : SUBSET {"role", "profile"}, undo : BOOLEAN]

TypeOK ==
  /\ account \in [Ids -> AccountRows \cup {NoAccount}]
  /\ user \in [Ids -> UserRows \cup {NoUser}]
  /\ emp \in [Ids -> EmpRows \cup {NoEmp}]
  /\ call \in [Sessions -> Calls]
  /\ started \in 0..MaxCalls
  /\ overlapped \in BOOLEAN
  /\ lost \subseteq Ids

Busy(k) == \E s \in Sessions : call[s].id = k \/ k \in DOMAIN call[s].made

\* insertEmployeeWithUser, patchEmployee: an employee and the user behind it have
\* the same e-mail address, whatever patches and deletions overlap or fail.
EmailAgrees == \A k \in Ids : emp[k] # NoEmp => HasUser(k) /\ emp[k].email = user[k].email

\* "so that no empty user remains" (CreateEmployee): an account no call is at work
\* on has a user, and its employee is not deleted, unless deleting it failed.
NoOrphanAccount ==
  \A k \in Ids : HasAccount(k) /\ ~Busy(k) /\ k \notin lost => HasUser(k) /\ ~emp[k].deleted

\* As long as calls do not overlap and no call of Keycloak was given up, an
\* employee who is not deleted can log in, and Keycloak has the e-mail and the
\* one business role of users, also after a transaction failed.
KeycloakAgrees ==
  ~overlapped => \A k \in Ids : ~Busy(k) /\ k \notin lost =>
    /\ Live(k) => HasAccount(k)
    /\ HasUser(k) /\ HasAccount(k) => account[k].email = user[k].email
                                      /\ account[k].roles = {user[k].role}

\* A person who was active once and is blocked gets in again only when somebody
\* unblocks the user or patches the employee; no login does it.
BlockedStaysOut ==
  [][~overlapped => \A k \in Ids :
       user[k].onboarded /\ ~user[k].active /\ user'[k].active =>
         \E s \in Sessions : call[s].id = k /\ call[s].kind \in {"patch", "block"}]_vars

\* syncEnabledToKeycloak: "Disabling prevents new tokens from being issued"; the
\* account of a blocked user is disabled.  The code does not keep this (README,
\* Disagreements); no run checks it.
BlockedIsDisabled ==
  ~overlapped => \A k \in Ids :
    HasAccount(k) /\ HasUser(k) /\ user[k].onboarded /\ ~user[k].active
      /\ ~Busy(k) /\ k \notin lost => ~account[k].enabled
=============================================================================
