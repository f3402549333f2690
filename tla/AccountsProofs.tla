---------------------------- MODULE AccountsProofs ----------------------------
(***************************************************************************)
(* Proofs about Accounts, for any number of ids, e-mails and overlapping   *)
(* calls: types, that an employee and its user never differ in their       *)
(* e-mail, that no account stays behind without its user, and, while calls *)
(* do not overlap, that no login lets in a blocked person and that         *)
(* Keycloak has the e-mail and the role of users.                          *)
(*                                                                         *)
(* The invariant adds what a call may rely on at each point (CallOK) and   *)
(* who answers for an account that has no user yet: a call that lists it   *)
(* in made (Owned).  Since calls overlap and die anywhere, CallOK speaks   *)
(* of the rows there are, not of the other calls; users and employees are  *)
(* never removed, so that it stays true under the steps of the others.     *)
(***************************************************************************)
EXTENDS Accounts, TLAPS

Users == {k \in Ids : HasUser(k)}
Employed == {k \in Ids : emp[k] # NoEmp}

Makers == {"account", "enable", "password", "role", "insert"}

Creating(c) ==
  /\ DOMAIN c.made # {} => c.pc \in Makers \cup {"delete"}
  /\ c.pc \in Makers => c.role \in Roles /\ c.kind \in {"create", "admin"}
  /\ c.pc \in {"enable", "password"} => c.id \in Ids /\ c.email \in Emails
  /\ c.pc = "role" => c.id \in Ids

Patching(c, users, employed) ==
  /\ c.pc \in {"read", "role.save", "save"} => c.kind = "patch"
  /\ c.kind = "patch" => c.id \in employed
  /\ c.kind = "patch" /\ c.pc # "read" =>
       c.past.email \in Emails /\ c.past.role \in Roles /\ c.past.active \in BOOLEAN
  /\ "role" \in c.did => c.role \in Roles

Syncing(c, users, employed) ==
  /\ c.pc \in {"row", "activate"} => c.id \in users
  /\ c.pc = "row" => IF c.kind = "block" THEN c.active \in BOOLEAN ELSE c.role \in Roles
  /\ c.pc = "enabled" => c.active \in BOOLEAN
  /\ c.pc \in {"role.remove", "role.add", "role.save"} => c.role \in Roles
  /\ c.pc \in {"enabled", "role.remove", "role.add", "profile.get", "profile.put"} => c.id \in Ids
  /\ c.pc = "profile.put" => c.rep \in AccountRows

CallOK(c, users, employed) ==
  c \in Calls /\ Creating(c) /\ Patching(c, users, employed) /\ Syncing(c, users, employed)

RowsOK ==
  /\ account \in [Ids -> AccountRows \cup {NoAccount}]
  /\ user \in [Ids -> UserRows \cup {NoUser}]
  /\ emp \in [Ids -> EmpRows \cup {NoEmp}]

HistoryOK == started \in 0..MaxCalls /\ overlapped \in BOOLEAN /\ lost \subseteq Ids

CallsOK ==
  /\ DOMAIN call = Sessions /\ call = [s \in Sessions |-> call[s]]
  /\ \A s \in Sessions : CallOK(call[s], Users, Employed)

Owned ==
  \A k \in Ids :
    HasAccount(k) /\ k \notin lost /\ (\A s \in Sessions : k \notin DOMAIN call[s].made) =>
      HasUser(k) /\ ~emp[k].deleted

IInv == RowsOK /\ HistoryOK /\ CallsOK /\ EmailAgrees /\ Owned
-----------------------------------------------------------------------------
(* The lists of accounts a call has made.                                  *)
LEMMA MadeTypes ==
  /\ [k \in {} |-> Null] \in Made /\ DOMAIN [k \in {} |-> Null] = {}
  /\ \A k \in Ids, e \in Emails : LET f == [j \in {k} |-> e] IN f \in Made /\ DOMAIN f = {k}
  /\ \A f \in Made : /\ DOMAIN f \subseteq Ids
                     /\ \A k \in DOMAIN f : f[k] \in Emails
  /\ \A f \in Made, k \in Ids, e \in Emails :
       With(f, k, e) \in Made /\ DOMAIN With(f, k, e) = DOMAIN f \cup {k}
  /\ \A f \in Made, k \in Ids :
       LET g == [j \in DOMAIN f \ {k} |-> f[j]] IN g \in Made /\ DOMAIN g = DOMAIN f \ {k}
<1>1. \A f : f \in Made <=> \E ids \in SUBSET Ids : f \in [ids -> Emails]
  BY Zenon DEF Made
<1>2. [k \in {} |-> Null] \in Made
  <2>1. [k \in {} |-> Null] \in [{} -> Emails] OBVIOUS
  <2> QED BY <1>1, <2>1
<1>3. ASSUME NEW k \in Ids, NEW e \in Emails PROVE [j \in {k} |-> e] \in Made
  <2>1. [j \in {k} |-> e] \in [{k} -> Emails] OBVIOUS
  <2> QED BY <1>1, <2>1
<1>4. ASSUME NEW f \in Made
      PROVE  DOMAIN f \subseteq Ids /\ \A k \in DOMAIN f : f[k] \in Emails
  BY <1>1
<1>5. ASSUME NEW f \in Made, NEW k \in Ids, NEW e \in Emails
      PROVE  With(f, k, e) \in Made /\ DOMAIN With(f, k, e) = DOMAIN f \cup {k}
  <2>1. With(f, k, e) \in [DOMAIN f \cup {k} -> Emails] BY <1>4 DEF With
  <2>2. DOMAIN f \cup {k} \in SUBSET Ids BY <1>4
  <2> QED BY <1>1, <2>1, <2>2 DEF With
<1>6. ASSUME NEW f \in Made, NEW k \in Ids PROVE [j \in DOMAIN f \ {k} |-> f[j]] \in Made
  <2>1. [j \in DOMAIN f \ {k} |-> f[j]] \in [DOMAIN f \ {k} -> Emails] BY <1>4
  <2>2. DOMAIN f \ {k} \in SUBSET Ids BY <1>4
  <2> QED BY <1>1, <2>1, <2>2
<1> QED BY <1>2, <1>3, <1>4, <1>5, <1>6

LEMMA IdleOK ==
  /\ \A users, employed : CallOK(Idle, users, employed)
  /\ DOMAIN Idle.made = {} /\ Idle \in Calls
<1>1. Idle.made \in Made /\ DOMAIN Idle.made = {} BY MadeTypes DEF Idle
<1>2. Idle \in Calls
  <2>1. NoAccount \in AccountRows \cup {NoAccount} OBVIOUS
  <2>2. [email |-> Null, role |-> Null, active |-> Null] \in Profiles BY DEF Profiles, Options
  <2> QED BY <1>1, <2>1, <2>2 DEF Idle, Calls, Pcs, Options
<1>3. Idle.pc = "idle" /\ Idle.kind = "none" /\ Idle.did = {} BY DEF Idle
<1> HIDE DEF Idle
<1>4. ASSUME NEW users, NEW employed PROVE CallOK(Idle, users, employed)
  BY <1>1, <1>2, <1>3, Zenon DEF CallOK, Creating, Patching, Syncing, Makers
<1> QED BY <1>1, <1>2, <1>4

(* A call stays right while users and employees only get more.             *)
LEMMA CallKeeps ==
  ASSUME NEW c, NEW users, NEW employed, NEW more, NEW others, users \subseteq more,
         employed \subseteq others, CallOK(c, users, employed)
  PROVE  CallOK(c, more, others)
BY DEF CallOK, Creating, Patching, Syncing

(* What a step has to keep, whoever takes it.                              *)
LEMMA Preserved ==
  ASSUME IInv, RowsOK', HistoryOK', EmailAgrees', lost \subseteq lost',
         Users \subseteq Users', Employed \subseteq Employed',
         NEW s \in Sessions, NEW rec, call' = [call EXCEPT ![s] = rec],
         CallOK(rec, Users', Employed'),
         \A k \in Ids :
           /\ account'[k] # NoAccount /\ k \notin lost' /\ k \notin DOMAIN rec.made
           /\ \A t \in Sessions \ {s} : k \notin DOMAIN call[t].made
           => user'[k] # NoUser /\ ~emp'[k].deleted
  PROVE  IInv'
<1>1. /\ DOMAIN call = Sessions /\ \A t \in Sessions : CallOK(call[t], Users, Employed)
  BY DEF IInv, CallsOK
<1>2. call'[s] = rec /\ \A t \in Sessions \ {s} : call'[t] = call[t] BY <1>1
<1>3. DOMAIN call' = Sessions /\ call' = [t \in Sessions |-> call'[t]] BY <1>1
<1>4. ASSUME NEW t \in Sessions PROVE CallOK(call'[t], Users', Employed')
  <2>1. CASE t = s BY <1>2, <2>1, Zenon
  <2>2. CASE t # s
    <3>1. CallOK(call[t], Users', Employed') BY <1>1, CallKeeps
    <3> QED BY <1>2, <2>2, <3>1, Zenon
  <2> QED BY <2>1, <2>2
<1>5. CallsOK' BY <1>3, <1>4, Zenon DEF CallsOK, CallOK, Creating, Patching, Syncing
<1>6. Owned'
  <2> SUFFICES ASSUME NEW k \in Ids, HasAccount(k)', k \notin lost',
                      \A t \in Sessions : k \notin DOMAIN call'[t].made
               PROVE  HasUser(k)' /\ ~emp'[k].deleted
    BY DEF Owned
  <2>1. k \notin DOMAIN rec.made /\ \A t \in Sessions \ {s} : k \notin DOMAIN call[t].made
    BY <1>2
  <2> QED BY <2>1 DEF HasAccount, HasUser
<1> QED BY <1>5, <1>6 DEF IInv
-----------------------------------------------------------------------------
(* Steps that leave the tables alone.                                      *)
LEMMA AccountStep ==
  ASSUME IInv, UNCHANGED rows, account' \in [Ids -> AccountRows \cup {NoAccount}],
         HistoryOK', lost \subseteq lost',
         NEW s \in Sessions, NEW rec, call' = [call EXCEPT ![s] = rec],
         CallOK(rec, Users, Employed),
         \A k \in Ids : account'[k] # NoAccount => account[k] # NoAccount \/ k \in DOMAIN rec.made,
         \A k \in DOMAIN call[s].made :
           k \in DOMAIN rec.made \/ k \in lost' \/ account'[k] = NoAccount
  PROVE  IInv'
<1>1. user' = user /\ emp' = emp BY DEF rows
<1>2. Users' = Users /\ Employed' = Employed BY <1>1 DEF Users, Employed, HasUser
<1>3. RowsOK' BY <1>1 DEF IInv, RowsOK
<1>4. EmailAgrees' BY <1>1, Zenon DEF IInv, EmailAgrees, HasUser
<1>5. ASSUME NEW k \in Ids, account'[k] # NoAccount, k \notin lost', k \notin DOMAIN rec.made,
             \A t \in Sessions \ {s} : k \notin DOMAIN call[t].made
      PROVE  user'[k] # NoUser /\ ~emp'[k].deleted
  <2>1. k \notin DOMAIN call[s].made BY <1>5
  <2>2. HasAccount(k) /\ k \notin lost BY <1>5 DEF HasAccount
  <2>3. \A t \in Sessions : k \notin DOMAIN call[t].made BY <2>1, <1>5
  <2> QED BY <2>2, <2>3, <1>1 DEF IInv, Owned, HasUser
<1>6. CallOK(rec, Users', Employed') BY <1>2, Zenon
<1> QED BY <1>2, <1>3, <1>4, <1>5, <1>6, Preserved

LEMMA CallStep ==
  ASSUME IInv, UNCHANGED <<account, rows>>, lost' \subseteq Ids, lost \subseteq lost',
         NEW s \in Sessions, NEW rec, Go(s, rec), CallOK(rec, Users, Employed),
         \A k \in DOMAIN call[s].made : k \in DOMAIN rec.made \/ k \in lost'
  PROVE  IInv'
<1>1. call' = [call EXCEPT ![s] = rec] /\ started' = started /\ overlapped' = overlapped
  BY DEF Go
<1>2. HistoryOK' BY <1>1, Zenon DEF IInv, HistoryOK
<1>3. account' \in [Ids -> AccountRows \cup {NoAccount}] BY DEF IInv, RowsOK
<1> QED BY <1>1, <1>2, <1>3, AccountStep

LEMMA Started ==
  ASSUME IInv, NEW s \in Sessions, NEW rec, Start(s, rec), CallOK(rec, Users, Employed)
  PROVE  IInv'
<1>1. /\ call[s] = Idle /\ call' = [call EXCEPT ![s] = rec] /\ UNCHANGED <<account, rows, lost>>
      /\ started' \in 0..MaxCalls
  BY AccountsAssumption DEF Start, IInv, HistoryOK
<1>2. overlapped' \in BOOLEAN BY Zenon DEF Start, IInv, HistoryOK
<1>3. HistoryOK' BY <1>1, <1>2, Zenon DEF IInv, HistoryOK
<1>4. account' \in [Ids -> AccountRows \cup {NoAccount}] BY <1>1 DEF IInv, RowsOK
<1>5. DOMAIN call[s].made = {} BY <1>1, IdleOK
<1> QED BY <1>1, <1>3, <1>4, <1>5, AccountStep

LEMMA CallFacts ==
  ASSUME IInv, NEW s \in Sessions
  PROVE  CallOK(call[s], Users, Employed) /\ call[s] \in Calls
BY DEF IInv, CallsOK, CallOK

(* When no account is left to delete the call is over.                     *)
LEMMA UndoOK ==
  ASSUME NEW c, NEW users, NEW employed, CallOK(c, users, employed), c.pc # "read" \/ c.kind # "patch"
  PROVE  CallOK(Undo(c), users, employed) /\ DOMAIN Undo(c).made = DOMAIN c.made
<1> DEFINE rec == [c EXCEPT !.pc = "delete"]
<1>1. c \in Calls BY DEF CallOK
<1>2. /\ rec \in Calls /\ rec.pc = "delete" /\ rec.kind = c.kind /\ rec.id = c.id /\ rec.did = c.did
      /\ rec.made = c.made /\ rec.role = c.role /\ rec.past = c.past
  BY <1>1 DEF Calls, Pcs
<1>3. Undo(c) = IF DOMAIN c.made = {} THEN Idle ELSE rec BY DEF Undo
<1> HIDE DEF rec
<1>4. CallOK(rec, users, employed)
  BY <1>2 DEF CallOK, Creating, Patching, Syncing, Makers
<1>5. CASE DOMAIN c.made = {} BY <1>3, <1>5, IdleOK, Zenon
<1>6. CASE DOMAIN c.made # {} BY <1>2, <1>3, <1>4, <1>6, Zenon
<1> QED BY <1>5, <1>6
-----------------------------------------------------------------------------
(* Creations.                                                              *)
LEMMA BeginOK ==
  ASSUME NEW kind \in {"create", "admin"}, NEW es \in SUBSET Emails, NEW role \in Roles,
         NEW users, NEW employed
  PROVE  CallOK([Idle EXCEPT !.kind = kind, !.pc = "account", !.todo = es, !.role = role],
                users, employed)
<1> DEFINE rec == [Idle EXCEPT !.kind = kind, !.pc = "account", !.todo = es, !.role = role]
<1>1. Idle \in Calls /\ DOMAIN Idle.made = {} BY IdleOK
<1>2. Idle.did = {} BY DEF Idle
<1> HIDE DEF Idle
<1>3. /\ rec \in Calls /\ rec.kind = kind /\ rec.pc = "account" /\ rec.made = Idle.made
      /\ rec.role = role /\ rec.did = {}
  BY <1>1, <1>2 DEF Calls, Pcs, Options
<1> HIDE DEF rec
<1>4. CallOK(rec, users, employed)
  BY <1>1, <1>3 DEF CallOK, Creating, Patching, Syncing, Makers
<1> QED BY <1>4 DEF rec

LEMMA CreateEmployeeOK ==
  ASSUME IInv, NEW s \in Sessions, NEW es \in Imports, NEW role \in Roles, CreateEmployee(s, es, role)
  PROVE  IInv'
<1>1. es \in SUBSET Emails BY AccountsAssumption
<1> QED BY <1>1, BeginOK, Started DEF CreateEmployee

LEMMA RegisterAdminOK ==
  ASSUME IInv, NEW s \in Sessions, NEW e \in Emails, RegisterAdmin(s, e)
  PROVE  IInv'
<1>1. "ADM" \in Roles /\ {e} \in SUBSET Emails BY AccountsAssumption
<1> QED BY <1>1, BeginOK, Started DEF RegisterAdmin

LEMMA CreateAccountOK ==
  ASSUME IInv, NEW s \in Sessions, NEW k \in Ids, CreateAccount(s, k) PROVE IInv'
<1> DEFINE c == call[s]
<1>1. CallOK(c, Users, Employed) /\ c \in Calls BY CallFacts
<1>2. PICK e \in c.todo :
        /\ account' = [account EXCEPT ![k] = [email |-> e, enabled |-> TRUE, roles |-> {}]]
        /\ Go(s, [c EXCEPT !.pc = "role", !.id = k, !.todo = @ \ {e}, !.made = With(@, k, e)])
  BY DEF CreateAccount
<1>3. c.pc = "account" /\ UNCHANGED <<rows, lost>> BY DEF CreateAccount, At
<1>4. e \in Emails /\ c.made \in Made BY <1>1, <1>2 DEF Calls
<1>5. With(c.made, k, e) \in Made /\ DOMAIN With(c.made, k, e) = DOMAIN c.made \cup {k}
  BY <1>4, MadeTypes
<1> DEFINE rec == [c EXCEPT !.pc = "role", !.id = k, !.todo = @ \ {e}, !.made = With(@, k, e)]
<1>6. /\ rec \in Calls /\ rec.pc = "role" /\ rec.id = k /\ rec.made = With(c.made, k, e)
      /\ rec.kind = c.kind /\ rec.role = c.role /\ rec.did = c.did /\ rec.past = c.past
  BY <1>1, <1>5 DEF Calls, Pcs, Options
<1>7. Go(s, rec) BY <1>2
<1> HIDE DEF rec
<1>8. CallOK(rec, Users, Employed)
  <2> HIDE DEF c
  <2>1. Creating(rec) BY <1>1, <1>3, <1>6 DEF CallOK, Creating, Makers
  <2>2. Patching(rec, Users, Employed)
    BY <1>1, <1>3, <1>6 DEF CallOK, Creating, Patching, Makers
  <2>3. Syncing(rec, Users, Employed) BY <1>6 DEF Syncing
  <2> QED BY <1>6, <2>1, <2>2, <2>3 DEF CallOK
<1>9. [email |-> e, enabled |-> TRUE, roles |-> {}] \in AccountRows BY <1>4 DEF AccountRows
<1>10. account' \in [Ids -> AccountRows \cup {NoAccount}] BY <1>2, <1>9 DEF IInv, RowsOK
<1>11. \A j \in Ids : account'[j] # NoAccount => account[j] # NoAccount \/ j \in DOMAIN rec.made
  BY <1>2, <1>5, <1>6 DEF IInv, RowsOK
<1>12. HistoryOK' /\ lost \subseteq lost' BY <1>3, <1>7, Zenon DEF IInv, HistoryOK, Go
<1>13. \A j \in DOMAIN c.made : j \in DOMAIN rec.made BY <1>5, <1>6
<1> QED BY <1>3, <1>7, <1>8, <1>10, <1>11, <1>12, <1>13, AccountStep DEF Go

(* An account that exists is enabled, gets a role or a profile.            *)
LEMMA AccountFacts ==
  ASSUME IInv, NEW k \in Ids, HasAccount(k), NEW rec \in AccountRows
  PROVE  /\ account[k] \in AccountRows
         /\ [account EXCEPT ![k] = rec] \in [Ids -> AccountRows \cup {NoAccount}]
         /\ \A j \in Ids : [account EXCEPT ![k] = rec][j] # NoAccount => account[j] # NoAccount
BY DEF IInv, RowsOK, HasAccount

(* The step of a call that changes one account and returns or goes on.     *)
LEMMA SyncStepOK ==
  ASSUME IInv, NEW s \in Sessions, NEW k \in Ids, HasAccount(k), NEW row \in AccountRows,
         account' = [account EXCEPT ![k] = row], UNCHANGED <<rows, lost>>,
         NEW rec, Go(s, rec), CallOK(rec, Users, Employed),
         DOMAIN call[s].made \subseteq DOMAIN rec.made
  PROVE  IInv'
<1>1. /\ account' \in [Ids -> AccountRows \cup {NoAccount}]
      /\ \A j \in Ids : account'[j] # NoAccount => account[j] # NoAccount
  BY AccountFacts
<1>2. HistoryOK' /\ lost \subseteq lost' BY Zenon DEF IInv, HistoryOK, Go
<1>3. call' = [call EXCEPT ![s] = rec] BY DEF Go
<1> QED BY <1>1, <1>2, <1>3, AccountStep

LEMMA CreateConflictOK ==
  ASSUME IInv, NEW s \in Sessions, NEW k \in Ids, CreateConflict(s, k) PROVE IInv'
<1> DEFINE c == call[s]
           rec == [c EXCEPT !.pc = "enable", !.id = k, !.email = account[k].email,
                            !.todo = @ \ {account[k].email}]
<1>1. CallOK(c, Users, Employed) /\ c \in Calls BY CallFacts
<1>2. /\ c.pc = "account" /\ HasAccount(k) /\ account[k].email \in c.todo
      /\ Go(s, Undo(c)) \/ Go(s, rec)
      /\ UNCHANGED <<account, rows, lost>>
  BY DEF CreateConflict, At
<1>3. /\ rec \in Calls /\ rec.pc = "enable" /\ rec.id = k /\ rec.email \in Emails
      /\ rec.made = c.made /\ rec.kind = c.kind /\ rec.role = c.role /\ rec.did = c.did
      /\ rec.past = c.past
  BY <1>1, <1>2 DEF Calls, Pcs, Options
<1>4. lost' \subseteq Ids BY <1>2 DEF IInv, HistoryOK
<1> HIDE DEF rec, c
<1>5. CallOK(rec, Users, Employed)
  <2>1. Creating(rec) BY <1>1, <1>2, <1>3 DEF CallOK, Creating, Makers
  <2>2. Patching(rec, Users, Employed) BY <1>1, <1>2, <1>3 DEF CallOK, Creating, Patching, Makers
  <2>3. Syncing(rec, Users, Employed) BY <1>3 DEF Syncing
  <2> QED BY <1>3, <2>1, <2>2, <2>3 DEF CallOK
<1>6. CallOK(Undo(c), Users, Employed) /\ DOMAIN Undo(c).made = DOMAIN c.made
  BY <1>1, <1>2, UndoOK
<1>7. CASE Go(s, Undo(c)) BY <1>2, <1>4, <1>6, <1>7, CallStep DEF c
<1>8. CASE Go(s, rec) BY <1>2, <1>3, <1>4, <1>5, <1>8, CallStep DEF c
<1> QED BY <1>2, <1>7, <1>8

LEMMA CreateEnableOK ==
  ASSUME IInv, NEW s \in Sessions, CreateEnable(s) PROVE IInv'
<1> DEFINE c == call[s]
           k == c.id
           rec == [c EXCEPT !.pc = "password"]
           row == [account[k] EXCEPT !.enabled = TRUE]
<1>1. CallOK(c, Users, Employed) /\ c \in Calls BY CallFacts
<1>2. /\ c.pc = "enable" /\ HasAccount(k) /\ Go(s, rec) /\ UNCHANGED <<rows, lost>>
      /\ account' = [account EXCEPT ![k] = row]
  BY DEF CreateEnable, At, GoTo
<1>3. k \in Ids BY <1>1, <1>2 DEF CallOK, Creating
<1>4. account[k] \in AccountRows BY <1>2, <1>3 DEF IInv, RowsOK, HasAccount
<1>5. row \in AccountRows BY <1>4 DEF AccountRows
<1>6. /\ rec \in Calls /\ rec.pc = "password" /\ rec.id = c.id /\ rec.email = c.email
      /\ rec.made = c.made /\ rec.kind = c.kind /\ rec.role = c.role /\ rec.did = c.did
      /\ rec.past = c.past
  BY <1>1 DEF Calls, Pcs
<1> HIDE DEF rec, c, row
<1>7. CallOK(rec, Users, Employed)
  <2>1. Creating(rec) BY <1>1, <1>2, <1>6 DEF CallOK, Creating, Makers
  <2>2. Patching(rec, Users, Employed) BY <1>1, <1>2, <1>6 DEF CallOK, Patching
  <2>3. Syncing(rec, Users, Employed) BY <1>6 DEF Syncing
  <2> QED BY <1>6, <2>1, <2>2, <2>3 DEF CallOK
<1>8. DOMAIN call[s].made \subseteq DOMAIN rec.made BY <1>6 DEF c
<1> HIDE DEF k
<1> QED BY <1>2, <1>3, <1>5, <1>7, <1>8, SyncStepOK

LEMMA CreatePasswordOK ==
  ASSUME IInv, NEW s \in Sessions, CreatePassword(s) PROVE IInv'
<1> DEFINE c == call[s]
           f == With(c.made, c.id, c.email)
           rec == [c EXCEPT !.pc = "role", !.made = f]
<1>1. CallOK(c, Users, Employed) /\ c \in Calls BY CallFacts
<1>2. c.pc = "password" /\ Go(s, rec) /\ UNCHANGED <<account, rows, lost>>
  BY DEF CreatePassword, At
<1>3. c.id \in Ids /\ c.email \in Emails /\ c.made \in Made
  BY <1>1, <1>2 DEF CallOK, Creating, Calls
<1>4. f \in Made /\ DOMAIN f = DOMAIN c.made \cup {c.id} BY <1>3, MadeTypes
<1> HIDE DEF f
<1>5. /\ rec \in Calls /\ rec.pc = "role" /\ rec.id = c.id /\ rec.made = f
      /\ rec.kind = c.kind /\ rec.role = c.role /\ rec.did = c.did /\ rec.past = c.past
  BY <1>1, <1>4 DEF Calls, Pcs
<1>6. lost' \subseteq Ids BY <1>2 DEF IInv, HistoryOK
<1> HIDE DEF rec, c
<1>7. CallOK(rec, Users, Employed)
  <2>1. Creating(rec) BY <1>1, <1>2, <1>3, <1>5 DEF CallOK, Creating, Makers
  <2>2. Patching(rec, Users, Employed) BY <1>1, <1>2, <1>5 DEF CallOK, Patching
  <2>3. Syncing(rec, Users, Employed) BY <1>5 DEF Syncing
  <2> QED BY <1>5, <2>1, <2>2, <2>3 DEF CallOK
<1>8. \A j \in DOMAIN call[s].made : j \in DOMAIN rec.made BY <1>4, <1>5 DEF c
<1> QED BY <1>2, <1>6, <1>7, <1>8, CallStep

LEMMA CreateFailsOK ==
  ASSUME IInv, NEW s \in Sessions, CreateFails(s) PROVE IInv'
<1> DEFINE c == call[s]
<1>1. CallOK(c, Users, Employed) /\ c \in Calls BY CallFacts
<1>2. /\ c.pc \in {"account", "enable", "password"} /\ Go(s, Undo(c))
      /\ UNCHANGED <<account, rows>>
      /\ GivenUp(IF c.pc = "password" THEN {c.id} ELSE {})
  BY DEF CreateFails, At
<1>3. lost \subseteq lost' /\ lost' \subseteq Ids
  <2>1. c.id \in Ids \cup {Null} /\ lost \subseteq Ids BY <1>1 DEF Calls, Options, IInv, HistoryOK
  <2> QED BY <1>2, <2>1 DEF GivenUp
<1> HIDE DEF c
<1>4. CallOK(Undo(c), Users, Employed) /\ DOMAIN Undo(c).made = DOMAIN c.made
  BY <1>1, <1>2, UndoOK
<1>5. \A k \in DOMAIN call[s].made : k \in DOMAIN Undo(c).made BY <1>4 DEF c
<1> QED BY <1>2, <1>3, <1>4, <1>5, CallStep

LEMMA CreateRoleOK ==
  ASSUME IInv, NEW s \in Sessions, CreateRole(s) PROVE IInv'
<1> DEFINE c == call[s]
           k == c.id
           row == [account[k] EXCEPT !.roles = @ \cup {c.role}]
           rec == [c EXCEPT !.pc = IF c.todo = {} THEN "insert" ELSE "account"]
<1>1. CallOK(c, Users, Employed) /\ c \in Calls BY CallFacts
<1>2. /\ c.pc = "role" /\ UNCHANGED <<rows, lost>>
      /\ \/ HasAccount(k) /\ account' = [account EXCEPT ![k] = row] /\ Go(s, rec)
         \/ account' = account /\ Go(s, Undo(c))
  BY DEF CreateRole, At, NextRow
<1>3. k \in Ids /\ c.role \in Roles BY <1>1, <1>2 DEF CallOK, Creating, Makers
<1>4. ASSUME HasAccount(k) PROVE row \in AccountRows
  <2>1. account[k] \in AccountRows BY <1>3, <1>4 DEF IInv, RowsOK, HasAccount
  <2> QED BY <1>3, <2>1 DEF AccountRows
<1>5. /\ rec \in Calls /\ rec.pc \in {"insert", "account"} /\ rec.id = c.id
      /\ rec.made = c.made /\ rec.kind = c.kind /\ rec.role = c.role /\ rec.did = c.did
      /\ rec.past = c.past
  BY <1>1 DEF Calls, Pcs
<1> HIDE DEF rec, row, c
<1>6. CallOK(rec, Users, Employed)
  <2>1. Creating(rec) BY <1>1, <1>2, <1>5 DEF CallOK, Creating, Makers
  <2>2. Patching(rec, Users, Employed) BY <1>1, <1>2, <1>5 DEF CallOK, Patching
  <2>3. Syncing(rec, Users, Employed) BY <1>5 DEF Syncing
  <2> QED BY <1>5, <2>1, <2>2, <2>3 DEF CallOK
<1>7. CallOK(Undo(c), Users, Employed) /\ DOMAIN Undo(c).made = DOMAIN c.made
  BY <1>1, <1>2, UndoOK
<1>8. DOMAIN call[s].made \subseteq DOMAIN rec.made BY <1>5 DEF c
<1>9. \A j \in DOMAIN call[s].made : j \in DOMAIN Undo(c).made BY <1>7 DEF c
<1> HIDE DEF k
<1>10. CASE HasAccount(k) /\ account' = [account EXCEPT ![k] = row] /\ Go(s, rec)
  BY <1>2, <1>3, <1>4, <1>6, <1>8, <1>10, SyncStepOK
<1>11. CASE account' = account /\ Go(s, Undo(c))
  <2>1. lost' \subseteq Ids BY <1>2 DEF IInv, HistoryOK
  <2> QED BY <1>2, <1>7, <1>9, <1>11, <2>1, CallStep
<1> QED BY <1>2, <1>10, <1>11

LEMMA DeleteAccountOK ==
  ASSUME IInv, NEW s \in Sessions, NEW k \in Ids, DeleteAccount(s, k) PROVE IInv'
<1> DEFINE c == call[s]
           f == [j \in DOMAIN c.made \ {k} |-> c.made[j]]
           rest == [c EXCEPT !.made = f]
<1>1. CallOK(c, Users, Employed) /\ c \in Calls BY CallFacts
<1>2. /\ c.pc = "delete" /\ k \in DOMAIN c.made /\ Go(s, Undo(rest)) /\ UNCHANGED rows
      /\ \/ account' = [account EXCEPT ![k] = NoAccount] /\ lost' = lost
         \/ account' = account /\ GivenUp({k})
  BY DEF DeleteAccount, At
<1>3. f \in Made /\ DOMAIN f = DOMAIN c.made \ {k}
  <2>1. c.made \in Made BY <1>1 DEF Calls
  <2> QED BY <2>1, MadeTypes
<1> HIDE DEF f
<1>4. /\ rest \in Calls /\ rest.pc = "delete" /\ rest.id = c.id /\ rest.made = f
      /\ rest.kind = c.kind /\ rest.role = c.role /\ rest.did = c.did /\ rest.past = c.past
  BY <1>1, <1>2, <1>3 DEF Calls, Pcs
<1> HIDE DEF rest, c
<1>5. CallOK(rest, Users, Employed)
  <2>1. Creating(rest) BY <1>4 DEF Creating, Makers
  <2>2. Patching(rest, Users, Employed) BY <1>1, <1>2, <1>4 DEF CallOK, Patching
  <2>3. Syncing(rest, Users, Employed) BY <1>4 DEF Syncing
  <2> QED BY <1>4, <2>1, <2>2, <2>3 DEF CallOK
<1>6. CallOK(Undo(rest), Users, Employed) /\ DOMAIN Undo(rest).made = DOMAIN c.made \ {k}
  BY <1>3, <1>4, <1>5, UndoOK
<1>7. /\ account' \in [Ids -> AccountRows \cup {NoAccount}]
      /\ \A j \in Ids : account'[j] # NoAccount => account[j] # NoAccount
  BY <1>2 DEF IInv, RowsOK
<1>8. lost \subseteq lost' /\ lost' \subseteq Ids
  BY <1>2 DEF IInv, HistoryOK, GivenUp
<1>9. HistoryOK' BY <1>2, <1>8, Zenon DEF IInv, HistoryOK, Go
<1>10. k \in lost' \/ account'[k] = NoAccount
  <2>1. k # Null BY AccountsAssumption
  <2> QED BY <1>2, <2>1 DEF IInv, RowsOK, GivenUp
<1>11. \A j \in DOMAIN call[s].made :
         j \in DOMAIN Undo(rest).made \/ j \in lost' \/ account'[j] = NoAccount
  BY <1>6, <1>10 DEF c
<1>12. call' = [call EXCEPT ![s] = Undo(rest)] BY <1>2 DEF Go
<1> QED BY <1>2, <1>6, <1>7, <1>8, <1>9, <1>11, <1>12, AccountStep

-----------------------------------------------------------------------------
(* Steps that change the tables: rows are added and changed, never taken   *)
(* away.                                                                   *)
LEMMA RowFacts ==
  /\ NoUser \notin UserRows /\ NoEmp \notin EmpRows
  /\ \A u \in UserRows : u # NoUser
  /\ \A e \in EmpRows : e # NoEmp
BY AccountsAssumption DEF NoUser, NoEmp, UserRows, EmpRows

LEMMA RowStep ==
  ASSUME IInv, UNCHANGED <<account, lost>>, HistoryOK', RowsOK', EmailAgrees',
         NEW s \in Sessions, NEW rec, call' = [call EXCEPT ![s] = rec],
         \A k \in Ids : /\ user[k] # NoUser => user'[k] # NoUser
                        /\ emp[k] # NoEmp => emp'[k] # NoEmp,
         CallOK(rec, Users', Employed'),
         \A k \in Ids : k \notin DOMAIN rec.made /\ user[k] # NoUser /\ ~emp[k].deleted
                          => ~emp'[k].deleted,
         \A k \in DOMAIN call[s].made : k \notin DOMAIN rec.made =>
           user'[k] # NoUser /\ ~emp'[k].deleted
  PROVE  IInv'
<1>1. Users \subseteq Users' /\ Employed \subseteq Employed' BY DEF Users, Employed, HasUser
<1>2. ASSUME NEW k \in Ids, account'[k] # NoAccount, k \notin lost', k \notin DOMAIN rec.made,
             \A t \in Sessions \ {s} : k \notin DOMAIN call[t].made
      PROVE  user'[k] # NoUser /\ ~emp'[k].deleted
  <2>1. CASE k \in DOMAIN call[s].made BY <1>2, <2>1
  <2>2. CASE k \notin DOMAIN call[s].made
    <3>1. \A t \in Sessions : k \notin DOMAIN call[t].made BY <1>2, <2>2
    <3>2. HasAccount(k) /\ k \notin lost BY <1>2 DEF HasAccount
    <3>3. user[k] # NoUser /\ ~emp[k].deleted BY <3>1, <3>2 DEF IInv, Owned, HasUser
    <3> QED BY <1>2, <3>3
  <2> QED BY <2>1, <2>2
<1>3. lost \subseteq lost' OBVIOUS
<1> QED BY <1>1, <1>2, <1>3, Preserved

LEMMA CreateInsertOK ==
  ASSUME IInv, NEW s \in Sessions, CreateInsert(s) PROVE IInv'
<1> DEFINE c == call[s]
           ids == DOMAIN c.made
           employees == c.kind = "create"
           NewUser(k) == [email |-> c.made[k], role |-> c.role,
                          active |-> employees, onboarded |-> employees]
           NewEmp(k) == [email |-> c.made[k], active |-> TRUE, deleted |-> FALSE]
           inserts == /\ \A k \in ids : ~HasUser(k)
                      /\ user' = [k \in Ids |-> IF k \notin ids THEN user[k] ELSE NewUser(k)]
                      /\ emp' = [k \in Ids |-> IF employees /\ k \in ids THEN NewEmp(k) ELSE emp[k]]
                      /\ Return(s)
<1>1. CallOK(c, Users, Employed) /\ c \in Calls BY CallFacts
<1>2. /\ c.pc = "insert" /\ UNCHANGED <<account, lost>>
      /\ inserts \/ (UNCHANGED rows /\ Go(s, Undo(c)))
  BY DEF CreateInsert, At, AfterFailedInsert
<1>3. ASSUME inserts PROVE IInv'
  <2>1. \A k \in ids : k \in Ids /\ c.made[k] \in Emails
    <3>1. c.made \in Made BY <1>1 DEF Calls
    <3> QED BY <3>1, MadeTypes
  <2>2. c.role \in Roles BY <1>1, <1>2 DEF CallOK, Creating, Makers
  <2>3. \A k \in ids : NewUser(k) \in UserRows /\ NewEmp(k) \in EmpRows
    BY <2>1, <2>2 DEF UserRows, EmpRows
  <2>4. RowsOK'
    BY <1>2, <1>3, <2>3 DEF IInv, RowsOK
  <2>5. EmailAgrees'
    <3> SUFFICES ASSUME NEW k \in Ids, emp'[k] # NoEmp
                 PROVE  user'[k] # NoUser /\ emp'[k].email = user'[k].email
      BY DEF EmailAgrees, HasUser
    <3>1. CASE k \in ids
      <4>1. user'[k] = NewUser(k) /\ user'[k] # NoUser BY <1>3, <2>3, <3>1, RowFacts
      <4>2. emp[k] = NoEmp BY <1>3, <3>1 DEF IInv, EmailAgrees
      <4>3. emp'[k] = NewEmp(k) BY <1>3, <3>1, <4>2
      <4> QED BY <4>1, <4>3
    <3>2. CASE k \notin ids BY <1>3, <3>2 DEF IInv, EmailAgrees, HasUser
    <3> QED BY <3>1, <3>2
  <2>6. \A k \in Ids : /\ user[k] # NoUser => user'[k] # NoUser
                       /\ emp[k] # NoEmp => emp'[k] # NoEmp
    BY <1>3, <2>3, RowFacts
  <2>7. \A k \in Ids : user[k] # NoUser /\ ~emp[k].deleted => ~emp'[k].deleted
    BY <1>3
  <2>8. ASSUME NEW k \in ids PROVE user'[k] # NoUser /\ ~emp'[k].deleted
    <3>1. user'[k] # NoUser BY <1>3, <2>1, <2>3, RowFacts
    <3>2. emp[k] = NoEmp BY <1>3, <2>1 DEF IInv, EmailAgrees
    <3>3. emp'[k] = NoEmp \/ emp'[k] = NewEmp(k) BY <1>3, <2>1, <3>2
    <3> QED BY <3>1, <3>3 DEF NoEmp
  <2>9. call' = [call EXCEPT ![s] = Idle] /\ started' = started /\ overlapped' = overlapped
    BY <1>3 DEF Return, Go
  <2>10. HistoryOK' BY <1>2, <2>9, Zenon DEF IInv, HistoryOK
  <2>11. CallOK(Idle, Users', Employed') /\ DOMAIN Idle.made = {} BY IdleOK
  <2> HIDE DEF Idle
  <2> QED BY <1>2, <2>4, <2>5, <2>6, <2>7, <2>8, <2>9, <2>10, <2>11, RowStep
<1>4. ASSUME UNCHANGED rows, Go(s, Undo(c)) PROVE IInv'
  <2>1. CallOK(Undo(c), Users, Employed) /\ DOMAIN Undo(c).made = DOMAIN c.made
    BY <1>1, <1>2, UndoOK
  <2>2. lost' \subseteq Ids /\ lost \subseteq lost' BY <1>2 DEF IInv, HistoryOK
  <2> QED BY <1>2, <1>4, <2>1, <2>2, CallStep
<1> QED BY <1>2, <1>3, <1>4

LEMMA DeleteEmployeeOK ==
  ASSUME IInv, NEW s \in Sessions, NEW k \in Ids, DeleteEmployee(s, k) PROVE IInv'
<1> DEFINE f == [j \in {k} |-> emp[k].email]
           rec == [Idle EXCEPT !.kind = "delete", !.pc = "delete", !.id = k, !.made = f]
<1>1. /\ emp[k] # NoEmp /\ call[s] = Idle /\ call' = [call EXCEPT ![s] = rec]
      /\ user' = [user EXCEPT ![k].active = FALSE] /\ emp' = [emp EXCEPT ![k].deleted = TRUE]
      /\ UNCHANGED <<account, lost>>
  BY DEF DeleteEmployee, Live
<1>2. started' \in 0..MaxCalls BY AccountsAssumption DEF DeleteEmployee, IInv, HistoryOK
<1>3. overlapped' \in BOOLEAN BY Zenon DEF DeleteEmployee, IInv, HistoryOK
<1>4. HistoryOK' BY <1>1, <1>2, <1>3, Zenon DEF IInv, HistoryOK
<1>5. user[k] # NoUser /\ emp[k].email = user[k].email BY <1>1 DEF IInv, EmailAgrees, HasUser
<1>6. user[k] \in UserRows /\ emp[k] \in EmpRows BY <1>1, <1>5 DEF IInv, RowsOK
<1>7. /\ [user[k] EXCEPT !.active = FALSE] \in UserRows /\ [emp[k] EXCEPT !.deleted = TRUE] \in EmpRows
      /\ [user[k] EXCEPT !.active = FALSE].email = user[k].email
      /\ [emp[k] EXCEPT !.deleted = TRUE].email = emp[k].email
  BY <1>6 DEF UserRows, EmpRows
<1>8. /\ user'[k] \in UserRows /\ emp'[k] \in EmpRows /\ user'[k].email = user[k].email
      /\ emp'[k].email = emp[k].email
      /\ \A j \in Ids \ {k} : user'[j] = user[j] /\ emp'[j] = emp[j]
  BY <1>1, <1>7 DEF IInv, RowsOK
<1>9. RowsOK' BY <1>1, <1>7 DEF IInv, RowsOK
<1>10. EmailAgrees'
  <2> SUFFICES ASSUME NEW j \in Ids, emp'[j] # NoEmp
               PROVE  user'[j] # NoUser /\ emp'[j].email = user'[j].email
    BY DEF EmailAgrees, HasUser
  <2>1. CASE j = k BY <1>5, <1>8, <2>1, RowFacts
  <2>2. CASE j # k BY <1>8, <2>2 DEF IInv, EmailAgrees, HasUser
  <2> QED BY <2>1, <2>2
<1>11. f \in Made /\ DOMAIN f = {k} BY <1>6, MadeTypes DEF EmpRows
<1>12. Idle \in Calls /\ Idle.did = {} /\ DOMAIN Idle.made = {} BY IdleOK DEF Idle
<1> HIDE DEF f, Idle
<1>13. rec \in Calls /\ rec.kind = "delete" /\ rec.pc = "delete" /\ rec.made = f /\ rec.did = {}
  BY <1>11, <1>12 DEF Calls, Pcs, Options
<1> HIDE DEF rec
<1>14. CallOK(rec, Users', Employed')
  BY <1>13 DEF CallOK, Creating, Patching, Syncing, Makers
<1>15. \A j \in Ids : /\ user[j] # NoUser => user'[j] # NoUser
                      /\ emp[j] # NoEmp => emp'[j] # NoEmp
  BY <1>8, RowFacts
<1>16. \A j \in Ids : j \notin DOMAIN rec.made /\ user[j] # NoUser /\ ~emp[j].deleted => ~emp'[j].deleted
  BY <1>8, <1>11, <1>13
<1>17. DOMAIN call[s].made = {} BY <1>1, <1>12
<1> QED BY <1>1, <1>4, <1>9, <1>10, <1>14, <1>15, <1>16, <1>17, RowStep

(* The row of one user changes in anything but its e-mail.                 *)
LEMMA UserRowStep ==
  ASSUME IInv, NEW s \in Sessions, NEW k \in Ids, NEW row \in UserRows, user[k] # NoUser,
         row.email = user[k].email, user' = [user EXCEPT ![k] = row],
         UNCHANGED <<account, emp, lost>>, NEW rec, Go(s, rec), CallOK(rec, Users, Employed),
         DOMAIN call[s].made = {}
  PROVE  IInv'
<1>1. /\ user'[k] = row /\ row # NoUser /\ emp' = emp
      /\ \A j \in Ids \ {k} : user'[j] = user[j]
  BY RowFacts DEF IInv, RowsOK
<1>2. RowsOK' BY DEF IInv, RowsOK
<1>3. EmailAgrees'
  <2> SUFFICES ASSUME NEW j \in Ids, emp[j] # NoEmp
               PROVE  user'[j] # NoUser /\ emp[j].email = user'[j].email
    BY <1>1 DEF EmailAgrees, HasUser
  <2>1. user[j] # NoUser /\ emp[j].email = user[j].email BY DEF IInv, EmailAgrees, HasUser
  <2>2. CASE j = k BY <1>1, <2>1, <2>2
  <2>3. CASE j # k BY <1>1, <2>1, <2>3
  <2> QED BY <2>2, <2>3
<1>4. HistoryOK' BY Zenon DEF IInv, HistoryOK, Go
<1>5. \A j \in Ids : user[j] # NoUser => user'[j] # NoUser BY <1>1
<1>6. Users \subseteq Users' /\ Employed \subseteq Employed' BY <1>1, <1>5 DEF Users, Employed, HasUser
<1>7. CallOK(rec, Users', Employed') BY <1>6, CallKeeps
<1>8. call' = [call EXCEPT ![s] = rec] BY DEF Go
<1> QED BY <1>1, <1>2, <1>3, <1>4, <1>5, <1>7, <1>8, RowStep

LEMMA UpdateRowOK ==
  ASSUME IInv, NEW s \in Sessions, UpdateRow(s) PROVE IInv'
<1> DEFINE c == call[s]
           k == c.id
           row == [user[k] EXCEPT !.role = IF c.kind = "block" THEN @ ELSE c.role,
                                  !.active = IF c.kind = "block" THEN c.active ELSE @]
           rec == [c EXCEPT !.pc = IF c.kind = "block" THEN "enabled" ELSE "role.remove"]
<1>1. CallOK(c, Users, Employed) /\ c \in Calls BY CallFacts
<1>2. /\ c.pc = "row" /\ UNCHANGED <<account, emp, lost>> /\ Go(s, rec)
      /\ user' = [user EXCEPT ![k].role = IF c.kind = "block" THEN @ ELSE c.role,
                              ![k].active = IF c.kind = "block" THEN c.active ELSE @]
  BY DEF UpdateRow, At, GoTo
<1>3. k \in Ids /\ user[k] # NoUser BY <1>1, <1>2 DEF CallOK, Syncing, Users, HasUser
<1>4. user[k] \in UserRows BY <1>3 DEF IInv, RowsOK
<1>5. IF c.kind = "block" THEN c.active \in BOOLEAN ELSE c.role \in Roles
  BY <1>1, <1>2 DEF CallOK, Syncing
<1>6. row \in UserRows /\ row.email = user[k].email BY <1>4, <1>5 DEF UserRows
<1>7. user' = [user EXCEPT ![k] = row] BY <1>2, <1>3, <1>4 DEF IInv, RowsOK, UserRows
<1>8. /\ rec \in Calls /\ rec.pc = IF c.kind = "block" THEN "enabled" ELSE "role.remove"
      /\ rec.id = c.id /\ rec.made = c.made /\ rec.kind = c.kind /\ rec.role = c.role
      /\ rec.did = c.did /\ rec.past = c.past /\ rec.active = c.active
  BY <1>1 DEF Calls, Pcs
<1>9. DOMAIN c.made = {} BY <1>1, <1>2 DEF CallOK, Creating, Makers
<1> HIDE DEF rec, row, c
<1>10. CallOK(rec, Users, Employed)
  <2>1. Creating(rec) BY <1>8, <1>9 DEF Creating, Makers
  <2>2. Patching(rec, Users, Employed) BY <1>1, <1>2, <1>8 DEF CallOK, Patching
  <2>3. Syncing(rec, Users, Employed) BY <1>3, <1>5, <1>8 DEF Syncing
  <2> QED BY <1>8, <2>1, <2>2, <2>3 DEF CallOK
<1>11. DOMAIN call[s].made = {} BY <1>9 DEF c
<1> HIDE DEF k
<1> QED BY <1>2, <1>3, <1>6, <1>7, <1>10, <1>11, UserRowStep

LEMMA ActivateOK ==
  ASSUME IInv, NEW s \in Sessions, Activate(s) PROVE IInv'
<1> DEFINE c == call[s]
           k == c.id
           row == [user[k] EXCEPT !.active = TRUE, !.onboarded = TRUE]
<1>1. CallOK(c, Users, Employed) /\ c \in Calls BY CallFacts
<1>2. /\ c.pc = "activate" /\ UNCHANGED <<account, emp, lost>> /\ Go(s, Idle)
      /\ user' = [user EXCEPT ![k].active = TRUE, ![k].onboarded = TRUE]
  BY DEF Activate, At, Return
<1>3. k \in Ids /\ user[k] # NoUser BY <1>1, <1>2 DEF CallOK, Syncing, Users, HasUser
<1>4. user[k] \in UserRows BY <1>3 DEF IInv, RowsOK
<1>5. row \in UserRows /\ row.email = user[k].email BY <1>4 DEF UserRows
<1>6. user' = [user EXCEPT ![k] = row] BY <1>2, <1>3, <1>4 DEF IInv, RowsOK, UserRows
<1>7. DOMAIN c.made = {} BY <1>1, <1>2 DEF CallOK, Creating, Makers
<1> HIDE DEF row, k, Idle
<1> QED BY <1>2, <1>3, <1>5, <1>6, <1>7, IdleOK, UserRowStep

(* PatchEmployee writes the e-mail to both rows or to none.                *)
LEMMA PatchSaveOK ==
  ASSUME IInv, NEW s \in Sessions, PatchSave(s) PROVE IInv'
<1> DEFINE c == call[s]
           k == c.id
           u == [user[k] EXCEPT !.email = IF c.email # Null THEN c.email ELSE @,
                                !.active = IF Changed(c.active, c.past.active) THEN c.active ELSE @,
                                !.role = IF "role" \in c.did THEN c.role ELSE @]
           e == [emp[k] EXCEPT !.email = IF c.email = Null THEN @ ELSE c.email,
                               !.active = IF c.active = Null THEN @ ELSE c.active]
<1>1. CallOK(c, Users, Employed) /\ c \in Calls BY CallFacts
<1>2. c.pc = "save" /\ UNCHANGED <<account, lost>> /\ Go(s, Idle)
  BY DEF PatchSave, At, Return
<1>3. k \in Ids /\ emp[k] # NoEmp BY <1>1, <1>2 DEF CallOK, Patching, Employed
<1>4. user[k] # NoUser /\ emp[k].email = user[k].email BY <1>3 DEF IInv, EmailAgrees, HasUser
<1>5. user[k] \in UserRows /\ emp[k] \in EmpRows BY <1>3, <1>4 DEF IInv, RowsOK
<1>6. user' = [user EXCEPT ![k] = u]
  BY <1>3, <1>5 DEF PatchSave, UserEmailSaved, IInv, RowsOK, UserRows
<1>7. emp' = [emp EXCEPT ![k] = e]
  BY <1>3, <1>5 DEF PatchSave, IInv, RowsOK, EmpRows
<1>8. /\ c.email \in Emails \cup {Null} /\ c.active \in BOOLEAN \cup {Null}
      /\ "role" \in c.did => c.role \in Roles
  BY <1>1 DEF CallOK, Patching, Calls, Options
<1>9. Changed(c.active, c.past.active) => c.active \in BOOLEAN BY <1>8 DEF Changed
<1>10. u \in UserRows /\ u.email = IF c.email # Null THEN c.email ELSE user[k].email
  BY <1>5, <1>8, <1>9 DEF UserRows
<1>11. /\ e \in EmpRows /\ e.email = (IF c.email = Null THEN emp[k].email ELSE c.email)
       /\ e.deleted = emp[k].deleted
  BY <1>5, <1>8 DEF EmpRows
<1>12. DOMAIN c.made = {} BY <1>1, <1>2 DEF CallOK, Creating, Makers
<1>13. e.email = u.email BY <1>4, <1>10, <1>11
<1> HIDE DEF u, e, k, c, Idle
<1>14. /\ user'[k] = u /\ emp'[k] = e
       /\ \A j \in Ids \ {k} : user'[j] = user[j] /\ emp'[j] = emp[j]
  BY <1>3, <1>6, <1>7 DEF IInv, RowsOK
<1>15. RowsOK' BY <1>2, <1>6, <1>7, <1>10, <1>11 DEF IInv, RowsOK
<1>16. u # NoUser /\ e # NoEmp BY <1>10, <1>11, RowFacts
<1>17. EmailAgrees'
  <2> SUFFICES ASSUME NEW j \in Ids, emp'[j] # NoEmp
               PROVE  user'[j] # NoUser /\ emp'[j].email = user'[j].email
    BY DEF EmailAgrees, HasUser
  <2>1. CASE j = k BY <1>13, <1>14, <1>16, <2>1
  <2>2. CASE j # k BY <1>14, <2>2 DEF IInv, EmailAgrees, HasUser
  <2> QED BY <2>1, <2>2
<1>18. \A j \in Ids : /\ user[j] # NoUser => user'[j] # NoUser
                      /\ emp[j] # NoEmp => emp'[j] # NoEmp
                      /\ emp'[j].deleted = emp[j].deleted
  BY <1>11, <1>14, <1>16
<1>19. HistoryOK' BY <1>2, Zenon DEF IInv, HistoryOK, Go
<1>20. CallOK(Idle, Users', Employed') /\ DOMAIN call[s].made = {} BY <1>12, IdleOK DEF c
<1>21. call' = [call EXCEPT ![s] = Idle] BY <1>2 DEF Go
<1> QED BY <1>2, <1>15, <1>17, <1>18, <1>19, <1>20, <1>21, RowStep

LEMMA InsertUserOK ==
  ASSUME IInv, NEW k \in Ids, NEW role \in Roles, InsertUser(k, role) PROVE IInv'
<1> DEFINE u == [email |-> account[k].email, role |-> role, active |-> TRUE, onboarded |-> TRUE]
<1>1. /\ HasAccount(k) /\ user[k] = NoUser /\ user' = [user EXCEPT ![k] = u]
      /\ UNCHANGED <<account, emp, call, started, overlapped, lost>>
  BY DEF InsertUser, HasUser
<1>2. account[k] \in AccountRows BY <1>1 DEF HasAccount, IInv, RowsOK
<1>3. u \in UserRows BY <1>2 DEF AccountRows, UserRows
<1>4. u # NoUser BY <1>3, RowFacts
<1> HIDE DEF u
<1>5. user'[k] = u /\ \A j \in Ids \ {k} : user'[j] = user[j] BY <1>1 DEF IInv, RowsOK
<1>6. RowsOK' BY <1>1, <1>3 DEF IInv, RowsOK
<1>7. HistoryOK' BY <1>1, Zenon DEF IInv, HistoryOK
<1>8. EmailAgrees'
  <2> SUFFICES ASSUME NEW j \in Ids, emp[j] # NoEmp
               PROVE  user'[j] # NoUser /\ emp[j].email = user'[j].email
    BY <1>1 DEF EmailAgrees, HasUser
  <2>1. j # k BY <1>1 DEF IInv, EmailAgrees, HasUser
  <2> QED BY <1>5, <2>1 DEF IInv, EmailAgrees, HasUser
<1>9. \A j \in Ids : user[j] # NoUser => user'[j] # NoUser BY <1>1, <1>5
<1>10. Users \subseteq Users' /\ Employed \subseteq Employed'
  BY <1>1, <1>9 DEF Users, Employed, HasUser
<1>11. CallsOK'
  <2>1. \A s \in Sessions : CallOK(call[s], Users, Employed) BY DEF IInv, CallsOK
  <2>2. \A s \in Sessions : CallOK(call[s], Users', Employed') BY <1>10, <2>1, CallKeeps
  <2>3. call' = call BY <1>1
  <2>4. DOMAIN call' = Sessions /\ call' = [s \in Sessions |-> call'[s]]
    BY <2>3 DEF IInv, CallsOK
  <2>5. ASSUME NEW s \in Sessions PROVE CallOK(call'[s], Users', Employed')
    BY <2>2, <2>3, Zenon
  <2> QED BY <2>4, <2>5, Zenon DEF CallsOK, CallOK, Creating, Patching, Syncing
<1>12. Owned'
  <2> SUFFICES ASSUME NEW j \in Ids, account[j] # NoAccount, j \notin lost,
                      \A s \in Sessions : j \notin DOMAIN call[s].made
               PROVE  user'[j] # NoUser /\ ~emp[j].deleted
    BY <1>1 DEF Owned, HasAccount, HasUser
  <2>1. user[j] # NoUser /\ ~emp[j].deleted BY DEF IInv, Owned, HasAccount, HasUser
  <2> QED BY <1>9, <2>1
<1> QED BY <1>6, <1>7, <1>8, <1>11, <1>12 DEF IInv
-----------------------------------------------------------------------------
(* PatchEmployee, up to its last statement.                                *)
LEMMA PatchCheckOK ==
  ASSUME IInv, NEW s \in Sessions, NEW k \in Ids, NEW p \in Patches, PatchCheck(s, k, p)
  PROVE  IInv'
<1> DEFINE rec == [Idle EXCEPT !.kind = "patch", !.pc = "read", !.id = k, !.email = p.email,
                               !.role = p.role, !.active = p.active, !.other = p.other]
<1>1. Start(s, rec) /\ emp[k] # NoEmp BY DEF PatchCheck, Live
<1>2. /\ p.email \in Options(Emails) /\ p.role \in Options(Roles)
      /\ p.active \in Options(BOOLEAN) /\ p.other \in BOOLEAN
  <2>1. p \in [email : Emails \cup {Null}, role : Roles \cup {Null},
               active : BOOLEAN \cup {Null}, other : BOOLEAN]
    BY AccountsAssumption
  <2> QED BY <2>1 DEF Options
<1>3. Idle \in Calls /\ Idle.did = {} /\ DOMAIN Idle.made = {} BY IdleOK DEF Idle
<1> HIDE DEF Idle
<1>4. /\ rec \in Calls /\ rec.kind = "patch" /\ rec.pc = "read" /\ rec.id = k
      /\ rec.made = Idle.made /\ rec.did = {}
  BY <1>2, <1>3 DEF Calls, Pcs, Options
<1> HIDE DEF rec
<1>5. k \in Employed BY <1>1 DEF Employed
<1>6. CallOK(rec, Users, Employed)
  BY <1>3, <1>4, <1>5 DEF CallOK, Creating, Patching, Syncing, Makers
<1> QED BY <1>1, <1>6, Started

LEMMA PatchReadOK ==
  ASSUME IInv, NEW s \in Sessions, PatchRead(s) PROVE IInv'
<1> DEFINE c == call[s]
           k == c.id
           past == [email |-> user[k].email, role |-> user[k].role, active |-> emp[k].active]
           read == [c EXCEPT !.past = past]
           next == IF Changed(c.role, read.past.role) THEN "role.remove" ELSE AfterRole(read)
           rec == [read EXCEPT !.pc = next]
<1>1. CallOK(c, Users, Employed) /\ c \in Calls BY CallFacts
<1>2. c.pc = "read" /\ UNCHANGED <<account, rows, lost>> /\ Go(s, rec)
  BY DEF PatchRead, At
<1>3. c.kind = "patch" /\ k \in Ids /\ emp[k] # NoEmp
  BY <1>1, <1>2 DEF CallOK, Patching, Employed
<1>4. user[k] # NoUser BY <1>3 DEF IInv, EmailAgrees, HasUser
<1>5. user[k] \in UserRows /\ emp[k] \in EmpRows BY <1>3, <1>4 DEF IInv, RowsOK
<1>6. past.email \in Emails /\ past.role \in Roles /\ past.active \in BOOLEAN /\ past \in Profiles
  BY <1>5 DEF UserRows, EmpRows, Profiles, Options
<1> HIDE DEF past
<1>7. read \in Calls /\ read.past = past BY <1>1, <1>6 DEF Calls
<1>8. next \in {"role.remove", "profile.get", "save"} BY DEF AfterRole
<1>9. next = "role.remove" => c.role \in Roles
  <2>1. c.role \in Roles \cup {Null} BY <1>1 DEF Calls, Options
  <2>2. Changed(c.role, read.past.role) => c.role \in Roles BY <2>1 DEF Changed
  <2> QED BY <2>2 DEF AfterRole
<1> HIDE DEF next
<1>10. /\ rec \in Calls /\ rec.pc = next /\ rec.id = c.id /\ rec.made = c.made
       /\ rec.kind = c.kind /\ rec.role = c.role /\ rec.did = c.did /\ rec.past = past
  BY <1>1, <1>6, <1>8 DEF Calls, Pcs
<1>11. lost' \subseteq Ids BY <1>2 DEF IInv, HistoryOK
<1> HIDE DEF rec, read, c
<1>12. CallOK(rec, Users, Employed)
  <2>1. Creating(rec) BY <1>1, <1>2, <1>8, <1>10 DEF CallOK, Creating, Makers
  <2>2. Patching(rec, Users, Employed)
    BY <1>1, <1>2, <1>3, <1>6, <1>10 DEF CallOK, Patching
  <2>3. Syncing(rec, Users, Employed) BY <1>3, <1>8, <1>9, <1>10 DEF Syncing
  <2> QED BY <1>10, <2>1, <2>2, <2>3 DEF CallOK
<1>13. \A j \in DOMAIN call[s].made : j \in DOMAIN rec.made BY <1>10 DEF c
<1> QED BY <1>2, <1>11, <1>12, <1>13, CallStep

LEMMA PatchRoleOK ==
  ASSUME IInv, NEW s \in Sessions, PatchRole(s) PROVE IInv'
<1> DEFINE c == call[s]
           rec == [c EXCEPT !.pc = AfterRole(c), !.did = @ \cup {"role"}]
<1>1. CallOK(c, Users, Employed) /\ c \in Calls BY CallFacts
<1>2. c.pc = "role.save" /\ UNCHANGED <<account, rows, lost>> /\ Go(s, rec)
  BY DEF PatchRole, At
<1>3. /\ c.kind = "patch" /\ c.id \in Employed /\ c.id \in Ids /\ c.role \in Roles
  BY <1>1, <1>2 DEF CallOK, Patching, Syncing, Employed
<1>4. AfterRole(c) \in {"profile.get", "save"} BY DEF AfterRole
<1>5. /\ rec \in Calls /\ rec.pc = AfterRole(c) /\ rec.id = c.id /\ rec.made = c.made
      /\ rec.kind = c.kind /\ rec.role = c.role /\ rec.did = c.did \cup {"role"}
      /\ rec.past = c.past
  BY <1>1, <1>4 DEF Calls, Pcs
<1>6. lost' \subseteq Ids BY <1>2 DEF IInv, HistoryOK
<1> HIDE DEF rec, c
<1>7. CallOK(rec, Users, Employed)
  <2>1. Creating(rec) BY <1>1, <1>2, <1>4, <1>5 DEF CallOK, Creating, Makers
  <2>2. Patching(rec, Users, Employed) BY <1>1, <1>2, <1>3, <1>5 DEF CallOK, Patching
  <2>3. Syncing(rec, Users, Employed) BY <1>3, <1>4, <1>5 DEF Syncing
  <2> QED BY <1>5, <2>1, <2>2, <2>3 DEF CallOK
<1>8. \A j \in DOMAIN call[s].made : j \in DOMAIN rec.made BY <1>5 DEF c
<1> QED BY <1>2, <1>6, <1>7, <1>8, CallStep

(* What is taken back is what was read: an e-mail, a role, a flag.         *)
LEMMA PatchFailsOK ==
  ASSUME IInv, NEW s \in Sessions, PatchFails(s) PROVE IInv'
<1> DEFINE c == call[s]
           did == c.did \cup (IF c.pc = "role.save" THEN {"role"} ELSE {})
           b == [c EXCEPT !.did = did]
           pc == IF "role" \in b.did THEN "role.remove" ELSE
                 IF "profile" \in b.did THEN "profile.get" ELSE "idle"
           rec == [b EXCEPT !.undo = TRUE, !.email = b.past.email, !.role = b.past.role,
                            !.active = b.past.active, !.pc = pc]
<1>1. CallOK(c, Users, Employed) /\ c \in Calls BY CallFacts
<1>2. /\ c.pc \in {"role.save", "save"} /\ c.kind = "patch" /\ UNCHANGED <<account, rows, lost>>
      /\ Go(s, Restored(b))
  BY DEF PatchFails
<1>3. /\ c.id \in Employed /\ c.id \in Ids /\ DOMAIN c.made = {}
      /\ c.past.email \in Emails /\ c.past.role \in Roles /\ c.past.active \in BOOLEAN
  BY <1>1, <1>2 DEF CallOK, Creating, Patching, Employed, Makers
<1>4. did \in SUBSET {"role", "profile"} BY <1>1 DEF Calls
<1> HIDE DEF did
<1>5. b \in Calls /\ b.did = did /\ b.past = c.past /\ b.made = c.made /\ b.id = c.id /\ b.kind = c.kind
  BY <1>1, <1>4 DEF Calls
<1>6. pc \in {"role.remove", "profile.get", "idle"} OBVIOUS
<1>7. Restore(b) = rec BY DEF Restore, ToRestore
<1> HIDE DEF b, pc
<1>8. /\ rec \in Calls /\ rec.pc = pc /\ rec.id = c.id /\ rec.made = c.made /\ rec.kind = c.kind
      /\ rec.role = c.past.role /\ rec.past = c.past
  BY <1>3, <1>5, <1>6 DEF Calls, Pcs, Options
<1>9. lost' \subseteq Ids /\ lost \subseteq lost' BY <1>2 DEF IInv, HistoryOK
<1> HIDE DEF rec, c
<1>10. CallOK(rec, Users, Employed)
  <2>1. Creating(rec) BY <1>3, <1>6, <1>8 DEF Creating, Makers
  <2>2. Patching(rec, Users, Employed) BY <1>2, <1>3, <1>6, <1>8 DEF Patching
  <2>3. Syncing(rec, Users, Employed) BY <1>3, <1>6, <1>8 DEF Syncing
  <2> QED BY <1>8, <2>1, <2>2, <2>3 DEF CallOK
<1>11. CallOK(Restored(b), Users, Employed)
  <2>1. Restored(b) = IF rec.pc = "idle" THEN Idle ELSE rec BY <1>7 DEF Restored
  <2> QED BY <1>10, <2>1, IdleOK, Zenon
<1>12. \A j \in DOMAIN call[s].made : j \in DOMAIN Restored(b).made BY <1>3 DEF c
<1> QED BY <1>2, <1>9, <1>11, <1>12, CallStep

-----------------------------------------------------------------------------
(* The handlers of users, and the calls of Keycloak they share with        *)
(* PatchEmployee.                                                          *)
LEMMA UserCallOK ==
  ASSUME IInv, NEW s \in Sessions, NEW k \in Ids, NEW role \in Roles, NEW active \in BOOLEAN,
         \/ AssignRole(s, k, role) \/ RemoveRole(s, k) \/ SetActive(s, k, active)
         \/ FirstLogin(s, k)
  PROVE  IInv'
<1> DEFINE assign == [Idle EXCEPT !.kind = "assign", !.pc = "row", !.id = k, !.role = role]
           remove == [Idle EXCEPT !.kind = "remove", !.pc = "row", !.id = k, !.role = "EMP"]
           block == [Idle EXCEPT !.kind = "block", !.pc = "row", !.id = k, !.active = active]
           login == [Idle EXCEPT !.kind = "login", !.pc = "activate", !.id = k]
<1>1. k \in Users BY DEF AssignRole, RemoveRole, SetActive, FirstLogin, Users
<1>2. \/ Start(s, assign) \/ Start(s, remove) \/ Start(s, block) \/ Start(s, login)
  BY DEF AssignRole, RemoveRole, SetActive, FirstLogin
<1>3. Idle \in Calls /\ Idle.did = {} /\ DOMAIN Idle.made = {} BY IdleOK DEF Idle
<1>4. "EMP" \in Roles BY AccountsAssumption
<1> HIDE DEF Idle
<1>5. /\ assign \in Calls /\ assign.kind = "assign" /\ assign.pc = "row" /\ assign.id = k
      /\ assign.role = role /\ assign.made = Idle.made /\ assign.did = {}
  BY <1>3 DEF Calls, Pcs, Options
<1>6. /\ remove \in Calls /\ remove.kind = "remove" /\ remove.pc = "row" /\ remove.id = k
      /\ remove.role = "EMP" /\ remove.made = Idle.made /\ remove.did = {}
  BY <1>3, <1>4 DEF Calls, Pcs, Options
<1>7. /\ block \in Calls /\ block.kind = "block" /\ block.pc = "row" /\ block.id = k
      /\ block.active = active /\ block.made = Idle.made /\ block.did = {}
  BY <1>3 DEF Calls, Pcs, Options
<1>8. /\ login \in Calls /\ login.kind = "login" /\ login.pc = "activate" /\ login.id = k
      /\ login.made = Idle.made /\ login.did = {}
  BY <1>3 DEF Calls, Pcs, Options
<1> HIDE DEF assign, remove, block, login
<1>9. CallOK(assign, Users, Employed)
  BY <1>1, <1>3, <1>5 DEF CallOK, Creating, Patching, Syncing, Makers
<1>10. CallOK(remove, Users, Employed)
  BY <1>1, <1>3, <1>4, <1>6 DEF CallOK, Creating, Patching, Syncing, Makers
<1>11. CallOK(block, Users, Employed)
  BY <1>1, <1>3, <1>7 DEF CallOK, Creating, Patching, Syncing, Makers
<1>12. CallOK(login, Users, Employed)
  BY <1>1, <1>3, <1>8 DEF CallOK, Creating, Patching, Syncing, Makers
<1> QED BY <1>2, <1>9, <1>10, <1>11, <1>12, Started

(* The record of a call that only goes on somewhere else.                  *)
LEMMA Moved ==
  ASSUME NEW c \in Calls, NEW pc \in Pcs
  PROVE  LET rec == [c EXCEPT !.pc = pc] IN
         /\ rec \in Calls /\ rec.pc = pc /\ rec.id = c.id /\ rec.made = c.made /\ rec.kind = c.kind
         /\ rec.role = c.role /\ rec.past = c.past /\ rec.did = c.did /\ rec.rep = c.rep
BY DEF Calls

SyncPcs == {"enabled", "role.remove", "role.add", "profile.get", "profile.put"}

LEMMA SyncFacts ==
  ASSUME IInv, NEW s \in Sessions, call[s].pc \in SyncPcs
  PROVE  /\ CallOK(call[s], Users, Employed) /\ call[s] \in Calls /\ call[s].id \in Ids
         /\ DOMAIN call[s].made = {}
BY CallFacts DEF CallOK, Creating, Syncing, Makers, SyncPcs

(* Where a call goes after the role: it returns or writes the profile.     *)
LEMMA RoleDoneOK ==
  ASSUME NEW c, NEW users, NEW employed, CallOK(c, users, employed),
         c.pc \in {"role.remove", "role.add"}, DOMAIN c.made = {}
  PROVE  CallOK(RoleDone(c), users, employed)
<1> DEFINE save == [c EXCEPT !.pc = "role.save"]
           get == [c EXCEPT !.pc = "profile.get"]
<1>0. "role.save" \in Pcs /\ "profile.get" \in Pcs BY DEF Pcs
<1>1. c \in Calls /\ c.role \in Roles /\ c.id \in Ids BY DEF CallOK, Syncing
<1>2. /\ save \in Calls /\ save.pc = "role.save" /\ save.id = c.id /\ save.made = c.made
      /\ save.kind = c.kind /\ save.role = c.role /\ save.past = c.past /\ save.did = c.did
      /\ get \in Calls /\ get.pc = "profile.get" /\ get.id = c.id /\ get.made = c.made
      /\ get.kind = c.kind /\ get.role = c.role /\ get.past = c.past /\ get.did = c.did
  BY <1>1, <1>0 DEF Calls
<1> HIDE DEF save, get
<1>3. ASSUME c.kind = "patch" PROVE CallOK(save, users, employed)
  <2>1. Creating(save) BY <1>2 DEF Creating, Makers
  <2>2. Patching(save, users, employed) BY <1>2, <1>3 DEF CallOK, Patching
  <2>3. Syncing(save, users, employed) BY <1>1, <1>2 DEF Syncing
  <2> QED BY <1>2, <2>1, <2>2, <2>3 DEF CallOK
<1>4. CallOK(get, users, employed)
  <2>1. Creating(get) BY <1>2 DEF Creating, Makers
  <2>2. Patching(get, users, employed) BY <1>2 DEF CallOK, Patching
  <2>3. Syncing(get, users, employed) BY <1>1, <1>2 DEF Syncing
  <2> QED BY <1>2, <2>1, <2>2, <2>3 DEF CallOK
<1>5. RoleDone(c) \in {Idle} \/ RoleDone(c) = get \/ (c.kind = "patch" /\ RoleDone(c) = save)
  BY DEF RoleDone, save, get
<1>6. CASE RoleDone(c) = Idle BY <1>6, IdleOK, Zenon
<1>7. CASE RoleDone(c) = get BY <1>4, <1>7, Zenon
<1>8. CASE c.kind = "patch" /\ RoleDone(c) = save BY <1>3, <1>8, Zenon
<1> QED BY <1>5, <1>6, <1>7, <1>8

LEMMA SyncEnabledOK ==
  ASSUME IInv, NEW s \in Sessions, SyncEnabled(s) PROVE IInv'
<1> DEFINE c == call[s]
           row == [account[c.id] EXCEPT !.enabled = c.active]
<1>1. /\ c.pc = "enabled" /\ HasAccount(c.id) /\ account' = [account EXCEPT ![c.id] = row]
      /\ Go(s, Idle) /\ UNCHANGED <<rows, lost>>
  BY DEF SyncEnabled, At, Return
<1>2. CallOK(c, Users, Employed) /\ c.id \in Ids /\ DOMAIN c.made = {}
  BY <1>1, SyncFacts DEF SyncPcs
<1>3. c.active \in BOOLEAN BY <1>1, <1>2 DEF CallOK, Syncing
<1>4. account[c.id] \in AccountRows BY <1>1, <1>2 DEF IInv, RowsOK, HasAccount
<1>5. row \in AccountRows BY <1>3, <1>4 DEF AccountRows
<1> HIDE DEF row, Idle
<1> QED BY <1>1, <1>2, <1>5, IdleOK, SyncStepOK

LEMMA RemoveRolesOK ==
  ASSUME IInv, NEW s \in Sessions, RemoveRoles(s) PROVE IInv'
<1> DEFINE c == call[s]
           row == [account[c.id] EXCEPT !.roles = {}]
           rec == [c EXCEPT !.pc = "role.add"]
<1>1. /\ c.pc = "role.remove" /\ HasAccount(c.id) /\ account' = [account EXCEPT ![c.id] = row]
      /\ Go(s, rec) /\ UNCHANGED <<rows, lost>>
  BY DEF RemoveRoles, At, GoTo
<1>2. CallOK(c, Users, Employed) /\ c \in Calls /\ c.id \in Ids /\ DOMAIN c.made = {}
  BY <1>1, SyncFacts DEF SyncPcs
<1>3. account[c.id] \in AccountRows BY <1>1, <1>2 DEF IInv, RowsOK, HasAccount
<1>4. row \in AccountRows BY <1>3 DEF AccountRows
<1>5. /\ rec \in Calls /\ rec.pc = "role.add" /\ rec.id = c.id /\ rec.made = c.made
      /\ rec.kind = c.kind /\ rec.role = c.role /\ rec.past = c.past /\ rec.did = c.did
  BY <1>2, Moved DEF Pcs
<1> HIDE DEF row, rec
<1>6. CallOK(rec, Users, Employed)
  <2> HIDE DEF c
  <2>1. Creating(rec) BY <1>2, <1>5 DEF Creating, Makers
  <2>2. Patching(rec, Users, Employed) BY <1>1, <1>2, <1>5 DEF CallOK, Patching
  <2>3. Syncing(rec, Users, Employed) BY <1>1, <1>2, <1>5 DEF CallOK, Syncing
  <2> QED BY <1>5, <2>1, <2>2, <2>3 DEF CallOK
<1> QED BY <1>1, <1>2, <1>4, <1>6, SyncStepOK

LEMMA AddRoleOK ==
  ASSUME IInv, NEW s \in Sessions, AddRole(s) PROVE IInv'
<1> DEFINE c == call[s]
           row == [account[c.id] EXCEPT !.roles = @ \cup {c.role}]
<1>1. /\ c.pc = "role.add" /\ HasAccount(c.id) /\ account' = [account EXCEPT ![c.id] = row]
      /\ Go(s, RoleDone(c)) /\ UNCHANGED <<rows, lost>>
  BY DEF AddRole, At
<1>2. CallOK(c, Users, Employed) /\ c.id \in Ids /\ DOMAIN c.made = {}
  BY <1>1, SyncFacts DEF SyncPcs
<1>3. c.role \in Roles BY <1>1, <1>2 DEF CallOK, Syncing
<1>4. account[c.id] \in AccountRows BY <1>1, <1>2 DEF IInv, RowsOK, HasAccount
<1>5. row \in AccountRows BY <1>3, <1>4 DEF AccountRows
<1>6. CallOK(RoleDone(c), Users, Employed) BY <1>1, <1>2, RoleDoneOK
<1> HIDE DEF row
<1> QED BY <1>1, <1>2, <1>5, <1>6, SyncStepOK

LEMMA ReadProfileOK ==
  ASSUME IInv, NEW s \in Sessions, ReadProfile(s) PROVE IInv'
<1> DEFINE c == call[s]
           rec == [c EXCEPT !.pc = "profile.put", !.rep = account[c.id]]
<1>1. /\ c.pc = "profile.get" /\ HasAccount(c.id) /\ Go(s, rec)
      /\ UNCHANGED <<account, rows, lost>>
  BY DEF ReadProfile, At
<1>2. CallOK(c, Users, Employed) /\ c \in Calls /\ c.id \in Ids /\ DOMAIN c.made = {}
  BY <1>1, SyncFacts DEF SyncPcs
<1>3. account[c.id] \in AccountRows BY <1>1, <1>2 DEF IInv, RowsOK, HasAccount
<1>4. /\ rec \in Calls /\ rec.pc = "profile.put" /\ rec.id = c.id /\ rec.made = c.made
      /\ rec.kind = c.kind /\ rec.role = c.role /\ rec.past = c.past /\ rec.did = c.did
      /\ rec.rep \in AccountRows
  BY <1>2, <1>3 DEF Calls, Pcs
<1>5. lost' \subseteq Ids BY <1>1 DEF IInv, HistoryOK
<1> HIDE DEF rec
<1>6. CallOK(rec, Users, Employed)
  <2> HIDE DEF c
  <2>1. Creating(rec) BY <1>2, <1>4 DEF Creating, Makers
  <2>2. Patching(rec, Users, Employed) BY <1>1, <1>2, <1>4 DEF CallOK, Patching
  <2>3. Syncing(rec, Users, Employed) BY <1>2, <1>4 DEF Syncing
  <2> QED BY <1>4, <2>1, <2>2, <2>3 DEF CallOK
<1> QED BY <1>1, <1>2, <1>5, <1>6, CallStep

LEMMA WriteProfileOK ==
  ASSUME IInv, NEW s \in Sessions, WriteProfile(s) PROVE IInv'
<1> DEFINE c == call[s]
           email == IF c.email = Null THEN c.rep.email ELSE c.email
           enabled == IF c.active = Null THEN c.rep.enabled ELSE c.active
           row == [account[c.id] EXCEPT !.email = email, !.enabled = enabled]
           rec == [c EXCEPT !.pc = "save", !.did = @ \cup {"profile"}, !.rep = NoAccount]
           next == IF c.kind = "patch" /\ ~c.undo THEN rec ELSE Idle
<1>1. /\ c.pc = "profile.put" /\ HasAccount(c.id) /\ Go(s, next) /\ UNCHANGED <<rows, lost>>
      /\ account' = [account EXCEPT ![c.id].email = email, ![c.id].enabled = enabled]
  BY DEF WriteProfile, At
<1>2. CallOK(c, Users, Employed) /\ c \in Calls /\ c.id \in Ids /\ DOMAIN c.made = {}
  BY <1>1, SyncFacts DEF SyncPcs
<1>3. account[c.id] \in AccountRows BY <1>1, <1>2 DEF IInv, RowsOK, HasAccount
<1>4. c.rep \in AccountRows BY <1>1, <1>2 DEF CallOK, Syncing
<1>5. email \in Emails /\ enabled \in BOOLEAN
  <2>1. c.email \in Emails \cup {Null} /\ c.active \in BOOLEAN \cup {Null}
    BY <1>2 DEF Calls, Options
  <2>2. c.rep.email \in Emails /\ c.rep.enabled \in BOOLEAN BY <1>4 DEF AccountRows
  <2> QED BY <2>1, <2>2
<1> HIDE DEF email, enabled
<1>6. row \in AccountRows BY <1>3, <1>5 DEF AccountRows
<1>7. account' = [account EXCEPT ![c.id] = row]
  BY <1>1, <1>2, <1>3 DEF IInv, RowsOK, AccountRows
<1>8. /\ rec \in Calls /\ rec.pc = "save" /\ rec.id = c.id /\ rec.made = c.made
      /\ rec.kind = c.kind /\ rec.role = c.role /\ rec.past = c.past
      /\ rec.did = c.did \cup {"profile"}
  BY <1>2 DEF Calls, Pcs
<1> HIDE DEF row, rec
<1>9. ASSUME c.kind = "patch" PROVE CallOK(rec, Users, Employed)
  <2> HIDE DEF c
  <2>1. Creating(rec) BY <1>2, <1>8 DEF Creating, Makers
  <2>2. Patching(rec, Users, Employed) BY <1>1, <1>2, <1>8, <1>9 DEF CallOK, Patching
  <2>3. Syncing(rec, Users, Employed) BY <1>8 DEF Syncing
  <2> QED BY <1>8, <2>1, <2>2, <2>3 DEF CallOK
<1>10. CallOK(next, Users, Employed) BY <1>9, IdleOK, Zenon
<1> HIDE DEF next
<1> QED BY <1>1, <1>2, <1>6, <1>7, <1>10, SyncStepOK

LEMMA SyncFailsOK ==
  ASSUME IInv, NEW s \in Sessions, SyncFails(s) PROVE IInv'
<1> DEFINE c == call[s]
           next == IF c.pc \in {"role.remove", "role.add"} /\ ~(c.kind = "patch" /\ ~c.undo)
                     THEN RoleDone(c) ELSE Idle
<1>1. c.pc \in SyncPcs /\ GivenUp({c.id}) /\ Go(s, next) /\ UNCHANGED <<account, rows>>
  BY DEF SyncFails, SyncPcs
<1>2. CallOK(c, Users, Employed) /\ c.id \in Ids /\ DOMAIN c.made = {}
  BY <1>1, SyncFacts
<1>3. lost \subseteq lost' /\ lost' \subseteq Ids BY <1>1, <1>2 DEF GivenUp, IInv, HistoryOK
<1>4. c.pc \in {"role.remove", "role.add"} => CallOK(RoleDone(c), Users, Employed)
  BY <1>2, RoleDoneOK
<1>5. CallOK(next, Users, Employed) BY <1>4, IdleOK, Zenon
<1> HIDE DEF next
<1> QED BY <1>1, <1>2, <1>3, <1>5, CallStep

(* A call that dies answers for its accounts no more: they are given up.   *)
LEMMA CallDiesOK ==
  ASSUME IInv, NEW s \in Sessions, CallDies(s) PROVE IInv'
<1> DEFINE c == call[s]
<1>1. GivenUp({c.id} \cup DOMAIN c.made) /\ Go(s, Idle) /\ UNCHANGED <<account, rows>>
  BY DEF CallDies, Return
<1>2. c.id \in Ids \cup {Null} /\ DOMAIN c.made \subseteq Ids
  <2>1. c \in Calls BY CallFacts
  <2>2. c.made \in Made BY <2>1 DEF Calls
  <2> QED BY <2>1, <2>2, MadeTypes DEF Calls, Options
<1>3. lost \subseteq lost' /\ lost' \subseteq Ids /\ DOMAIN c.made \subseteq lost'
  <2>1. Null \notin Ids BY AccountsAssumption
  <2> QED BY <1>1, <1>2, <2>1 DEF GivenUp, IInv, HistoryOK
<1>4. \A k \in DOMAIN call[s].made : k \in lost' BY <1>3
<1> HIDE DEF Idle, c
<1> QED BY <1>1, <1>3, <1>4, IdleOK, CallStep
-----------------------------------------------------------------------------
(* The invariant.                                                          *)
LEMMA InitOK == Init => IInv
<1> SUFFICES ASSUME Init PROVE IInv OBVIOUS
<1>1. /\ RowsOK /\ DOMAIN call = Sessions /\ call = [s \in Sessions |-> call[s]]
      /\ \A s \in Sessions : call[s] = Idle
      /\ \A k \in Ids : account[k] = NoAccount /\ emp[k] = NoEmp
  BY DEF Init, RowsOK
<1>2. HistoryOK
  <2>1. started \in 0..MaxCalls BY AccountsAssumption DEF Init
  <2>2. overlapped \in BOOLEAN BY Zenon DEF Init
  <2> QED BY <2>1, <2>2 DEF Init, HistoryOK
<1>3. ASSUME NEW s \in Sessions PROVE CallOK(call[s], Users, Employed)
  <2>1. call[s] = Idle BY <1>1
  <2>2. CallOK(Idle, Users, Employed) BY IdleOK
  <2> QED BY <2>1, <2>2, Zenon
<1>4. EmailAgrees /\ Owned BY <1>1 DEF EmailAgrees, Owned, HasAccount
<1> QED BY <1>1, <1>2, <1>3, <1>4 DEF IInv, CallsOK

LEMMA StutterOK == IInv /\ UNCHANGED vars => IInv'
<1> SUFFICES ASSUME IInv, UNCHANGED vars PROVE IInv' OBVIOUS
<1>1. /\ account' = account /\ user' = user /\ emp' = emp /\ call' = call /\ started' = started
      /\ overlapped' = overlapped /\ lost' = lost
  BY DEF vars
<1>2. RowsOK' /\ EmailAgrees' /\ Owned'
  BY <1>1, Zenon DEF IInv, RowsOK, EmailAgrees, Owned, HasUser, HasAccount
<1>3. HistoryOK' BY <1>1, Zenon DEF IInv, HistoryOK
<1>4. Users' = Users /\ Employed' = Employed BY <1>1 DEF Users, Employed, HasUser
<1>5. CallsOK' BY <1>1, <1>4, Zenon DEF IInv, CallsOK, CallOK, Creating, Patching, Syncing
<1> QED BY <1>2, <1>3, <1>5 DEF IInv

LEMMA CreateStepOK == ASSUME IInv, NEW s \in Sessions, CreateStep(s) PROVE IInv'
<1>1. CASE \E es \in Imports, role \in Roles \ {"ADM"} : CreateEmployee(s, es, role)
  BY <1>1, CreateEmployeeOK
<1>2. CASE \E e \in Emails : RegisterAdmin(s, e) BY <1>2, RegisterAdminOK
<1>3. CASE \E k \in Ids : CreateAccount(s, k) BY <1>3, CreateAccountOK
<1>4. CASE \E k \in Ids : CreateConflict(s, k) BY <1>4, CreateConflictOK
<1>5. CASE \E k \in Ids : DeleteAccount(s, k) BY <1>5, DeleteAccountOK
<1>6. CASE CreateEnable(s) BY <1>6, CreateEnableOK
<1>7. CASE CreatePassword(s) BY <1>7, CreatePasswordOK
<1>8. CASE CreateFails(s) BY <1>8, CreateFailsOK
<1>9. CASE CreateRole(s) BY <1>9, CreateRoleOK
<1>10. CASE CreateInsert(s) BY <1>10, CreateInsertOK
<1> QED BY <1>1, <1>2, <1>3, <1>4, <1>5, <1>6, <1>7, <1>8, <1>9, <1>10, Zenon DEF CreateStep

LEMMA PatchStepOK == ASSUME IInv, NEW s \in Sessions, PatchStep(s) PROVE IInv'
<1>1. CASE \E k \in Ids, p \in Patches : PatchCheck(s, k, p) BY <1>1, PatchCheckOK
<1>2. CASE PatchRead(s) BY <1>2, PatchReadOK
<1>3. CASE PatchRole(s) BY <1>3, PatchRoleOK
<1>4. CASE PatchSave(s) BY <1>4, PatchSaveOK
<1>5. CASE PatchFails(s) BY <1>5, PatchFailsOK
<1> QED BY <1>1, <1>2, <1>3, <1>4, <1>5, Zenon DEF PatchStep

LEMMA UserStepOK == ASSUME IInv, NEW s \in Sessions, UserStep(s) PROVE IInv'
<1>1. "EMP" \in Roles /\ TRUE \in BOOLEAN BY AccountsAssumption
<1>2. CASE \E k \in Ids : DeleteEmployee(s, k) BY <1>2, DeleteEmployeeOK
<1>3. CASE \E k \in Ids : FirstLogin(s, k) BY <1>1, <1>3, UserCallOK
<1>4. CASE \E k \in Ids : RemoveRole(s, k) BY <1>1, <1>4, UserCallOK
<1>5. CASE \E k \in Ids, role \in Roles : AssignRole(s, k, role) BY <1>1, <1>5, UserCallOK
<1>6. CASE \E k \in Ids, active \in BOOLEAN : SetActive(s, k, active) BY <1>1, <1>6, UserCallOK
<1>7. CASE UpdateRow(s) BY <1>7, UpdateRowOK
<1>8. CASE Activate(s) BY <1>8, ActivateOK
<1> QED BY <1>2, <1>3, <1>4, <1>5, <1>6, <1>7, <1>8, Zenon DEF UserStep

LEMMA SyncOK == ASSUME IInv, NEW s \in Sessions, SyncStep(s) PROVE IInv'
<1>1. CASE SyncEnabled(s) BY <1>1, SyncEnabledOK
<1>2. CASE RemoveRoles(s) BY <1>2, RemoveRolesOK
<1>3. CASE AddRole(s) BY <1>3, AddRoleOK
<1>4. CASE ReadProfile(s) BY <1>4, ReadProfileOK
<1>5. CASE WriteProfile(s) BY <1>5, WriteProfileOK
<1>6. CASE SyncFails(s) BY <1>6, SyncFailsOK
<1> QED BY <1>1, <1>2, <1>3, <1>4, <1>5, <1>6, Zenon DEF SyncStep

LEMMA StepOK == IInv /\ [Next]_vars => IInv'
<1> SUFFICES ASSUME IInv, [Next]_vars PROVE IInv' OBVIOUS
<1>1. CASE \E s \in Sessions : CreateStep(s) BY <1>1, CreateStepOK
<1>2. CASE \E s \in Sessions : PatchStep(s) BY <1>2, PatchStepOK
<1>3. CASE \E s \in Sessions : UserStep(s) BY <1>3, UserStepOK
<1>4. CASE \E s \in Sessions : SyncStep(s) BY <1>4, SyncOK
<1>5. CASE \E s \in Sessions : CallDies(s) BY <1>5, CallDiesOK
<1>6. CASE \E k \in Ids, role \in Roles : InsertUser(k, role) BY <1>6, InsertUserOK
<1>7. CASE UNCHANGED vars BY <1>7, StutterOK
<1> QED BY <1>1, <1>2, <1>3, <1>4, <1>5, <1>6, <1>7, Zenon DEF Next

LEMMA InvHolds == Spec => []IInv
BY InitOK, StepOK, PTL DEF Spec

(* Accounts, rows and calls stay well formed: every step that writes an    *)
(* e-mail, a role or a flag has one to write.                              *)
THEOREM TypeCorrect == Spec => []TypeOK
<1>1. ASSUME IInv PROVE TypeOK
  <2>1. RowsOK BY <1>1 DEF IInv
  <2>2. HistoryOK BY <1>1 DEF IInv
  <2>3. \A s \in Sessions : call[s] \in Calls BY <1>1, CallFacts
  <2>4. call \in [Sessions -> Calls] BY <1>1, <2>3 DEF IInv, CallsOK
  <2> QED BY <2>1, <2>2, <2>4, Zenon DEF RowsOK, HistoryOK, TypeOK
<1> QED BY <1>1, InvHolds, PTL

(* insertEmployeeWithUser, patchEmployee: an employee and the user behind  *)
(* it have the same e-mail, whatever calls overlap, fail or die.           *)
THEOREM OneEmail == Spec => []EmailAgrees
<1>1. IInv => EmailAgrees BY DEF IInv
<1> QED BY <1>1, InvHolds, PTL

(* CreateEmployee, ImportEmployees, RegisterAdmin, DeleteEmployee: an      *)
(* account nobody works on has a user whose employee is not deleted, or a  *)
(* call of Keycloak that should have taken it back was given up.           *)
THEOREM NoAccountLeftBehind == Spec => []NoOrphanAccount
<1>1. ASSUME IInv PROVE NoOrphanAccount
  <2> SUFFICES ASSUME NEW k \in Ids, HasAccount(k), ~Busy(k), k \notin lost
               PROVE  HasUser(k) /\ ~emp[k].deleted
    BY DEF NoOrphanAccount
  <2>1. \A s \in Sessions : k \notin DOMAIN call[s].made BY DEF Busy
  <2> QED BY <1>1, <2>1 DEF IInv, Owned
<1> QED BY <1>1, InvHolds, PTL
-----------------------------------------------------------------------------
(* BlockedStaysOut: while calls do not overlap, whoever was found pending  *)
(* by resolveCurrentUser is still pending when the activation is written.  *)
Alone == \A s, t \in Sessions : call[s] # Idle /\ call[t] # Idle => s = t
StillPending == \A s \in Sessions : At(s, "activate") => ~user[call[s].id].onboarded
LoginInv == ~overlapped => Alone /\ StillPending

SessionStep(s) == CreateStep(s) \/ PatchStep(s) \/ UserStep(s) \/ SyncStep(s) \/ CallDies(s)

\* How a call begins, and how it goes on.
Begins(s, rec) ==
  /\ call[s] = Idle /\ call' = [call EXCEPT ![s] = rec]
  /\ overlapped' = (overlapped \/ \E t \in Sessions : call[t] # Idle)
  /\ rec.pc = "activate" => rec.id \in Ids /\ ~user[rec.id].onboarded /\ UNCHANGED user
GoesOn(s, rec) ==
  /\ call[s] # Idle /\ call' = [call EXCEPT ![s] = rec] /\ overlapped' = overlapped
  /\ rec.pc # "activate"

LEMMA PcsOfRecords ==
  ASSUME NEW c \in Calls, NEW pc \in Pcs
  PROVE  [c EXCEPT !.pc = pc].pc = pc
BY DEF Calls

LEMMA CreateMoves ==
  ASSUME IInv, NEW s \in Sessions, CreateStep(s)
  PROVE  \E rec : Begins(s, rec) \/ GoesOn(s, rec)
<1> DEFINE c == call[s]
<1>1. c \in Calls BY CallFacts
<1>2. Idle \in Calls /\ Idle.pc = "idle" BY IdleOK DEF Idle
<1>3. ASSUME NEW d \in Calls, d.pc # "activate" PROVE Undo(d).pc # "activate"
  BY <1>2, <1>3 DEF Undo, Calls
<1>4. CASE \E es \in Imports, role \in Roles \ {"ADM"} : CreateEmployee(s, es, role)
  <2>1. PICK es \in Imports, role \in Roles : CreateEmployee(s, es, role) BY <1>4
  <2> DEFINE rec == [Idle EXCEPT !.kind = "create", !.pc = "account", !.todo = es, !.role = role]
  <2>2. rec.pc = "account" BY <1>2 DEF Calls
  <2> QED BY <2>1, <2>2, Zenon DEF CreateEmployee, Start, Begins
<1>5. CASE \E e \in Emails : RegisterAdmin(s, e)
  <2>1. PICK e \in Emails : RegisterAdmin(s, e) BY <1>5
  <2> DEFINE rec == [Idle EXCEPT !.kind = "admin", !.pc = "account", !.todo = {e}, !.role = "ADM"]
  <2>2. rec.pc = "account" BY <1>2 DEF Calls
  <2> QED BY <2>1, <2>2, Zenon DEF RegisterAdmin, Start, Begins
<1>6. CASE \E k \in Ids : CreateAccount(s, k)
  <2>1. PICK k \in Ids, e \in Emails :
          /\ c.pc = "account"
          /\ Go(s, [c EXCEPT !.pc = "role", !.id = k, !.todo = @ \ {e}, !.made = With(@, k, e)])
    BY <1>1, <1>6 DEF CreateAccount, At, Calls
  <2> DEFINE rec == [c EXCEPT !.pc = "role", !.id = k, !.todo = @ \ {e}, !.made = With(@, k, e)]
  <2>2. rec.pc = "role" BY <1>1 DEF Calls
  <2> QED BY <1>2, <2>1, <2>2 DEF Go, GoesOn
<1>7. CASE \E k \in Ids : CreateConflict(s, k)
  <2>1. PICK k \in Ids : CreateConflict(s, k) BY <1>7
  <2> DEFINE take == [c EXCEPT !.pc = "enable", !.id = k, !.email = account[k].email,
                               !.todo = @ \ {account[k].email}]
  <2>2. take.pc = "enable" BY <1>1 DEF Calls
  <2>3. c.pc = "account" BY <2>1 DEF CreateConflict, At
  <2>4. Go(s, Undo(c)) \/ Go(s, take) BY <2>1 DEF CreateConflict
  <2>5. Undo(c).pc # "activate" BY <1>1, <1>3, <2>3
  <2> HIDE DEF take
  <2> QED BY <1>2, <2>2, <2>3, <2>4, <2>5 DEF Go, GoesOn
<1>8. CASE \E k \in Ids : DeleteAccount(s, k)
  <2>1. PICK k \in Ids : DeleteAccount(s, k) BY <1>8
  <2> DEFINE rest == [c EXCEPT !.made = [j \in DOMAIN @ \ {k} |-> @[j]]]
  <2>2. c.pc = "delete" /\ Go(s, Undo(rest)) BY <2>1 DEF DeleteAccount, At
  <2>3. Undo(rest).pc # "activate"
    <3>1. Undo(rest) = Idle \/ Undo(rest) = [rest EXCEPT !.pc = "delete"] BY DEF Undo
    <3>2. [rest EXCEPT !.pc = "delete"].pc = "delete" BY <1>1 DEF Calls
    <3> HIDE DEF rest
    <3> QED BY <1>2, <3>1, <3>2
  <2> HIDE DEF rest
  <2> QED BY <1>2, <2>2, <2>3 DEF Go, GoesOn
<1>9. CASE CreateEnable(s)
  <2>1. c.pc = "enable" /\ Go(s, [c EXCEPT !.pc = "password"]) BY <1>9 DEF CreateEnable, At, GoTo
  <2>2. [c EXCEPT !.pc = "password"].pc = "password" BY <1>1 DEF Calls
  <2> QED BY <1>2, <2>1, <2>2 DEF Go, GoesOn
<1>10. CASE CreatePassword(s)
  <2> DEFINE rec == [c EXCEPT !.pc = "role", !.made = With(@, c.id, c.email)]
  <2>1. c.pc = "password" /\ Go(s, rec) BY <1>10 DEF CreatePassword, At
  <2>2. rec.pc = "role" BY <1>1 DEF Calls
  <2> HIDE DEF rec
  <2> QED BY <1>2, <2>1, <2>2 DEF Go, GoesOn
<1>11. CASE CreateFails(s)
  <2>1. c.pc \in {"account", "enable", "password"} /\ Go(s, Undo(c)) BY <1>11 DEF CreateFails
  <2>2. Undo(c).pc # "activate" BY <1>1, <1>3, <2>1
  <2> QED BY <1>2, <2>1, <2>2 DEF Go, GoesOn
<1>12. CASE CreateRole(s)
  <2>1. c.pc = "role" /\ (Go(s, NextRow(c)) \/ Go(s, Undo(c))) BY <1>12 DEF CreateRole, At
  <2>2. Undo(c).pc # "activate" BY <1>1, <1>3, <2>1
  <2>3. NextRow(c).pc # "activate" BY <1>1 DEF NextRow, Calls
  <2> QED BY <1>2, <2>1, <2>2, <2>3 DEF Go, GoesOn
<1>13. CASE CreateInsert(s)
  <2>1. c.pc = "insert" /\ (Go(s, Idle) \/ Go(s, Undo(c)))
    BY <1>13 DEF CreateInsert, At, Return, AfterFailedInsert
  <2>2. Undo(c).pc # "activate" BY <1>1, <1>3, <2>1
  <2> QED BY <1>2, <2>1, <2>2 DEF Go, GoesOn
<1> QED BY <1>4, <1>5, <1>6, <1>7, <1>8, <1>9, <1>10, <1>11, <1>12, <1>13, Zenon DEF CreateStep

LEMMA PatchMoves ==
  ASSUME IInv, NEW s \in Sessions, PatchStep(s)
  PROVE  \E rec : Begins(s, rec) \/ GoesOn(s, rec)
<1> DEFINE c == call[s]
<1>1. c \in Calls BY CallFacts
<1>2. Idle \in Calls /\ Idle.pc = "idle" BY IdleOK DEF Idle
<1>3. ASSUME NEW rec, Go(s, rec), c.pc # "idle", rec.pc # "activate"
      PROVE  \E d : Begins(s, d) \/ GoesOn(s, d)
  BY <1>2, <1>3 DEF Go, GoesOn
<1>4. CASE \E k \in Ids, p \in Patches : PatchCheck(s, k, p)
  <2>1. PICK k \in Ids, p \in Patches : PatchCheck(s, k, p) BY <1>4
  <2> DEFINE rec == [Idle EXCEPT !.kind = "patch", !.pc = "read", !.id = k, !.email = p.email,
                           !.role = p.role, !.active = p.active, !.other = p.other]
  <2>2. rec.pc = "read" BY <1>2 DEF Calls
  <2> QED BY <2>1, <2>2, Zenon DEF PatchCheck, Start, Begins
<1>5. CASE PatchRead(s)
  <2> DEFINE read == [c EXCEPT !.past = [email |-> user[c.id].email, role |-> user[c.id].role,
                                         active |-> emp[c.id].active]]
             pc == IF Changed(c.role, read.past.role) THEN "role.remove" ELSE AfterRole(read)
  <2>1. c.pc = "read" /\ Go(s, [read EXCEPT !.pc = pc]) BY <1>5 DEF PatchRead, At
  <2>2. pc \in {"role.remove", "profile.get", "save"} BY DEF AfterRole
  <2> HIDE DEF pc
  <2>3. [read EXCEPT !.pc = pc].pc = pc BY <1>1 DEF Calls
  <2> HIDE DEF read
  <2> QED BY <1>3, <2>1, <2>2, <2>3
<1>6. CASE PatchRole(s)
  <2> DEFINE pc == AfterRole(c)
             rec == [c EXCEPT !.pc = pc, !.did = @ \cup {"role"}]
  <2>1. c.pc = "role.save" /\ Go(s, rec) BY <1>6 DEF PatchRole, At
  <2>2. pc \in {"profile.get", "save"} BY DEF AfterRole
  <2> HIDE DEF pc
  <2>3. rec.pc = pc BY <1>1 DEF Calls
  <2> HIDE DEF rec
  <2> QED BY <1>3, <2>1, <2>2, <2>3
<1>7. CASE PatchSave(s)
  <2>1. c.pc = "save" /\ Go(s, Idle) BY <1>7 DEF PatchSave, At, Return
  <2> QED BY <1>2, <1>3, <2>1
<1>8. CASE PatchFails(s)
  <2> DEFINE b == [c EXCEPT !.did = @ \cup (IF c.pc = "role.save" THEN {"role"} ELSE {})]
             pc == IF "role" \in b.did THEN "role.remove" ELSE
                   IF "profile" \in b.did THEN "profile.get" ELSE "idle"
             rec == [b EXCEPT !.undo = TRUE, !.email = b.past.email, !.role = b.past.role,
                              !.active = b.past.active, !.pc = pc]
  <2>1. c.pc \in {"role.save", "save"} /\ Go(s, Restored(b)) BY <1>8 DEF PatchFails
  <2>2. pc \in {"role.remove", "profile.get", "idle"} OBVIOUS
  <2>3. Restore(b) = rec BY DEF Restore, ToRestore
  <2> HIDE DEF pc
  <2>4. rec.pc = pc BY <1>1 DEF Calls
  <2> HIDE DEF rec, b
  <2>5. Restored(b) \in {Idle, rec} BY <2>3 DEF Restored
  <2>6. Restored(b).pc # "activate" BY <1>2, <2>2, <2>4, <2>5
  <2> QED BY <1>3, <2>1, <2>6
<1> QED BY <1>4, <1>5, <1>6, <1>7, <1>8, Zenon DEF PatchStep

LEMMA UserMoves ==
  ASSUME IInv, NEW s \in Sessions, UserStep(s)
  PROVE  \E rec : Begins(s, rec) \/ GoesOn(s, rec)
<1> DEFINE c == call[s]
<1>1. c \in Calls BY CallFacts
<1>2. Idle \in Calls /\ Idle.pc = "idle" BY IdleOK DEF Idle
<1>3. ASSUME NEW rec, Go(s, rec), c.pc # "idle", rec.pc # "activate"
      PROVE  \E d : Begins(s, d) \/ GoesOn(s, d)
  BY <1>2, <1>3 DEF Go, GoesOn
<1>4. CASE \E k \in Ids : DeleteEmployee(s, k)
  <2>1. PICK k \in Ids : DeleteEmployee(s, k) BY <1>4
  <2> DEFINE rec == [Idle EXCEPT !.kind = "delete", !.pc = "delete", !.id = k,
                                 !.made = [j \in {k} |-> emp[k].email]]
  <2>2. rec.pc = "delete" BY <1>2 DEF Calls
  <2> QED BY <2>1, <2>2, Zenon DEF DeleteEmployee, Begins
<1>5. CASE \E k \in Ids : FirstLogin(s, k)
  <2>1. PICK k \in Ids : FirstLogin(s, k) BY <1>5
  <2> DEFINE rec == [Idle EXCEPT !.kind = "login", !.pc = "activate", !.id = k]
  <2>2. rec.id = k BY <1>2 DEF Calls
  <2>3. Start(s, rec) /\ ~user[k].onboarded BY <2>1 DEF FirstLogin, IsPendingActivation
  <2>4. UNCHANGED user BY <2>3 DEF Start, rows
  <2> HIDE DEF rec
  <2> QED BY <2>2, <2>3, <2>4, Zenon DEF Start, Begins
<1>6. ASSUME NEW kind, NEW k \in Ids, NEW role, Start(s, [Idle EXCEPT !.kind = kind, !.pc = "row", !.id = k, !.role = role])
      PROVE  \E rec : Begins(s, rec)
  <2> DEFINE rec == [Idle EXCEPT !.kind = kind, !.pc = "row", !.id = k, !.role = role]
  <2>1. rec.pc = "row" BY <1>2 DEF Calls
  <2> QED BY <1>6, <2>1, Zenon DEF Start, Begins
<1>7. CASE \E k \in Ids : RemoveRole(s, k) BY <1>6, <1>7 DEF RemoveRole
<1>8. CASE \E k \in Ids, role \in Roles : AssignRole(s, k, role) BY <1>6, <1>8 DEF AssignRole
<1>9. CASE \E k \in Ids, active \in BOOLEAN : SetActive(s, k, active)
  <2>1. PICK k \in Ids, active \in BOOLEAN : SetActive(s, k, active) BY <1>9
  <2> DEFINE rec == [Idle EXCEPT !.kind = "block", !.pc = "row", !.id = k, !.active = active]
  <2>2. rec.pc = "row" BY <1>2 DEF Calls
  <2> QED BY <2>1, <2>2, Zenon DEF SetActive, Start, Begins
<1>10. CASE UpdateRow(s)
  <2> DEFINE pc == IF c.kind = "block" THEN "enabled" ELSE "role.remove"
  <2>1. c.pc = "row" /\ Go(s, [c EXCEPT !.pc = pc]) BY <1>10 DEF UpdateRow, At, GoTo
  <2>2. pc \in {"enabled", "role.remove"} OBVIOUS
  <2> HIDE DEF pc
  <2>3. [c EXCEPT !.pc = pc].pc = pc BY <1>1 DEF Calls
  <2> QED BY <1>3, <2>1, <2>2, <2>3
<1>11. CASE Activate(s)
  <2>1. c.pc = "activate" /\ Go(s, Idle) BY <1>11 DEF Activate, At, Return
  <2> QED BY <1>2, <1>3, <2>1
<1> QED BY <1>4, <1>5, <1>7, <1>8, <1>9, <1>10, <1>11, Zenon DEF UserStep

LEMMA SyncMoves ==
  ASSUME IInv, NEW s \in Sessions, SyncStep(s) \/ CallDies(s)
  PROVE  \E rec : Begins(s, rec) \/ GoesOn(s, rec)
<1> DEFINE c == call[s]
<1>1. c \in Calls BY CallFacts
<1>2. Idle \in Calls /\ Idle.pc = "idle" BY IdleOK DEF Idle
<1>3. ASSUME NEW rec, Go(s, rec), c # Idle, rec.pc # "activate"
      PROVE  \E d : Begins(s, d) \/ GoesOn(s, d)
  BY <1>3 DEF Go, GoesOn
<1>4. RoleDone(c).pc # "activate"
  <2>1. /\ [c EXCEPT !.pc = "role.save"].pc = "role.save"
        /\ [c EXCEPT !.pc = "profile.get"].pc = "profile.get"
    BY <1>1 DEF Calls
  <2> QED BY <1>2, <2>1 DEF RoleDone
<1>5. CASE SyncEnabled(s)
  <2>1. c.pc = "enabled" /\ Go(s, Idle) BY <1>5 DEF SyncEnabled, At, Return
  <2> QED BY <1>2, <1>3, <2>1
<1>6. CASE RemoveRoles(s)
  <2>1. c.pc = "role.remove" /\ Go(s, [c EXCEPT !.pc = "role.add"]) BY <1>6 DEF RemoveRoles, At, GoTo
  <2>2. [c EXCEPT !.pc = "role.add"].pc = "role.add" BY <1>1 DEF Calls
  <2> QED BY <1>2, <1>3, <2>1, <2>2
<1>7. CASE AddRole(s)
  <2>1. c.pc = "role.add" /\ Go(s, RoleDone(c)) BY <1>7 DEF AddRole, At
  <2> QED BY <1>2, <1>3, <1>4, <2>1
<1>8. CASE ReadProfile(s)
  <2> DEFINE rec == [c EXCEPT !.pc = "profile.put", !.rep = account[c.id]]
  <2>1. c.pc = "profile.get" /\ Go(s, rec) BY <1>8 DEF ReadProfile, At
  <2>2. rec.pc = "profile.put" BY <1>1 DEF Calls
  <2> HIDE DEF rec
  <2> QED BY <1>2, <1>3, <2>1, <2>2
<1>9. CASE WriteProfile(s)
  <2> DEFINE rec == [c EXCEPT !.pc = "save", !.did = @ \cup {"profile"}, !.rep = NoAccount]
  <2>1. c.pc = "profile.put" /\ (Go(s, rec) \/ Go(s, Idle)) BY <1>9 DEF WriteProfile, At
  <2>2. rec.pc = "save" BY <1>1 DEF Calls
  <2> HIDE DEF rec
  <2> QED BY <1>2, <1>3, <2>1, <2>2
<1>10. CASE SyncFails(s)
  <2>1. /\ c.pc \in {"enabled", "role.remove", "role.add", "profile.get", "profile.put"}
        /\ Go(s, RoleDone(c)) \/ Go(s, Idle)
    BY <1>10 DEF SyncFails
  <2> QED BY <1>2, <1>3, <1>4, <2>1
<1>11. CASE CallDies(s)
  <2>1. c # Idle /\ Go(s, Idle) BY <1>11 DEF CallDies, Return
  <2> QED BY <1>2, <1>3, <2>1
<1> QED BY <1>5, <1>6, <1>7, <1>8, <1>9, <1>10, <1>11, Zenon DEF SyncStep

LEMMA LoginStep ==
  ASSUME IInv, LoginInv, [Next]_vars PROVE LoginInv'
<1>0. DOMAIN call = Sessions BY DEF IInv, CallsOK
<1>1. ASSUME NEW s \in Sessions, NEW rec, Begins(s, rec) PROVE LoginInv'
  <2> SUFFICES ASSUME ~overlapped' PROVE Alone' /\ StillPending'
    BY DEF LoginInv
  <2>1. ~overlapped /\ \A t \in Sessions : call[t] = Idle BY <1>1, Zenon DEF Begins
  <2>2. call'[s] = rec /\ \A t \in Sessions \ {s} : call'[t] = Idle BY <1>0, <1>1, <2>1 DEF Begins
  <2>3. Alone' BY <2>2 DEF Alone, Idle
  <2>4. Idle.pc # "activate" BY DEF Idle
  <2>5. rec.pc = "activate" => ~user'[rec.id].onboarded BY <1>1 DEF Begins
  <2>6. StillPending' BY <2>2, <2>4, <2>5, Zenon DEF StillPending, At
  <2> QED BY <2>3, <2>6
<1>2. ASSUME NEW s \in Sessions, NEW rec, GoesOn(s, rec) PROVE LoginInv'
  <2> SUFFICES ASSUME ~overlapped' PROVE Alone' /\ StillPending'
    BY DEF LoginInv
  <2>1. ~overlapped /\ call[s] # Idle /\ rec.pc # "activate" BY <1>2, Zenon DEF GoesOn
  <2>2. \A t \in Sessions \ {s} : call[t] = Idle BY <2>1, Zenon DEF LoginInv, Alone
  <2>3. call'[s] = rec /\ \A t \in Sessions \ {s} : call'[t] = Idle BY <1>0, <1>2, <2>2 DEF GoesOn
  <2>4. Alone' BY <2>3 DEF Alone, Idle
  <2>5. Idle.pc # "activate" BY DEF Idle
  <2>6. StillPending' BY <2>1, <2>3, <2>5, Zenon DEF StillPending, At
  <2> QED BY <2>4, <2>6
<1>3. CASE \E s \in Sessions : SessionStep(s)
  BY <1>1, <1>2, <1>3, CreateMoves, PatchMoves, UserMoves, SyncMoves, Zenon DEF SessionStep
<1>4. ASSUME NEW k \in Ids, NEW role \in Roles, InsertUser(k, role) PROVE LoginInv'
  <2>1. /\ call' = call /\ overlapped' = overlapped /\ ~HasUser(k)
        /\ \A j \in Ids \ {k} : user'[j] = user[j]
    BY <1>4 DEF InsertUser, IInv, RowsOK
  <2>2. ASSUME NEW s \in Sessions, At(s, "activate") PROVE user'[call[s].id] = user[call[s].id]
    <3>1. call[s].id \in Users BY <2>2, CallFacts DEF CallOK, Syncing, At
    <3> QED BY <2>1, <3>1 DEF Users
  <2>3. StillPending => StillPending' BY <2>1, <2>2, Zenon DEF StillPending, At
  <2>4. Alone => Alone' BY <2>1, Zenon DEF Alone, Idle
  <2> QED BY <2>1, <2>3, <2>4, Zenon DEF LoginInv
<1>5. CASE UNCHANGED vars
  <2>1. call' = call /\ overlapped' = overlapped /\ user' = user BY <1>5 DEF vars, rows
  <2> QED BY <2>1, Zenon DEF LoginInv, Alone, StillPending, At, Idle
<1> QED BY <1>3, <1>4, <1>5, Zenon DEF Next, SessionStep

\* Somebody who unblocks the user or patches the employee.
Unblocks(k) == \E s \in Sessions : call[s].id = k /\ call[s].kind \in {"patch", "block"}

LEMMA BlockedStep ==
  ASSUME IInv, LoginInv, [Next]_vars, ~overlapped, NEW k \in Ids,
         user[k].onboarded, ~user[k].active, user'[k].active
  PROVE  Unblocks(k)
<1>0. DOMAIN user = Ids BY DEF IInv, RowsOK
<1>1. HasUser(k)
  <2>1. NoUser.onboarded = FALSE BY DEF NoUser
  <2> QED BY <2>1, Zenon DEF HasUser
<1>2. user'[k] # user[k] OBVIOUS
<1>3. user[k] \in UserRows BY <1>1 DEF IInv, RowsOK, HasUser
<1>4. ASSUME NEW s \in Sessions, CreateInsert(s) PROVE FALSE
  BY <1>1, <1>2, <1>4 DEF CreateInsert, rows
<1>5. ASSUME NEW s \in Sessions, NEW j \in Ids, DeleteEmployee(s, j) PROVE FALSE
  <2>1. user' = [user EXCEPT ![j].active = FALSE] BY <1>5 DEF DeleteEmployee
  <2>2. j = k /\ user'[k] = [user[k] EXCEPT !.active = FALSE] BY <1>0, <1>2, <2>1
  <2>3. user'[k].active = FALSE BY <1>3, <2>2 DEF UserRows
  <2> QED BY <2>3
<1>6. ASSUME NEW s \in Sessions, PatchSave(s) PROVE Unblocks(k)
  <2>1. call[s].kind = "patch" BY <1>6, CallFacts DEF PatchSave, At, CallOK, Patching
  <2>2. call[s].id = k BY <1>0, <1>2, <1>6 DEF PatchSave
  <2> QED BY <2>1, <2>2 DEF Unblocks
<1>7. ASSUME NEW s \in Sessions, UpdateRow(s) PROVE Unblocks(k)
  <2>1. call[s].id = k BY <1>0, <1>2, <1>7 DEF UpdateRow
  <2>2. user'[k].active = IF call[s].kind = "block" THEN call[s].active ELSE user[k].active
    BY <1>0, <1>3, <1>7, <2>1 DEF UpdateRow, UserRows
  <2>3. call[s].kind = "block" BY <2>2, Zenon
  <2> QED BY <2>1, <2>3 DEF Unblocks
<1>8. ASSUME NEW s \in Sessions, Activate(s) PROVE FALSE
  <2>1. call[s].id = k BY <1>0, <1>2, <1>8 DEF Activate
  <2> QED BY <1>8, <2>1, Zenon DEF Activate, LoginInv, StillPending
<1>9. ASSUME NEW j \in Ids, NEW role \in Roles, InsertUser(j, role) PROVE FALSE
  BY <1>0, <1>1, <1>2, <1>9 DEF InsertUser
<1>10. ASSUME NEW s \in Sessions, CreateStep(s) PROVE FALSE
  <2>1. CASE CreateInsert(s) BY <1>4, <2>1
  <2>2. CASE ~CreateInsert(s)
    BY <1>2, <1>10, <2>2 DEF CreateStep, CreateEmployee, RegisterAdmin, Start, CreateAccount,
       CreateConflict, DeleteAccount, CreateEnable, CreatePassword, CreateFails, CreateRole, rows
  <2> QED BY <2>1, <2>2
<1>11. ASSUME NEW s \in Sessions, PatchStep(s) PROVE Unblocks(k)
  <2>1. CASE PatchSave(s) BY <1>6, <2>1
  <2>2. CASE ~PatchSave(s)
    BY <1>2, <1>11, <2>2 DEF PatchStep, PatchCheck, Start, PatchRead, PatchRole, PatchFails, rows
  <2> QED BY <2>1, <2>2
<1>12. ASSUME NEW s \in Sessions, UserStep(s) PROVE Unblocks(k)
  <2>1. CASE \E j \in Ids : DeleteEmployee(s, j) BY <1>5, <2>1
  <2>2. CASE UpdateRow(s) BY <1>7, <2>2
  <2>3. CASE Activate(s) BY <1>8, <2>3
  <2>4. CASE ~(\E j \in Ids : DeleteEmployee(s, j)) /\ ~UpdateRow(s) /\ ~Activate(s)
    BY <1>2, <1>12, <2>4 DEF UserStep, FirstLogin, RemoveRole, AssignRole, SetActive, Start, rows
  <2> QED BY <2>1, <2>2, <2>3, <2>4
<1>13. ASSUME NEW s \in Sessions, SyncStep(s) \/ CallDies(s) PROVE FALSE
  BY <1>2, <1>13 DEF SyncStep, SyncEnabled, RemoveRoles, AddRole, ReadProfile, WriteProfile,
     SyncFails, CallDies, rows
<1>14. CASE UNCHANGED vars BY <1>2, <1>14 DEF vars, rows
<1> QED BY <1>9, <1>10, <1>11, <1>12, <1>13, <1>14, Zenon DEF Next

(* resolveCurrentUser: as long as calls do not overlap, no login lets in a *)
(* person who was active once and is blocked.                              *)
THEOREM NoLoginUnblocks == Spec => BlockedStaysOut
<1>1. Init => LoginInv
  <2> SUFFICES ASSUME Init PROVE Alone /\ StillPending BY DEF LoginInv
  <2>1. \A s \in Sessions : call[s] = Idle BY DEF Init
  <2>2. Idle.pc = "idle" BY DEF Idle
  <2> QED BY <2>1, <2>2, Zenon DEF Alone, StillPending, At
<1>2. IInv /\ LoginInv /\ [Next]_vars => LoginInv' BY LoginStep
<1>3. IInv /\ LoginInv /\ [Next]_vars =>
        [~overlapped => \A k \in Ids :
           user[k].onboarded /\ ~user[k].active /\ user'[k].active =>
             \E s \in Sessions : call[s].id = k /\ call[s].kind \in {"patch", "block"}]_vars
  BY BlockedStep, Zenon DEF Unblocks
<1> QED BY <1>1, <1>2, <1>3, InvHolds, PTL DEF Spec, BlockedStaysOut
-----------------------------------------------------------------------------
(***************************************************************************)
(* KeycloakAgrees: while calls do not overlap, what the one call at work   *)
(* may leave of each id until it is done with it (Kept).  An id the call   *)
(* does not work on is Fine; its own differ from users only by what the    *)
(* call still has to write, to take back or to delete.  A creation keeps   *)
(* the accounts it has made (KeptMade) and finds the others Fine, the one  *)
(* it takes over included (KeptTaken); a patch keeps what it read from     *)
(* users until it saves (KeptPatch); the handlers of users write the row   *)
(* first, and Keycloak follows (KeptUser).                                 *)
(***************************************************************************)
\* What KeycloakAgrees asks of one id: its account, its user, its employee.
LiveRow(e) == e # NoEmp /\ ~e.deleted
Fine(a, u, e) ==
  /\ LiveRow(e) => a # NoAccount
  /\ a # NoAccount => u # NoUser /\ a.email = u.email /\ a.roles = {u.role}

CreateKinds == {"create", "admin", "delete"}
UserKinds == {"assign", "remove", "block", "login"}
Shape(c) ==
  /\ c.kind = "none" => c = Idle
  /\ c.kind \in CreateKinds =>
       /\ c.pc \in {"account", "enable", "password", "role", "insert", "delete"}
       /\ c.pc = "role" => c.id \in DOMAIN c.made
  /\ c.kind = "patch" =>
       /\ c.pc \in {"read", "role.remove", "role.add", "role.save", "profile.get", "profile.put",
                    "save"}
       /\ c.undo => c.pc \in {"role.remove", "role.add", "profile.get", "profile.put"}
       /\ ~c.undo /\ c.pc \in {"read", "role.remove", "role.add", "role.save"} => c.did = {}
       /\ ~c.undo /\ c.pc \in {"profile.get", "profile.put"} => "profile" \notin c.did
  /\ c.kind \in UserKinds =>
       /\ c.pc \in {"row", "enabled", "role.remove", "role.add", "profile.get", "profile.put",
                    "activate"}
       /\ c.did = {} /\ c.email = Null

\* An account the call has made or is deleting: its user does not exist yet, unless
\* resolveCurrentUser inserted one; then the transaction fails and the account goes.
KeptMade(c, k, a, u, e) ==
  /\ ~LiveRow(e)
  /\ c.pc # "delete" =>
       /\ a # NoAccount /\ a.email \notin c.todo
       /\ c.pc \in {"enable", "password"} => c.id # k
       /\ u = NoUser => /\ a.email = c.made[k]
                        /\ IF c.pc = "role" /\ c.id = k THEN a.roles \subseteq {c.role}
                           ELSE a.roles = {c.role}

\* Any other account, and the one about to be taken over.
KeptTaken(c, k, a, u, e) ==
  /\ Fine(a, u, e)
  /\ c.pc \in {"enable", "password"} /\ k = c.id =>
       ~LiveRow(e) /\ a # NoAccount /\ a.email \notin c.todo

KeptPatch(c, a, u) ==
  /\ a # NoAccount /\ u # NoUser
  /\ c.pc = "read" => a.email = u.email /\ a.roles = {u.role}
  /\ c.pc # "read" => c.past.email = u.email /\ c.past.role = u.role
  /\ c.pc = "role.add" => a.roles = {}
  /\ c.pc = "role.save" => a.roles = {c.role}
  /\ c.pc \in {"profile.get", "profile.put", "save"} =>
       a.roles = {IF "role" \in c.did /\ ~c.undo THEN c.role ELSE u.role}
  /\ c.pc \in {"role.remove", "role.add", "role.save", "save"} /\ "profile" \notin c.did =>
       a.email = u.email
  /\ ~c.undo /\ c.pc \in {"profile.get", "profile.put"} => a.email = u.email
  /\ c.pc = "save" => a.email = IF c.email = Null THEN u.email ELSE c.email
  /\ c.pc = "profile.put" => c.rep.email = a.email
  /\ c.undo => c.email = u.email /\ c.role = u.role

KeptUser(c, a, u, e) ==
  /\ u # NoUser
  /\ LiveRow(e) => a # NoAccount
  /\ a # NoAccount => a.email = u.email
  /\ c.pc \in {"role.remove", "role.add"} => c.role = u.role
  /\ c.pc = "role.add" => a.roles = {}
  /\ c.pc \in {"row", "enabled", "activate", "profile.get", "profile.put"} =>
       (a # NoAccount => a.roles = {u.role})
  /\ c.pc = "profile.put" => a # NoAccount /\ c.rep.email = a.email

Kept(c, k, a, u, e) ==
  IF c.kind \in CreateKinds
    THEN IF k \in DOMAIN c.made THEN KeptMade(c, k, a, u, e) ELSE KeptTaken(c, k, a, u, e)
  ELSE IF k # c.id THEN Fine(a, u, e)
  ELSE IF c.kind = "patch" THEN KeptPatch(c, a, u)
  ELSE KeptUser(c, a, u, e)

\* The e-mails a creation still has to make accounts for belong to no employee.
Unclaimed(c, emps) ==
  c.kind = "create" /\ c.pc # "delete" =>
    \A e \in c.todo : \A k \in Ids : LiveRow(emps[k]) => emps[k].email # e

CallAgrees(c, accounts, users, emps, gone) ==
  /\ Shape(c)
  /\ Unclaimed(c, emps)
  /\ \A k \in Ids \ gone : Kept(c, k, accounts[k], users[k], emps[k])

AgreeInv ==
  ~overlapped =>
    /\ Alone
    /\ (\A s \in Sessions : call[s] = Idle) =>
         \A k \in Ids \ lost : Fine(account[k], user[k], emp[k])
    /\ \A s \in Sessions : call[s] # Idle => CallAgrees(call[s], account, user, emp, lost)
-----------------------------------------------------------------------------
LEMMA IdleAgrees ==
  /\ Idle.kind = "none" /\ Idle.pc = "idle" /\ Idle.id = Null /\ Idle.did = {} /\ Idle.email = Null
  /\ ~Idle.undo /\ Idle.todo = {}
  /\ Shape(Idle)
  /\ \A emps : Unclaimed(Idle, emps)
  /\ \A k \in Ids : \A a, u, e : Kept(Idle, k, a, u, e) <=> Fine(a, u, e)
<1>1. /\ Idle.kind = "none" /\ Idle.pc = "idle" /\ Idle.id = Null /\ Idle.did = {}
      /\ Idle.email = Null /\ ~Idle.undo /\ Idle.todo = {}
  BY DEF Idle
<1>2. Null \notin Ids BY AccountsAssumption
<1> QED BY <1>1, <1>2 DEF Shape, Unclaimed, Kept, CreateKinds, UserKinds

(* What a step of a call has to show. *)
LEMMA GoesOnAgrees ==
  ASSUME IInv, AgreeInv, ~overlapped, NEW s \in Sessions, call[s] # Idle,
         NEW rec, call' = [call EXCEPT ![s] = rec], overlapped' = overlapped,
         CallAgrees(rec, account', user', emp', lost')
  PROVE  AgreeInv'
<1>1. DOMAIN call = Sessions BY DEF IInv, CallsOK
<1>2. \A t \in Sessions \ {s} : call[t] = Idle BY Zenon DEF AgreeInv, Alone
<1>3. call'[s] = rec /\ \A t \in Sessions \ {s} : call'[t] = Idle BY <1>1, <1>2
<1>4. Alone' BY <1>3 DEF Alone, Idle
<1>5. ASSUME \A t \in Sessions : call'[t] = Idle, NEW k \in Ids \ lost'
      PROVE  Fine(account'[k], user'[k], emp'[k])
  <2>1. rec = Idle BY <1>3, <1>5
  <2>2. Kept(Idle, k, account'[k], user'[k], emp'[k]) BY <2>1 DEF CallAgrees
  <2> QED BY <2>2, IdleAgrees
<1>6. ASSUME NEW t \in Sessions, call'[t] # Idle
      PROVE  CallAgrees(call'[t], account', user', emp', lost')
  <2>1. t = s BY <1>3, <1>6
  <2> QED BY <1>3, <2>1
<1> QED BY <1>4, <1>5, <1>6, Zenon DEF AgreeInv, Idle

LEMMA BeginsAgrees ==
  ASSUME IInv, AgreeInv, NEW s \in Sessions, call[s] = Idle,
         NEW rec, call' = [call EXCEPT ![s] = rec],
         overlapped' = (overlapped \/ \E t \in Sessions : call[t] # Idle),
         ~overlapped /\ (\A k \in Ids \ lost : Fine(account[k], user[k], emp[k])) =>
            CallAgrees(rec, account', user', emp', lost')
  PROVE  AgreeInv'
<1> SUFFICES ASSUME ~overlapped' PROVE AgreeInv' BY DEF AgreeInv
<1>1. DOMAIN call = Sessions BY DEF IInv, CallsOK
<1>2. ~overlapped /\ \A t \in Sessions : call[t] = Idle BY Zenon
<1>3. call'[s] = rec /\ \A t \in Sessions \ {s} : call'[t] = Idle BY <1>1, <1>2
<1>4. Alone' BY <1>3 DEF Alone, Idle
<1>5. CallAgrees(rec, account', user', emp', lost') BY <1>2, Zenon DEF AgreeInv
<1>6. ASSUME \A t \in Sessions : call'[t] = Idle, NEW k \in Ids \ lost'
      PROVE  Fine(account'[k], user'[k], emp'[k])
  <2>1. rec = Idle BY <1>3, <1>6
  <2>2. Kept(Idle, k, account'[k], user'[k], emp'[k]) BY <1>5, <2>1 DEF CallAgrees
  <2> QED BY <2>2, IdleAgrees
<1>7. ASSUME NEW t \in Sessions, call'[t] # Idle
      PROVE  CallAgrees(call'[t], account', user', emp', lost')
  <2>1. t = s BY <1>3, <1>7
  <2> QED BY <1>3, <1>5, <2>1
<1> QED BY <1>4, <1>6, <1>7, Zenon DEF AgreeInv, Idle

(* The call at work, when there is no other. *)
LEMMA WorkingAgrees ==
  ASSUME IInv, AgreeInv, ~overlapped, NEW s \in Sessions, call[s].pc # "idle"
  PROVE  /\ call[s] # Idle /\ CallAgrees(call[s], account, user, emp, lost)
         /\ call[s] \in Calls /\ CallOK(call[s], Users, Employed)
<1>1. call[s] # Idle BY IdleAgrees
<1>2. CallAgrees(call[s], account, user, emp, lost) BY <1>1, Zenon DEF AgreeInv
<1> QED BY <1>1, <1>2, CallFacts, Zenon
-----------------------------------------------------------------------------
(* Nothing is left to do for an account the call has made but to delete it. *)
LEMMA UndoAgrees ==
  ASSUME NEW c \in Calls, c.kind \in CreateKinds, NEW accounts, NEW users, NEW emps, NEW gone,
         NEW more, gone \subseteq more, CallAgrees(c, accounts, users, emps, gone)
  PROVE  CallAgrees(Undo(c), accounts, users, emps, more)
<1> DEFINE rec == [c EXCEPT !.pc = "delete"]
<1>1. rec.pc = "delete" /\ rec.kind = c.kind /\ rec.id = c.id /\ rec.made = c.made /\ rec.todo = c.todo
  BY DEF Calls
<1>2. Undo(c) = IF DOMAIN c.made = {} THEN Idle ELSE rec BY DEF Undo
<1> HIDE DEF rec
<1>3. ASSUME NEW k \in Ids \ more PROVE Kept(c, k, accounts[k], users[k], emps[k])
  BY DEF CallAgrees
<1>4. Shape(rec) BY <1>1 DEF Shape, CreateKinds, UserKinds
<1>5. Unclaimed(rec, emps) BY <1>1 DEF Unclaimed
<1>6. ASSUME NEW k \in Ids \ more PROVE Kept(rec, k, accounts[k], users[k], emps[k])
  BY <1>1, <1>3 DEF Kept, KeptMade, KeptTaken
<1>7. ASSUME NEW k \in Ids \ more, DOMAIN c.made = {}
      PROVE  Kept(Idle, k, accounts[k], users[k], emps[k])
  <2>1. Fine(accounts[k], users[k], emps[k]) BY <1>3, <1>7 DEF Kept, KeptTaken
  <2> QED BY <2>1, IdleAgrees
<1>8. CASE DOMAIN c.made = {}
  <2>1. Undo(c) = Idle BY <1>2, <1>8
  <2> QED BY <1>7, <1>8, <2>1, IdleAgrees, Zenon DEF CallAgrees
<1>9. CASE DOMAIN c.made # {}
  <2>1. Undo(c) = rec BY <1>2, <1>9
  <2> QED BY <1>4, <1>5, <1>6, <2>1, Zenon DEF CallAgrees
<1> QED BY <1>8, <1>9

(* The beginning of a creation or of a call that works on one id.          *)
LEMMA NewCallFacts ==
  ASSUME NEW rec \in Calls,
         NEW accounts, NEW users, NEW emps, NEW gone,
         \A k \in Ids \ gone : Fine(accounts[k], users[k], emps[k]),
         \/ /\ rec.kind \in {"create", "admin"} /\ rec.pc = "account" /\ DOMAIN rec.made = {}
            /\ rec.kind = "create" => \A e \in rec.todo : \A k \in Ids : LiveRow(emps[k]) => emps[k].email # e
         \/ /\ rec.kind = "patch" /\ rec.pc = "read" /\ rec.did = {} /\ ~rec.undo
            /\ rec.id \in Ids /\ LiveRow(emps[rec.id])
         \/ /\ rec.kind \in UserKinds /\ rec.pc \in {"row", "activate"} /\ rec.did = {}
            /\ rec.email = Null /\ rec.id \in Ids /\ users[rec.id] # NoUser
  PROVE  CallAgrees(rec, accounts, users, emps, gone)
<1>1. Shape(rec) BY DEF Shape, CreateKinds, UserKinds
<1>2. Unclaimed(rec, emps) BY DEF Unclaimed, UserKinds
<1>3. ASSUME NEW k \in Ids \ gone PROVE Kept(rec, k, accounts[k], users[k], emps[k])
  <2>1. Fine(accounts[k], users[k], emps[k]) OBVIOUS
  <2>2. CASE rec.kind \in {"create", "admin"}
    BY <2>1, <2>2 DEF Kept, KeptTaken, CreateKinds, UserKinds
  <2>3. CASE rec.kind = "patch" BY <2>1, <2>3 DEF Kept, KeptPatch, Fine, CreateKinds, UserKinds
  <2>4. CASE rec.kind \in UserKinds
    <3>1. rec.kind \notin CreateKinds /\ rec.kind # "patch" BY <2>4 DEF CreateKinds, UserKinds
    <3> QED BY <2>1, <2>4, <3>1 DEF Kept, KeptUser, Fine, UserKinds
  <2> QED BY <2>2, <2>3, <2>4
<1> QED BY <1>1, <1>2, <1>3, Zenon DEF CallAgrees

(* A call that begins changes no row.                                      *)
LEMMA StartAgrees ==
  ASSUME IInv, AgreeInv, ~overlapped, NEW s \in Sessions, NEW rec, Start(s, rec),
         (\A k \in Ids \ lost : Fine(account[k], user[k], emp[k])) =>
            CallAgrees(rec, account, user, emp, lost)
  PROVE  AgreeInv'
<1>1. /\ call[s] = Idle /\ call' = [call EXCEPT ![s] = rec]
      /\ overlapped' = (overlapped \/ \E t \in Sessions : call[t] # Idle)
      /\ account' = account /\ user' = user /\ emp' = emp /\ lost' = lost
  BY Zenon DEF Start, rows
<1>2. (\A k \in Ids \ lost : Fine(account[k], user[k], emp[k])) =>
        CallAgrees(rec, account', user', emp', lost')
  BY <1>1, Zenon
<1> QED BY <1>1, <1>2, BeginsAgrees, Zenon

(* CreateEmployee, ImportEmployees, RegisterAdmin: no row has the e-mails. *)
LEMMA CreationsAgree ==
  ASSUME IInv, AgreeInv, ~overlapped, NEW s \in Sessions, NEW es \in SUBSET Emails, NEW role \in Roles,
         NEW kind \in {"create", "admin"},
         kind = "create" => \A e \in es : ~EmailTaken(e, Null),
         Start(s, [Idle EXCEPT !.kind = kind, !.pc = "account", !.todo = es, !.role = role])
  PROVE  AgreeInv'
<1> DEFINE rec == [Idle EXCEPT !.kind = kind, !.pc = "account", !.todo = es, !.role = role]
<1>1. Idle \in Calls /\ DOMAIN Idle.made = {} BY IdleOK
<1> HIDE DEF Idle
<1>2. rec \in Calls /\ rec.kind = kind /\ rec.pc = "account" /\ rec.made = Idle.made /\ rec.todo = es
  BY <1>1 DEF Calls, Pcs, Options
<1> HIDE DEF rec
<1>3. kind = "create" => \A e \in es : \A k \in Ids : LiveRow(emp[k]) => emp[k].email # e
  BY AccountsAssumption DEF EmailTaken, Live, LiveRow
<1>4. ASSUME \A k \in Ids \ lost : Fine(account[k], user[k], emp[k])
      PROVE  CallAgrees(rec, account, user, emp, lost)
  BY <1>1, <1>2, <1>3, <1>4, NewCallFacts
<1>5. Start(s, rec) BY DEF rec
<1> QED BY <1>4, <1>5, StartAgrees

LEMMA PatchCheckAgrees ==
  ASSUME IInv, AgreeInv, ~overlapped, NEW s \in Sessions, NEW k \in Ids, NEW p \in Patches,
         PatchCheck(s, k, p)
  PROVE  AgreeInv'
<1> DEFINE rec == [Idle EXCEPT !.kind = "patch", !.pc = "read", !.id = k, !.email = p.email,
                               !.role = p.role, !.active = p.active, !.other = p.other]
<1>1. Start(s, rec) /\ LiveRow(emp[k]) BY DEF PatchCheck, Live, LiveRow
<1>2. /\ p.email \in Options(Emails) /\ p.role \in Options(Roles)
      /\ p.active \in Options(BOOLEAN) /\ p.other \in BOOLEAN
  <2>1. p \in [email : Emails \cup {Null}, role : Roles \cup {Null},
               active : BOOLEAN \cup {Null}, other : BOOLEAN]
    BY AccountsAssumption
  <2> QED BY <2>1 DEF Options
<1>3. Idle \in Calls /\ Idle.did = {} /\ ~Idle.undo BY IdleOK, IdleAgrees
<1> HIDE DEF Idle
<1>4. rec \in Calls /\ rec.kind = "patch" /\ rec.pc = "read" /\ rec.id = k /\ rec.did = {} /\ ~rec.undo
  BY <1>2, <1>3 DEF Calls, Pcs, Options
<1> HIDE DEF rec
<1>5. ASSUME \A j \in Ids \ lost : Fine(account[j], user[j], emp[j])
      PROVE  CallAgrees(rec, account, user, emp, lost)
  BY <1>1, <1>4, <1>5, NewCallFacts
<1> QED BY <1>1, <1>5, StartAgrees

LEMMA UserCallAgrees ==
  ASSUME IInv, AgreeInv, ~overlapped, NEW s \in Sessions, NEW k \in Ids, NEW role \in Roles,
         NEW active \in BOOLEAN,
         \/ AssignRole(s, k, role) \/ RemoveRole(s, k) \/ SetActive(s, k, active)
         \/ FirstLogin(s, k)
  PROVE  AgreeInv'
<1> DEFINE assign == [Idle EXCEPT !.kind = "assign", !.pc = "row", !.id = k, !.role = role]
           remove == [Idle EXCEPT !.kind = "remove", !.pc = "row", !.id = k, !.role = "EMP"]
           block == [Idle EXCEPT !.kind = "block", !.pc = "row", !.id = k, !.active = active]
           login == [Idle EXCEPT !.kind = "login", !.pc = "activate", !.id = k]
<1>1. user[k] # NoUser BY DEF AssignRole, RemoveRole, SetActive, FirstLogin, HasUser
<1>2. \/ Start(s, assign) \/ Start(s, remove) \/ Start(s, block) \/ Start(s, login)
  BY DEF AssignRole, RemoveRole, SetActive, FirstLogin
<1>3. Idle \in Calls /\ Idle.did = {} /\ Idle.email = Null BY IdleOK, IdleAgrees
<1>4. "EMP" \in Roles BY AccountsAssumption
<1> HIDE DEF Idle
<1>5. /\ assign \in Calls /\ assign.kind = "assign" /\ assign.pc = "row" /\ assign.id = k
      /\ assign.did = {} /\ assign.email = Null
  BY <1>3 DEF Calls, Pcs, Options
<1>6. /\ remove \in Calls /\ remove.kind = "remove" /\ remove.pc = "row" /\ remove.id = k
      /\ remove.did = {} /\ remove.email = Null
  BY <1>3, <1>4 DEF Calls, Pcs, Options
<1>7. /\ block \in Calls /\ block.kind = "block" /\ block.pc = "row" /\ block.id = k
      /\ block.did = {} /\ block.email = Null
  BY <1>3 DEF Calls, Pcs, Options
<1>8. /\ login \in Calls /\ login.kind = "login" /\ login.pc = "activate" /\ login.id = k
      /\ login.did = {} /\ login.email = Null
  BY <1>3 DEF Calls, Pcs, Options
<1> HIDE DEF assign, remove, block, login
<1>9. ASSUME NEW rec \in Calls, rec.kind \in UserKinds, rec.pc \in {"row", "activate"}, rec.id = k,
             rec.did = {}, rec.email = Null, Start(s, rec)
      PROVE  AgreeInv'
  <2>1. ASSUME \A j \in Ids \ lost : Fine(account[j], user[j], emp[j])
        PROVE  CallAgrees(rec, account, user, emp, lost)
    BY <1>1, <1>9, <2>1, NewCallFacts
  <2> QED BY <1>9, <2>1, StartAgrees
<1>10. {"assign", "remove", "block", "login"} \subseteq UserKinds BY DEF UserKinds
<1> QED BY <1>2, <1>5, <1>6, <1>7, <1>8, <1>9, <1>10

(* The rows go first, the account is left to delete.                       *)
LEMMA DeleteEmployeeAgrees ==
  ASSUME IInv, AgreeInv, ~overlapped, NEW s \in Sessions, NEW k \in Ids, DeleteEmployee(s, k)
  PROVE  AgreeInv'
<1> DEFINE f == [j \in {k} |-> emp[k].email]
           rec == [Idle EXCEPT !.kind = "delete", !.pc = "delete", !.id = k, !.made = f]
<1>1. /\ emp[k] # NoEmp /\ call[s] = Idle /\ call' = [call EXCEPT ![s] = rec]
      /\ overlapped' = (overlapped \/ \E t \in Sessions : call[t] # Idle)
      /\ user' = [user EXCEPT ![k].active = FALSE] /\ emp' = [emp EXCEPT ![k].deleted = TRUE]
      /\ account' = account /\ lost' = lost
  BY Zenon DEF DeleteEmployee, Live
<1>2. emp[k] \in EmpRows BY <1>1 DEF IInv, RowsOK
<1>3. [emp[k] EXCEPT !.deleted = TRUE].deleted = TRUE BY <1>2 DEF EmpRows
<1>4. emp'[k].deleted /\ \A j \in Ids \ {k} : emp'[j] = emp[j] /\ user'[j] = user[j]
  BY <1>1, <1>3 DEF IInv, RowsOK
<1>5. f \in Made /\ DOMAIN f = {k} BY <1>2, MadeTypes DEF EmpRows
<1>6. Idle \in Calls BY IdleOK
<1> HIDE DEF f, Idle
<1>7. rec.kind = "delete" /\ rec.pc = "delete" /\ rec.made = f BY <1>5, <1>6 DEF Calls, Pcs, Options
<1> HIDE DEF rec
<1>8. ASSUME \A j \in Ids \ lost : Fine(account[j], user[j], emp[j])
      PROVE  CallAgrees(rec, account', user', emp', lost')
  <2>1. Shape(rec) BY <1>7 DEF Shape, CreateKinds, UserKinds
  <2>2. \A emps : Unclaimed(rec, emps) BY <1>7 DEF Unclaimed
  <2>3. ASSUME NEW j \in Ids \ lost' PROVE Kept(rec, j, account'[j], user'[j], emp'[j])
    <3>1. CASE j = k BY <1>4, <1>5, <1>7, <3>1 DEF Kept, KeptMade, LiveRow, CreateKinds
    <3>2. CASE j # k
      <4>1. Fine(account'[j], user'[j], emp'[j]) BY <1>1, <1>4, <1>8, <3>2
      <4> QED BY <1>5, <1>7, <3>2, <4>1 DEF Kept, KeptTaken, CreateKinds
    <3> QED BY <3>1, <3>2
  <2> QED BY <2>1, <2>2, <2>3, Zenon DEF CallAgrees
<1> QED BY <1>1, <1>8, BeginsAgrees
-----------------------------------------------------------------------------
(* Creations and deletions.                                                *)
(* What a list of accounts says after one was added.                       *)
LEMMA WithRead ==
  ASSUME NEW f, NEW k, NEW e
  PROVE  With(f, k, e)[k] = e /\ \A j \in DOMAIN f \ {k} : With(f, k, e)[j] = f[j]
BY DEF With

(* A creation that has an account to make, to take over, or to undo.       *)
LEMMA MakingFacts ==
  ASSUME IInv, AgreeInv, ~overlapped, NEW s \in Sessions, call[s].pc \in Makers
  PROVE  /\ call[s].kind \in {"create", "admin"} /\ call[s] \in Calls /\ call[s].made \in Made
         /\ call[s].role \in Roles
         /\ CallAgrees(call[s], account, user, emp, lost) /\ call[s] # Idle
         /\ \A k \in Ids \ lost : Kept(call[s], k, account[k], user[k], emp[k])
<1>1. call[s].pc # "idle" BY DEF Makers
<1>2. call[s] \in Calls /\ CallOK(call[s], Users, Employed) BY <1>1, WorkingAgrees
<1>3. call[s].made \in Made BY <1>2 DEF Calls
<1>4. CallAgrees(call[s], account, user, emp, lost) /\ call[s] # Idle BY <1>1, WorkingAgrees
<1>5. \A k \in Ids \ lost : Kept(call[s], k, account[k], user[k], emp[k])
  BY <1>4, Zenon DEF CallAgrees
<1> QED BY <1>2, <1>3, <1>4, <1>5 DEF CallOK, Creating

(* A creation that gives up: nothing changes but where the call is.        *)
LEMMA UndoneAgrees ==
  ASSUME IInv, AgreeInv, ~overlapped, NEW s \in Sessions, call[s].pc \in Makers,
         Go(s, Undo(call[s])), UNCHANGED <<account, rows>>, lost \subseteq lost'
  PROVE  AgreeInv'
<1>1. call[s] \in Calls /\ call[s].kind \in CreateKinds /\ call[s] # Idle
  BY MakingFacts DEF CreateKinds
<1>2. CallAgrees(call[s], account, user, emp, lost) BY MakingFacts
<1>3. CallAgrees(Undo(call[s]), account, user, emp, lost') BY <1>1, <1>2, UndoAgrees
<1>4. /\ call' = [call EXCEPT ![s] = Undo(call[s])] /\ overlapped' = overlapped
      /\ account' = account /\ user' = user /\ emp' = emp
  BY DEF Go, rows
<1>5. CallAgrees(Undo(call[s]), account', user', emp', lost') BY <1>3, <1>4, Zenon
<1> QED BY <1>1, <1>4, <1>5, GoesOnAgrees

LEMMA CreateFailsAgrees ==
  ASSUME IInv, AgreeInv, ~overlapped, NEW s \in Sessions, CreateFails(s) PROVE AgreeInv'
<1>1. lost \subseteq lost' BY DEF CreateFails, GivenUp
<1> QED BY <1>1, UndoneAgrees DEF CreateFails, Makers

LEMMA CreateAccountAgrees ==
  ASSUME IInv, AgreeInv, ~overlapped, NEW s \in Sessions, NEW k \in Ids, CreateAccount(s, k)
  PROVE  AgreeInv'
<1> DEFINE c == call[s]
<1>1. c.pc = "account" /\ c.pc \in Makers BY DEF CreateAccount, At, Makers
<1>2. /\ c.kind \in {"create", "admin"} /\ c \in Calls /\ c.made \in Made /\ c.role \in Roles
      /\ CallAgrees(c, account, user, emp, lost) /\ c # Idle
      /\ \A j \in Ids \ lost : Kept(c, j, account[j], user[j], emp[j])
  BY <1>1, MakingFacts
<1>3. PICK e \in c.todo :
        /\ \A j \in Ids : account[j].email # e
        /\ account' = [account EXCEPT ![k] = [email |-> e, enabled |-> TRUE, roles |-> {}]]
        /\ Go(s, [c EXCEPT !.pc = "role", !.id = k, !.todo = @ \ {e}, !.made = With(@, k, e)])
  BY DEF CreateAccount
<1>4. /\ account[k] = NoAccount /\ user[k] = NoUser /\ c.id # k /\ k \notin DOMAIN c.made
      /\ user' = user /\ emp' = emp /\ lost' = lost
  BY DEF CreateAccount, HasAccount, HasUser, rows
<1>5. e \in Emails /\ c.made \in Made BY <1>2, <1>3 DEF Calls
<1>6. /\ With(c.made, k, e) \in Made /\ DOMAIN With(c.made, k, e) = DOMAIN c.made \cup {k}
      /\ With(c.made, k, e)[k] = e /\ \A j \in DOMAIN c.made : With(c.made, k, e)[j] = c.made[j]
  <2>1. With(c.made, k, e) \in Made /\ DOMAIN With(c.made, k, e) = DOMAIN c.made \cup {k}
    BY <1>5, MadeTypes
  <2>2. /\ With(c.made, k, e)[k] = e
        /\ \A j \in DOMAIN c.made \ {k} : With(c.made, k, e)[j] = c.made[j]
    BY WithRead
  <2> QED BY <1>4, <2>1, <2>2
<1> DEFINE f == With(c.made, k, e)
           rec == [c EXCEPT !.pc = "role", !.id = k, !.todo = @ \ {e}, !.made = f]
<1>7. /\ f \in Made /\ DOMAIN f = DOMAIN c.made \cup {k} /\ f[k] = e
      /\ \A j \in DOMAIN c.made : f[j] = c.made[j]
  BY <1>6
<1>8. Go(s, rec) BY <1>3
<1> HIDE DEF f
<1>9. /\ rec.pc = "role" /\ rec.id = k /\ rec.made = f /\ rec.todo = c.todo \ {e}
      /\ rec.kind = c.kind /\ rec.role = c.role
  BY <1>2 DEF Calls
<1> HIDE DEF rec, c
<1> DEFINE a == [email |-> e, enabled |-> TRUE, roles |-> {}]
<1>10. a.email = e /\ a.roles = {} /\ a # NoAccount
  BY <1>5, AccountsAssumption DEF NoAccount
<1>11. account'[k] = a /\ \A j \in Ids \ {k} : account'[j] = account[j]
  BY <1>3 DEF IInv, RowsOK
<1> HIDE DEF a
<1>12. Shape(rec) BY <1>2, <1>7, <1>9 DEF Shape, CreateKinds, UserKinds
<1>13. Unclaimed(rec, emp) BY <1>1, <1>2, <1>9 DEF CallAgrees, Unclaimed
<1>14. ~LiveRow(emp[k]) BY <1>4 DEF IInv, EmailAgrees, HasUser, LiveRow
<1>15. ASSUME NEW j \in Ids \ lost PROVE Kept(rec, j, account'[j], user[j], emp[j])
  <2>0. rec.kind \in CreateKinds /\ c.kind \in CreateKinds BY <1>2, <1>9 DEF CreateKinds
  <2>1. CASE j = k
    <3>1. KeptMade(rec, k, a, user[k], emp[k]) BY <1>7, <1>9, <1>10, <1>14 DEF KeptMade
    <3> QED BY <1>7, <1>9, <1>11, <2>0, <2>1, <3>1 DEF Kept
  <2>2. CASE j \in DOMAIN c.made
    <3>0. j # k BY <1>4, <2>2 DEF c
    <3>1. KeptMade(c, j, account[j], user[j], emp[j]) BY <1>2, <2>0, <2>2 DEF Kept
    <3>2. KeptMade(rec, j, account[j], user[j], emp[j])
      BY <1>1, <1>7, <1>9, <2>2, <3>0, <3>1 DEF KeptMade
    <3> QED BY <1>7, <1>9, <1>11, <2>0, <2>2, <3>0, <3>2 DEF Kept
  <2>3. CASE j # k /\ j \notin DOMAIN c.made
    <3>1. Fine(account[j], user[j], emp[j]) BY <1>2, <2>0, <2>3 DEF Kept, KeptTaken
    <3>2. j \notin DOMAIN rec.made BY <1>7, <1>9, <2>3
    <3> QED BY <1>9, <1>11, <2>0, <2>3, <3>1, <3>2 DEF Kept, KeptTaken
  <2> QED BY <2>1, <2>2, <2>3
<1>16. CallAgrees(rec, account', user', emp', lost')
  BY <1>4, <1>12, <1>13, <1>15, Zenon DEF CallAgrees
<1>17. call[s] # Idle /\ call' = [call EXCEPT ![s] = rec] /\ overlapped' = overlapped
  BY <1>2, <1>8 DEF Go, c
<1> QED BY <1>16, <1>17, GoesOnAgrees

(* The account that is taken over has no living employee: its e-mail is free.*)
LEMMA CreateConflictAgrees ==
  ASSUME IInv, AgreeInv, ~overlapped, NEW s \in Sessions, NEW k \in Ids, CreateConflict(s, k)
  PROVE  AgreeInv'
<1> DEFINE c == call[s]
           rec == [c EXCEPT !.pc = "enable", !.id = k, !.email = account[k].email,
                            !.todo = @ \ {account[k].email}]
<1>1. c.pc = "account" /\ c.pc \in Makers BY DEF CreateConflict, At, Makers
<1>2. /\ c.kind \in {"create", "admin"} /\ c \in Calls
      /\ CallAgrees(c, account, user, emp, lost) /\ c # Idle
      /\ \A j \in Ids \ lost : Kept(c, j, account[j], user[j], emp[j])
  BY <1>1, MakingFacts
<1>3. /\ account[k] # NoAccount /\ account[k].email \in c.todo
      /\ UNCHANGED <<account, rows, lost>>
      /\ Go(s, Undo(c)) \/ (c.kind # "admin" /\ Go(s, rec))
  BY DEF CreateConflict, HasAccount
<1>4. CASE Go(s, Undo(c)) BY <1>1, <1>3, <1>4, UndoneAgrees
<1>5. CASE c.kind = "create" /\ Go(s, rec)
  <2>1. /\ rec.pc = "enable" /\ rec.id = k /\ rec.made = c.made
        /\ rec.todo = c.todo \ {account[k].email} /\ rec.kind = c.kind /\ rec.role = c.role
    BY <1>2 DEF Calls
  <2>2. Go(s, rec) BY <1>5
  <2> HIDE DEF rec, c
  <2>3. c.kind \in CreateKinds /\ rec.kind \in CreateKinds BY <1>2, <2>1 DEF CreateKinds
  <2>4. Shape(rec) BY <1>5, <2>1 DEF Shape, CreateKinds, UserKinds
  <2>5. Unclaimed(rec, emp) BY <1>1, <1>2, <2>1 DEF CallAgrees, Unclaimed
  <2>6. k \notin lost => k \notin DOMAIN c.made
    BY <1>1, <1>2, <1>3, <2>3 DEF Kept, KeptMade
  <2>7. ASSUME NEW j \in Ids \ lost PROVE Kept(rec, j, account[j], user[j], emp[j])
    <3>1. CASE j \in DOMAIN c.made
      <4>0. j # k BY <2>6, <3>1
      <4>1. KeptMade(c, j, account[j], user[j], emp[j]) BY <1>2, <2>3, <3>1 DEF Kept
      <4>2. KeptMade(rec, j, account[j], user[j], emp[j])
        BY <1>1, <2>1, <4>0, <4>1 DEF KeptMade
      <4> QED BY <2>1, <2>3, <3>1, <4>2 DEF Kept
    <3>2. CASE j \notin DOMAIN c.made
      <4>1. Fine(account[j], user[j], emp[j]) BY <1>2, <2>3, <3>2 DEF Kept, KeptTaken
      <4>2. j = k => ~LiveRow(emp[j])
        <5> SUFFICES ASSUME j = k, LiveRow(emp[k]) PROVE FALSE OBVIOUS
        <5>1. emp[k].email = user[k].email BY DEF IInv, EmailAgrees, LiveRow
        <5>2. account[k].email = user[k].email BY <1>3, <4>1 DEF Fine
        <5>3. emp[k].email # account[k].email
          BY <1>1, <1>2, <1>3, <1>5 DEF CallAgrees, Unclaimed
        <5> QED BY <5>1, <5>2, <5>3
      <4>3. KeptTaken(rec, j, account[j], user[j], emp[j])
        BY <1>3, <2>1, <4>1, <4>2 DEF KeptTaken
      <4> QED BY <2>1, <2>3, <3>2, <4>3 DEF Kept
    <3> QED BY <3>1, <3>2
  <2>8. /\ account' = account /\ user' = user /\ emp' = emp /\ lost' = lost /\ call[s] # Idle
        /\ call' = [call EXCEPT ![s] = rec] /\ overlapped' = overlapped
    BY <1>2, <1>3, <2>2 DEF Go, rows, c
  <2>9. CallAgrees(rec, account', user', emp', lost')
    BY <2>4, <2>5, <2>7, <2>8, Zenon DEF CallAgrees
  <2> QED BY <2>8, <2>9, GoesOnAgrees
<1> QED BY <1>2, <1>3, <1>4, <1>5

(* What is kept of an account does not depend on whether it is enabled.    *)
LEMMA EnabledIsFree ==
  ASSUME NEW a, NEW b, NEW u, NEW e, a # NoAccount, b # NoAccount,
         a.email = b.email, a.roles = b.roles
  PROVE  Fine(a, u, e) => Fine(b, u, e)
BY DEF Fine

LEMMA CreateEnableAgrees ==
  ASSUME IInv, AgreeInv, ~overlapped, NEW s \in Sessions, CreateEnable(s) PROVE AgreeInv'
<1> DEFINE c == call[s]
           k == c.id
           rec == [c EXCEPT !.pc = "password"]
           row == [account[k] EXCEPT !.enabled = TRUE]
<1>1. c.pc = "enable" /\ c.pc \in Makers BY DEF CreateEnable, At, Makers
<1>2. /\ c.kind \in {"create", "admin"} /\ c \in Calls
      /\ CallAgrees(c, account, user, emp, lost) /\ c # Idle
      /\ \A j \in Ids \ lost : Kept(c, j, account[j], user[j], emp[j])
      /\ CallOK(c, Users, Employed)
  BY <1>1, MakingFacts, CallFacts
<1>3. /\ account[k] # NoAccount /\ Go(s, rec) /\ user' = user /\ emp' = emp /\ lost' = lost
      /\ account' = [account EXCEPT ![k] = row]
  BY DEF CreateEnable, GoTo, HasAccount, rows
<1>4. k \in Ids BY <1>1, <1>2 DEF CallOK, Creating
<1>5. account[k] \in AccountRows BY <1>3, <1>4 DEF IInv, RowsOK
<1>6. row.email = account[k].email /\ row.roles = account[k].roles /\ row # NoAccount
  <2>1. row \in AccountRows BY <1>5 DEF AccountRows
  <2>2. NoAccount \notin AccountRows BY AccountsAssumption DEF NoAccount, AccountRows
  <2> QED BY <1>5, <2>1, <2>2 DEF AccountRows
<1>7. account'[k] = row /\ \A j \in Ids \ {k} : account'[j] = account[j]
  BY <1>3, <1>4 DEF IInv, RowsOK
<1>8. /\ rec.pc = "password" /\ rec.id = c.id /\ rec.made = c.made /\ rec.todo = c.todo
      /\ rec.kind = c.kind /\ rec.role = c.role
  BY <1>2 DEF Calls
<1> HIDE DEF rec, row, c
<1>9. c.kind \in CreateKinds /\ rec.kind \in CreateKinds BY <1>2, <1>8 DEF CreateKinds
<1>10. Shape(rec) BY <1>2, <1>8 DEF Shape, CreateKinds, UserKinds
<1>11. Unclaimed(rec, emp) BY <1>1, <1>2, <1>8 DEF CallAgrees, Unclaimed
<1>12. ASSUME NEW j \in Ids \ lost PROVE Kept(rec, j, account'[j], user[j], emp[j])
  <2>1. CASE j \in DOMAIN c.made
    <3>1. KeptMade(c, j, account[j], user[j], emp[j]) BY <1>2, <1>9, <2>1 DEF Kept
    <3>2. j # k BY <1>1, <3>1 DEF KeptMade
    <3>3. KeptMade(rec, j, account[j], user[j], emp[j]) BY <1>1, <1>8, <3>1 DEF KeptMade
    <3> QED BY <1>7, <1>8, <1>9, <2>1, <3>2, <3>3 DEF Kept
  <2>2. CASE j \notin DOMAIN c.made
    <3>1. KeptTaken(c, j, account[j], user[j], emp[j]) BY <1>2, <1>9, <2>2 DEF Kept
    <3>2. CASE j = k
      <4>1. Fine(row, user[j], emp[j]) BY <1>3, <1>6, <3>1, <3>2, EnabledIsFree DEF KeptTaken
      <4>2. KeptTaken(rec, j, row, user[j], emp[j])
        BY <1>1, <1>6, <1>8, <3>1, <3>2, <4>1 DEF KeptTaken
      <4> QED BY <1>7, <1>8, <1>9, <2>2, <3>2, <4>2 DEF Kept
    <3>3. CASE j # k
      <4>1. KeptTaken(rec, j, account[j], user[j], emp[j]) BY <1>8, <3>1, <3>3 DEF KeptTaken
      <4> QED BY <1>7, <1>8, <1>9, <2>2, <3>3, <4>1 DEF Kept
    <3> QED BY <3>2, <3>3
  <2> QED BY <2>1, <2>2
<1>13. CallAgrees(rec, account', user', emp', lost')
  BY <1>3, <1>10, <1>11, <1>12, Zenon DEF CallAgrees
<1>14. call[s] # Idle /\ call' = [call EXCEPT ![s] = rec] /\ overlapped' = overlapped
  BY <1>2, <1>3 DEF Go, c
<1> QED BY <1>13, <1>14, GoesOnAgrees

LEMMA CreatePasswordAgrees ==
  ASSUME IInv, AgreeInv, ~overlapped, NEW s \in Sessions, CreatePassword(s) PROVE AgreeInv'
<1> DEFINE c == call[s]
           k == c.id
           f == With(c.made, k, c.email)
           rec == [c EXCEPT !.pc = "role", !.made = f]
<1>1. c.pc = "password" /\ c.pc \in Makers BY DEF CreatePassword, At, Makers
<1>2. /\ c.kind \in {"create", "admin"} /\ c \in Calls /\ c.made \in Made
      /\ CallAgrees(c, account, user, emp, lost) /\ c # Idle
      /\ \A j \in Ids \ lost : Kept(c, j, account[j], user[j], emp[j])
      /\ CallOK(c, Users, Employed)
  BY <1>1, MakingFacts, CallFacts
<1>3. Go(s, rec) /\ account' = account /\ user' = user /\ emp' = emp /\ lost' = lost
  BY DEF CreatePassword, rows
<1>4. k \in Ids /\ c.email \in Emails BY <1>1, <1>2 DEF CallOK, Creating
<1>5. DOMAIN f = DOMAIN c.made \cup {k} BY <1>2, <1>4, MadeTypes
<1>6. \A j \in DOMAIN c.made \ {k} : f[j] = c.made[j] BY WithRead
<1> HIDE DEF f
<1>7. /\ rec.pc = "role" /\ rec.id = c.id /\ rec.made = f /\ rec.todo = c.todo
      /\ rec.kind = c.kind /\ rec.role = c.role
  BY <1>2 DEF Calls
<1> HIDE DEF rec, c
<1>8. c.kind \in CreateKinds /\ rec.kind \in CreateKinds BY <1>2, <1>7 DEF CreateKinds
<1>9. Shape(rec) BY <1>2, <1>5, <1>7 DEF Shape, CreateKinds, UserKinds
<1>10. Unclaimed(rec, emp) BY <1>1, <1>2, <1>7 DEF CallAgrees, Unclaimed
<1>11. ASSUME NEW j \in Ids \ lost PROVE Kept(rec, j, account[j], user[j], emp[j])
  <2>1. CASE j \in DOMAIN c.made
    <3>1. KeptMade(c, j, account[j], user[j], emp[j]) BY <1>2, <1>8, <2>1 DEF Kept
    <3>2. j # k BY <1>1, <3>1 DEF KeptMade
    <3>3. f[j] = c.made[j] BY <1>6, <2>1, <3>2
    <3>4. KeptMade(rec, j, account[j], user[j], emp[j])
      BY <1>1, <1>7, <3>1, <3>2, <3>3 DEF KeptMade
    <3> QED BY <1>5, <1>7, <1>8, <2>1, <3>4 DEF Kept
  <2>2. CASE j \notin DOMAIN c.made
    <3>1. KeptTaken(c, j, account[j], user[j], emp[j]) BY <1>2, <1>8, <2>2 DEF Kept
    <3>2. CASE j = k
      <4>1. user[j] # NoUser BY <1>1, <3>1, <3>2 DEF KeptTaken, Fine
      <4>2. KeptMade(rec, j, account[j], user[j], emp[j])
        BY <1>1, <1>7, <3>1, <3>2, <4>1 DEF KeptMade, KeptTaken
      <4> QED BY <1>5, <1>7, <1>8, <3>2, <4>2 DEF Kept
    <3>3. CASE j # k
      <4>1. KeptTaken(rec, j, account[j], user[j], emp[j]) BY <1>7, <3>1 DEF KeptTaken
      <4> QED BY <1>5, <1>7, <1>8, <2>2, <3>3, <4>1 DEF Kept
    <3> QED BY <3>2, <3>3
  <2> QED BY <2>1, <2>2
<1>12. CallAgrees(rec, account', user', emp', lost')
  BY <1>3, <1>9, <1>10, <1>11, Zenon DEF CallAgrees
<1>13. call[s] # Idle /\ call' = [call EXCEPT ![s] = rec] /\ overlapped' = overlapped
  BY <1>2, <1>3 DEF Go, c
<1> QED BY <1>12, <1>13, GoesOnAgrees

LEMMA CreateRoleAgrees ==
  ASSUME IInv, AgreeInv, ~overlapped, NEW s \in Sessions, CreateRole(s) PROVE AgreeInv'
<1> DEFINE c == call[s]
           k == c.id
           row == [account[k] EXCEPT !.roles = @ \cup {c.role}]
           pc == IF c.todo = {} THEN "insert" ELSE "account"
           rec == [c EXCEPT !.pc = pc]
<1>1. c.pc = "role" /\ c.pc \in Makers BY DEF CreateRole, At, Makers
<1>2. /\ c.kind \in {"create", "admin"} /\ c \in Calls /\ c.made \in Made
      /\ CallAgrees(c, account, user, emp, lost) /\ c # Idle
      /\ \A j \in Ids \ lost : Kept(c, j, account[j], user[j], emp[j])
      /\ CallOK(c, Users, Employed)
  BY <1>1, MakingFacts, CallFacts
<1>3. /\ user' = user /\ emp' = emp /\ lost' = lost
      /\ \/ account[k] # NoAccount /\ account' = [account EXCEPT ![k] = row] /\ Go(s, rec)
         \/ account' = account /\ Go(s, Undo(c))
  BY DEF CreateRole, HasAccount, rows, NextRow
<1>4. CASE account' = account /\ Go(s, Undo(c))
  BY <1>1, <1>3, <1>4, UndoneAgrees DEF rows
<1>5. CASE account[k] # NoAccount /\ account' = [account EXCEPT ![k] = row] /\ Go(s, rec)
  <2>1. k \in Ids /\ c.role \in Roles BY <1>1, <1>2 DEF CallOK, Creating, Makers
  <2>2. account[k] \in AccountRows BY <1>5, <2>1 DEF IInv, RowsOK
  <2>3. row.email = account[k].email /\ row.roles = account[k].roles \cup {c.role} /\ row # NoAccount
    <3>1. row \in AccountRows BY <2>1, <2>2 DEF AccountRows
    <3>2. NoAccount \notin AccountRows BY AccountsAssumption DEF NoAccount, AccountRows
    <3> QED BY <2>2, <3>1, <3>2 DEF AccountRows
  <2>4. account'[k] = row /\ \A j \in Ids \ {k} : account'[j] = account[j]
    BY <1>5, <2>1 DEF IInv, RowsOK
  <2>5. pc \in {"insert", "account"} OBVIOUS
  <2> HIDE DEF pc
  <2>6. /\ rec.pc = pc /\ rec.id = c.id /\ rec.made = c.made /\ rec.todo = c.todo
        /\ rec.kind = c.kind /\ rec.role = c.role
    BY <1>2 DEF Calls
  <2>7. Go(s, rec) BY <1>5
  <2> HIDE DEF rec, row, c
  <2>8. c.kind \in CreateKinds /\ rec.kind \in CreateKinds BY <1>2, <2>6 DEF CreateKinds
  <2>9. k \in DOMAIN c.made BY <1>1, <1>2, <2>8 DEF CallAgrees, Shape
  <2>10. Shape(rec) BY <1>2, <2>5, <2>6 DEF Shape, CreateKinds, UserKinds
  <2>11. Unclaimed(rec, emp) BY <1>1, <1>2, <2>6 DEF CallAgrees, Unclaimed
  <2>12. ASSUME NEW j \in Ids \ lost PROVE Kept(rec, j, account'[j], user[j], emp[j])
    <3>1. CASE j \in DOMAIN c.made
      <4>1. KeptMade(c, j, account[j], user[j], emp[j]) BY <1>2, <2>8, <3>1 DEF Kept
      <4>2. CASE j = k
        <5>1. user[j] = NoUser => row.roles = {c.role} BY <1>1, <2>3, <4>1, <4>2 DEF KeptMade
        <5>2. KeptMade(rec, j, row, user[j], emp[j])
          BY <1>1, <2>3, <2>5, <2>6, <4>1, <4>2, <5>1 DEF KeptMade
        <5> QED BY <2>4, <2>6, <2>8, <3>1, <4>2, <5>2 DEF Kept
      <4>3. CASE j # k
        <5>1. KeptMade(rec, j, account[j], user[j], emp[j])
          BY <1>1, <2>5, <2>6, <4>1, <4>3 DEF KeptMade
        <5> QED BY <2>4, <2>6, <2>8, <3>1, <4>3, <5>1 DEF Kept
      <4> QED BY <4>2, <4>3
    <3>2. CASE j \notin DOMAIN c.made
      <4>1. KeptTaken(c, j, account[j], user[j], emp[j]) BY <1>2, <2>8, <3>2 DEF Kept
      <4>2. KeptTaken(rec, j, account[j], user[j], emp[j])
        BY <2>5, <2>6, <4>1 DEF KeptTaken
      <4> QED BY <2>4, <2>6, <2>8, <2>9, <3>2, <4>2 DEF Kept
    <3> QED BY <3>1, <3>2
  <2>13. CallAgrees(rec, account', user', emp', lost')
    BY <1>3, <2>10, <2>11, <2>12, Zenon DEF CallAgrees
  <2>14. call[s] # Idle /\ call' = [call EXCEPT ![s] = rec] /\ overlapped' = overlapped
    BY <1>2, <2>7 DEF Go, c
  <2> QED BY <2>13, <2>14, GoesOnAgrees
<1> QED BY <1>3, <1>4, <1>5

(* A call returns and leaves every id Fine.                                *)
LEMMA ReturnAgrees ==
  ASSUME IInv, AgreeInv, ~overlapped, NEW s \in Sessions, call[s] # Idle, Go(s, Idle),
         \A k \in Ids \ lost' : Fine(account'[k], user'[k], emp'[k])
  PROVE  AgreeInv'
<1>1. CallAgrees(Idle, account', user', emp', lost')
  BY IdleAgrees, Zenon DEF CallAgrees
<1>2. call' = [call EXCEPT ![s] = Idle] /\ overlapped' = overlapped BY Zenon DEF Go
<1> HIDE DEF Idle
<1> QED BY <1>1, <1>2, GoesOnAgrees

(* The rows that are inserted say what the accounts say.                   *)
LEMMA CreateInsertAgrees ==
  ASSUME IInv, AgreeInv, ~overlapped, NEW s \in Sessions, CreateInsert(s) PROVE AgreeInv'
<1> DEFINE c == call[s]
           ids == DOMAIN c.made
           employees == c.kind = "create"
           NewUser(k) == [email |-> c.made[k], role |-> c.role,
                          active |-> employees, onboarded |-> employees]
           NewEmp(k) == [email |-> c.made[k], active |-> TRUE, deleted |-> FALSE]
           inserts == /\ \A k \in ids : user[k] = NoUser
                      /\ user' = [k \in Ids |-> IF k \notin ids THEN user[k] ELSE NewUser(k)]
                      /\ emp' = [k \in Ids |-> IF employees /\ k \in ids THEN NewEmp(k) ELSE emp[k]]
                      /\ Go(s, Idle)
<1>1. c.pc = "insert" /\ c.pc \in Makers BY DEF CreateInsert, At, Makers
<1>2. /\ c.kind \in {"create", "admin"} /\ c \in Calls /\ c.made \in Made /\ c.role \in Roles
      /\ c # Idle /\ \A j \in Ids \ lost : Kept(c, j, account[j], user[j], emp[j])
  BY <1>1, MakingFacts
<1>3. /\ account' = account /\ lost' = lost
      /\ inserts \/ (UNCHANGED rows /\ Go(s, Undo(c)))
  BY DEF CreateInsert, AfterFailedInsert, HasUser, Return
<1>4. CASE UNCHANGED rows /\ Go(s, Undo(c)) BY <1>1, <1>3, <1>4, UndoneAgrees
<1>5. CASE inserts
  <2>1. c.kind \in CreateKinds BY <1>2 DEF CreateKinds
  <2>2. ASSUME NEW k \in Ids \ lost PROVE Fine(account[k], user'[k], emp'[k])
    <3>1. CASE k \in ids
      <4>1. /\ account[k] # NoAccount /\ account[k].email = c.made[k]
            /\ account[k].roles = {c.role} /\ ~LiveRow(emp[k])
        <5>1. KeptMade(c, k, account[k], user[k], emp[k]) BY <1>2, <2>1, <3>1 DEF Kept
        <5>2. user[k] = NoUser BY <1>5, <3>1
        <5> HIDE DEF c
        <5> QED BY <1>1, <5>1, <5>2 DEF KeptMade
      <4>2. c.made[k] \in Emails BY <1>2, <3>1, MadeTypes
      <4>3. NewUser(k) \in UserRows BY <1>2, <4>2 DEF UserRows
      <4>4. user'[k] = NewUser(k) BY <1>5, <3>1
      <4>5. NewUser(k).email = c.made[k] /\ NewUser(k).role = c.role OBVIOUS
      <4>6. NewUser(k) # NoUser BY <4>3, RowFacts
      <4> HIDE DEF NewUser, c
      <4> QED BY <4>1, <4>4, <4>5, <4>6 DEF Fine
    <3>2. CASE k \notin ids
      <4>1. user'[k] = user[k] /\ emp'[k] = emp[k] BY <1>5, <3>2
      <4>2. Fine(account[k], user[k], emp[k]) BY <1>2, <2>1, <3>2 DEF Kept, KeptTaken
      <4> QED BY <4>1, <4>2
    <3> QED BY <3>1, <3>2
  <2>3. \A k \in Ids \ lost' : Fine(account'[k], user'[k], emp'[k]) BY <1>3, <2>2
  <2> QED BY <1>2, <1>5, <2>3, ReturnAgrees
<1> QED BY <1>3, <1>4, <1>5

LEMMA DeleteAccountAgrees ==
  ASSUME IInv, AgreeInv, ~overlapped, NEW s \in Sessions, NEW k \in Ids, DeleteAccount(s, k)
  PROVE  AgreeInv'
<1> DEFINE c == call[s]
           f == [j \in DOMAIN c.made \ {k} |-> c.made[j]]
           rest == [c EXCEPT !.made = f]
<1>1. c.pc = "delete" /\ c.pc # "idle" BY DEF DeleteAccount, At
<1>2. c # Idle /\ CallAgrees(c, account, user, emp, lost) /\ c \in Calls
  BY <1>1, WorkingAgrees
<1>3. /\ k \in DOMAIN c.made /\ Go(s, Undo(rest)) /\ user' = user /\ emp' = emp
      /\ \/ account' = [account EXCEPT ![k] = NoAccount] /\ lost' = lost
         \/ account' = account /\ GivenUp({k})
  BY DEF DeleteAccount, rows
<1>4. f \in Made /\ DOMAIN f = DOMAIN c.made \ {k}
  <2>1. c.made \in Made BY <1>2 DEF Calls
  <2> QED BY <2>1, MadeTypes
<1> HIDE DEF f
<1>5. rest \in Calls /\ rest.pc = "delete" /\ rest.made = f /\ rest.kind = c.kind
  BY <1>1, <1>2, <1>4 DEF Calls
<1> HIDE DEF rest, c
<1>6. c.kind \in CreateKinds
  <2>1. c.kind \in {"none", "create", "admin", "delete", "patch", "assign", "remove", "block", "login"}
    BY <1>2 DEF Calls
  <2> QED BY <1>1, <1>2, <2>1 DEF CallAgrees, Shape, CreateKinds, UserKinds
<1>7. lost \subseteq lost' /\ (k \in lost' \/ account'[k] = NoAccount)
  <2>1. k # Null BY AccountsAssumption
  <2> QED BY <1>3, <2>1 DEF IInv, RowsOK, GivenUp
<1>8. \A j \in Ids \ {k} : account'[j] = account[j] BY <1>3 DEF IInv, RowsOK
<1>9. Shape(rest) BY <1>5, <1>6 DEF Shape, CreateKinds, UserKinds
<1>10. Unclaimed(rest, emp) BY <1>5 DEF Unclaimed
<1>11. ASSUME NEW j \in Ids \ lost' PROVE Kept(rest, j, account'[j], user[j], emp[j])
  <2>0. Kept(c, j, account[j], user[j], emp[j]) BY <1>2, <1>7 DEF CallAgrees
  <2>1. CASE j = k
    <3>1. ~LiveRow(emp[j]) BY <1>3, <1>6, <2>0, <2>1 DEF Kept, KeptMade
    <3>2. KeptTaken(rest, j, account'[j], user[j], emp[j])
      BY <1>5, <1>7, <2>1, <3>1 DEF KeptTaken, Fine
    <3> QED BY <1>4, <1>5, <1>6, <2>1, <3>2 DEF Kept
  <2>2. CASE j # k
    <3>1. Kept(rest, j, account[j], user[j], emp[j])
      BY <1>1, <1>4, <1>5, <1>6, <2>0, <2>2 DEF Kept, KeptMade, KeptTaken
    <3> QED BY <1>8, <2>2, <3>1
  <2> QED BY <2>1, <2>2
<1>12. CallAgrees(rest, account', user', emp', lost')
  BY <1>3, <1>9, <1>10, <1>11, Zenon DEF CallAgrees
<1>13. rest.kind \in CreateKinds BY <1>5, <1>6
<1>14. CallAgrees(Undo(rest), account', user', emp', lost') BY <1>5, <1>12, <1>13, UndoAgrees
<1>15. call[s] # Idle /\ call' = [call EXCEPT ![s] = Undo(rest)] /\ overlapped' = overlapped
  BY <1>2, <1>3 DEF Go, c
<1> QED BY <1>14, <1>15, GoesOnAgrees
-----------------------------------------------------------------------------
(* A call of PatchEmployee or of a handler of users works on one id.       *)
Worker(c) == c.pc # "idle" /\ (c.kind = "patch" \/ c.kind \in UserKinds)
KeptWork(c, a, u, e) == IF c.kind = "patch" THEN KeptPatch(c, a, u) ELSE KeptUser(c, a, u, e)

LEMMA WorkerFacts ==
  ASSUME IInv, AgreeInv, ~overlapped, NEW s \in Sessions,
         call[s].pc \in {"read", "role.save", "save", "row", "activate"} \cup SyncPcs
  PROVE  /\ Worker(call[s]) /\ call[s] # Idle /\ call[s] \in Calls /\ Shape(call[s])
         /\ CallOK(call[s], Users, Employed) /\ call[s].id \in Ids
         /\ \A j \in Ids \ (lost \cup {call[s].id}) : Fine(account[j], user[j], emp[j])
         /\ call[s].id \notin lost =>
              KeptWork(call[s], account[call[s].id], user[call[s].id], emp[call[s].id])
<1> DEFINE c == call[s]
<1>1. c.pc # "idle" BY DEF SyncPcs
<1>2. c # Idle /\ CallAgrees(c, account, user, emp, lost) /\ c \in Calls /\ CallOK(c, Users, Employed)
  BY <1>1, WorkingAgrees
<1> HIDE DEF c
<1>3. c.kind \in {"none", "create", "admin", "delete", "patch", "assign", "remove", "block", "login"}
  BY <1>2 DEF Calls
<1>4. Shape(c) BY <1>2 DEF CallAgrees
<1>5. c.pc \notin {"account", "enable", "password", "role", "insert", "delete"} BY DEF c, SyncPcs
<1>6. c.kind \notin CreateKinds /\ c.kind # "none" BY <1>2, <1>4, <1>5 DEF Shape
<1>7. Worker(c) BY <1>1, <1>3, <1>6 DEF Worker, CreateKinds, UserKinds
<1>8. c.id \in Ids
  <2>1. c.pc \in {"read", "role.save", "save", "row", "activate"} \cup SyncPcs BY DEF c
  <2> QED BY <1>2, <2>1 DEF CallOK, Patching, Syncing, SyncPcs, Users, Employed
<1>9. ASSUME NEW j \in Ids \ lost
      PROVE  IF j # c.id THEN Fine(account[j], user[j], emp[j])
             ELSE KeptWork(c, account[j], user[j], emp[j])
  <2>1. Kept(c, j, account[j], user[j], emp[j]) BY <1>2 DEF CallAgrees
  <2> QED BY <1>6, <2>1 DEF Kept, KeptWork
<1>10. \A j \in Ids \ (lost \cup {c.id}) : Fine(account[j], user[j], emp[j]) BY <1>9
<1>11. c.id \notin lost => KeptWork(c, account[c.id], user[c.id], emp[c.id]) BY <1>8, <1>9
<1> QED BY <1>2, <1>4, <1>7, <1>8, <1>10, <1>11 DEF c

(* A call at work goes on, and the rows of other ids stay.                 *)
LEMMA WorkGoesOn ==
  ASSUME IInv, AgreeInv, ~overlapped, NEW s \in Sessions, NEW c, c = call[s],
         c.pc \in {"read", "role.save", "save", "row", "activate"} \cup SyncPcs,
         NEW rec, Go(s, rec), rec.kind = c.kind, rec.id = c.id, Shape(rec), lost \subseteq lost',
         \A j \in Ids \ {c.id} : account'[j] = account[j] /\ user'[j] = user[j] /\ emp'[j] = emp[j],
         c.id \notin lost' => KeptWork(rec, account'[c.id], user'[c.id], emp'[c.id])
  PROVE  AgreeInv'
<1>1. /\ Worker(c) /\ c # Idle /\ c.id \in Ids
      /\ \A j \in Ids \ (lost \cup {c.id}) : Fine(account[j], user[j], emp[j])
  BY WorkerFacts
<1>2. rec.kind \notin CreateKinds /\ rec.kind # "create"
  BY <1>1 DEF Worker, CreateKinds, UserKinds
<1>3. ASSUME NEW j \in Ids \ lost' PROVE Kept(rec, j, account'[j], user'[j], emp'[j])
  <2>1. CASE j = c.id BY <1>2, <1>3, <2>1 DEF Kept, KeptWork
  <2>2. CASE j # c.id
    <3>1. Fine(account'[j], user'[j], emp'[j]) BY <1>1, <1>3, <2>2
    <3> QED BY <1>2, <2>2, <3>1 DEF Kept
  <2> QED BY <2>1, <2>2
<1>4. \A emps : Unclaimed(rec, emps) BY <1>2 DEF Unclaimed
<1>5. CallAgrees(rec, account', user', emp', lost') BY <1>3, <1>4, Zenon DEF CallAgrees
<1>6. call' = [call EXCEPT ![s] = rec] /\ overlapped' = overlapped BY Zenon DEF Go
<1> QED BY <1>1, <1>5, <1>6, GoesOnAgrees

(* A call at work returns: everything of its id fits, or was given up.     *)
LEMMA WorkReturns ==
  ASSUME IInv, AgreeInv, ~overlapped, NEW s \in Sessions, NEW c, c = call[s],
         c.pc \in {"read", "role.save", "save", "row", "activate"} \cup SyncPcs,
         Go(s, Idle), lost \subseteq lost',
         \A j \in Ids \ {c.id} : account'[j] = account[j] /\ user'[j] = user[j] /\ emp'[j] = emp[j],
         c.id \notin lost' => Fine(account'[c.id], user'[c.id], emp'[c.id])
  PROVE  AgreeInv'
<1>1. /\ c # Idle /\ c.id \in Ids
      /\ \A j \in Ids \ (lost \cup {c.id}) : Fine(account[j], user[j], emp[j])
  BY WorkerFacts
<1> HIDE DEF Idle
<1>2. ASSUME NEW j \in Ids \ lost' PROVE Fine(account'[j], user'[j], emp'[j])
  <2>1. CASE j = c.id BY <1>2, <2>1
  <2>2. CASE j # c.id BY <1>1, <1>2, <2>2
  <2> QED BY <2>1, <2>2
<1> QED BY <1>1, <1>2, ReturnAgrees

(* What a patch reads is what Keycloak has.                                *)
LEMMA PatchReadAgrees ==
  ASSUME IInv, AgreeInv, ~overlapped, NEW s \in Sessions, PatchRead(s) PROVE AgreeInv'
<1> DEFINE c == call[s]
           k == c.id
           past == [email |-> user[k].email, role |-> user[k].role, active |-> emp[k].active]
           read == [c EXCEPT !.past = past]
           next == IF Changed(c.role, read.past.role) THEN "role.remove" ELSE AfterRole(read)
           rec == [read EXCEPT !.pc = next]
<1>1. c.pc = "read" /\ Go(s, rec) /\ account' = account /\ user' = user /\ emp' = emp /\ lost' = lost
  BY DEF PatchRead, At, rows
<1>2. c.pc \in {"read", "role.save", "save", "row", "activate"} \cup SyncPcs BY <1>1
<1>3. /\ c \in Calls /\ Shape(c) /\ CallOK(c, Users, Employed) /\ k \in Ids
      /\ k \notin lost => KeptWork(c, account[k], user[k], emp[k])
  BY <1>2, WorkerFacts
<1>4. past.email = user[k].email /\ past.role = user[k].role OBVIOUS
<1> HIDE DEF past
<1>5. read.past = past /\ read.email = c.email /\ read.did = c.did BY <1>3 DEF Calls
<1>6. next \in {"role.remove", "profile.get", "save"} BY DEF AfterRole
<1>7. next = "save" => ~Changed(c.email, past.email)
  <2>1. next = "save" => ~ProfileChanged(read) BY DEF AfterRole
  <2> QED BY <1>5, <2>1 DEF ProfileChanged
<1> HIDE DEF next
<1>8. /\ rec.pc = next /\ rec.id = k /\ rec.kind = c.kind /\ rec.role = c.role /\ rec.did = c.did
      /\ rec.past = past /\ rec.undo = c.undo /\ rec.email = c.email
  BY <1>3 DEF Calls
<1> HIDE DEF rec, read, c
<1>9. c.kind = "patch" BY <1>1, <1>3 DEF CallOK, Patching
<1>10. ~c.undo /\ c.did = {} BY <1>1, <1>3, <1>9 DEF Shape
<1>11. Shape(rec) BY <1>6, <1>8, <1>9, <1>10 DEF Shape, CreateKinds, UserKinds
<1>12. ASSUME k \notin lost PROVE KeptWork(rec, account[k], user[k], emp[k])
  <2>1. /\ account[k] # NoAccount /\ user[k] # NoUser /\ account[k].email = user[k].email
        /\ account[k].roles = {user[k].role}
    BY <1>1, <1>3, <1>9, <1>12 DEF KeptWork, KeptPatch
  <2>2. next = "save" => account[k].email = IF c.email = Null THEN user[k].email ELSE c.email
    BY <1>4, <1>7, <2>1 DEF Changed
  <2>3. KeptPatch(rec, account[k], user[k])
    BY <1>4, <1>6, <1>8, <1>10, <2>1, <2>2 DEF KeptPatch
  <2> QED BY <1>8, <1>9, <2>3 DEF KeptWork
<1>13. rec.id = c.id /\ rec.kind = c.kind BY <1>8 DEF k
<1>14. c.id \notin lost' => KeptWork(rec, account'[c.id], user'[c.id], emp'[c.id])
  BY <1>1, <1>12 DEF k
<1>15. c = call[s] BY DEF c
<1> HIDE DEF k
<1> QED BY <1>1, <1>2, <1>11, <1>13, <1>14, <1>15, WorkGoesOn

LEMMA PatchRoleAgrees ==
  ASSUME IInv, AgreeInv, ~overlapped, NEW s \in Sessions, PatchRole(s) PROVE AgreeInv'
<1> DEFINE c == call[s]
           k == c.id
           next == AfterRole(c)
           did == c.did \cup {"role"}
           rec == [c EXCEPT !.pc = next, !.did = did]
<1>1. c.pc = "role.save" /\ Go(s, rec) /\ account' = account /\ user' = user /\ emp' = emp /\ lost' = lost
  BY DEF PatchRole, At, rows
<1>2. c.pc \in {"read", "role.save", "save", "row", "activate"} \cup SyncPcs BY <1>1
<1>3. /\ c \in Calls /\ Shape(c) /\ CallOK(c, Users, Employed) /\ k \in Ids
      /\ k \notin lost => KeptWork(c, account[k], user[k], emp[k])
  BY <1>2, WorkerFacts
<1>4. next \in {"profile.get", "save"} BY DEF AfterRole
<1>5. next = "save" => ~Changed(c.email, c.past.email) BY DEF AfterRole, ProfileChanged
<1> HIDE DEF next, did
<1>6. /\ rec.pc = next /\ rec.id = k /\ rec.kind = c.kind /\ rec.role = c.role /\ rec.did = did
      /\ rec.past = c.past /\ rec.undo = c.undo /\ rec.email = c.email
  BY <1>3 DEF Calls
<1> HIDE DEF rec, c
<1>7. c.kind = "patch" BY <1>1, <1>3 DEF CallOK, Patching
<1>8. ~c.undo /\ c.did = {} /\ did = {"role"} BY <1>1, <1>3, <1>7 DEF Shape, did
<1>9. Shape(rec) BY <1>4, <1>6, <1>7, <1>8 DEF Shape, CreateKinds, UserKinds
<1>10. ASSUME k \notin lost PROVE KeptWork(rec, account[k], user[k], emp[k])
  <2>1. /\ account[k] # NoAccount /\ user[k] # NoUser /\ account[k].email = user[k].email
        /\ account[k].roles = {c.role} /\ c.past.email = user[k].email /\ c.past.role = user[k].role
    BY <1>1, <1>3, <1>7, <1>8, <1>10 DEF KeptWork, KeptPatch
  <2>2. next = "save" => account[k].email = IF c.email = Null THEN user[k].email ELSE c.email
    BY <1>5, <2>1 DEF Changed
  <2>3. KeptPatch(rec, account[k], user[k])
    BY <1>4, <1>6, <1>8, <2>1, <2>2 DEF KeptPatch
  <2> QED BY <1>6, <1>7, <2>3 DEF KeptWork
<1>11. rec.id = c.id /\ rec.kind = c.kind BY <1>6 DEF k
<1>12. c.id \notin lost' => KeptWork(rec, account'[c.id], user'[c.id], emp'[c.id])
  BY <1>1, <1>10 DEF k
<1>13. c = call[s] BY DEF c
<1> HIDE DEF k
<1> QED BY <1>1, <1>2, <1>9, <1>11, <1>12, <1>13, WorkGoesOn

LEMMA PatchSaveAgrees ==
  ASSUME IInv, AgreeInv, ~overlapped, NEW s \in Sessions, PatchSave(s) PROVE AgreeInv'
<1> DEFINE c == call[s]
           k == c.id
           u == [user[k] EXCEPT !.email = IF c.email # Null THEN c.email ELSE @,
                                !.active = IF Changed(c.active, c.past.active) THEN c.active ELSE @,
                                !.role = IF "role" \in c.did THEN c.role ELSE @]
<1>1. c.pc = "save" /\ Go(s, Idle) /\ account' = account /\ lost' = lost
  BY DEF PatchSave, At, Return
<1>2. c.pc \in {"read", "role.save", "save", "row", "activate"} \cup SyncPcs BY <1>1
<1>3. /\ c \in Calls /\ Shape(c) /\ CallOK(c, Users, Employed) /\ k \in Ids
      /\ k \notin lost => KeptWork(c, account[k], user[k], emp[k])
  BY <1>2, WorkerFacts
<1>4. c.kind = "patch" /\ emp[k] # NoEmp BY <1>1, <1>3 DEF CallOK, Patching, Employed
<1>5. user[k] # NoUser /\ user[k] \in UserRows
  BY <1>3, <1>4 DEF IInv, EmailAgrees, HasUser, RowsOK
<1>6. user' = [user EXCEPT ![k] = u]
  BY <1>3, <1>5 DEF PatchSave, UserEmailSaved, IInv, RowsOK, UserRows
<1>7. /\ u.email = IF c.email # Null THEN c.email ELSE user[k].email
      /\ u.role = IF "role" \in c.did THEN c.role ELSE user[k].role
      /\ DOMAIN u = DOMAIN user[k]
  BY <1>5 DEF UserRows
<1>8. /\ user'[k] = u /\ \A j \in Ids \ {k} : user'[j] = user[j] /\ emp'[j] = emp[j]
  BY <1>3, <1>6 DEF PatchSave, IInv, RowsOK
<1>9. u # NoUser
  <2>1. user'[k] \in UserRows \cup {NoUser} BY <1>3, PatchSaveOK DEF IInv, RowsOK
  <2>2. c.email \in Emails \cup {Null} BY <1>3 DEF Calls, Options
  <2>3. u.email \in Emails BY <1>5, <1>7, <2>2 DEF UserRows
  <2> HIDE DEF u
  <2> QED BY <2>3, AccountsAssumption DEF NoUser
<1> HIDE DEF u, c
<1>10. ~c.undo BY <1>1, <1>3, <1>4 DEF Shape
<1>11. ASSUME k \notin lost PROVE Fine(account[k], u, emp'[k])
  <2>1. /\ account[k] # NoAccount
        /\ account[k].email = IF c.email = Null THEN user[k].email ELSE c.email
        /\ account[k].roles = {IF "role" \in c.did THEN c.role ELSE user[k].role}
    BY <1>1, <1>3, <1>4, <1>10, <1>11 DEF KeptWork, KeptPatch
  <2> QED BY <1>7, <1>9, <2>1 DEF Fine
<1>12. c.id \notin lost' => Fine(account'[c.id], user'[c.id], emp'[c.id])
  BY <1>1, <1>8, <1>11 DEF k
<1>13. c = call[s] BY DEF c
<1>14. \A j \in Ids \ {c.id} : account'[j] = account[j] /\ user'[j] = user[j] /\ emp'[j] = emp[j]
  BY <1>1, <1>8 DEF k
<1>15. lost \subseteq lost' BY <1>1
<1> HIDE DEF k, Idle
<1> QED BY <1>1, <1>2, <1>12, <1>13, <1>14, <1>15, WorkReturns

(* A failed transaction leaves users as they were: what was read is restored.*)
LEMMA PatchFailsAgrees ==
  ASSUME IInv, AgreeInv, ~overlapped, NEW s \in Sessions, PatchFails(s) PROVE AgreeInv'
<1> DEFINE c == call[s]
           k == c.id
           did == c.did \cup (IF c.pc = "role.save" THEN {"role"} ELSE {})
           b == [c EXCEPT !.did = did]
           pc == IF "role" \in b.did THEN "role.remove" ELSE
                 IF "profile" \in b.did THEN "profile.get" ELSE "idle"
           rec == [b EXCEPT !.undo = TRUE, !.email = b.past.email, !.role = b.past.role,
                            !.active = b.past.active, !.pc = pc]
<1>1. /\ c.pc \in {"role.save", "save"} /\ c.kind = "patch" /\ Go(s, Restored(b))
      /\ account' = account /\ user' = user /\ emp' = emp /\ lost' = lost
  BY DEF PatchFails, rows
<1>2. c.pc \in {"read", "role.save", "save", "row", "activate"} \cup SyncPcs BY <1>1
<1>3. /\ c \in Calls /\ Shape(c) /\ k \in Ids
      /\ k \notin lost => KeptWork(c, account[k], user[k], emp[k])
  BY <1>2, WorkerFacts
<1>4. "role" \in did <=> "role" \in c.did \/ c.pc = "role.save" OBVIOUS
<1>5. "profile" \in did <=> "profile" \in c.did OBVIOUS
<1> HIDE DEF did
<1>6. b.did = did /\ b.past = c.past /\ b.id = k /\ b.kind = c.kind BY <1>3 DEF Calls
<1>7. Restored(b) = IF rec.pc = "idle" THEN Idle ELSE rec BY DEF Restored, Restore, ToRestore
<1>8. pc = IF "role" \in did THEN "role.remove" ELSE
           IF "profile" \in did THEN "profile.get" ELSE "idle"
  BY <1>6
<1> HIDE DEF pc
<1>9. /\ rec.pc = pc /\ rec.id = k /\ rec.kind = c.kind /\ rec.role = b.past.role /\ rec.did = b.did
      /\ rec.past = b.past /\ rec.undo /\ rec.email = b.past.email
  BY <1>3 DEF Calls
<1> HIDE DEF rec, b
<1>10. /\ rec.role = c.past.role /\ rec.did = did /\ rec.past = c.past /\ rec.email = c.past.email
  BY <1>6, <1>9
<1> HIDE DEF c
<1>11. ~c.undo /\ (c.pc = "role.save" => c.did = {}) BY <1>1, <1>3 DEF Shape
<1>12. ASSUME k \notin lost
       PROVE  /\ account[k] # NoAccount /\ user[k] # NoUser
              /\ c.past.email = user[k].email /\ c.past.role = user[k].role
              /\ "role" \notin did => account[k].roles = {user[k].role}
              /\ "profile" \notin did => account[k].email = user[k].email
  BY <1>1, <1>3, <1>4, <1>5, <1>11, <1>12 DEF KeptWork, KeptPatch
<1>13. c = call[s] /\ c.id = k BY DEF c
<1>14. CASE pc = "idle"
  <2>1. Restored(b) = Idle BY <1>7, <1>9, <1>14
  <2>2. "role" \notin did /\ "profile" \notin did BY <1>8, <1>14
  <2>3. k \notin lost => Fine(account[k], user[k], emp[k]) BY <1>12, <2>2 DEF Fine
  <2> HIDE DEF k, Idle
  <2> QED BY <1>1, <1>2, <1>13, <2>1, <2>3, WorkReturns
<1>15. CASE pc # "idle"
  <2>1. Restored(b) = rec BY <1>7, <1>9, <1>15
  <2>2. pc \in {"role.remove", "profile.get"} BY <1>8, <1>15
  <2>3. Shape(rec) BY <1>1, <1>9, <2>2 DEF Shape, CreateKinds, UserKinds
  <2>4. ASSUME k \notin lost PROVE KeptWork(rec, account[k], user[k], emp[k])
    <3>1. pc = "profile.get" => "role" \notin did BY <1>8
    <3>2. KeptPatch(rec, account[k], user[k])
      BY <1>9, <1>10, <1>12, <2>2, <2>4, <3>1 DEF KeptPatch
    <3> QED BY <1>1, <1>9, <3>2 DEF KeptWork
  <2>5. rec.id = c.id /\ rec.kind = c.kind /\ Go(s, rec) BY <1>1, <1>9, <1>13, <2>1
  <2> HIDE DEF k
  <2> QED BY <1>1, <1>2, <1>13, <2>3, <2>4, <2>5, WorkGoesOn
<1> QED BY <1>14, <1>15

LEMMA UpdateRowAgrees ==
  ASSUME IInv, AgreeInv, ~overlapped, NEW s \in Sessions, UpdateRow(s) PROVE AgreeInv'
<1> DEFINE c == call[s]
           k == c.id
           row == [user[k] EXCEPT !.role = IF c.kind = "block" THEN @ ELSE c.role,
                                  !.active = IF c.kind = "block" THEN c.active ELSE @]
           next == IF c.kind = "block" THEN "enabled" ELSE "role.remove"
           rec == [c EXCEPT !.pc = next]
<1>1. /\ c.pc = "row" /\ account' = account /\ emp' = emp /\ lost' = lost /\ Go(s, rec)
      /\ user' = [user EXCEPT ![k].role = IF c.kind = "block" THEN @ ELSE c.role,
                              ![k].active = IF c.kind = "block" THEN c.active ELSE @]
  BY DEF UpdateRow, At, GoTo
<1>2. c.pc \in {"read", "role.save", "save", "row", "activate"} \cup SyncPcs BY <1>1
<1>3. /\ Worker(c) /\ c \in Calls /\ Shape(c) /\ CallOK(c, Users, Employed) /\ k \in Ids
      /\ k \notin lost => KeptWork(c, account[k], user[k], emp[k])
  BY <1>2, WorkerFacts
<1>4. user[k] # NoUser /\ user[k] \in UserRows
  BY <1>1, <1>3 DEF CallOK, Syncing, Users, HasUser, IInv, RowsOK
<1>5. /\ row.email = user[k].email
      /\ row.role = IF c.kind = "block" THEN user[k].role ELSE c.role
  BY <1>4 DEF UserRows
<1>6. user' = [user EXCEPT ![k] = row] BY <1>1, <1>3, <1>4 DEF IInv, RowsOK, UserRows
<1>7. row # NoUser
  <2>1. row.email \in Emails BY <1>4, <1>5 DEF UserRows
  <2> HIDE DEF row
  <2> QED BY <2>1, AccountsAssumption DEF NoUser
<1>8. user'[k] = row /\ \A j \in Ids \ {k} : user'[j] = user[j]
  BY <1>3, <1>6 DEF IInv, RowsOK
<1>9. next \in {"enabled", "role.remove"} /\ (next = "role.remove" => c.kind # "block") OBVIOUS
<1>10. next = "enabled" => c.kind = "block" OBVIOUS
<1> HIDE DEF next
<1>11. /\ rec.pc = next /\ rec.id = k /\ rec.kind = c.kind /\ rec.role = c.role /\ rec.did = c.did
       /\ rec.email = c.email
  BY <1>3 DEF Calls
<1> HIDE DEF rec, row, c
<1>12. c.kind \in UserKinds /\ c.kind # "patch" BY <1>1, <1>3 DEF Worker, Shape, UserKinds
<1>13. Shape(rec) BY <1>3, <1>9, <1>11, <1>12 DEF Shape, CreateKinds, UserKinds
<1>14. ASSUME k \notin lost PROVE KeptWork(rec, account[k], row, emp[k])
  <2>1. KeptUser(c, account[k], user[k], emp[k]) BY <1>3, <1>12, <1>14 DEF KeptWork
  <2>2. KeptUser(rec, account[k], row, emp[k])
    BY <1>1, <1>5, <1>7, <1>9, <1>10, <1>11, <2>1 DEF KeptUser
  <2> QED BY <1>11, <1>12, <2>2 DEF KeptWork
<1>15. c = call[s] /\ c.id = k /\ rec.id = c.id /\ rec.kind = c.kind BY <1>11 DEF c
<1>16. c.id \notin lost' => KeptWork(rec, account'[c.id], user'[c.id], emp'[c.id])
  BY <1>1, <1>8, <1>14, <1>15
<1>17. \A j \in Ids \ {c.id} : account'[j] = account[j] /\ user'[j] = user[j] /\ emp'[j] = emp[j]
  BY <1>1, <1>8, <1>15
<1>18. lost \subseteq lost' BY <1>1
<1> HIDE DEF k
<1> QED BY <1>1, <1>2, <1>13, <1>15, <1>16, <1>17, <1>18, WorkGoesOn

LEMMA ActivateAgrees ==
  ASSUME IInv, AgreeInv, ~overlapped, NEW s \in Sessions, Activate(s) PROVE AgreeInv'
<1> DEFINE c == call[s]
           k == c.id
           row == [user[k] EXCEPT !.active = TRUE, !.onboarded = TRUE]
<1>1. /\ c.pc = "activate" /\ account' = account /\ emp' = emp /\ lost' = lost /\ Go(s, Idle)
      /\ user' = [user EXCEPT ![k].active = TRUE, ![k].onboarded = TRUE]
  BY DEF Activate, At, Return
<1>2. c.pc \in {"read", "role.save", "save", "row", "activate"} \cup SyncPcs BY <1>1
<1>3. /\ Worker(c) /\ c \in Calls /\ Shape(c) /\ CallOK(c, Users, Employed) /\ k \in Ids
      /\ k \notin lost => KeptWork(c, account[k], user[k], emp[k])
  BY <1>2, WorkerFacts
<1>4. user[k] # NoUser /\ user[k] \in UserRows
  BY <1>1, <1>3 DEF CallOK, Syncing, Users, HasUser, IInv, RowsOK
<1>5. row.email = user[k].email /\ row.role = user[k].role BY <1>4 DEF UserRows
<1>6. user' = [user EXCEPT ![k] = row] BY <1>1, <1>3, <1>4 DEF IInv, RowsOK, UserRows
<1>7. row # NoUser
  <2>1. row.email \in Emails BY <1>4, <1>5 DEF UserRows
  <2> HIDE DEF row
  <2> QED BY <2>1, AccountsAssumption DEF NoUser
<1>8. user'[k] = row /\ \A j \in Ids \ {k} : user'[j] = user[j]
  BY <1>3, <1>6 DEF IInv, RowsOK
<1> HIDE DEF row, c
<1>9. c.kind # "patch" BY <1>1, <1>3 DEF Shape
<1>10. ASSUME k \notin lost PROVE Fine(account[k], row, emp[k])
  <2>1. KeptUser(c, account[k], user[k], emp[k]) BY <1>3, <1>9, <1>10 DEF KeptWork
  <2> QED BY <1>1, <1>5, <1>7, <2>1 DEF KeptUser, Fine
<1>11. c = call[s] /\ c.id = k BY DEF c
<1>12. c.id \notin lost' => Fine(account'[c.id], user'[c.id], emp'[c.id])
  BY <1>1, <1>8, <1>10, <1>11
<1>13. \A j \in Ids \ {c.id} : account'[j] = account[j] /\ user'[j] = user[j] /\ emp'[j] = emp[j]
  BY <1>1, <1>8, <1>11
<1>14. lost \subseteq lost' BY <1>1
<1> HIDE DEF k, Idle
<1> QED BY <1>1, <1>2, <1>11, <1>12, <1>13, <1>14, WorkReturns

(* A call that writes the account of its id.                               *)
LEMMA WrittenAccount ==
  ASSUME IInv, NEW k \in Ids, account[k] # NoAccount, NEW row, account' = [account EXCEPT ![k] = row]
  PROVE  account'[k] = row /\ \A j \in Ids \ {k} : account'[j] = account[j]
BY DEF IInv, RowsOK

LEMMA AccountFields ==
  ASSUME IInv, NEW k \in Ids, account[k] # NoAccount, NEW roles, NEW enabled, NEW email
  PROVE  /\ [account[k] EXCEPT !.roles = roles].roles = roles
         /\ [account[k] EXCEPT !.roles = roles].email = account[k].email
         /\ [account[k] EXCEPT !.enabled = enabled].roles = account[k].roles
         /\ [account[k] EXCEPT !.enabled = enabled].email = account[k].email
         /\ [account[k] EXCEPT !.email = email, !.enabled = enabled].roles = account[k].roles
         /\ [account[k] EXCEPT !.email = email, !.enabled = enabled].email = email
         /\ account[k] \in AccountRows /\ account[k].email \in Emails
         /\ \A a : a.email \in Emails => a # NoAccount
<1>1. account[k] \in AccountRows BY DEF IInv, RowsOK
<1>2. account[k].email \in Emails BY <1>1 DEF AccountRows
<1>3. \A a : a.email \in Emails => a # NoAccount BY AccountsAssumption DEF NoAccount
<1> QED BY <1>1, <1>2, <1>3 DEF AccountRows

LEMMA SyncEnabledAgrees ==
  ASSUME IInv, AgreeInv, ~overlapped, NEW s \in Sessions, SyncEnabled(s) PROVE AgreeInv'
<1> DEFINE c == call[s]
           k == c.id
           row == [account[k] EXCEPT !.enabled = c.active]
<1>1. /\ c.pc = "enabled" /\ account[k] # NoAccount /\ Go(s, Idle)
      /\ user' = user /\ emp' = emp /\ lost' = lost /\ account' = [account EXCEPT ![k] = row]
  BY DEF SyncEnabled, At, Return, HasAccount, rows
<1>2. c.pc \in {"read", "role.save", "save", "row", "activate"} \cup SyncPcs BY <1>1 DEF SyncPcs
<1>3. /\ Shape(c) /\ k \in Ids
      /\ k \notin lost => KeptWork(c, account[k], user[k], emp[k])
  BY <1>2, WorkerFacts
<1>4. row.email = account[k].email /\ row.roles = account[k].roles /\ row.email \in Emails
  BY <1>1, <1>3, AccountFields
<1> HIDE DEF row
<1>5. row # NoAccount BY <1>1, <1>3, <1>4, AccountFields
<1>6. account'[k] = row /\ \A j \in Ids \ {k} : account'[j] = account[j]
  BY <1>1, <1>3, WrittenAccount
<1> HIDE DEF c
<1>7. c.kind # "patch" BY <1>1, <1>3 DEF Shape
<1>8. ASSUME k \notin lost PROVE Fine(row, user[k], emp[k])
  <2>1. KeptUser(c, account[k], user[k], emp[k]) BY <1>3, <1>7, <1>8 DEF KeptWork
  <2> QED BY <1>1, <1>4, <1>5, <2>1 DEF KeptUser, Fine
<1>9. c = call[s] /\ c.id = k BY DEF c
<1>10. c.id \notin lost' => Fine(account'[c.id], user'[c.id], emp'[c.id])
  BY <1>1, <1>6, <1>8, <1>9
<1>11. \A j \in Ids \ {c.id} : account'[j] = account[j] /\ user'[j] = user[j] /\ emp'[j] = emp[j]
  BY <1>1, <1>6, <1>9
<1>12. lost \subseteq lost' BY <1>1
<1> HIDE DEF k, Idle
<1> QED BY <1>1, <1>2, <1>9, <1>10, <1>11, <1>12, WorkReturns

LEMMA RemoveRolesAgrees ==
  ASSUME IInv, AgreeInv, ~overlapped, NEW s \in Sessions, RemoveRoles(s) PROVE AgreeInv'
<1> DEFINE c == call[s]
           k == c.id
           rec == [c EXCEPT !.pc = "role.add"]
           row == [account[k] EXCEPT !.roles = {}]
<1>1. /\ c.pc = "role.remove" /\ account[k] # NoAccount /\ Go(s, rec)
      /\ user' = user /\ emp' = emp /\ lost' = lost /\ account' = [account EXCEPT ![k] = row]
  BY DEF RemoveRoles, At, GoTo, HasAccount, rows
<1>2. c.pc \in {"read", "role.save", "save", "row", "activate"} \cup SyncPcs BY <1>1 DEF SyncPcs
<1>3. /\ Worker(c) /\ c \in Calls /\ Shape(c) /\ k \in Ids
      /\ k \notin lost => KeptWork(c, account[k], user[k], emp[k])
  BY <1>2, WorkerFacts
<1>4. row.email = account[k].email /\ row.roles = {} /\ row.email \in Emails
  BY <1>1, <1>3, AccountFields
<1> HIDE DEF row
<1>5. row # NoAccount BY <1>1, <1>3, <1>4, AccountFields
<1>6. account'[k] = row /\ \A j \in Ids \ {k} : account'[j] = account[j]
  BY <1>1, <1>3, WrittenAccount
<1>7. /\ rec.pc = "role.add" /\ rec.id = k /\ rec.kind = c.kind /\ rec.role = c.role
      /\ rec.did = c.did /\ rec.email = c.email /\ rec.undo = c.undo /\ rec.past = c.past
  BY <1>3 DEF Calls
<1> HIDE DEF rec, c
<1>8. Shape(rec) BY <1>1, <1>3, <1>7 DEF Worker, Shape, CreateKinds, UserKinds
<1>9. ASSUME k \notin lost PROVE KeptWork(rec, row, user[k], emp[k])
  <2>1. CASE c.kind = "patch"
    <3>1. KeptPatch(c, account[k], user[k]) BY <1>3, <1>9, <2>1 DEF KeptWork
    <3>2. KeptPatch(rec, row, user[k]) BY <1>1, <1>4, <1>5, <1>7, <3>1 DEF KeptPatch
    <3> QED BY <1>7, <2>1, <3>2 DEF KeptWork
  <2>2. CASE c.kind # "patch"
    <3>1. KeptUser(c, account[k], user[k], emp[k]) BY <1>3, <1>9, <2>2 DEF KeptWork
    <3>2. KeptUser(rec, row, user[k], emp[k]) BY <1>1, <1>4, <1>5, <1>7, <3>1 DEF KeptUser
    <3> QED BY <1>7, <2>2, <3>2 DEF KeptWork
  <2> QED BY <2>1, <2>2
<1>10. c = call[s] /\ c.id = k /\ rec.id = c.id /\ rec.kind = c.kind BY <1>7 DEF c
<1>11. c.id \notin lost' => KeptWork(rec, account'[c.id], user'[c.id], emp'[c.id])
  BY <1>1, <1>6, <1>9, <1>10
<1>12. \A j \in Ids \ {c.id} : account'[j] = account[j] /\ user'[j] = user[j] /\ emp'[j] = emp[j]
  BY <1>1, <1>6, <1>10
<1>13. lost \subseteq lost' BY <1>1
<1> HIDE DEF k
<1> QED BY <1>1, <1>2, <1>8, <1>10, <1>11, <1>12, <1>13, WorkGoesOn

(* Where a call goes after the role.                                       *)
LEMMA RoleDoneFacts ==
  ASSUME NEW c \in Calls
  PROVE  LET rec == RoleDone(c) IN
         \/ rec = Idle /\ ~(c.kind = "patch" /\ ~c.undo) /\ c.kind # "assign" /\ "profile" \notin c.did
         \/ /\ IF c.kind = "patch" /\ ~c.undo THEN rec.pc = "role.save" ELSE rec.pc = "profile.get"
            /\ c.kind = "patch" /\ c.undo => "profile" \in c.did
            /\ rec.id = c.id /\ rec.kind = c.kind /\ rec.role = c.role /\ rec.did = c.did
            /\ rec.email = c.email /\ rec.undo = c.undo /\ rec.past = c.past
<1> DEFINE save == [c EXCEPT !.pc = "role.save"]
           get == [c EXCEPT !.pc = "profile.get"]
<1>1. /\ save.pc = "role.save" /\ save.id = c.id /\ save.kind = c.kind /\ save.role = c.role
      /\ save.did = c.did /\ save.email = c.email /\ save.undo = c.undo /\ save.past = c.past
  BY DEF Calls
<1>2. /\ get.pc = "profile.get" /\ get.id = c.id /\ get.kind = c.kind /\ get.role = c.role
      /\ get.did = c.did /\ get.email = c.email /\ get.undo = c.undo /\ get.past = c.past
  BY DEF Calls
<1>3. RoleDone(c) = IF c.kind = "patch" /\ ~c.undo THEN save ELSE
                    IF c.kind = "assign" \/ "profile" \in c.did THEN get ELSE Idle
  BY DEF RoleDone
<1> HIDE DEF save, get, Idle
<1> QED BY <1>1, <1>2, <1>3

LEMMA AddRoleAgrees ==
  ASSUME IInv, AgreeInv, ~overlapped, NEW s \in Sessions, AddRole(s) PROVE AgreeInv'
<1> DEFINE c == call[s]
           k == c.id
           rec == RoleDone(c)
           row == [account[k] EXCEPT !.roles = @ \cup {c.role}]
<1>1. /\ c.pc = "role.add" /\ account[k] # NoAccount /\ Go(s, rec)
      /\ user' = user /\ emp' = emp /\ lost' = lost /\ account' = [account EXCEPT ![k] = row]
  BY DEF AddRole, At, HasAccount, rows
<1>2. c.pc \in {"read", "role.save", "save", "row", "activate"} \cup SyncPcs BY <1>1 DEF SyncPcs
<1>3. /\ Worker(c) /\ c \in Calls /\ Shape(c) /\ k \in Ids
      /\ k \notin lost => KeptWork(c, account[k], user[k], emp[k])
  BY <1>2, WorkerFacts
<1>4. /\ row.email = account[k].email /\ row.roles = account[k].roles \cup {c.role}
      /\ row.email \in Emails
  BY <1>1, <1>3, AccountFields
<1> HIDE DEF row
<1>5. row # NoAccount BY <1>1, <1>3, <1>4, AccountFields
<1>6. account'[k] = row /\ \A j \in Ids \ {k} : account'[j] = account[j]
  BY <1>1, <1>3, WrittenAccount
<1>7. \/ rec = Idle /\ ~(c.kind = "patch" /\ ~c.undo) /\ c.kind # "assign" /\ "profile" \notin c.did
      \/ /\ IF c.kind = "patch" /\ ~c.undo THEN rec.pc = "role.save" ELSE rec.pc = "profile.get"
         /\ c.kind = "patch" /\ c.undo => "profile" \in c.did
         /\ rec.id = c.id /\ rec.kind = c.kind /\ rec.role = c.role /\ rec.did = c.did
         /\ rec.email = c.email /\ rec.undo = c.undo /\ rec.past = c.past
  BY <1>3, RoleDoneFacts
<1> HIDE DEF rec, c
<1>8. c.kind = "patch" /\ ~c.undo => c.did = {} BY <1>1, <1>3 DEF Shape
<1>9. c = call[s] /\ c.id = k BY DEF c
<1>10. \A j \in Ids \ {c.id} : account'[j] = account[j] /\ user'[j] = user[j] /\ emp'[j] = emp[j]
  BY <1>1, <1>6, <1>9
<1>11. lost \subseteq lost' BY <1>1
<1>12. k \notin lost => row.roles = {c.role}
  BY <1>1, <1>3, <1>4 DEF KeptWork, KeptPatch, KeptUser
<1>13. CASE rec = Idle /\ ~(c.kind = "patch" /\ ~c.undo) /\ "profile" \notin c.did
  <2>1. ASSUME k \notin lost PROVE Fine(row, user[k], emp[k])
    <3>1. /\ row.email = user[k].email /\ c.role = user[k].role /\ user[k] # NoUser
      BY <1>1, <1>3, <1>4, <1>13, <2>1 DEF KeptWork, KeptPatch, KeptUser
    <3> QED BY <1>5, <1>12, <2>1, <3>1 DEF Fine
  <2>2. c.id \notin lost' => Fine(account'[c.id], user'[c.id], emp'[c.id])
    BY <1>1, <1>6, <1>9, <2>1
  <2>3. Go(s, Idle) BY <1>1, <1>13
  <2> HIDE DEF k, Idle
  <2> QED BY <1>2, <1>9, <1>10, <1>11, <2>2, <2>3, WorkReturns
<1>14. CASE /\ IF c.kind = "patch" /\ ~c.undo THEN rec.pc = "role.save" ELSE rec.pc = "profile.get"
            /\ c.kind = "patch" /\ c.undo => "profile" \in c.did
            /\ rec.id = c.id /\ rec.kind = c.kind /\ rec.role = c.role /\ rec.did = c.did
            /\ rec.email = c.email /\ rec.undo = c.undo /\ rec.past = c.past
  <2>1. Shape(rec) BY <1>3, <1>8, <1>14 DEF Worker, Shape, CreateKinds, UserKinds
  <2>2. ASSUME k \notin lost PROVE KeptWork(rec, row, user[k], emp[k])
    <3>1. CASE c.kind = "patch"
      <4>1. KeptPatch(c, account[k], user[k]) BY <1>3, <2>2, <3>1 DEF KeptWork
      <4>2. KeptPatch(rec, row, user[k])
        BY <1>1, <1>4, <1>5, <1>8, <1>12, <1>14, <2>2, <3>1, <4>1 DEF KeptPatch
      <4> QED BY <1>14, <3>1, <4>2 DEF KeptWork
    <3>2. CASE c.kind # "patch"
      <4>1. KeptUser(c, account[k], user[k], emp[k]) BY <1>3, <2>2, <3>2 DEF KeptWork
      <4>2. KeptUser(rec, row, user[k], emp[k])
        BY <1>1, <1>4, <1>5, <1>12, <1>14, <2>2, <3>2, <4>1 DEF KeptUser
      <4> QED BY <1>14, <3>2, <4>2 DEF KeptWork
    <3> QED BY <3>1, <3>2
  <2>3. c.id \notin lost' => KeptWork(rec, account'[c.id], user'[c.id], emp'[c.id])
    BY <1>1, <1>6, <1>9, <2>2
  <2> HIDE DEF k
  <2> QED BY <1>1, <1>2, <1>9, <1>10, <1>11, <1>14, <2>1, <2>3, WorkGoesOn
<1> QED BY <1>7, <1>13, <1>14

LEMMA ReadProfileAgrees ==
  ASSUME IInv, AgreeInv, ~overlapped, NEW s \in Sessions, ReadProfile(s) PROVE AgreeInv'
<1> DEFINE c == call[s]
           k == c.id
           rec == [c EXCEPT !.pc = "profile.put", !.rep = account[k]]
<1>1. /\ c.pc = "profile.get" /\ account[k] # NoAccount /\ Go(s, rec)
      /\ user' = user /\ emp' = emp /\ lost' = lost /\ account' = account
  BY DEF ReadProfile, At, HasAccount, rows
<1>2. c.pc \in {"read", "role.save", "save", "row", "activate"} \cup SyncPcs BY <1>1 DEF SyncPcs
<1>3. /\ Worker(c) /\ c \in Calls /\ Shape(c) /\ k \in Ids
      /\ k \notin lost => KeptWork(c, account[k], user[k], emp[k])
  BY <1>2, WorkerFacts
<1>4. /\ rec.pc = "profile.put" /\ rec.id = k /\ rec.kind = c.kind /\ rec.role = c.role
      /\ rec.did = c.did /\ rec.email = c.email /\ rec.undo = c.undo /\ rec.past = c.past
      /\ rec.rep = account[k]
  BY <1>3 DEF Calls
<1> HIDE DEF rec, c
<1>5. Shape(rec) BY <1>1, <1>3, <1>4 DEF Worker, Shape, CreateKinds, UserKinds
<1>6. ASSUME k \notin lost PROVE KeptWork(rec, account[k], user[k], emp[k])
  <2>1. CASE c.kind = "patch"
    <3>1. KeptPatch(c, account[k], user[k]) BY <1>3, <1>6, <2>1 DEF KeptWork
    <3>2. KeptPatch(rec, account[k], user[k]) BY <1>1, <1>4, <3>1 DEF KeptPatch
    <3> QED BY <1>4, <2>1, <3>2 DEF KeptWork
  <2>2. CASE c.kind # "patch"
    <3>1. KeptUser(c, account[k], user[k], emp[k]) BY <1>3, <1>6, <2>2 DEF KeptWork
    <3>2. KeptUser(rec, account[k], user[k], emp[k]) BY <1>1, <1>4, <3>1 DEF KeptUser
    <3> QED BY <1>4, <2>2, <3>2 DEF KeptWork
  <2> QED BY <2>1, <2>2
<1>7. c = call[s] /\ c.id = k /\ rec.id = c.id /\ rec.kind = c.kind BY <1>4 DEF c
<1>8. c.id \notin lost' => KeptWork(rec, account'[c.id], user'[c.id], emp'[c.id])
  BY <1>1, <1>6, <1>7
<1>9. lost \subseteq lost' BY <1>1
<1> HIDE DEF k
<1> QED BY <1>1, <1>2, <1>5, <1>7, <1>8, <1>9, WorkGoesOn

(* Who writes no e-mail writes the one that was read.                      *)
LEMMA WriteProfileAgrees ==
  ASSUME IInv, AgreeInv, ~overlapped, NEW s \in Sessions, WriteProfile(s) PROVE AgreeInv'
<1> DEFINE c == call[s]
           k == c.id
           email == IF c.email = Null THEN c.rep.email ELSE c.email
           enabled == IF c.active = Null THEN c.rep.enabled ELSE c.active
           row == [account[k] EXCEPT !.email = email, !.enabled = enabled]
           did == c.did \cup {"profile"}
           rec == [c EXCEPT !.pc = "save", !.did = did, !.rep = NoAccount]
<1>1. /\ c.pc = "profile.put" /\ account[k] # NoAccount
      /\ Go(s, IF c.kind = "patch" /\ ~c.undo THEN rec ELSE Idle)
      /\ user' = user /\ emp' = emp /\ lost' = lost
  BY DEF WriteProfile, At, HasAccount, rows
<1>2. c.pc \in {"read", "role.save", "save", "row", "activate"} \cup SyncPcs BY <1>1 DEF SyncPcs
<1>3. /\ Worker(c) /\ c \in Calls /\ Shape(c) /\ CallOK(c, Users, Employed) /\ k \in Ids
      /\ k \notin lost => KeptWork(c, account[k], user[k], emp[k])
  BY <1>2, WorkerFacts
<1>4. account' = [account EXCEPT ![k] = row]
  <2>1. account[k] \in AccountRows BY <1>1, <1>3 DEF IInv, RowsOK
  <2>2. account' = [account EXCEPT ![k].email = email, ![k].enabled = enabled]
    BY DEF WriteProfile
  <2> HIDE DEF email, enabled
  <2> QED BY <1>3, <2>1, <2>2 DEF IInv, RowsOK, AccountRows
<1>5. email \in Emails
  <2>1. c.email \in Emails \cup {Null} BY <1>3 DEF Calls, Options
  <2>2. c.rep.email \in Emails BY <1>1, <1>3 DEF CallOK, Syncing, AccountRows
  <2> QED BY <2>1, <2>2
<1>6. email = IF c.email = Null THEN c.rep.email ELSE c.email OBVIOUS
<1> HIDE DEF email, enabled
<1>7. row.email = email /\ row.roles = account[k].roles BY <1>1, <1>3, AccountFields
<1> HIDE DEF row
<1>8. row # NoAccount BY <1>1, <1>3, <1>5, <1>7, AccountFields
<1>9. account'[k] = row /\ \A j \in Ids \ {k} : account'[j] = account[j]
  BY <1>1, <1>3, <1>4, WrittenAccount
<1>10. "profile" \in did /\ ("role" \in did <=> "role" \in c.did) OBVIOUS
<1> HIDE DEF did
<1>11. /\ rec.pc = "save" /\ rec.id = k /\ rec.kind = c.kind /\ rec.role = c.role
       /\ rec.did = did /\ rec.email = c.email /\ rec.undo = c.undo /\ rec.past = c.past
  BY <1>3 DEF Calls
<1> HIDE DEF rec, c
<1>12. c = call[s] /\ c.id = k BY DEF c
<1>13. \A j \in Ids \ {c.id} : account'[j] = account[j] /\ user'[j] = user[j] /\ emp'[j] = emp[j]
  BY <1>1, <1>9, <1>12
<1>14. lost \subseteq lost' BY <1>1
<1>15. CASE c.kind = "patch" /\ ~c.undo
  <2>1. Shape(rec) BY <1>11, <1>15 DEF Shape, CreateKinds, UserKinds
  <2>2. ASSUME k \notin lost PROVE KeptWork(rec, row, user[k], emp[k])
    <3>1. KeptPatch(c, account[k], user[k]) BY <1>3, <1>15, <2>2 DEF KeptWork
    <3>2. KeptPatch(rec, row, user[k])
      BY <1>1, <1>6, <1>7, <1>8, <1>10, <1>11, <1>15, <3>1 DEF KeptPatch
    <3> QED BY <1>11, <1>15, <3>2 DEF KeptWork
  <2>3. c.id \notin lost' => KeptWork(rec, account'[c.id], user'[c.id], emp'[c.id])
    BY <1>1, <1>9, <1>12, <2>2
  <2>4. Go(s, rec) /\ rec.id = c.id /\ rec.kind = c.kind BY <1>1, <1>11, <1>12, <1>15
  <2> HIDE DEF k
  <2> QED BY <1>2, <1>12, <1>13, <1>14, <2>1, <2>3, <2>4, WorkGoesOn
<1>16. CASE ~(c.kind = "patch" /\ ~c.undo)
  <2>1. ASSUME k \notin lost PROVE Fine(row, user[k], emp[k])
    <3>1. CASE c.kind = "patch"
      <4>1. KeptPatch(c, account[k], user[k]) BY <1>3, <2>1, <3>1 DEF KeptWork
      <4>2. user[k] \in UserRows BY <1>3, <4>1 DEF KeptPatch, IInv, RowsOK
      <4>3. user[k].email # Null BY <4>2, AccountsAssumption DEF UserRows
      <4> QED BY <1>1, <1>6, <1>7, <1>8, <1>16, <3>1, <4>1, <4>3 DEF KeptPatch, Fine
    <3>2. CASE c.kind # "patch"
      <4>1. KeptUser(c, account[k], user[k], emp[k]) BY <1>3, <2>1, <3>2 DEF KeptWork
      <4>2. c.email = Null BY <1>3, <3>2 DEF Worker, Shape
      <4> QED BY <1>1, <1>6, <1>7, <1>8, <4>1, <4>2 DEF KeptUser, Fine
    <3> QED BY <3>1, <3>2
  <2>2. c.id \notin lost' => Fine(account'[c.id], user'[c.id], emp'[c.id])
    BY <1>1, <1>9, <1>12, <2>1
  <2>3. Go(s, Idle) BY <1>1, <1>16
  <2> HIDE DEF k, Idle
  <2> QED BY <1>2, <1>12, <1>13, <1>14, <2>2, <2>3, WorkReturns
<1> QED BY <1>15, <1>16

(* A refused call of Keycloak gives the id up.                             *)
LEMMA SyncFailsAgrees ==
  ASSUME IInv, AgreeInv, ~overlapped, NEW s \in Sessions, SyncFails(s) PROVE AgreeInv'
<1> DEFINE c == call[s]
           rec == RoleDone(c)
<1>1. /\ c.pc \in SyncPcs /\ GivenUp({c.id})
      /\ account' = account /\ user' = user /\ emp' = emp
      /\ Go(s, Idle) \/ (Go(s, rec) /\ ~(c.kind = "patch" /\ ~c.undo))
  BY DEF SyncFails, SyncPcs, rows
<1>2. c.pc \in {"read", "role.save", "save", "row", "activate"} \cup SyncPcs BY <1>1
<1>3. Worker(c) /\ c \in Calls /\ Shape(c) /\ c.id \in Ids BY <1>2, WorkerFacts
<1>4. c.id \in lost' /\ lost \subseteq lost'
  <2>1. c.id # Null BY <1>3, AccountsAssumption
  <2> QED BY <1>1, <2>1 DEF GivenUp
<1>5. \/ rec = Idle
      \/ /\ IF c.kind = "patch" /\ ~c.undo THEN rec.pc = "role.save" ELSE rec.pc = "profile.get"
         /\ rec.id = c.id /\ rec.kind = c.kind /\ rec.did = c.did
         /\ rec.email = c.email /\ rec.undo = c.undo
  BY <1>3, RoleDoneFacts
<1> HIDE DEF rec, c
<1>6. c = call[s] BY DEF c
<1>7. CASE Go(s, Idle)
  <2> HIDE DEF Idle
  <2> QED BY <1>1, <1>2, <1>4, <1>6, <1>7, WorkReturns
<1>8. CASE Go(s, rec) /\ ~(c.kind = "patch" /\ ~c.undo) /\ rec # Idle
  <2>1. Shape(rec)
    <3>1. rec.pc = "profile.get" /\ rec.kind = c.kind /\ rec.did = c.did /\ rec.email = c.email
          /\ rec.undo = c.undo
      BY <1>5, <1>8
    <3> HIDE DEF Idle
    <3> QED BY <1>3, <1>8, <3>1 DEF Worker, Shape, CreateKinds, UserKinds
  <2>2. rec.id = c.id /\ rec.kind = c.kind /\ Go(s, rec) BY <1>5, <1>8
  <2> HIDE DEF Idle
  <2> QED BY <1>1, <1>2, <1>4, <1>6, <2>1, <2>2, WorkGoesOn
<1> QED BY <1>1, <1>7, <1>8

(* A call that dies gives up every id it works on.                         *)
LEMMA CallDiesAgrees ==
  ASSUME IInv, AgreeInv, ~overlapped, NEW s \in Sessions, CallDies(s) PROVE AgreeInv'
<1> DEFINE c == call[s]
<1>1. /\ c # Idle /\ GivenUp({c.id} \cup DOMAIN c.made) /\ Go(s, Idle)
      /\ account' = account /\ user' = user /\ emp' = emp
  BY DEF CallDies, Return, rows
<1>2. CallAgrees(c, account, user, emp, lost) /\ c \in Calls BY <1>1, CallFacts, Zenon DEF AgreeInv
<1>3. \A k \in Ids : k = c.id \/ k \in DOMAIN c.made => k \in lost'
  BY <1>1, AccountsAssumption DEF GivenUp
<1>4. lost \subseteq lost' BY <1>1 DEF GivenUp
<1> HIDE DEF c, Idle
<1>5. ASSUME NEW k \in Ids \ lost' PROVE Fine(account'[k], user'[k], emp'[k])
  <2>1. k # c.id /\ k \notin DOMAIN c.made BY <1>3
  <2>2. Kept(c, k, account[k], user[k], emp[k]) BY <1>2, <1>4 DEF CallAgrees
  <2>3. Fine(account[k], user[k], emp[k]) BY <2>1, <2>2 DEF Kept, KeptTaken
  <2> QED BY <1>1, <2>3
<1> QED BY <1>1, <1>5, ReturnAgrees DEF c

(* resolveCurrentUser inserts a user only where an account lacks one.      *)
LEMMA InsertUserAgrees ==
  ASSUME IInv, AgreeInv, ~overlapped, NEW k \in Ids, NEW role \in Roles, InsertUser(k, role)
  PROVE  AgreeInv'
<1>1. /\ account[k] # NoAccount /\ user[k] = NoUser /\ account' = account /\ emp' = emp
      /\ call' = call /\ overlapped' = overlapped /\ lost' = lost
      /\ \A j \in Ids \ {k} : user'[j] = user[j]
  BY DEF InsertUser, HasAccount, HasUser, IInv, RowsOK
<1>2. user'[k] # NoUser
  <2>1. /\ user'[k] = [email |-> account[k].email, role |-> role, active |-> TRUE, onboarded |-> TRUE]
        /\ account[k] \in AccountRows
    BY <1>1 DEF InsertUser, IInv, RowsOK
  <2>2. user'[k] \in UserRows BY <2>1 DEF AccountRows, UserRows
  <2> QED BY <2>2, RowFacts
<1>3. Alone' BY <1>1, Zenon DEF AgreeInv, Alone, Idle
<1>4. ASSUME \A s \in Sessions : call[s] = Idle, NEW j \in Ids \ lost
      PROVE  Fine(account[j], user'[j], emp[j])
  <2>1. Fine(account[j], user[j], emp[j]) BY <1>4, Zenon DEF AgreeInv
  <2>2. j # k BY <1>1, <2>1 DEF Fine
  <2> QED BY <1>1, <2>1, <2>2
<1>5. ASSUME NEW s \in Sessions, call[s] # Idle
      PROVE  CallAgrees(call[s], account, user', emp, lost)
  <2> DEFINE c == call[s]
  <2>1. CallAgrees(c, account, user, emp, lost) BY <1>5, Zenon DEF AgreeInv
  <2> HIDE DEF c, Idle
  <2>2. ASSUME NEW j \in Ids \ lost PROVE Kept(c, j, account[j], user'[j], emp[j])
    <3>1. Kept(c, j, account[j], user[j], emp[j]) BY <2>1 DEF CallAgrees
    <3>2. CASE j = k
      <4>1. c.kind \in CreateKinds /\ j \in DOMAIN c.made
        BY <1>1, <3>1, <3>2 DEF Kept, KeptTaken, KeptPatch, KeptUser, Fine
      <4>2. KeptMade(c, j, account[j], user'[j], emp[j])
        BY <1>2, <3>1, <3>2, <4>1 DEF Kept, KeptMade
      <4> QED BY <4>1, <4>2 DEF Kept
    <3>3. CASE j # k BY <1>1, <3>1, <3>3
    <3> QED BY <3>2, <3>3
  <2>3. CallAgrees(c, account, user', emp, lost) BY <2>1, <2>2, Zenon DEF CallAgrees
  <2> QED BY <2>3 DEF c
<1> QED BY <1>1, <1>3, <1>4, <1>5, Zenon DEF AgreeInv, Idle
-----------------------------------------------------------------------------
LEMMA AgreeStart == Init => AgreeInv
<1> SUFFICES ASSUME Init PROVE AgreeInv OBVIOUS
<1>1. \A s \in Sessions : call[s] = Idle BY DEF Init
<1>2. ASSUME NEW k \in Ids PROVE Fine(account[k], user[k], emp[k])
  <2>1. account[k] = NoAccount /\ emp[k] = NoEmp BY DEF Init
  <2> QED BY <2>1 DEF Fine, LiveRow
<1> QED BY <1>1, <1>2, Zenon DEF AgreeInv, Alone

LEMMA AgreeStep ==
  ASSUME IInv, AgreeInv, [Next]_vars PROVE AgreeInv'
<1>0. CASE overlapped
  <2>1. overlapped' = TRUE
    <3>1. ASSUME NEW s \in Sessions, SessionStep(s) PROVE overlapped' = TRUE
      <4>1. PICK rec : Begins(s, rec) \/ GoesOn(s, rec)
        BY <3>1, CreateMoves, PatchMoves, UserMoves, SyncMoves, Zenon DEF SessionStep
      <4> QED BY <1>0, <4>1, Zenon DEF Begins, GoesOn, IInv, HistoryOK
    <3>2. ASSUME NEW k \in Ids, NEW role \in Roles, InsertUser(k, role) PROVE overlapped' = TRUE
      BY <1>0, <3>2, Zenon DEF InsertUser, IInv, HistoryOK
    <3>3. CASE UNCHANGED vars BY <1>0, <3>3, Zenon DEF vars, IInv, HistoryOK
    <3> QED BY <3>1, <3>2, <3>3, Zenon DEF Next, SessionStep
  <2> QED BY <2>1, Zenon DEF AgreeInv
<1>1. ASSUME ~overlapped, NEW s \in Sessions, CreateStep(s) PROVE AgreeInv'
  <2>1. ASSUME NEW es \in Imports, NEW role \in Roles, CreateEmployee(s, es, role) PROVE AgreeInv'
    <3>1. es \in SUBSET Emails BY AccountsAssumption
    <3> QED BY <1>1, <2>1, <3>1, CreationsAgree DEF CreateEmployee
  <2>2. ASSUME NEW e \in Emails, RegisterAdmin(s, e) PROVE AgreeInv'
    <3>1. "ADM" \in Roles /\ {e} \in SUBSET Emails BY AccountsAssumption
    <3> QED BY <1>1, <2>2, <3>1, CreationsAgree DEF RegisterAdmin
  <2> QED BY <1>1, <2>1, <2>2, CreateAccountAgrees, CreateConflictAgrees, DeleteAccountAgrees,
          CreateEnableAgrees, CreatePasswordAgrees, CreateFailsAgrees, CreateRoleAgrees,
          CreateInsertAgrees, Zenon DEF CreateStep
<1>2. ASSUME ~overlapped, NEW s \in Sessions, PatchStep(s) PROVE AgreeInv'
  BY <1>2, PatchCheckAgrees, PatchReadAgrees, PatchRoleAgrees, PatchSaveAgrees, PatchFailsAgrees,
     Zenon DEF PatchStep
<1>3. ASSUME ~overlapped, NEW s \in Sessions, UserStep(s) PROVE AgreeInv'
  <2>1. "EMP" \in Roles /\ TRUE \in BOOLEAN BY AccountsAssumption
  <2>2. ASSUME NEW k \in Ids, FirstLogin(s, k) \/ RemoveRole(s, k) PROVE AgreeInv'
    BY <1>3, <2>1, <2>2, UserCallAgrees, Zenon
  <2>3. ASSUME NEW k \in Ids, NEW role \in Roles, AssignRole(s, k, role) PROVE AgreeInv'
    BY <1>3, <2>1, <2>3, UserCallAgrees, Zenon
  <2>4. ASSUME NEW k \in Ids, NEW active \in BOOLEAN, SetActive(s, k, active) PROVE AgreeInv'
    BY <1>3, <2>1, <2>4, UserCallAgrees, Zenon
  <2> QED BY <1>3, <2>2, <2>3, <2>4, DeleteEmployeeAgrees, UpdateRowAgrees, ActivateAgrees,
          Zenon DEF UserStep
<1>4. ASSUME ~overlapped, NEW s \in Sessions, SyncStep(s) PROVE AgreeInv'
  BY <1>4, SyncEnabledAgrees, RemoveRolesAgrees, AddRoleAgrees, ReadProfileAgrees,
     WriteProfileAgrees, SyncFailsAgrees, Zenon DEF SyncStep
<1>5. CASE UNCHANGED vars
  <2>1. /\ account' = account /\ user' = user /\ emp' = emp /\ call' = call
        /\ overlapped' = overlapped /\ lost' = lost
    BY <1>5 DEF vars, rows
  <2> QED BY <2>1, Zenon DEF AgreeInv, Alone, Idle
<1> QED BY <1>0, <1>1, <1>2, <1>3, <1>4, <1>5, CallDiesAgrees, InsertUserAgrees, Zenon DEF Next

(* An id nobody works on is Fine, whatever the one call at work is about.  *)
LEMMA AgreeingMeans ==
  ASSUME IInv, AgreeInv PROVE KeycloakAgrees
<1> SUFFICES ASSUME ~overlapped, NEW k \in Ids, ~Busy(k), k \notin lost
             PROVE  Fine(account[k], user[k], emp[k])
  BY DEF KeycloakAgrees, Fine, Live, LiveRow, HasUser, HasAccount
<1>1. CASE \A s \in Sessions : call[s] = Idle BY <1>1, Zenon DEF AgreeInv
<1>2. ASSUME NEW s \in Sessions, call[s] # Idle PROVE Fine(account[k], user[k], emp[k])
  <2> DEFINE c == call[s]
  <2>1. CallAgrees(c, account, user, emp, lost) BY <1>2, Zenon DEF AgreeInv
  <2>2. k # c.id /\ k \notin DOMAIN c.made BY Zenon DEF Busy
  <2> HIDE DEF c
  <2>3. Kept(c, k, account[k], user[k], emp[k]) BY <2>1 DEF CallAgrees
  <2> QED BY <2>2, <2>3 DEF Kept, KeptTaken
<1> QED BY <1>1, <1>2

(* updateUserProfile, replaceBusinessRealmRoleForUser and their undoing: as *)
(* long as calls do not overlap, an account nobody works on and no failed   *)
(* call of Keycloak has touched has the e-mail and the one role of users.   *)
THEOREM KeycloakStaysInStep == Spec => []KeycloakAgrees
<1>1. IInv /\ AgreeInv /\ [Next]_vars => AgreeInv' BY AgreeStep
<1>2. IInv /\ AgreeInv => KeycloakAgrees BY AgreeingMeans
<1> QED BY <1>1, <1>2, AgreeStart, InvHolds, PTL DEF Spec
=============================================================================
