--------------------------- MODULE ServicesProofs ---------------------------
(***************************************************************************)
(* Proofs about the services around the engine: accounts, probes, backups, *)
(* the inventory with its licence limits, and the routing tables.          *)
(***************************************************************************)
EXTENDS Accounts, Probe, Backup, Inventory, Routing, FiniteSetTheorems, WellFoundedInduction, TLAPS

-----------------------------------------------------------------------------
(* Accounts and sessions.                                                  *)

UserIds == {u.id : u \in users}

\* A sign-in past its lookup is of a user that is there, or was deleted meanwhile.
SignInsHaveUsers ==
    \A c \in Client : InFlight(c, "login") => req[c].user.id \in UserIds \cup crossed

AccountsInv == AccountsTypeOK /\ SessionsHaveUsers /\ SignInsHaveUsers

\* A user that is stored keeps the others, and is there.
LEMMA PutKeepsUsers ==
    ASSUME NEW u, PutUser(u)
    PROVE  UserIds' = UserIds \cup {u.id}
<1>1. \A x \in UserIds : x \in UserIds'
  BY DEF PutUser, UserIds
<1>2. u.id \in UserIds'
  BY DEF PutUser, UserIds
<1>3. \A x \in UserIds' : x \in UserIds \cup {u.id}
  BY DEF PutUser, UserIds
<1> QED BY <1>1, <1>2, <1>3

\* The request of one client changes, none that deletes or signs in.
LEMMA OtherRequest ==
    ASSUME AccountsInv, NEW c \in Client, NEW r \in Request \cup {NoRequest},
           req' = [req EXCEPT ![c] = r],
           ~InFlight(c, "delete"),
           r # NoRequest => r.op # "login" \/ r.user.id \in UserIds,
           UserIds \subseteq UserIds', sess' = sess, crossed' = crossed
    PROVE  SessionsHaveUsers' /\ SignInsHaveUsers'
<1>1. req \in [Client -> Request \cup {NoRequest}]
  BY DEF AccountsInv, AccountsTypeOK
<1>2. req'[c] = r /\ \A d \in Client \ {c} : req'[d] = req[d]
  BY <1>1
<1>3. \A d \in Client : InFlight(d, "delete") => req'[d] = req[d]
  BY <1>2
<1>4. SessionsHaveUsers'
  <2> SUFFICES ASSUME NEW d \in Client, sess[d] # NoSession
               PROVE  \/ sess[d].id \in UserIds'
                      \/ sess[d].id \in crossed
                      \/ \E e \in Client : InFlight(e, "delete")' /\ req'[e].user.id = sess[d].id
    BY DEF SessionsHaveUsers, UserIds, InFlight
  <2>1. \/ sess[d].id \in UserIds
        \/ sess[d].id \in crossed
        \/ \E e \in Client : InFlight(e, "delete") /\ req[e].user.id = sess[d].id
    BY DEF AccountsInv, SessionsHaveUsers, UserIds
  <2> QED BY <1>3, <2>1 DEF InFlight
<1>5. SignInsHaveUsers'
  BY <1>2 DEF AccountsInv, SignInsHaveUsers, InFlight
<1> QED BY <1>4, <1>5

LEMMA NewUserType ==
    ASSUME AccountsTypeOK, userIds < MaxUserIds, NEW name \in UserName, NEW role \in Role
    PROVE  NewUser(name, role) \in User /\ userIds + 1 \in 0 .. MaxUserIds
<1>1. userIds + 1 \in 1 .. MaxUserIds
  BY AccountsAssumption DEF AccountsTypeOK
<1> QED BY <1>1, AccountsAssumption DEF NewUser, User

LEMMA RequestType ==
    ASSUME AccountsTypeOK, NEW c \in Client, InFlight(c, req[c].op)
    PROVE  req[c] \in Request /\ req[c].user \in User /\ req[c].user.id \in 1 .. MaxUserIds
           /\ req[c].user.role \in Role
BY DEF AccountsTypeOK, InFlight, Request, User

LEMMA BeginStep ==
    ASSUME AccountsInv, NEW c \in Client, NEW op \in {"setup", "login", "add", "password"}, NEW u \in User,
           req[c] = NoRequest, Begin(c, op, u), op = "login" => u \in users,
           userIds' \in 0 .. MaxUserIds, UNCHANGED <<users, tokens, sess, fails, crossed>>
    PROVE  AccountsInv'
<1> DEFINE r == [op |-> op, user |-> u]
<1>1. r \in Request /\ r.op = op /\ r.user = u
  BY DEF Request
<1>2. req' = [req EXCEPT ![c] = r] /\ ~InFlight(c, "delete") /\ UserIds' = UserIds
  BY DEF Begin, InFlight, UserIds
<1>3. op # "login" \/ u.id \in UserIds
  BY DEF UserIds
<1> HIDE DEF r
<1>4. AccountsTypeOK'
  BY <1>1, <1>2 DEF AccountsInv, AccountsTypeOK
<1>5. SessionsHaveUsers' /\ SignInsHaveUsers'
  BY <1>1, <1>2, <1>3, OtherRequest
<1> QED BY <1>4, <1>5 DEF AccountsInv

LEMMA PutStep ==
    ASSUME AccountsInv, NEW c \in Client, InFlight(c, "setup") \/ InFlight(c, "add") \/ InFlight(c, "password"),
           PutUser(req[c].user), End(c),
           sess' = sess \/ sess' = [sess EXCEPT ![c] = [id |-> req[c].user.id, role |-> req[c].user.role]],
           UNCHANGED <<tokens, fails, userIds, crossed>>
    PROVE  AccountsInv'
<1> DEFINE u == req[c].user
<1>1. u \in User /\ u.id \in 1 .. MaxUserIds /\ u.role \in Role
  BY RequestType DEF AccountsInv, InFlight
<1>2. UserIds' = UserIds \cup {u.id}
  BY PutKeepsUsers
<1>3. req' = [req EXCEPT ![c] = NoRequest] /\ req \in [Client -> Request \cup {NoRequest}]
  BY DEF End, AccountsInv, AccountsTypeOK
<1>4. AccountsTypeOK'
  <2>1. users' \subseteq User
    BY <1>1 DEF PutUser, AccountsInv, AccountsTypeOK
  <2>2. sess' \in [Client -> Session \cup {NoSession}]
    BY <1>1 DEF AccountsInv, AccountsTypeOK, Session
  <2> QED BY <1>3, <2>1, <2>2 DEF AccountsInv, AccountsTypeOK
<1>5. /\ req'[c] = NoRequest /\ \A d \in Client \ {c} : req'[d] = req[d]
      /\ \A d \in Client : InFlight(d, "delete") => d # c
  BY <1>3 DEF InFlight
<1>6. SessionsHaveUsers'
  <2> SUFFICES ASSUME NEW d \in Client, sess'[d] # NoSession
               PROVE  \/ sess'[d].id \in UserIds'
                      \/ sess'[d].id \in crossed
                      \/ \E e \in Client : InFlight(e, "delete")' /\ req'[e].user.id = sess'[d].id
    BY DEF SessionsHaveUsers, UserIds, InFlight
  <2>1. CASE sess'[d] = sess[d]
    <3>1. \/ sess[d].id \in UserIds
          \/ sess[d].id \in crossed
          \/ \E e \in Client : InFlight(e, "delete") /\ req[e].user.id = sess[d].id
      BY <2>1 DEF AccountsInv, SessionsHaveUsers, UserIds
    <3> QED BY <1>2, <1>5, <2>1, <3>1 DEF InFlight
  <2>2. CASE sess'[d] # sess[d]
    <3>1. sess'[d].id = u.id
      BY <2>2 DEF AccountsInv, AccountsTypeOK
    <3> QED BY <1>2, <3>1
  <2> QED BY <2>1, <2>2
<1>7. SignInsHaveUsers'
  BY <1>2, <1>5 DEF AccountsInv, SignInsHaveUsers, InFlight
<1> QED BY <1>4, <1>6, <1>7 DEF AccountsInv

LEMMA LoginCreateStep ==
    ASSUME AccountsInv, NEW c \in Client, LoginCreate(c)
    PROVE  AccountsInv'
<1> DEFINE u == req[c].user
<1>1. u \in User /\ u.id \in 1 .. MaxUserIds /\ u.role \in Role /\ u.id \in UserIds \cup crossed
  BY RequestType DEF AccountsInv, InFlight, LoginCreate, SignInsHaveUsers
<1>2. /\ req' = [req EXCEPT ![c] = NoRequest] /\ req \in [Client -> Request \cup {NoRequest}]
      /\ sess' = [sess EXCEPT ![c] = [id |-> u.id, role |-> u.role]]
      /\ UNCHANGED <<users, tokens, fails, userIds, crossed>> /\ UserIds' = UserIds
  BY DEF LoginCreate, End, AccountsInv, AccountsTypeOK, UserIds
<1>3. /\ req'[c] = NoRequest /\ \A d \in Client \ {c} : req'[d] = req[d]
      /\ \A d \in Client : InFlight(d, "delete") => d # c
  BY <1>2 DEF InFlight, LoginCreate
<1>4. sess'[c].id = u.id /\ \A d \in Client \ {c} : sess'[d] = sess[d]
  BY <1>2 DEF AccountsInv, AccountsTypeOK
<1>5. AccountsTypeOK'
  <2>1. [id |-> u.id, role |-> u.role] \in Session
    BY <1>1 DEF Session
  <2> HIDE DEF u
  <2> QED BY <1>2, <2>1 DEF AccountsInv, AccountsTypeOK
<1> HIDE DEF u
<1>6. SessionsHaveUsers'
  <2> SUFFICES ASSUME NEW d \in Client, sess'[d] # NoSession
               PROVE  \/ sess'[d].id \in UserIds'
                      \/ sess'[d].id \in crossed'
                      \/ \E e \in Client : InFlight(e, "delete")' /\ req'[e].user.id = sess'[d].id
    BY DEF SessionsHaveUsers, UserIds, InFlight
  <2>1. CASE d = c
    BY <1>1, <1>2, <1>4, <2>1
  <2>2. CASE d # c
    <3>1. \/ sess[d].id \in UserIds
          \/ sess[d].id \in crossed
          \/ \E e \in Client : InFlight(e, "delete") /\ req[e].user.id = sess[d].id
      BY <1>4, <2>2 DEF AccountsInv, SessionsHaveUsers, UserIds
    <3> QED BY <1>2, <1>3, <1>4, <2>2, <3>1 DEF InFlight
  <2> QED BY <2>1, <2>2
<1>7. SignInsHaveUsers'
  BY <1>2, <1>3 DEF AccountsInv, SignInsHaveUsers, InFlight
<1> QED BY <1>5, <1>6, <1>7 DEF AccountsInv

LEMMA DeleteStoredStep ==
    ASSUME AccountsInv, NEW c \in Client, DeleteStored(c)
    PROVE  AccountsInv'
<1>1. PICK u \in users :
         /\ users' = {v \in users : v.id # u.id}
         /\ Begin(c, "delete", u) /\ req[c] = NoRequest
         /\ crossed' = IF \E d \in Client : req[d] # NoRequest /\ req[d].user.id = u.id
                         THEN crossed \cup {u.id} ELSE crossed
  BY DEF DeleteStored, Require
<1>2. u \in User /\ u.id \in 1 .. MaxUserIds
  BY DEF AccountsInv, AccountsTypeOK, User
<1>3. /\ UNCHANGED <<tokens, sess, fails, userIds>> /\ req \in [Client -> Request \cup {NoRequest}]
      /\ req' = [req EXCEPT ![c] = [op |-> "delete", user |-> u]]
  BY <1>1 DEF DeleteStored, Begin, AccountsInv, AccountsTypeOK
<1>4. /\ req'[c] = [op |-> "delete", user |-> u] /\ \A d \in Client \ {c} : req'[d] = req[d]
      /\ InFlight(c, "delete")' /\ req'[c].user.id = u.id
  BY <1>3 DEF InFlight, NoRequest
<1>5. crossed \subseteq crossed'
  BY <1>1
<1>6. UserIds \subseteq UserIds' \cup {u.id}
  BY <1>1 DEF UserIds
<1>7. AccountsTypeOK'
  <2>1. [op |-> "delete", user |-> u] \in Request
    BY <1>2 DEF Request
  <2>2. crossed' \subseteq 1 .. MaxUserIds
    BY <1>1, <1>2 DEF AccountsInv, AccountsTypeOK
  <2> QED BY <1>1, <1>3, <2>1, <2>2 DEF AccountsInv, AccountsTypeOK
<1>8. SessionsHaveUsers'
  <2> SUFFICES ASSUME NEW d \in Client, sess[d] # NoSession
               PROVE  \/ sess[d].id \in UserIds'
                      \/ sess[d].id \in crossed'
                      \/ \E e \in Client : InFlight(e, "delete")' /\ req'[e].user.id = sess[d].id
    BY <1>3 DEF SessionsHaveUsers, UserIds, InFlight
  <2>1. \/ sess[d].id \in UserIds
        \/ sess[d].id \in crossed
        \/ \E e \in Client : InFlight(e, "delete") /\ req[e].user.id = sess[d].id
    BY DEF AccountsInv, SessionsHaveUsers, UserIds
  <2>2. \A e \in Client : InFlight(e, "delete") => e # c
    BY <1>1 DEF InFlight
  <2> QED BY <1>4, <1>5, <1>6, <2>1, <2>2 DEF InFlight
<1>9. SignInsHaveUsers'
  <2> SUFFICES ASSUME NEW d \in Client, InFlight(d, "login")'
               PROVE  req'[d].user.id \in UserIds' \cup crossed'
    BY DEF SignInsHaveUsers
  <2>1. d # c /\ req'[d] = req[d]
    BY <1>4 DEF InFlight
  <2>2. req[d].user.id \in UserIds \cup crossed /\ req[d] # NoRequest
    BY <2>1 DEF AccountsInv, SignInsHaveUsers, InFlight
  <2>3. CASE req[d].user.id = u.id
    BY <1>1, <2>1, <2>2, <2>3
  <2>4. CASE req[d].user.id # u.id
    BY <1>5, <1>6, <2>1, <2>2, <2>4
  <2> QED BY <2>3, <2>4
<1> QED BY <1>7, <1>8, <1>9 DEF AccountsInv

LEMMA DeleteSessionsStep ==
    ASSUME AccountsInv, NEW c \in Client, DeleteSessions(c)
    PROVE  AccountsInv'
<1>1. /\ req' = [req EXCEPT ![c] = NoRequest] /\ req \in [Client -> Request \cup {NoRequest}]
      /\ sess' = [d \in Client |-> IF sess[d].id = req[c].user.id THEN NoSession ELSE sess[d]]
      /\ UNCHANGED <<users, tokens, fails, userIds, crossed>> /\ UserIds' = UserIds
  BY DEF DeleteSessions, End, AccountsInv, AccountsTypeOK, UserIds
<1>2. req'[c] = NoRequest /\ \A d \in Client \ {c} : req'[d] = req[d]
  BY <1>1
<1>3. AccountsTypeOK'
  BY <1>1 DEF AccountsInv, AccountsTypeOK
<1>4. SessionsHaveUsers'
  <2> SUFFICES ASSUME NEW d \in Client, sess'[d] # NoSession
               PROVE  \/ sess'[d].id \in UserIds'
                      \/ sess'[d].id \in crossed'
                      \/ \E e \in Client : InFlight(e, "delete")' /\ req'[e].user.id = sess'[d].id
    BY DEF SessionsHaveUsers, UserIds, InFlight
  <2>1. sess'[d] = sess[d] /\ sess[d].id # req[c].user.id
    BY <1>1
  <2>2. \/ sess[d].id \in UserIds
        \/ sess[d].id \in crossed
        \/ \E e \in Client : InFlight(e, "delete") /\ req[e].user.id = sess[d].id
    BY <2>1 DEF AccountsInv, SessionsHaveUsers, UserIds
  <2> QED BY <1>1, <1>2, <2>1, <2>2 DEF InFlight
<1>5. SignInsHaveUsers'
  BY <1>1, <1>2 DEF AccountsInv, SignInsHaveUsers, InFlight
<1> QED BY <1>3, <1>4, <1>5 DEF AccountsInv

LEMMA AccountsStep ==
    ASSUME AccountsInv, [AccountsNext]_accountVars
    PROVE  AccountsInv'
<1>0. "admin" \in Role
  BY AccountsAssumption
<1>1. ASSUME NEW c \in Client, NEW name \in UserName, SetupCheck(c, name)
      PROVE  AccountsInv'
  <2>1. NewUser(name, "admin") \in User /\ userIds + 1 \in 0 .. MaxUserIds
    BY <1>0, <1>1, NewUserType DEF SetupCheck, AccountsInv
  <2> QED BY <1>1, <2>1, BeginStep DEF SetupCheck
<1>2. ASSUME NEW c \in Client, SetupPut(c)
      PROVE  AccountsInv'
  BY <1>2, PutStep DEF SetupPut
<1>3. ASSUME NEW c \in Client, LoginLookup(c)
      PROVE  AccountsInv'
  <2>1. PICK u \in users : Begin(c, "login", u)
    BY <1>3 DEF LoginLookup
  <2>2. u \in User /\ userIds \in 0 .. MaxUserIds
    BY DEF AccountsInv, AccountsTypeOK
  <2> QED BY <1>3, <2>1, <2>2, BeginStep DEF LoginLookup
<1>4. ASSUME NEW c \in Client, LoginFailed(c) \/ FailuresForgotten(c)
      PROVE  AccountsInv'
  <2>1. fails' \in [Client -> 0 .. MaxFail]
    <3>1. fails \in [Client -> 0 .. MaxFail] /\ MaxFail \in Nat /\ 0 \in 0 .. MaxFail
      BY AccountsAssumption DEF AccountsInv, AccountsTypeOK
    <3>2. CASE LoginFailed(c)
      <4>1. fails[c] + 1 \in 0 .. MaxFail
        BY <3>1, <3>2 DEF LoginFailed
      <4> QED BY <3>1, <3>2, <4>1 DEF LoginFailed
    <3>3. CASE FailuresForgotten(c)
      BY <3>1, <3>3 DEF FailuresForgotten
    <3> QED BY <1>4, <3>2, <3>3
  <2>2. UNCHANGED <<users, tokens, sess, req, userIds, crossed>>
    BY <1>4 DEF LoginFailed, FailuresForgotten
  <2> QED BY <2>1, <2>2 DEF AccountsInv, AccountsTypeOK, SessionsHaveUsers, SignInsHaveUsers, InFlight, UserIds
<1>5. ASSUME NEW c \in Client, LoginCreate(c)
      PROVE  AccountsInv'
  BY <1>5, LoginCreateStep
<1>6. ASSUME NEW c \in Client, Logout(c)
      PROVE  AccountsInv'
  BY <1>6 DEF Logout, AccountsInv, AccountsTypeOK, SessionsHaveUsers, SignInsHaveUsers, InFlight, UserIds
<1>7. ASSUME NEW c \in Client, NEW name \in UserName, NEW role \in Role, AddUserCheck(c, name, role)
      PROVE  AccountsInv'
  <2>1. NewUser(name, role) \in User /\ userIds + 1 \in 0 .. MaxUserIds
    BY <1>7, NewUserType DEF AddUserCheck, AccountsInv
  <2>2. req[c] = NoRequest
    BY <1>7 DEF AddUserCheck, Require
  <2> QED BY <1>7, <2>1, <2>2, BeginStep DEF AddUserCheck
<1>8. ASSUME NEW c \in Client, AddUserPut(c)
      PROVE  AccountsInv'
  BY <1>8, PutStep DEF AddUserPut
<1>9. ASSUME NEW c \in Client, PasswordRead(c)
      PROVE  AccountsInv'
  <2>1. PICK u \in users : Begin(c, "password", u) /\ req[c] = NoRequest
    BY <1>9 DEF PasswordRead, Require
  <2>2. u \in User /\ userIds \in 0 .. MaxUserIds
    BY DEF AccountsInv, AccountsTypeOK
  <2> QED BY <1>9, <2>1, <2>2, BeginStep DEF PasswordRead
<1>10. ASSUME NEW c \in Client, PasswordPut(c)
       PROVE  AccountsInv'
  BY <1>10, PutStep DEF PasswordPut
<1>11. ASSUME NEW c \in Client, DeleteStored(c)
       PROVE  AccountsInv'
  BY <1>11, DeleteStoredStep
<1>12. ASSUME NEW c \in Client, DeleteSessions(c)
       PROVE  AccountsInv'
  BY <1>12, DeleteSessionsStep
<1>13. ASSUME NEW c \in Client, (\E role \in Role : AddToken(c, role)) \/ DeleteToken(c)
       PROVE  AccountsInv'
  <2>1. tokens' \subseteq Role /\ UNCHANGED <<users, sess, req, fails, userIds, crossed>>
    BY <1>13 DEF AddToken, DeleteToken, AccountsInv, AccountsTypeOK
  <2> QED BY <2>1 DEF AccountsInv, AccountsTypeOK, SessionsHaveUsers, SignInsHaveUsers, InFlight, UserIds
<1>14. CASE UNCHANGED accountVars
  BY <1>14 DEF accountVars, AccountsInv, AccountsTypeOK, SessionsHaveUsers, SignInsHaveUsers, InFlight, UserIds
<1> QED
  BY <1>1, <1>2, <1>3, <1>4, <1>5, <1>6, <1>7, <1>8, <1>9, <1>10, <1>11, <1>12, <1>13, <1>14
  DEF AccountsNext

\* Deleting a user signs it out everywhere, for any number of clients and users and
\* however the handlers' steps interleave: a session without a user waits for the
\* delete request to end it, or one of the user's own requests was in flight when
\* the user was deleted (server.go, login, deleteUser; auth.go, Sessions).
THEOREM SessionsEndWithUsers == AccountsSpec => [](AccountsTypeOK /\ SessionsHaveUsers)
<1>1. AccountsInit => AccountsInv
  <2> SUFFICES ASSUME AccountsInit PROVE AccountsInv
    OBVIOUS
  <2>1. 0 \in 0 .. MaxFail /\ 0 \in 0 .. MaxUserIds
    BY AccountsAssumption
  <2>2. AccountsTypeOK
    BY <2>1 DEF AccountsInit, AccountsTypeOK
  <2> QED BY <2>2 DEF AccountsInit, AccountsInv, SessionsHaveUsers, SignInsHaveUsers, InFlight
<1>2. AccountsInv => AccountsTypeOK /\ SessionsHaveUsers
  BY DEF AccountsInv
<1> QED BY <1>1, <1>2, AccountsStep, PTL DEF AccountsSpec

-----------------------------------------------------------------------------
(* Probes.                                                                 *)

ProbeTypes ==
    /\ raised \in BOOLEAN /\ alertOpen \in BOOLEAN /\ astray \in BOOLEAN
    /\ runs \in [Run -> {NoRun} \cup [by : {"schedule", "console"}, then : {"test", "failed", "ok", "end"}]]
    /\ events \in Seq({"failed", "ok"})

\* What the alert will be when every event in the channel has been taken.
WillBeOpen == IF events = <<>> THEN alertOpen ELSE events[Len(events)] = "failed"

\* Until something goes astray at most one event is recorded and not yet sent, and it
\* is the one that turns the alert into what the runner remembers.
EventInv ==
    /\ \A r, t \in Sending : r = t
    /\ Sending = {} => (WillBeOpen <=> raised)
    /\ \A r \in Sending : (runs[r].then = "failed" <=> raised) /\ (WillBeOpen <=> ~raised)

ProbeInv ==
    /\ ProbeTypes
    /\ lastOK = "ok" => ~raised
    /\ ~astray => EventInv

\* A run whose next step changes from one that sends nothing to another such.
LEMMA SameSending ==
    ASSUME ProbeTypes, NEW r \in Run, r \notin Sending,
           NEW x \in {NoRun} \cup [by : {"schedule", "console"}, then : {"test", "failed", "ok", "end"}],
           x.then \notin {"failed", "ok"}, runs' = [runs EXCEPT ![r] = x]
    PROVE  Sending' = Sending /\ \A t \in Sending : runs'[t] = runs[t]
<1>1. runs'[r] = x /\ \A t \in Run \ {r} : runs'[t] = runs[t]
  BY DEF ProbeTypes
<1> QED BY <1>1 DEF Sending

LEMMA RunStep ==
    ASSUME ProbeInv, NEW r \in Run, r \notin Sending,
           NEW x \in {NoRun} \cup [by : {"schedule", "console"}, then : {"test", "failed", "ok", "end"}],
           x.then \notin {"failed", "ok"}, runs' = [runs EXCEPT ![r] = x],
           UNCHANGED <<raised, lastOK, events, alertOpen, astray>>
    PROVE  ProbeInv'
<1>1. Sending' = Sending /\ \A t \in Sending : runs'[t] = runs[t]
  BY SameSending DEF ProbeInv
<1>2. WillBeOpen' = WillBeOpen
  BY DEF WillBeOpen
<1>3. ProbeTypes'
  BY DEF ProbeInv, ProbeTypes
<1>4. EventInv => EventInv'
  BY <1>1, <1>2 DEF EventInv
<1> QED BY <1>3, <1>4 DEF ProbeInv

LEMMA RecordStep ==
    ASSUME ProbeInv, NEW r \in Run, NEW ok \in BOOLEAN, Record(r, ok)
    PROVE  ProbeInv'
<1> DEFINE ev == IF raised' = raised THEN "end" ELSE IF raised' THEN "failed" ELSE "ok"
<1>1. /\ runs[r].then = "test" /\ UNCHANGED <<events, alertOpen>>
      /\ runs' = [runs EXCEPT ![r].then = ev]
      /\ astray' = (astray \/ (ev # "end" /\ Sending # {}))
  BY DEF Record
<1>2. raised' \in BOOLEAN /\ raised \in BOOLEAN
  BY DEF Record, RaisedBy, ProbeInv, ProbeTypes
<1>3. lastOK' = "ok" => ~raised'
  BY DEF Record, RaisedBy
<1>4. PICK by \in {"schedule", "console"} : runs' = [runs EXCEPT ![r] = [by |-> by, then |-> ev]]
  <2>1. runs \in [Run -> {NoRun} \cup [by : {"schedule", "console"}, then : {"test", "failed", "ok", "end"}]]
    BY DEF ProbeInv, ProbeTypes
  <2>2. runs[r] # NoRun
    BY <1>1 DEF NoRun
  <2>3. runs[r] \in [by : {"schedule", "console"}, then : {"test", "failed", "ok", "end"}]
    BY <2>1, <2>2
  <2>4. [runs[r] EXCEPT !.then = ev] = [by |-> runs[r].by, then |-> ev]
    BY <2>3
  <2> HIDE DEF ev
  <2> QED BY <1>1, <2>1, <2>3, <2>4
<1>5. ev \in {"failed", "ok", "end"}
  OBVIOUS
<1>6. ProbeTypes'
  <2>1. astray' \in BOOLEAN
    BY <1>1 DEF ProbeInv, ProbeTypes
  <2>2. [by |-> by, then |-> ev] \in [by : {"schedule", "console"}, then : {"test", "failed", "ok", "end"}]
    BY <1>5
  <2> HIDE DEF ev
  <2>3. runs' \in [Run -> {NoRun} \cup [by : {"schedule", "console"}, then : {"test", "failed", "ok", "end"}]]
    BY <1>4, <2>2 DEF ProbeInv, ProbeTypes
  <2>4. (alertOpen \in BOOLEAN)' /\ (events \in Seq({"failed", "ok"}))'
    BY <1>1 DEF ProbeInv, ProbeTypes
  <2> QED BY <1>2, <2>1, <2>3, <2>4, Zenon DEF ProbeTypes
<1>7. WillBeOpen' = WillBeOpen /\ r \notin Sending
  BY <1>1 DEF WillBeOpen, Sending
<1>8. ASSUME ~astray'
      PROVE  EventInv'
  <2>0. ~astray /\ EventInv
    BY <1>1, <1>8 DEF ProbeInv, ProbeTypes
  <2>1. CASE ev = "end"
    <3>1. raised' = raised
      BY <2>1
    <3>2. /\ [by |-> by, then |-> "end"].then = "end"
          /\ [by |-> by, then |-> "end"] \in [by : {"schedule", "console"}, then : {"test", "failed", "ok", "end"}]
      OBVIOUS
    <3>3. Sending' = Sending /\ \A t \in Sending : runs'[t] = runs[t]
      BY <1>4, <1>7, <2>1, <3>2, SameSending DEF ProbeInv
    <3> HIDE DEF ev
    <3> QED BY <1>7, <2>0, <3>1, <3>3 DEF EventInv
  <2>2. CASE ev # "end"
    <3>1. Sending = {} /\ (raised' <=> ~raised)
      <4>1. Sending = {}
        <5> HIDE DEF ev
        <5> QED BY <1>1, <1>8, <2>2
      <4>2. raised' # raised
        BY <2>2
      <4> QED BY <1>2, <4>1, <4>2
    <3>2. runs'[r].then = ev /\ \A t \in Run \ {r} : runs'[t] = runs[t]
      BY <1>4 DEF ProbeInv, ProbeTypes
    <3>3. Sending' = {r}
      BY <1>5, <2>2, <3>1, <3>2 DEF Sending
    <3>4. ev = "failed" <=> raised'
      BY <1>2, <3>1
    <3> HIDE DEF ev
    <3> QED BY <1>2, <1>7, <2>0, <3>1, <3>2, <3>3, <3>4 DEF EventInv
  <2> QED BY <2>1, <2>2
<1> QED BY <1>3, <1>6, <1>8 DEF ProbeInv

LEMMA EmitStep ==
    ASSUME ProbeInv, NEW r \in Run, Emit(r)
    PROVE  ProbeInv'
<1>1. r \in Sending /\ UNCHANGED <<raised, lastOK, alertOpen>>
  BY DEF Emit
<1>2. runs'[r].then = "end" /\ \A t \in Run \ {r} : runs'[t] = runs[t]
  BY DEF Emit, ProbeInv, ProbeTypes, Sending
<1>3. runs' \in [Run -> {NoRun} \cup [by : {"schedule", "console"}, then : {"test", "failed", "ok", "end"}]]
  <2>1. runs \in [Run -> {NoRun} \cup [by : {"schedule", "console"}, then : {"test", "failed", "ok", "end"}]]
    BY DEF ProbeInv, ProbeTypes
  <2>2. runs[r] # NoRun
    BY <1>1 DEF NoRun, Sending
  <2>3. [runs[r] EXCEPT !.then = "end"] \in [by : {"schedule", "console"}, then : {"test", "failed", "ok", "end"}]
    BY <2>1, <2>2
  <2> QED BY <2>1, <2>3 DEF Emit
<1>4. Sending' = Sending \ {r}
  BY <1>2 DEF Sending
<1>5. CASE Len(events) < EventCap
  <2>1. events' = Append(events, runs[r].then) /\ astray' = astray
    BY <1>5 DEF Emit
  <2>2. runs[r].then \in {"failed", "ok"} /\ events \in Seq({"failed", "ok"})
    BY <1>1 DEF Sending, ProbeInv, ProbeTypes
  <2>3. events' \in Seq({"failed", "ok"}) /\ events' # <<>> /\ events'[Len(events')] = runs[r].then
    BY <2>1, <2>2
  <2>4. WillBeOpen' <=> runs[r].then = "failed"
    BY <2>3 DEF WillBeOpen
  <2>5. ProbeTypes'
    BY <1>1, <1>3, <2>1, <2>3 DEF ProbeInv, ProbeTypes
  <2>6. EventInv => EventInv'
    BY <1>1, <1>4, <2>4 DEF EventInv
  <2> QED BY <1>1, <2>1, <2>5, <2>6 DEF ProbeInv
<1>6. CASE ~(Len(events) < EventCap)
  <2>1. astray' = TRUE /\ events' = events
    BY <1>6 DEF Emit
  <2> QED BY <1>1, <1>3, <2>1 DEF ProbeInv, ProbeTypes
<1> QED BY <1>5, <1>6

LEMMA OnEventStep ==
    ASSUME ProbeInv, OnEvent
    PROVE  ProbeInv'
<1>1. /\ events # <<>> /\ events' = Tail(events) /\ alertOpen' = (Head(events) = "failed")
      /\ UNCHANGED <<runs, raised, lastOK, astray>>
  BY DEF OnEvent
<1>2. events \in Seq({"failed", "ok"}) /\ events' \in Seq({"failed", "ok"})
  BY <1>1 DEF ProbeInv, ProbeTypes
<1>3. WillBeOpen' <=> WillBeOpen
  <2>1. CASE Len(events) = 1
    <3>1. events' = <<>> /\ Head(events) = events[Len(events)]
      BY <1>1, <1>2, <2>1
    <3> QED BY <1>1, <3>1 DEF WillBeOpen
  <2>2. CASE Len(events) # 1
    <3>1. events' # <<>> /\ events'[Len(events')] = events[Len(events)]
      <4>1. Len(events) \in Nat /\ Len(events) >= 1
        BY <1>1, <1>2
      <4>2. Len(events') = Len(events) - 1 /\ Len(events') \in Nat /\ Len(events') >= 1
        <5>1. Len(Tail(events)) = Len(events) - 1
          BY <1>1, <1>2
        <5> QED BY <1>1, <2>2, <4>1, <5>1
      <4>3. \A i \in 1 .. Len(events') : events'[i] = events[i + 1]
        BY <1>1, <1>2, <4>1, <4>2
      <4>4. events' # <<>>
        BY <4>2
      <4>5. events'[Len(events')] = events[Len(events') + 1] /\ Len(events') + 1 = Len(events)
        BY <4>1, <4>2, <4>3
      <4> QED BY <4>4, <4>5
    <3> QED BY <1>1, <3>1 DEF WillBeOpen
  <2> QED BY <2>1, <2>2
<1>4. ProbeTypes'
  BY <1>1, <1>2 DEF ProbeInv, ProbeTypes
<1>5. Sending' = Sending
  BY <1>1 DEF Sending
<1>6. EventInv => EventInv'
  BY <1>1, <1>3, <1>5 DEF EventInv
<1> QED BY <1>1, <1>4, <1>6 DEF ProbeInv

LEMMA ForgetStep ==
    ASSUME ProbeInv, DeleteProbe \/ ProcessRestarts
    PROVE  ProbeInv'
<1>1. CASE DeleteProbe
  <2>1. /\ raised' = FALSE /\ lastOK' = "none" /\ astray' = (astray \/ raised \/ Sending # {})
        /\ UNCHANGED <<runs, events, alertOpen>>
    BY <1>1 DEF DeleteProbe
  <2>2. ProbeTypes' /\ WillBeOpen' = WillBeOpen /\ Sending' = Sending
    BY <2>1 DEF ProbeInv, ProbeTypes, WillBeOpen, Sending
  <2>3. ASSUME ~astray' PROVE EventInv'
    <3>1. ~astray /\ ~raised /\ Sending = {} /\ EventInv
      BY <2>1, <2>3 DEF ProbeInv
    <3> QED BY <2>1, <2>2, <3>1 DEF EventInv
  <2> QED BY <2>1, <2>2, <2>3 DEF ProbeInv
<1>2. CASE ProcessRestarts
  <2>1. /\ raised' = FALSE /\ lastOK' = "none" /\ astray' = (astray \/ alertOpen \/ events # <<>>)
        /\ runs' = [r \in Run |-> NoRun] /\ events' = <<>> /\ alertOpen' = alertOpen
    BY <1>2 DEF ProcessRestarts
  <2>2. Sending' = {} /\ WillBeOpen' = alertOpen
    BY <2>1 DEF Sending, NoRun, WillBeOpen
  <2>3. ProbeTypes'
    <3>1. NoRun \in {NoRun} \cup [by : {"schedule", "console"}, then : {"test", "failed", "ok", "end"}]
      OBVIOUS
    <3>2. runs' \in [Run -> {NoRun} \cup [by : {"schedule", "console"}, then : {"test", "failed", "ok", "end"}]]
      BY <2>1, <3>1
    <3>3. astray' \in BOOLEAN /\ raised' \in BOOLEAN /\ alertOpen' \in BOOLEAN
      BY <2>1 DEF ProbeInv, ProbeTypes
    <3>4. events' \in Seq({"failed", "ok"})
      BY <2>1
    <3> QED BY <3>2, <3>3, <3>4, Zenon DEF ProbeTypes
  <2>4. ASSUME ~astray' PROVE EventInv'
    BY <2>1, <2>2, <2>4 DEF EventInv
  <2> QED BY <2>1, <2>3, <2>4 DEF ProbeInv
<1> QED BY <1>1, <1>2

\* Once its events have been taken the alert of a probe is what the runner remembers
\* of it, for any number of runs side by side and any size of the channel: the event
\* is sent after the unlock, and only the cases counted in astray come apart
\* (probe.go, record, emit, Forget; engine.go, onEvent).
THEOREM AlertIsTheProbes == ProbeSpec => []AlertFollowsProbe
<1>1. ProbeInit => ProbeInv
  <2> SUFFICES ASSUME ProbeInit PROVE ProbeInv
    OBVIOUS
  <2>1. Sending = {} /\ WillBeOpen = FALSE
    BY DEF ProbeInit, Sending, NoRun, WillBeOpen
  <2>2. runs \in [Run -> {NoRun} \cup [by : {"schedule", "console"}, then : {"test", "failed", "ok", "end"}]]
    BY DEF ProbeInit
  <2>3. raised \in BOOLEAN /\ alertOpen \in BOOLEAN /\ astray \in BOOLEAN
    BY DEF ProbeInit
  <2>4. events \in Seq({"failed", "ok"})
    BY DEF ProbeInit
  <2>5. ProbeTypes
    BY <2>2, <2>3, <2>4, Zenon DEF ProbeTypes
  <2> QED BY <2>1, <2>5 DEF ProbeInit, ProbeInv, EventInv
<1>2. ASSUME ProbeInv, [ProbeNext]_probeVars
      PROVE  ProbeInv'
  <2>1. CASE UNCHANGED <<runs, raised, lastOK, events, alertOpen, astray>>
    <3>1. WillBeOpen' = WillBeOpen /\ Sending' = Sending
      BY <2>1 DEF WillBeOpen, Sending
    <3> QED BY <1>2, <2>1, <3>1 DEF ProbeInv, ProbeTypes, EventInv
  <2>2. ASSUME NEW r \in Run, RunDue(r) \/ RunFromConsole(r)
        PROVE  ProbeInv'
    <3>1. PICK by \in {"schedule", "console"} :
              runs[r] = NoRun /\ runs' = [runs EXCEPT ![r] = [by |-> by, then |-> "test"]]
      BY <2>2 DEF RunDue, RunFromConsole, RunBegins
    <3>2. r \notin Sending /\ UNCHANGED <<raised, lastOK, events, alertOpen, astray>>
      BY <2>2, <3>1 DEF Sending, NoRun, RunDue, RunFromConsole
    <3>3. /\ [by |-> by, then |-> "test"] \in [by : {"schedule", "console"}, then : {"test", "failed", "ok", "end"}]
          /\ [by |-> by, then |-> "test"].then = "test"
      OBVIOUS
    <3> QED BY <1>2, <3>1, <3>2, <3>3, RunStep
  <2>3. ASSUME NEW r \in Run, RunEnds(r)
        PROVE  ProbeInv'
    <3>1. /\ runs' = [runs EXCEPT ![r] = NoRun] /\ NoRun.then = "none" /\ r \notin Sending
          /\ UNCHANGED <<raised, lastOK, events, alertOpen, astray>>
      BY <2>3 DEF RunEnds, NoRun, Sending
    <3> QED BY <1>2, <3>1, RunStep
  <2>4. CASE RunSteps
    BY <1>2, <2>2, <2>3, <2>4, EmitStep, RecordStep DEF RunSteps
  <2>5. CASE Schedule \/ Tick \/ PutProbe \/ UNCHANGED probeVars
    BY <2>1, <2>5 DEF Schedule, Tick, PutProbe, probeVars
  <2> QED
    BY <1>2, <2>2, <2>4, <2>5, OnEventStep, ForgetStep DEF ProbeNext
<1>3. ProbeInv => AlertFollowsProbe
  <2> SUFFICES ASSUME ProbeInv, Settled, ~astray
               PROVE  (alertOpen <=> raised) /\ (lastOK = "ok" => ~alertOpen)
    BY DEF AlertFollowsProbe
  <2>1. Sending = {}
    BY DEF Settled, Sending, NoRun
  <2>2. WillBeOpen = alertOpen
    BY DEF Settled, WillBeOpen
  <2> QED BY <2>1, <2>2 DEF ProbeInv, EventInv, ProbeTypes
<1> QED BY <1>1, <1>2, <1>3, PTL DEF ProbeSpec


-----------------------------------------------------------------------------
(* Configuration backups.                                                  *)

LEMMA BackupBounds ==
    /\ MaxTime \in Nat /\ MaxConfigs \in Nat /\ MaxSessions \in Nat /\ Every \in Nat /\ Soon \in Nat
    /\ MaxConfigs >= 1 /\ Keep \in Nat /\ Keep > 1
BY BackupAssumption

SessionTypes == time \in Nat /\ config \in 1 .. MaxConfigs /\ sessions \subseteq [id : Nat, stamp : Nat, by : {"schedule", "user"}, got : Nat]

\* A step begins a session, brings one its configuration, ends one or leaves them alone.
LEMMA SessionStep ==
    ASSUME SessionTypes, [BackupNext]_backupVars
    PROVE  SessionTypes'
<1> USE BackupBounds DEF SessionTypes
<1>1. CASE UNCHANGED <<time, config>> /\ sessions' \subseteq sessions
  BY <1>1
<1>2. ASSUME NEW by \in {"schedule", "user"}, Begins(by), UNCHANGED <<time, config>>
      PROVE  SessionTypes'
  BY <1>2 DEF Begins, NewIds
<1>3. ASSUME NEW s \in sessions, FetchConfig(s)
      PROVE  SessionTypes'
  BY <1>3 DEF FetchConfig
<1>4. Due => Begins("schedule") /\ UNCHANGED <<time, config>>
  BY DEF Due
<1>5. BackupNow => Begins("user") /\ UNCHANGED <<time, config>>
  BY DEF BackupNow
<1>6. CASE TimePasses \/ Reconfigured
  BY <1>6 DEF TimePasses, Reconfigured
<1>7. \A s \in sessions : FetchFails(s) \/ PutSame(s) \/ PutFile(s)
                            => UNCHANGED <<time, config>> /\ sessions' \subseteq sessions
  BY DEF FetchFails, PutSame, PutFile, Ends
<1>8. (\E t \in 0 .. MaxTime + Every : FirstNext(t)) \/ Trigger \/ PutCap \/ PutIndex \/ ForgetBackups \/ BackupCrash
        \/ OpenBackups \/ UNCHANGED backupVars => UNCHANGED <<time, config>> /\ sessions' \subseteq sessions
  BY DEF FirstNext, Trigger, PutCap, PutIndex, Ends, ForgetBackups, BackupCrash, OpenBackups, backupVars
<1> QED BY <1>1, <1>2, <1>3, <1>4, <1>5, <1>6, <1>7, <1>8 DEF BackupNext

TriggerInv ==
    /\ SessionTypes /\ lastTry \in Int /\ disk.lastTry \in Int
    /\ backupNext = <<>> \/ \E t \in Int : backupNext = <<t>>
    /\ TriggerIsKept

\* A trigger is answered by a backup that begins after it, whatever runs meanwhile,
\* for any interval and any number of sessions (backup.go, Trigger, due).
THEOREM TriggersAreKept == BackupSpec => []TriggerIsKept
<1>1. BackupInit => TriggerInv
  BY BackupBounds DEF BackupInit, TriggerInv, SessionTypes, TriggerIsKept, Never, NoIndex
<1>2. ASSUME TriggerInv, [BackupNext]_backupVars
      PROVE  TriggerInv'
  <2>0. SessionTypes' /\ time \in Nat
    BY <1>2, SessionStep DEF TriggerInv, SessionTypes
  <2> USE BackupBounds, <2>0 DEF TriggerInv, TriggerIsKept
  <2>1. CASE UNCHANGED <<time, backupNext, lastTry, disk, wanted>>
    BY <1>2, <2>1
  <2>2. ASSUME NEW t \in 0 .. MaxTime + Every, FirstNext(t)
        PROVE  TriggerInv'
    BY <1>2, <2>2 DEF FirstNext
  <2>3. CASE Due
    BY <1>2, <2>3 DEF Due
  <2>4. CASE Trigger
    BY <1>2, <2>4 DEF Trigger
  <2>5. ASSUME NEW s \in sessions, FetchFails(s) \/ PutSame(s) \/ PutFile(s)
        PROVE  TriggerInv'
    <3>1. s.stamp \in Nat
      BY <1>2, <2>5 DEF SessionTypes
    <3> QED BY <1>2, <2>5, <3>1 DEF FetchFails, PutSame, PutFile
  <2>6. CASE PutIndex
    BY <1>2, <2>6 DEF PutIndex
  <2>7. CASE ForgetBackups \/ BackupCrash
    BY <1>2, <2>7 DEF ForgetBackups, BackupCrash, NoIndex, Never
  <2>8. CASE OpenBackups
    BY <1>2, <2>8 DEF OpenBackups
  <2>9. CASE TimePasses
    BY <1>2, <2>9 DEF TimePasses
  <2>10. \A s \in sessions : FetchConfig(s) => UNCHANGED <<time, backupNext, lastTry, disk, wanted>>
    BY DEF FetchConfig
  <2>11. BackupNow \/ PutCap \/ Reconfigured \/ UNCHANGED backupVars
             => UNCHANGED <<time, backupNext, lastTry, disk, wanted>>
    BY DEF BackupNow, PutCap, Reconfigured, backupVars
  <2> QED
    BY <1>2, <2>1, <2>2, <2>3, <2>4, <2>5, <2>6, <2>7, <2>8, <2>9, <2>10, <2>11 DEF BackupNext
<1>3. TriggerInv => TriggerIsKept
  BY DEF TriggerInv
<1> QED BY <1>1, <1>2, <1>3, PTL DEF BackupSpec

IndexTypes == index \in Seq([id : Nat, cfg : Nat]) /\ disk.versions \in Seq([id : Nat, cfg : Nat])

DistinctIds(q) == \A i, j \in DOMAIN q : q[i].id = q[j].id => i = j

\* No two sessions are stamped alike, and none as a version already stored.
StampInv ==
    /\ \A s, t \in sessions : s.stamp = t.stamp => s = t
    /\ \A s \in sessions : putting = [at |-> "cap", s |-> s] \/ \A i \in DOMAIN index : index[i].id # s.stamp
    /\ ~backupUp => sessions = {}

\* Between the Puts the index in memory is the one on disk; within one its newest
\* version is the one being put, and its file is written.
FreeInv == putting = Free /\ (backupUp => index = disk.versions)

CapInv(s) ==
    /\ putting = [at |-> "cap", s |-> s] /\ s.got # 0 /\ backupUp
    /\ index # <<>> /\ index[Len(index)] = Version(s)
    /\ Len(index) > Keep => index = Append(disk.versions, Version(s))
    /\ s.stamp \in DOMAIN files /\ files[s.stamp] = s.got

Readable ==
    disk.versions # <<>> => LET v == disk.versions[Len(disk.versions)] IN v.id \in DOMAIN files /\ files[v.id] = v.cfg

VersionsSound ==
    /\ DistinctIds(index) /\ DistinctIds(disk.versions) /\ Len(disk.versions) <= Keep
    /\ StampInv
    /\ FreeInv \/ \E s \in sessions : CapInv(s)
    /\ Readable

VersionInv == SessionTypes /\ IndexTypes /\ (shared \/ VersionsSound)

LEMMA IndexStep ==
    ASSUME SessionTypes, IndexTypes, [BackupNext]_backupVars
    PROVE  IndexTypes'
<1> USE DEF IndexTypes
<1>1. CASE UNCHANGED <<index, disk>>
  BY <1>1
<1>2. ASSUME NEW s \in sessions, FetchFails(s) \/ PutSame(s)
      PROVE  IndexTypes'
  BY <1>2 DEF FetchFails, PutSame
<1>3. ASSUME NEW s \in sessions, PutFile(s)
      PROVE  IndexTypes'
  <2>1. Version(s) \in [id : Nat, cfg : Nat]
    BY DEF SessionTypes, Version
  <2> QED BY <1>3, <2>1 DEF PutFile
<1>4. CASE PutCap
  BY <1>4, BackupBounds DEF PutCap
<1>5. CASE PutIndex \/ ForgetBackups \/ BackupCrash \/ OpenBackups
  <2>1. CASE PutIndex
    BY <2>1 DEF PutIndex
  <2>2. CASE ForgetBackups
    BY <2>2 DEF ForgetBackups, NoIndex
  <2>3. CASE BackupCrash
    BY <2>3 DEF BackupCrash
  <2>4. CASE OpenBackups
    BY <2>4 DEF OpenBackups
  <2> QED BY <1>5, <2>1, <2>2, <2>3, <2>4
<1>6. \A s \in sessions : FetchConfig(s) => UNCHANGED <<index, disk>>
  BY DEF FetchConfig
<1>7. (\E t \in 0 .. MaxTime + Every : FirstNext(t)) \/ Due \/ BackupNow \/ Trigger \/ TimePasses \/ Reconfigured
        \/ UNCHANGED backupVars => UNCHANGED <<index, disk>>
  BY DEF FirstNext, Due, BackupNow, Trigger, TimePasses, Reconfigured, backupVars
<1> QED BY <1>1, <1>2, <1>3, <1>4, <1>5, <1>6, <1>7 DEF BackupNext

LEMMA BeginsKeepsVersions ==
    ASSUME SessionTypes, VersionsSound, NEW by \in {"schedule", "user"}, Begins(by), ~shared', backupUp,
           UNCHANGED <<putting, index, disk, files, backupUp>>
    PROVE  VersionsSound'
<1>1. PICK n \in NewIds : sessions' = sessions \cup {[id |-> n, stamp |-> time, by |-> by, got |-> 0]}
  BY DEF Begins
<1>2. (\A s \in sessions : s.stamp # time) /\ (\A v \in DOMAIN index : index[v].id # time)
  BY DEF Begins
<1>3. DistinctIds(index)' /\ DistinctIds(disk.versions)' /\ Readable'
  BY DEF VersionsSound, DistinctIds, Readable
<1>4. StampInv'
  <2> DEFINE new == [id |-> n, stamp |-> time, by |-> by, got |-> 0]
  <2>1. new.stamp = time
    OBVIOUS
  <2> HIDE DEF new
  <2> QED BY <1>1, <1>2, <2>1 DEF VersionsSound, StampInv
<1>5. FreeInv => FreeInv'
  BY DEF FreeInv
<1>6. \A s \in sessions : s \in sessions' /\ (CapInv(s) => CapInv(s)')
  BY <1>1 DEF CapInv
<1>7. (FreeInv \/ \E s \in sessions : CapInv(s))'
  BY <1>5, <1>6 DEF VersionsSound
<1> QED BY <1>3, <1>4, <1>7 DEF VersionsSound

LEMMA FetchKeepsVersions ==
    ASSUME SessionTypes, VersionsSound, NEW s \in sessions, FetchConfig(s)
    PROVE  VersionsSound'
<1> DEFINE new == [s EXCEPT !.got = config]
<1>1. /\ s.got = 0 /\ sessions' = (sessions \ {s}) \cup {new}
      /\ UNCHANGED <<putting, index, disk, files, backupUp>>
  BY DEF FetchConfig
<1>2. new.stamp = s.stamp
  BY DEF SessionTypes
<1> HIDE DEF new
<1>3. DistinctIds(index)' /\ DistinctIds(disk.versions)' /\ Readable'
  BY <1>1 DEF VersionsSound, DistinctIds, Readable
<1>4. putting # [at |-> "cap", s |-> s]
  <2>1. \A t : CapInv(t) => t.got # 0 /\ putting = [at |-> "cap", s |-> t]
    BY DEF CapInv
  <2>2. FreeInv => putting.at = "free"
    BY DEF FreeInv, Free
  <2> QED BY <1>1, <2>1, <2>2 DEF VersionsSound
<1>5. StampInv'
  BY <1>1, <1>2, <1>4 DEF VersionsSound, StampInv
<1>6. FreeInv => FreeInv'
  BY <1>1 DEF FreeInv
<1>7. ASSUME NEW t \in sessions, CapInv(t)
      PROVE  t \in sessions' /\ CapInv(t)'
  BY <1>1, <1>4, <1>7 DEF CapInv
<1>8. (FreeInv \/ \E t \in sessions : CapInv(t))'
  BY <1>6, <1>7 DEF VersionsSound
<1>9. Len(disk'.versions) <= Keep
  BY <1>1 DEF VersionsSound
<1> QED BY <1>3, <1>5, <1>8, <1>9 DEF VersionsSound

LEMMA NotPutKeepsVersions ==
    ASSUME VersionsSound, NEW s \in sessions, FetchFails(s) \/ PutSame(s)
    PROVE  VersionsSound'
<1>1. /\ putting = Free /\ disk'.versions = index /\ sessions' \subseteq sessions
      /\ UNCHANGED <<putting, index, files, backupUp>>
  <2>1. CASE FetchFails(s)
    BY <2>1 DEF FetchFails, Ends
  <2>2. CASE PutSame(s)
    BY <2>2 DEF PutSame, Ends
  <2> QED BY <2>1, <2>2
<1>2. putting.at = "free"
  BY <1>1 DEF Free
<1>3. ~\E t \in sessions : CapInv(t)
  BY <1>2 DEF CapInv
<1>4. backupUp /\ index = disk.versions
  BY <1>3 DEF VersionsSound, FreeInv, StampInv
<1> QED BY <1>1, <1>4 DEF VersionsSound, DistinctIds, StampInv, FreeInv, Readable

LEMMA PutFileKeepsVersions ==
    ASSUME SessionTypes, IndexTypes, VersionsSound, NEW s \in sessions, PutFile(s)
    PROVE  VersionsSound'
<1>1. /\ putting = Free /\ s.got # 0 /\ putting' = [at |-> "cap", s |-> s]
      /\ DOMAIN files' = DOMAIN files \cup {s.stamp}
      /\ files'[s.stamp] = s.got /\ \A t \in DOMAIN files \ {s.stamp} : files'[t] = files[t]
      /\ index' = Append(index, Version(s)) /\ UNCHANGED <<sessions, disk, backupUp>>
  BY DEF PutFile
<1>2. putting.at = "free"
  BY <1>1 DEF Free
<1>3. \A t \in sessions : putting # [at |-> "cap", s |-> t]
  BY <1>2
<1>4. backupUp /\ index = disk.versions
  BY <1>3 DEF VersionsSound, FreeInv, StampInv, CapInv
<1>5. \A i \in DOMAIN index : index[i].id # s.stamp
  BY <1>3 DEF VersionsSound, StampInv
<1>6. Version(s) \in [id : Nat, cfg : Nat] /\ Version(s).id = s.stamp
  BY DEF Version, SessionTypes
<1>7. /\ Len(index') = Len(index) + 1 /\ index'[Len(index')] = Version(s) /\ Len(index) \in Nat
      /\ DOMAIN index' = DOMAIN index \cup {Len(index')} /\ \A i \in DOMAIN index : index'[i] = index[i]
  BY <1>1, <1>6 DEF IndexTypes
<1>8. DistinctIds(index)' /\ DistinctIds(disk.versions)'
  BY <1>1, <1>5, <1>6, <1>7 DEF VersionsSound, DistinctIds
<1>9. StampInv'
  <2>1. \A t \in sessions \ {s} : t.stamp # s.stamp /\ \A i \in DOMAIN index : index[i].id # t.stamp
    BY <1>3 DEF VersionsSound, StampInv
  <2>2. \A t \in sessions : putting' = [at |-> "cap", s |-> t] \/ \A i \in DOMAIN index' : index'[i].id # t.stamp
    BY <1>1, <1>6, <1>7, <2>1
  <2> QED BY <1>1, <2>2 DEF VersionsSound, StampInv
<1>10. CapInv(s)'
  <2>1. index' # <<>>
    BY <1>7
  <2> QED BY <1>1, <1>4, <1>7, <2>1 DEF CapInv
<1>11. Readable'
  <2>1. disk.versions # <<>> => Len(disk.versions) \in DOMAIN index
    BY <1>4 DEF IndexTypes
  <2> QED BY <1>1, <1>4, <1>5, <2>1 DEF VersionsSound, Readable
<1> QED BY <1>1, <1>8, <1>9, <1>10, <1>11 DEF VersionsSound

LEMMA PutCapKeepsVersions ==
    ASSUME IndexTypes, VersionsSound, PutCap
    PROVE  VersionsSound'
<1>1. /\ putting.at = "cap" /\ Len(index) > Keep /\ index' = Tail(index)
      /\ DOMAIN files' = DOMAIN files \ {index[1].id} /\ \A t \in DOMAIN files' : files'[t] = files[t]
      /\ UNCHANGED <<sessions, putting, disk, backupUp>>
  BY DEF PutCap, Dropped
<1>2. ~FreeInv
  BY <1>1 DEF FreeInv, Free
<1>3. PICK s \in sessions : CapInv(s)
  BY <1>2 DEF VersionsSound
<1>4. index = Append(disk.versions, Version(s)) /\ Len(index) \in Nat /\ Len(index) > 2
  <2>1. Len(index) \in Nat /\ Keep \in Nat /\ Keep > 1
    BY BackupBounds DEF IndexTypes
  <2>2. index = Append(disk.versions, Version(s))
    BY <1>1, <1>3 DEF CapInv
  <2> QED BY <1>1, <2>1, <2>2
<1>5. /\ Len(disk.versions) = Len(index) - 1 /\ disk.versions[1] = index[1]
      /\ disk.versions[Len(disk.versions)] = index[Len(index) - 1] /\ DOMAIN index = 1 .. Len(index)
  BY <1>4 DEF IndexTypes
<1>6. /\ Len(index') = Len(index) - 1 /\ DOMAIN index' = 1 .. (Len(index) - 1)
      /\ \A i \in DOMAIN index' : index'[i] = index[i + 1] /\ i + 1 \in DOMAIN index
  <2>0. Len(index) > 2
    BY <1>4
  <2>1. index \in Seq([id : Nat, cfg : Nat]) /\ index # <<>>
    BY <2>0 DEF IndexTypes
  <2>2. Len(Tail(index)) = Len(index) - 1 /\ Tail(index) \in Seq([id : Nat, cfg : Nat])
    BY <2>1
  <2>3. DOMAIN Tail(index) = 1 .. (Len(index) - 1)
    BY <2>2
  <2>4. \A i \in 1 .. (Len(index) - 1) : Tail(index)[i] = index[i + 1] /\ i + 1 \in 1 .. Len(index)
    BY <1>4, <2>1, SMTT(20)
  <2> QED BY <1>1, <1>5, <2>2, <2>3, <2>4
<1>7. DistinctIds(index)' /\ DistinctIds(disk.versions)'
  BY <1>1, <1>6 DEF VersionsSound, DistinctIds
<1>8. StampInv'
  BY <1>1, <1>6 DEF VersionsSound, StampInv
<1>9. index[Len(index)].id # index[1].id /\ index[Len(index) - 1].id # index[1].id
  BY <1>4, <1>5 DEF VersionsSound, DistinctIds
<1>10. Readable'
  BY <1>1, <1>4, <1>5, <1>9 DEF VersionsSound, Readable
<1>11. CapInv(s)'
  <2>1. index'[Len(index')] = index[Len(index)] /\ index' # <<>>
    BY <1>4, <1>6
  <2>2. index[Len(index)].id = s.stamp
    BY <1>3 DEF CapInv, Version
  <2>3. s.stamp \in DOMAIN files' /\ files'[s.stamp] = s.got
    BY <1>1, <1>3, <1>9, <2>2 DEF CapInv
  <2>4. ~(Len(index') > Keep)
    <3>1. Len(index') = Len(disk.versions)
      BY <1>5, <1>6
    <3>2. Len(disk.versions) <= Keep /\ Len(disk.versions) \in Nat
      BY DEF VersionsSound, IndexTypes
    <3> QED BY <3>1, <3>2, BackupBounds
  <2> QED BY <1>1, <1>3, <2>1, <2>3, <2>4 DEF CapInv
<1> QED BY <1>1, <1>7, <1>8, <1>10, <1>11 DEF VersionsSound

LEMMA PutIndexKeepsVersions ==
    ASSUME VersionsSound, PutIndex
    PROVE  VersionsSound'
<1>1. /\ putting.at = "cap" /\ disk'.versions = index /\ sessions' = sessions \ {putting.s} /\ putting' = Free
      /\ UNCHANGED <<index, files, backupUp>>
  BY DEF PutIndex, Ends
<1>2. ~FreeInv
  BY <1>1 DEF FreeInv, Free
<1>3. PICK s \in sessions : CapInv(s)
  BY <1>2 DEF VersionsSound
<1>4. /\ putting.s = s /\ putting = [at |-> "cap", s |-> s]
      /\ index[Len(index)].id = s.stamp /\ index[Len(index)].cfg = s.got
      /\ s.stamp \in DOMAIN files /\ files[s.stamp] = s.got
  BY <1>3 DEF CapInv, Version
<1>5. \A t \in sessions' : putting # [at |-> "cap", s |-> t] /\ t \in sessions
  BY <1>1, <1>4
<1>6. StampInv'
  BY <1>1, <1>5 DEF VersionsSound, StampInv
<1>7. Len(disk'.versions) <= Keep
  BY <1>1 DEF PutIndex
<1>8. DistinctIds(index)' /\ DistinctIds(disk.versions)'
  BY <1>1 DEF VersionsSound, DistinctIds
<1>9. FreeInv' /\ Readable'
  BY <1>1, <1>4 DEF FreeInv, Readable
<1> QED BY <1>6, <1>7, <1>8, <1>9 DEF VersionsSound

LEMMA RestartKeepsVersions ==
    ASSUME VersionsSound, ForgetBackups \/ BackupCrash \/ OpenBackups
    PROVE  VersionsSound'
<1>1. CASE ForgetBackups
  <2>1. /\ putting' = Free /\ index' = <<>> /\ disk'.versions = <<>> /\ UNCHANGED <<sessions, backupUp>>
    BY <1>1 DEF ForgetBackups, NoIndex
  <2>2. Len(disk'.versions) <= Keep
    BY <2>1, BackupBounds
  <2> QED BY <2>1, <2>2 DEF VersionsSound, DistinctIds, FreeInv, Readable, StampInv
<1>2. CASE BackupCrash
  <2>1. /\ putting' = Free /\ index' = <<>> /\ UNCHANGED <<disk, files>> /\ sessions' = {} /\ ~backupUp'
    BY <1>2 DEF BackupCrash
  <2> QED BY <2>1 DEF VersionsSound, DistinctIds, FreeInv, Readable, StampInv
<1>3. CASE OpenBackups
  <2>1. ~backupUp /\ index' = disk.versions /\ UNCHANGED <<sessions, putting, disk, files>>
    BY <1>3 DEF OpenBackups
  <2>2. sessions = {}
    BY <2>1 DEF VersionsSound, StampInv
  <2> QED BY <2>1, <2>2 DEF VersionsSound, DistinctIds, FreeInv, Readable, StampInv
<1> QED BY <1>1, <1>2, <1>3

\* Whatever the number of sessions and of kept versions, and wherever a crash falls
\* between the steps of Put, the newest version index.json names can be read back
\* (store.go, Put, Fail, loadLocked).
THEOREM NewestBackupReadable == BackupSpec => []LatestReadable
<1>1. BackupInit => VersionInv
  <2> SUFFICES ASSUME BackupInit PROVE VersionInv
    OBVIOUS
  <2>1. SessionTypes /\ IndexTypes
    BY BackupBounds DEF BackupInit, SessionTypes, IndexTypes, NoIndex
  <2>2. VersionsSound
    <3>1. Len(disk.versions) <= Keep
      BY BackupBounds DEF BackupInit, NoIndex
    <3> QED BY <3>1 DEF BackupInit, NoIndex, VersionsSound, DistinctIds, StampInv, FreeInv, Readable
  <2> QED BY <2>1, <2>2 DEF VersionInv
<1>2. ASSUME VersionInv, [BackupNext]_backupVars
      PROVE  VersionInv'
  <2>1. SessionTypes' /\ IndexTypes' /\ SessionTypes /\ IndexTypes
    BY <1>2, SessionStep, IndexStep DEF VersionInv
  <2>2. SUFFICES ASSUME ~shared' PROVE VersionsSound'
    BY <2>1 DEF VersionInv
  <2>3. shared => shared'
    BY <1>2 DEF BackupNext, FirstNext, Due, BackupNow, Begins, Trigger, FetchConfig, FetchFails, PutSame, PutFile, PutCap,
                PutIndex, ForgetBackups, BackupCrash, OpenBackups, TimePasses, Reconfigured, backupVars
  <2>4. VersionsSound
    BY <1>2, <2>2, <2>3 DEF VersionInv
  <2>5. CASE UNCHANGED <<sessions, putting, index, disk, files, backupUp>>
    <3>1. FreeInv => FreeInv'
      BY <2>5 DEF FreeInv
    <3>2. \A s \in sessions : CapInv(s) => CapInv(s)'
      BY <2>5 DEF CapInv
    <3>3. Len(disk'.versions) <= Keep
      BY <2>4, <2>5 DEF VersionsSound
    <3> QED BY <2>4, <2>5, <3>1, <3>2, <3>3 DEF VersionsSound, DistinctIds, StampInv, Readable
  <2>6. Due => Begins("schedule") /\ backupUp /\ UNCHANGED <<putting, index, disk, files, backupUp>>
    BY DEF Due
  <2>7. BackupNow => Begins("user") /\ backupUp /\ UNCHANGED <<putting, index, disk, files, backupUp>>
    BY DEF BackupNow
  <2>8. CASE Due \/ BackupNow
    BY <2>1, <2>2, <2>4, <2>6, <2>7, <2>8, BeginsKeepsVersions
  <2>9. CASE \E s \in sessions : FetchConfig(s) \/ FetchFails(s) \/ PutSame(s) \/ PutFile(s)
    BY <2>1, <2>4, <2>9, FetchKeepsVersions, NotPutKeepsVersions, PutFileKeepsVersions
  <2>10. CASE PutCap \/ PutIndex \/ ForgetBackups \/ BackupCrash \/ OpenBackups
    BY <2>1, <2>4, <2>10, PutCapKeepsVersions, PutIndexKeepsVersions, RestartKeepsVersions
  <2>11. (\E t \in 0 .. MaxTime + Every : FirstNext(t)) \/ Trigger \/ TimePasses \/ Reconfigured \/ UNCHANGED backupVars
           => UNCHANGED <<sessions, putting, index, disk, files, backupUp>>
    BY DEF FirstNext, Trigger, TimePasses, Reconfigured, backupVars
  <2> QED BY <1>2, <2>5, <2>8, <2>9, <2>10, <2>11 DEF BackupNext
<1>3. VersionInv => LatestReadable
  BY DEF VersionInv, VersionsSound, Readable, LatestReadable, Last
<1> QED BY <1>1, <1>2, <1>3, PTL DEF BackupSpec

-----------------------------------------------------------------------------
(* The inventory under its licence.                                        *)

\* Every bounded set of numbers that is not empty has a greatest one.
LEMMA GreatestExists ==
    ASSUME NEW n \in Nat, NEW S, S \subseteq 1 .. n, S # {}
    PROVE  \E m \in S : \A x \in S : x <= m
<1> DEFINE T == {k \in Nat : \E x \in S : k = n - x}
<1> DEFINE R == OpToRel(<, Nat)
<1>1. T \subseteq Nat /\ T # {}
  <2>1. PICK x \in S : TRUE
    OBVIOUS
  <2>2. n - x \in Nat
    OBVIOUS
  <2>3. n - x \in T
    BY <2>2
  <2> QED BY <2>3
<1>2. IsWellFoundedOn(R, Nat)
  BY NatLessThanWellFounded
<1>3. \A x, y \in Nat : <<x, y>> \in R <=> x < y
  BY DEF OpToRel
<1> HIDE DEF R
<1>4. PICK k \in T : \A y \in T : ~(<<y, k>> \in R)
  <2> HIDE DEF T
  <2> QED BY <1>1, <1>2, WFMin
<1>5. PICK m \in S : k = n - m
  BY <1>4
<1>6. \A x \in S : x <= m
  <2> SUFFICES ASSUME NEW x \in S, ~(x <= m) PROVE FALSE
    OBVIOUS
  <2>1. n - x \in Nat /\ k \in Nat /\ n - x < k
    BY <1>5
  <2>2. n - x \in T
    BY <2>1
  <2> QED BY <1>3, <1>4, <2>1, <2>2
<1> QED BY <1>6

LEMMA SubsetIsNoLarger ==
    ASSUME NEW S, IsFiniteSet(S), NEW T, T \subseteq S
    PROVE  IsFiniteSet(T) /\ Cardinality(T) \in Nat /\ Cardinality(S) \in Nat /\ Cardinality(T) <= Cardinality(S)
BY FS_Subset, FS_CardinalityType

LEMMA OneMoreAtMost ==
    ASSUME NEW S, IsFiniteSet(S), NEW x, NEW T, T \subseteq S \cup {x}
    PROVE  IsFiniteSet(T) /\ Cardinality(T) \in Nat /\ Cardinality(S) \in Nat /\ Cardinality(T) <= Cardinality(S) + 1
<1>1. IsFiniteSet(S \cup {x}) /\ Cardinality(S \cup {x}) <= Cardinality(S) + 1 /\ Cardinality(S) \in Nat
  BY FS_AddElement, FS_CardinalityType
<1>2. IsFiniteSet(T) /\ Cardinality(T) \in Nat /\ Cardinality(S \cup {x}) \in Nat /\ Cardinality(T) <= Cardinality(S \cup {x})
  BY <1>1, SubsetIsNoLarger
<1> QED BY <1>1, <1>2

\* ApplyCap keeps no more devices than the licence allows: the youngest that keeps
\* its slot has fewer than n older ones, and the others that keep theirs are older.
LEMMA WantedWithinCap ==
    ASSUME NEW n \in Nat, NEW k \in Nat, NEW devs, DOMAIN devs \subseteq 1 .. k
    PROVE  Cardinality({d \in DOMAIN devs : Want(devs, n, d)}) <= n
<1> DEFINE W == {d \in DOMAIN devs : Want(devs, n, d)}
<1>1. IsFiniteSet(DOMAIN devs)
  <2>1. IsFiniteSet(1 .. k)
    BY FS_Interval
  <2> QED BY <2>1, SubsetIsNoLarger
<1>2. CASE W = {}
  BY <1>2, FS_EmptySet
<1>3. CASE W # {}
  <2>1. W \subseteq 1 .. k
    OBVIOUS
  <2>2. PICK m \in W : \A x \in W : x <= m
    <3> HIDE DEF W
    <3> QED BY <1>3, <2>1, GreatestExists
  <2>3. Cardinality(Older(devs, m)) < n
    BY <2>2 DEF Want
  <2>4. IsFiniteSet(Older(devs, m)) /\ Cardinality(Older(devs, m)) \in Nat
    <3>1. Older(devs, m) \subseteq DOMAIN devs
      BY DEF Older
    <3> QED BY <1>1, <3>1, SubsetIsNoLarger
  <2>5. W \subseteq Older(devs, m) \cup {m}
    <3> SUFFICES ASSUME NEW x \in W, x # m PROVE x \in Older(devs, m)
      OBVIOUS
    <3>1. x \in Nat /\ m \in Nat /\ x <= m
      BY <2>1, <2>2
    <3>2. x < m
      BY <3>1
    <3>3. x \in DOMAIN devs /\ devs[x].note # "Disabled"
      BY DEF Want
    <3> QED BY <3>2, <3>3 DEF Older
  <2> HIDE DEF W
  <2>6. Cardinality(W) \in Nat /\ Cardinality(W) <= Cardinality(Older(devs, m)) + 1
    BY <2>4, <2>5, OneMoreAtMost
  <2> QED BY <2>3, <2>4, <2>6 DEF W
<1> QED BY <1>2, <1>3

BoxTypes ==
    /\ made \in Nat /\ cap \in Nat /\ FreeCap <= cap /\ sites \subseteq Place
    /\ DOMAIN box \subseteq 1 .. made /\ box \in [DOMAIN box -> Box]

\* What a task carries, n being the number of devices made so far.
TaskOK(t, n) ==
    /\ t.at \in {"register", "count"} => t.ip \in IP /\ t.site \in Place
    /\ t.at \in {"put", "ping"} => t.box \in Box
    /\ t.at = "ping" => t.id \in 1 .. n
    /\ t.at = "site" => t.site \in Place
    /\ t.at \in {"apply", "applying"} => t.caps \in Nat
    /\ t.at = "applying" => DOMAIN t.devs \subseteq 1 .. n

InventoryTypes == BoxTypes /\ DOMAIN task = Worker /\ \A w \in Worker : TaskOK(task[w], made)

\* What a task read before still holds, as nothing else is in flight.
TaskSound(t) ==
    /\ t.at \in {"register", "count"} => t.site \in sites
    /\ t.at = "count" => ~HasIP(t.ip)
    /\ t.at = "put" => ~HasIP(t.box.ip) /\ t.box.site \in sites /\ (t.box.monitored => Cardinality(Monitored) < cap)
    /\ t.at = "ping" => /\ t.id \in DOMAIN box /\ box[t.id].ip = t.box.ip /\ box[t.id].site = t.box.site
                        /\ box[t.id].monitored = t.box.monitored
    /\ t.at = "enable" => (t.room => Cardinality(Monitored) < cap)
    /\ t.at = "unsite" => \A d \in DOMAIN box : box[d].site # t.site
    /\ t.at \in {"apply", "applying"} => t.caps <= cap
    /\ t.at = "applying" =>
          /\ DOMAIN t.devs = DOMAIN box
          /\ \A d \in DOMAIN box : IF d \in t.left THEN box[d].monitored = t.devs[d].monitored
                                 ELSE box[d].monitored <=> Want(t.devs, t.caps, d)

WithinCap == Cardinality(Monitored) <= cap
NoTwins == \A d, e \in DOMAIN box : box[d].ip = box[e].ip => d = e
Placed == \A d \in DOMAIN box : box[d].site \in sites

SoundHere(w) ==
    /\ "limit" \notin raced => WithinCap \/ task[w].at \in {"apply", "applying"}
    /\ "map" \notin raced => NoTwins /\ Placed

\* Something of raced is out: since the last start nothing else was in flight.
Quiet == "limit" \notin raced \/ "map" \notin raced

Single == \A v, w \in Worker : task[v] # Idle /\ task[w] # Idle => v = w

InventoryInv == InventoryTypes /\ (Quiet => Single /\ \A w \in Worker : TaskSound(task[w])) /\ SoundUnlessRaced

LEMMA InventoryBounds == FreeCap \in Nat /\ PaidCap \in Nat /\ FreeCap <= PaidCap
BY InventoryAssumption

LEMMA StepSets ==
    ASSUME DOMAIN task = Worker, NEW w \in Worker, NEW t, Step(w, t)
    PROVE  task'[w] = t /\ DOMAIN task' = Worker /\ \A v \in Worker \ {w} : task'[v] = task[v]
BY DEF Step

LEMMA MonitoredFinite ==
    ASSUME BoxTypes
    PROVE  IsFiniteSet(Monitored) /\ Cardinality(Monitored) \in Nat
<1>1. IsFiniteSet(1 .. made)
  <2>1. made \in Int
    BY DEF BoxTypes
  <2> QED BY <2>1, FS_Interval
<1>2. Monitored \subseteq 1 .. made
  BY DEF BoxTypes, Monitored
<1> QED BY <1>1, <1>2, SubsetIsNoLarger

\* A task that is told from the others by its own type.
LEMMA TaskTypesKept ==
    ASSUME InventoryTypes, NEW w \in Worker, BoxTypes', made <= made',
           DOMAIN task' = Worker, \A v \in Worker \ {w} : task'[v] = task[v], TaskOK(task'[w], made')
    PROVE  InventoryTypes'
<1>1. ASSUME NEW v \in Worker \ {w}
      PROVE  TaskOK(task'[v], made')
  <2>1. TaskOK(task[v], made) /\ task'[v] = task[v] /\ made \in Nat /\ made' \in Nat
    BY DEF InventoryTypes, BoxTypes
  <2> QED BY <2>1 DEF TaskOK
<1> QED BY <1>1 DEF InventoryTypes

LEMMA IdleSound == TaskSound(Idle) /\ \A n : TaskOK(Idle, n)
BY DEF TaskSound, TaskOK, Idle

\* Alone in flight, a task answers for the whole.
LEMMA AloneHere ==
    ASSUME NEW w \in Worker
    PROVE  /\ Alone(w) => (SoundUnlessRaced <=> SoundHere(w))
           /\ Alone(w)' => (SoundUnlessRaced <=> SoundHere(w))'
<1>1. Alone(w) => ((\E v \in Worker : task[v].at \in {"apply", "applying"}) <=> task[w].at \in {"apply", "applying"})
  BY DEF Alone, Idle
<1>2. Alone(w)' => ((\E v \in Worker : task[v].at \in {"apply", "applying"}) <=> task[w].at \in {"apply", "applying"})'
  BY DEF Alone, Idle
<1> QED BY <1>1, <1>2 DEF SoundUnlessRaced, SoundHere, WithinCap, NoTwins, Placed

LEMMA AloneSuffices ==
    ASSUME NEW w \in Worker, Alone(w)', TaskSound(task[w])'
    PROVE  (Single /\ \A v \in Worker : TaskSound(task[v]))'
<1>1. TaskSound(Idle)'
  BY DEF TaskSound, Idle
<1> QED BY <1>1 DEF Alone, Single

\* What an update of a device's fields gives.
LEMMA BoxUpdate ==
    ASSUME BoxTypes, NEW d \in DOMAIN box, NEW m \in BOOLEAN, NEW n \in Note,
           box' = [box EXCEPT ![d].monitored = m, ![d].note = n]
    PROVE  /\ DOMAIN box' = DOMAIN box /\ box' \in [DOMAIN box' -> Box]
           /\ box'[d].monitored = m /\ box'[d].ip = box[d].ip /\ box'[d].site = box[d].site
           /\ \A x \in DOMAIN box \ {d} : box'[x] = box[x]
<1> DEFINE b == [[box[d] EXCEPT !.monitored = m] EXCEPT !.note = n]
<1>1. box[d] \in Box /\ box \in [DOMAIN box -> Box]
  BY DEF BoxTypes
<1>2. b \in Box /\ b.monitored = m /\ b.ip = box[d].ip /\ b.site = box[d].site
  BY <1>1 DEF Box
<1>3. box' = [box EXCEPT ![d] = b]
  BY <1>1
<1> HIDE DEF b
<1> QED BY <1>1, <1>2, <1>3

LEMMA NoteUpdate ==
    ASSUME BoxTypes, NEW d \in DOMAIN box, NEW n \in Note, box' = [box EXCEPT ![d].note = n]
    PROVE  /\ DOMAIN box' = DOMAIN box /\ box' \in [DOMAIN box' -> Box]
           /\ \A x \in DOMAIN box : box'[x].monitored = box[x].monitored /\ box'[x].ip = box[x].ip /\ box'[x].site = box[x].site
<1> DEFINE b == [box[d] EXCEPT !.note = n]
<1>1. box[d] \in Box /\ box \in [DOMAIN box -> Box]
  BY DEF BoxTypes
<1>2. b \in Box /\ b.monitored = box[d].monitored /\ b.ip = box[d].ip /\ b.site = box[d].site
  BY <1>1 DEF Box
<1>3. box' = [box EXCEPT ![d] = b]
  BY <1>1
<1> HIDE DEF b
<1> QED BY <1>1, <1>2, <1>3

LEMMA SiteUpdate ==
    ASSUME BoxTypes, NEW d \in DOMAIN box, NEW s \in Place, box' = [box EXCEPT ![d].site = s]
    PROVE  /\ DOMAIN box' = DOMAIN box /\ box' \in [DOMAIN box' -> Box]
           /\ \A x \in DOMAIN box : box'[x].monitored = box[x].monitored /\ box'[x].ip = box[x].ip
           /\ box'[d].site = s /\ \A x \in DOMAIN box \ {d} : box'[x].site = box[x].site
<1> DEFINE b == [box[d] EXCEPT !.site = s]
<1>1. box[d] \in Box /\ box \in [DOMAIN box -> Box]
  BY DEF BoxTypes
<1>2. b \in Box /\ b.monitored = box[d].monitored /\ b.ip = box[d].ip /\ b.site = s
  BY <1>1 DEF Box
<1>3. box' = [box EXCEPT ![d] = b]
  BY <1>1
<1> HIDE DEF b
<1> QED BY <1>1, <1>2, <1>3

\* A registration, step by step.
LEMMA RegisterTypes ==
    ASSUME InventoryTypes, NEW w \in Worker, Register(w) \/ RegisterCount(w)
    PROVE  InventoryTypes'
<1>0. UNCHANGED <<box, made, cap, sites>> /\ BoxTypes /\ TaskOK(task[w], made)
  BY DEF Register, RegisterCount, InventoryTypes
<1>1. BoxTypes' /\ made <= made' /\ TaskOK(task[w], made)
  BY <1>0 DEF BoxTypes
<1>2. PICK t : Step(w, t) /\ TaskOK(t, made)
  <2>1. CASE Register(w)
    <3>1. At(w, "register") /\ task[w].ip \in IP /\ task[w].site \in Place
      BY <1>1, <2>1 DEF Register, At, TaskOK
    <3>2. TaskOK([at |-> "count", ip |-> task[w].ip, site |-> task[w].site, ping |-> task[w].ping], made)
      BY <3>1 DEF TaskOK
    <3> QED BY <2>1, <3>2, IdleSound DEF Register
  <2>2. CASE RegisterCount(w)
    <3> DEFINE room == Cardinality(Monitored) < cap
    <3> DEFINE b == [ip |-> task[w].ip, site |-> task[w].site, ping |-> FALSE,
                     monitored |-> room, note |-> IF room THEN "" ELSE "licence"]
    <3>1. task[w].ip \in IP /\ task[w].site \in Place
      BY <1>1, <2>2 DEF RegisterCount, At, TaskOK
    <3>2. room \in BOOLEAN /\ (IF room THEN "" ELSE "licence") \in Note
      BY DEF Note
    <3>3. b \in Box
      <4> HIDE DEF room
      <4> QED BY <3>1, <3>2 DEF Box
    <3>4. Step(w, [at |-> "put", ping |-> task[w].ping, box |-> b])
      BY <2>2 DEF RegisterCount
    <3> HIDE DEF b
    <3>5. TaskOK([at |-> "put", ping |-> task[w].ping, box |-> b], made)
      BY <3>3 DEF TaskOK
    <3> QED BY <3>4, <3>5
  <2> QED BY <2>1, <2>2
<1>3. made' = made /\ DOMAIN task = Worker
  BY DEF Register, RegisterCount, InventoryTypes
<1> QED BY <1>1, <1>2, <1>3, StepSets, TaskTypesKept

LEMMA PutTypes ==
    ASSUME InventoryTypes, NEW w \in Worker, RegisterPut(w) \/ RegisterPingOnly(w)
    PROVE  InventoryTypes'
<1>0. BoxTypes /\ TaskOK(task[w], made) /\ DOMAIN task = Worker /\ made \in Nat
  BY DEF InventoryTypes, BoxTypes
<1>1. CASE RegisterPut(w)
  <2>1. /\ task[w].box \in Box /\ made' = made + 1 /\ Put(made + 1, task[w].box) /\ UNCHANGED <<cap, sites>>
        /\ Step(w, IF task[w].ping THEN [at |-> "ping", id |-> made + 1, box |-> [task[w].box EXCEPT !.ping = TRUE]]
                   ELSE Idle)
    BY <1>0, <1>1 DEF RegisterPut, At, TaskOK
  <2>2. DOMAIN box' \subseteq 1 .. made' /\ box' \in [DOMAIN box' -> Box]
    BY <1>0, <2>1 DEF Put, BoxTypes
  <2>3. BoxTypes' /\ made <= made'
    BY <1>0, <2>1, <2>2 DEF BoxTypes
  <2>4. [task[w].box EXCEPT !.ping = TRUE] \in Box
    BY <2>1 DEF Box
  <2>5. TaskOK([at |-> "ping", id |-> made + 1, box |-> [task[w].box EXCEPT !.ping = TRUE]], made')
    BY <1>0, <2>1, <2>4 DEF TaskOK
  <2>6. PICK t : Step(w, t) /\ TaskOK(t, made')
    BY <2>1, <2>5, IdleSound
  <2> QED BY <1>0, <2>3, <2>6, StepSets, TaskTypesKept
<1>2. CASE RegisterPingOnly(w)
  <2>1. /\ task[w].box \in Box /\ task[w].id \in 1 .. made /\ Put(task[w].id, task[w].box)
        /\ UNCHANGED <<cap, sites, made>> /\ Step(w, Idle)
    BY <1>0, <1>2 DEF RegisterPingOnly, At, TaskOK
  <2>2. DOMAIN box' \subseteq 1 .. made' /\ box' \in [DOMAIN box' -> Box]
    BY <1>0, <2>1 DEF Put, BoxTypes
  <2>3. BoxTypes' /\ made <= made'
    BY <1>0, <2>1, <2>2 DEF BoxTypes
  <2> QED BY <1>0, <2>1, <2>3, IdleSound, StepSets, TaskTypesKept
<1> QED BY <1>1, <1>2

LEMMA EditTypes ==
    ASSUME InventoryTypes, NEW w \in Worker, Enable(w) \/ \E d \in 1 .. made : Edit(w, d) \/ DeleteDevice(w, d)
    PROVE  InventoryTypes'
<1>0. BoxTypes /\ DOMAIN task = Worker /\ made \in Nat
  BY DEF InventoryTypes, BoxTypes
<1>1. UNCHANGED <<made, cap, sites>> /\ (Step(w, Idle) \/ task' = task)
  BY DEF Enable, Edit, DeleteDevice
<1>2. DOMAIN box' \subseteq DOMAIN box /\ box' \in [DOMAIN box' -> Box]
  <2>1. CASE Enable(w)
    <3>1. CASE box' = box
      BY <1>0, <3>1 DEF BoxTypes
    <3>2. CASE task[w].id \in DOMAIN box /\ box' = [box EXCEPT ![task[w].id].monitored = TRUE, ![task[w].id].note = ""]
      <4>1. "" \in Note /\ TRUE \in BOOLEAN
        BY DEF Note
      <4> QED BY <1>0, <3>2, <4>1, BoxUpdate
    <3> QED BY <2>1, <3>1, <3>2 DEF Enable
  <2>2. ASSUME NEW d \in 1 .. made, Edit(w, d)
        PROVE  DOMAIN box' \subseteq DOMAIN box /\ box' \in [DOMAIN box' -> Box]
    <3>1. d \in DOMAIN box /\ {"Disabled", "own"} \subseteq Note /\ FALSE \in BOOLEAN /\ sites \subseteq Place
      BY <1>0, <2>2 DEF Edit, Note, BoxTypes
    <3>2. CASE box' = [box EXCEPT ![d].monitored = FALSE, ![d].note = "Disabled"]
      BY <1>0, <3>1, <3>2, BoxUpdate
    <3>3. CASE box' = [box EXCEPT ![d].note = "own"]
      BY <1>0, <3>1, <3>3, NoteUpdate
    <3>4. CASE \E s \in sites : box' = [box EXCEPT ![d].site = s]
      BY <1>0, <3>1, <3>4, SiteUpdate
    <3> QED BY <2>2, <3>2, <3>3, <3>4 DEF Edit
  <2>3. ASSUME NEW d \in 1 .. made, DeleteDevice(w, d)
        PROVE  DOMAIN box' \subseteq DOMAIN box /\ box' \in [DOMAIN box' -> Box]
    BY <1>0, <2>3 DEF DeleteDevice, BoxTypes
  <2> QED BY <2>1, <2>2, <2>3
<1>3. BoxTypes' /\ made <= made'
  BY <1>0, <1>1, <1>2 DEF BoxTypes
<1>4. CASE Step(w, Idle)
  BY <1>0, <1>1, <1>3, <1>4, IdleSound, StepSets, TaskTypesKept
<1>5. CASE task' = task
  BY <1>1, <1>3, <1>5 DEF InventoryTypes
<1> QED BY <1>1, <1>4, <1>5

\* The steps that begin a task or end one, and leave the devices alone.
LEMMA OtherTypes ==
    ASSUME InventoryTypes, NEW w \in Worker,
           \/ \E ip \in IP, s \in Place, ping \in BOOLEAN : Probe(w, ip, s, ping)
           \/ \E d \in 1 .. made : EnableCount(w, d)
           \/ \E s \in Place : PutSiteCheck(w, s) \/ DeleteSiteCheck(w, s)
           \/ PutSite(w) \/ DeleteSite(w) \/ ApplyCapRead(w) \/ ApplyCapEnd(w)
           \/ \E key \in LicenceKey : SetLicense(w, key)
    PROVE  InventoryTypes'
<1>0. BoxTypes /\ TaskOK(task[w], made) /\ DOMAIN task = Worker /\ made \in Nat
  BY DEF InventoryTypes, BoxTypes
<1>1. UNCHANGED <<box, made>>
  BY DEF Probe, EnableCount, PutSiteCheck, DeleteSiteCheck, PutSite, DeleteSite, ApplyCapRead, ApplyCapEnd, SetLicense
<1>2. PICK t : Step(w, t) /\ TaskOK(t, made)
  <2>1. ASSUME NEW ip \in IP, NEW s \in Place, NEW ping \in BOOLEAN, Probe(w, ip, s, ping)
        PROVE  \E t : Step(w, t) /\ TaskOK(t, made)
    BY <2>1 DEF Probe, TaskOK
  <2>2. ASSUME NEW d \in 1 .. made, EnableCount(w, d)
        PROVE  \E t : Step(w, t) /\ TaskOK(t, made)
    <3>1. TaskOK([at |-> "enable", id |-> d, room |-> Cardinality(Monitored) < cap], made)
      BY DEF TaskOK
    <3> QED BY <2>2, <3>1 DEF EnableCount
  <2>3. ASSUME NEW s \in Place, PutSiteCheck(w, s) \/ DeleteSiteCheck(w, s)
        PROVE  \E t : Step(w, t) /\ TaskOK(t, made)
    BY <2>3 DEF PutSiteCheck, DeleteSiteCheck, TaskOK
  <2>4. CASE PutSite(w) \/ DeleteSite(w) \/ ApplyCapEnd(w)
    BY <2>4, IdleSound DEF PutSite, DeleteSite, ApplyCapEnd
  <2>5. CASE ApplyCapRead(w)
    <3>1. task[w].caps \in Nat /\ DOMAIN box \subseteq 1 .. made
      BY <1>0, <2>5 DEF ApplyCapRead, At, TaskOK, BoxTypes
    <3> QED BY <2>5, <3>1 DEF ApplyCapRead, TaskOK
  <2>6. ASSUME NEW key \in LicenceKey, SetLicense(w, key)
        PROVE  \E t : Step(w, t) /\ TaskOK(t, made)
    <3>1. CapsFor(key) \in Nat
      BY InventoryBounds DEF CapsFor
    <3> QED BY <2>6, <3>1 DEF SetLicense, TaskOK
  <2> QED BY <2>1, <2>2, <2>3, <2>4, <2>5, <2>6
<1>3. sites' \subseteq Place
  BY <1>0 DEF Probe, EnableCount, PutSiteCheck, DeleteSiteCheck, PutSite, DeleteSite, ApplyCapRead, ApplyCapEnd, SetLicense,
              BoxTypes, TaskOK, At
<1>4. cap' \in Nat /\ FreeCap <= cap'
  <2>1. cap' = cap \/ cap' = FreeCap \/ cap' = PaidCap
    BY DEF Probe, EnableCount, PutSiteCheck, DeleteSiteCheck, PutSite, DeleteSite, ApplyCapRead, ApplyCapEnd, SetLicense, CapsFor
  <2> QED BY <1>0, <2>1, InventoryBounds DEF BoxTypes
<1>5. BoxTypes' /\ made <= made'
  BY <1>0, <1>1, <1>3, <1>4 DEF BoxTypes
<1> QED BY <1>0, <1>1, <1>2, <1>5, StepSets, TaskTypesKept

\* One device's turn in ApplyCap, as the copy has it.
LEMMA ApplyStep ==
    ASSUME InventoryTypes, NEW w \in Worker, ApplyCapNext(w)
    PROVE  \E d \in task[w].left :
              LET want == Want(task[w].devs, task[w].caps, d) IN
              /\ DOMAIN box' = DOMAIN box /\ box' \in [DOMAIN box' -> Box]
              /\ \A x \in DOMAIN box : box'[x].ip = box[x].ip /\ box'[x].site = box[x].site
              /\ \A x \in DOMAIN box \ {d} : box'[x] = box[x]
              /\ d \in DOMAIN box => IF task[w].devs[d].monitored # want THEN box'[d].monitored = want ELSE box'[d] = box[d]
              /\ Step(w, [at |-> "applying", key |-> task[w].key, caps |-> task[w].caps, devs |-> task[w].devs,
                          left |-> task[w].left \ {d}])
<1> DEFINE devs == task[w].devs
<1> DEFINE want(d) == Want(devs, task[w].caps, d)
<1> DEFINE note(d) == IF want(d) THEN "" ELSE IF box[d].note = "Disabled" THEN box[d].note ELSE "licence"
<1>1. PICK d \in task[w].left :
          /\ box' = IF d \in DOMAIN box /\ devs[d].monitored # want(d)
                      THEN [box EXCEPT ![d].monitored = want(d), ![d].note = IF want(d) THEN "" ELSE IF @ = "Disabled" THEN @ ELSE "licence"]
                      ELSE box
          /\ Step(w, [at |-> "applying", key |-> task[w].key, caps |-> task[w].caps, devs |-> task[w].devs,
                      left |-> task[w].left \ {d}])
  BY DEF ApplyCapNext
<1>2. BoxTypes
  BY DEF InventoryTypes
<1>3. CASE d \in DOMAIN box /\ devs[d].monitored # want(d)
  <2>1. want(d) \in BOOLEAN /\ note(d) \in Note
    BY DEF Want, Note
  <2>2. box' = [box EXCEPT ![d].monitored = want(d), ![d].note = note(d)]
    BY <1>1, <1>2, <1>3 DEF BoxTypes, Box
  <2> HIDE DEF want, note
  <2>3. /\ DOMAIN box' = DOMAIN box /\ box' \in [DOMAIN box' -> Box]
        /\ box'[d].monitored = want(d) /\ box'[d].ip = box[d].ip /\ box'[d].site = box[d].site
        /\ \A x \in DOMAIN box \ {d} : box'[x] = box[x]
    BY <1>2, <1>3, <2>1, <2>2, BoxUpdate
  <2> QED BY <1>1, <1>3, <2>3 DEF want
<1>4. CASE ~(d \in DOMAIN box /\ devs[d].monitored # want(d))
  <2>1. box' = box
    BY <1>1, <1>4
  <2>2. box' \in [DOMAIN box' -> Box]
    BY <1>2, <2>1 DEF BoxTypes
  <2> QED BY <1>1, <1>4, <2>1, <2>2
<1> QED BY <1>3, <1>4

LEMMA ApplyTypes ==
    ASSUME InventoryTypes, NEW w \in Worker, ApplyCapNext(w)
    PROVE  InventoryTypes'
<1>0. BoxTypes /\ TaskOK(task[w], made) /\ DOMAIN task = Worker /\ UNCHANGED <<made, cap, sites>> /\ task[w].at = "applying"
  BY DEF InventoryTypes, ApplyCapNext, At
<1>1. PICK d : /\ DOMAIN box' = DOMAIN box /\ box' \in [DOMAIN box' -> Box]
               /\ Step(w, [at |-> "applying", key |-> task[w].key, caps |-> task[w].caps, devs |-> task[w].devs,
                           left |-> task[w].left \ {d}])
  BY ApplyStep
<1>2. BoxTypes' /\ made <= made'
  BY <1>0, <1>1 DEF BoxTypes
<1>3. TaskOK([at |-> "applying", key |-> task[w].key, caps |-> task[w].caps, devs |-> task[w].devs,
                           left |-> task[w].left \ {d}], made')
  BY <1>0 DEF TaskOK
<1> QED BY <1>0, <1>1, <1>2, <1>3, StepSets, TaskTypesKept

\* A step that leaves the store as it was, of a task that applies no licence.
LEMMA SameStore ==
    ASSUME NEW w \in Worker, SoundHere(w), task[w].at \notin {"apply", "applying"}, UNCHANGED <<box, cap, sites, raced>>
    PROVE  SoundHere(w)' /\ Monitored' = Monitored
<1>1. Monitored' = Monitored
  BY DEF Monitored
<1> QED BY <1>1 DEF SoundHere, WithinCap, NoTwins, Placed

\* No more devices are monitored than were.
LEMMA FewerMonitored ==
    ASSUME BoxTypes, Monitored' \subseteq Monitored, cap' = cap, WithinCap
    PROVE  WithinCap'
<1>1. /\ Cardinality(Monitored') \in Nat /\ Cardinality(Monitored) \in Nat /\ Cardinality(Monitored') <= Cardinality(Monitored)
      /\ cap \in Nat
  BY MonitoredFinite, SubsetIsNoLarger DEF BoxTypes
<1>2. Cardinality(Monitored) <= cap
  BY DEF WithinCap
<1>3. Cardinality(Monitored') <= cap'
  BY <1>1, <1>2
<1> QED BY <1>3 DEF WithinCap

\* One more is, and there was room.
LEMMA OneMoreMonitored ==
    ASSUME BoxTypes, NEW d, Monitored' \subseteq Monitored \cup {d}, cap' = cap, Cardinality(Monitored) < cap
    PROVE  WithinCap'
<1>1. /\ Cardinality(Monitored') \in Nat /\ Cardinality(Monitored) \in Nat /\ Cardinality(Monitored') <= Cardinality(Monitored) + 1
      /\ cap \in Nat
  BY MonitoredFinite, OneMoreAtMost DEF BoxTypes
<1>2. Cardinality(Monitored') <= cap'
  BY <1>1
<1> QED BY <1>2 DEF WithinCap

LEMMA IdleNext ==
    ASSUME NEW w \in Worker, task'[w] = Idle
    PROVE  TaskSound(task[w])'
BY DEF TaskSound, Idle

LEMMA ChecksSound ==
    ASSUME InventoryTypes, NEW w \in Worker, SoundHere(w), TaskSound(task[w]), task[w].at \notin {"apply", "applying"},
           raced' = raced,
           \/ \E ip \in IP, s \in Place, ping \in BOOLEAN : Probe(w, ip, s, ping)
           \/ \E d \in 1 .. made : EnableCount(w, d)
           \/ \E s \in Place : PutSiteCheck(w, s) \/ DeleteSiteCheck(w, s)
           \/ Register(w) \/ RegisterCount(w)
    PROVE  TaskSound(task[w])' /\ SoundHere(w)'
<1>0. UNCHANGED <<box, cap, sites>> /\ DOMAIN task = Worker
  BY DEF InventoryTypes, Probe, EnableCount, PutSiteCheck, DeleteSiteCheck, Register, RegisterCount
<1>1. SoundHere(w)' /\ Monitored' = Monitored
  BY <1>0, SameStore
<1>2. ASSUME NEW ip \in IP, NEW s \in Place, NEW ping \in BOOLEAN, Probe(w, ip, s, ping)
      PROVE  TaskSound(task[w])'
  <2>1. task'[w] = [at |-> "register", ip |-> ip, site |-> s, ping |-> ping] /\ s \in sites
    BY <1>0, <1>2, StepSets DEF Probe
  <2> QED BY <1>0, <2>1 DEF TaskSound
<1>3. ASSUME NEW d \in 1 .. made, EnableCount(w, d)
      PROVE  TaskSound(task[w])'
  <2>1. task'[w] = [at |-> "enable", id |-> d, room |-> Cardinality(Monitored) < cap]
    BY <1>0, <1>3, StepSets DEF EnableCount
  <2> DEFINE room == Cardinality(Monitored) < cap
  <2>2. task'[w].at = "enable" /\ task'[w].room = room
    <3> HIDE DEF room
    <3> QED BY <2>1 DEF room
  <2>3. room => Cardinality(Monitored') < cap'
    BY <1>0, <1>1
  <2> HIDE DEF room
  <2> QED BY <2>2, <2>3 DEF TaskSound
<1>4. ASSUME NEW s \in Place, PutSiteCheck(w, s)
      PROVE  TaskSound(task[w])'
  <2>1. task'[w] = [at |-> "site", site |-> s]
    BY <1>0, <1>4, StepSets DEF PutSiteCheck
  <2> QED BY <2>1 DEF TaskSound
<1>5. ASSUME NEW s \in Place, DeleteSiteCheck(w, s)
      PROVE  TaskSound(task[w])'
  <2>1. task'[w] = [at |-> "unsite", site |-> s] /\ \A d \in DOMAIN box : box[d].site # s
    BY <1>0, <1>5, StepSets DEF DeleteSiteCheck
  <2> QED BY <1>0, <2>1 DEF TaskSound
<1>6. CASE Register(w)
  <2>0. task[w].at = "register" /\ task[w].site \in sites
    BY <1>6 DEF Register, At, TaskSound
  <2>1. CASE Step(w, Idle)
    <3>1. task'[w] = Idle
      BY <1>0, <2>1, StepSets
    <3> QED BY <1>1, <3>1, IdleNext
  <2>2. CASE /\ ~HasIP(task[w].ip)
             /\ Step(w, [at |-> "count", ip |-> task[w].ip, site |-> task[w].site, ping |-> task[w].ping])
    <3>1. task'[w] = [at |-> "count", ip |-> task[w].ip, site |-> task[w].site, ping |-> task[w].ping]
      BY <1>0, <2>2, StepSets
    <3>2. task'[w].at = "count" /\ task'[w].site \in sites' /\ ~HasIP(task[w].ip)'
      BY <1>0, <2>0, <2>2, <3>1 DEF HasIP
    <3> QED BY <1>1, <3>2 DEF TaskSound
  <2> QED BY <1>6, <2>1, <2>2 DEF Register
<1>7. CASE RegisterCount(w)
  <2>0. task[w].at = "count" /\ task[w].site \in sites /\ ~HasIP(task[w].ip)
    BY <1>7 DEF RegisterCount, At, TaskSound
  <2> DEFINE room == Cardinality(Monitored) < cap
  <2> DEFINE b == [ip |-> task[w].ip, site |-> task[w].site, ping |-> FALSE,
                   monitored |-> room, note |-> IF room THEN "" ELSE "licence"]
  <2>1. task'[w] = [at |-> "put", ping |-> task[w].ping, box |-> b]
    BY <1>0, <1>7, StepSets DEF RegisterCount
  <2>2. b.ip = task[w].ip /\ b.site = task[w].site /\ b.monitored = room
    OBVIOUS
  <2> HIDE DEF b
  <2>3. task'[w].at = "put" /\ task'[w].box = b
    BY <2>1
  <2>4. ~HasIP(task[w].box.ip)' /\ task'[w].box.site \in sites'
    BY <1>0, <2>0, <2>2, <2>3 DEF HasIP
  <2>5. task'[w].box.monitored => Cardinality(Monitored') < cap'
    BY <1>0, <1>1, <2>2, <2>3
  <2> QED BY <1>1, <2>3, <2>4, <2>5 DEF TaskSound
<1> QED BY <1>1, <1>2, <1>3, <1>4, <1>5, <1>6, <1>7

LEMMA PutsSound ==
    ASSUME InventoryTypes, NEW w \in Worker, SoundHere(w), TaskSound(task[w]), RegisterPut(w) \/ RegisterPingOnly(w)
    PROVE  TaskSound(task[w])' /\ SoundHere(w)'
<1>0. /\ DOMAIN task = Worker /\ UNCHANGED <<cap, sites, raced>> /\ BoxTypes /\ made \in Nat
      /\ TaskOK(task[w], made)
  BY DEF InventoryTypes, BoxTypes, RegisterPut, RegisterPingOnly
<1>1. CASE RegisterPut(w)
  <2> DEFINE b == task[w].box
  <2>1. /\ task[w].at = "put" /\ b \in Box /\ ~HasIP(b.ip) /\ b.site \in sites
        /\ b.monitored => Cardinality(Monitored) < cap
    BY <1>0, <1>1 DEF RegisterPut, At, TaskSound, TaskOK
  <2>2. made + 1 \notin DOMAIN box
    BY <1>0 DEF BoxTypes
  <2>3. /\ DOMAIN box' = DOMAIN box \cup {made + 1} /\ box'[made + 1] = b
        /\ \A x \in DOMAIN box : box'[x] = box[x]
    BY <1>1, <2>2 DEF RegisterPut, Put
  <2>4. NoTwins => NoTwins'
    BY <2>1, <2>3 DEF NoTwins, HasIP
  <2>5. Placed => Placed'
    BY <1>0, <2>1, <2>3 DEF Placed
  <2>6. WithinCap => WithinCap'
    <3>1. CASE b.monitored
      <4>1. Monitored' \subseteq Monitored \cup {made + 1}
        BY <2>3 DEF Monitored
      <4> QED BY <1>0, <2>1, <3>1, <4>1, OneMoreMonitored
    <3>2. CASE ~b.monitored
      <4>1. Monitored' \subseteq Monitored
        BY <2>3, <3>2 DEF Monitored
      <4> QED BY <1>0, <4>1, FewerMonitored
    <3> QED BY <3>1, <3>2
  <2>7. SoundHere(w)'
    BY <1>0, <2>1, <2>4, <2>5, <2>6 DEF SoundHere
  <2>8. CASE Step(w, Idle)
    <3>1. task'[w] = Idle
      BY <1>0, <2>8, StepSets
    <3> QED BY <2>7, <3>1 DEF TaskSound, Idle
  <2>9. CASE Step(w, [at |-> "ping", id |-> made + 1, box |-> [b EXCEPT !.ping = TRUE]])
    <3> DEFINE c == [b EXCEPT !.ping = TRUE]
    <3>1. task'[w] = [at |-> "ping", id |-> made + 1, box |-> c]
      BY <1>0, <2>9, StepSets
    <3>2. c.ip = b.ip /\ c.site = b.site /\ c.monitored = b.monitored
      BY <2>1 DEF Box
    <3> HIDE DEF b, c
    <3>3. /\ task'[w].at = "ping" /\ task'[w].id \in DOMAIN box' /\ box'[task'[w].id].ip = task'[w].box.ip
          /\ box'[task'[w].id].site = task'[w].box.site /\ box'[task'[w].id].monitored = task'[w].box.monitored
      BY <2>3, <3>1, <3>2
    <3> QED BY <2>7, <3>3 DEF TaskSound
  <2> QED BY <1>1, <2>8, <2>9 DEF RegisterPut
<1>2. CASE RegisterPingOnly(w)
  <2>1. /\ task[w].at = "ping" /\ task[w].id \in DOMAIN box /\ box[task[w].id].ip = task[w].box.ip
        /\ box[task[w].id].site = task[w].box.site /\ box[task[w].id].monitored = task[w].box.monitored
    BY <1>2 DEF RegisterPingOnly, At, TaskSound
  <2>2. DOMAIN box' = DOMAIN box /\ \A x \in DOMAIN box : box'[x].ip = box[x].ip /\ box'[x].site = box[x].site /\ box'[x].monitored = box[x].monitored
    BY <1>2, <2>1 DEF RegisterPingOnly, Put
  <2>3. Monitored' = Monitored
    BY <2>2 DEF Monitored
  <2>4. SoundHere(w)'
    BY <1>0, <2>1, <2>2, <2>3 DEF SoundHere, WithinCap, NoTwins, Placed
  <2>5. task'[w] = Idle
    BY <1>0, <1>2, StepSets DEF RegisterPingOnly
  <2> QED BY <2>4, <2>5 DEF TaskSound, Idle
<1> QED BY <1>1, <1>2

LEMMA EditsSound ==
    ASSUME InventoryTypes, NEW w \in Worker, SoundHere(w), TaskSound(task[w]), task[w].at \notin {"apply", "applying"},
           raced' = raced, Enable(w) \/ (task[w] = Idle /\ \E d \in 1 .. made : Edit(w, d) \/ DeleteDevice(w, d))
    PROVE  TaskSound(task[w])' /\ SoundHere(w)'
<1>0. DOMAIN task = Worker /\ UNCHANGED <<cap, sites>> /\ BoxTypes
  BY DEF InventoryTypes, Enable, Edit, DeleteDevice
<1>1. task'[w] = Idle
  BY <1>0, StepSets DEF Enable, Edit, DeleteDevice
<1>2. /\ DOMAIN box' \subseteq DOMAIN box
      /\ \A x \in DOMAIN box' : box'[x].ip = box[x].ip /\ (box'[x].site = box[x].site \/ box'[x].site \in sites)
      /\ WithinCap => WithinCap'
  <2>1. CASE Enable(w)
    <3> DEFINE d == task[w].id
    <3>1. CASE d \in DOMAIN box /\ ~box[d].monitored /\ task[w].room
      <4>1. box' = [box EXCEPT ![d].monitored = TRUE, ![d].note = ""] /\ "" \in Note /\ TRUE \in BOOLEAN
        BY <2>1, <3>1 DEF Enable, Note
      <4>2. /\ DOMAIN box' = DOMAIN box
            /\ box'[d].ip = box[d].ip /\ box'[d].site = box[d].site /\ \A x \in DOMAIN box \ {d} : box'[x] = box[x]
        BY <1>0, <3>1, <4>1, BoxUpdate
      <4>3. Monitored' \subseteq Monitored \cup {d}
        BY <4>2 DEF Monitored
      <4>4. Cardinality(Monitored) < cap
        BY <2>1, <3>1 DEF Enable, At, TaskSound
      <4>5. WithinCap'
        <5> HIDE DEF d
        <5> QED BY <1>0, <4>3, <4>4, OneMoreMonitored
      <4> QED BY <4>2, <4>5
    <3>2. CASE ~(d \in DOMAIN box /\ ~box[d].monitored /\ task[w].room)
      <4>1. box' = box
        BY <2>1, <3>2 DEF Enable
      <4> QED BY <1>0, <4>1 DEF WithinCap, Monitored
    <3> QED BY <3>1, <3>2
  <2>2. ASSUME NEW d \in 1 .. made, Edit(w, d)
        PROVE  /\ DOMAIN box' \subseteq DOMAIN box
               /\ \A x \in DOMAIN box' : box'[x].ip = box[x].ip /\ (box'[x].site = box[x].site \/ box'[x].site \in sites)
               /\ WithinCap => WithinCap'
    <3>1. d \in DOMAIN box /\ {"Disabled", "own"} \subseteq Note /\ FALSE \in BOOLEAN /\ sites \subseteq Place
      BY <1>0, <2>2 DEF Edit, Note, BoxTypes
    <3>2. /\ DOMAIN box' = DOMAIN box
          /\ \A x \in DOMAIN box : box'[x].ip = box[x].ip /\ (box'[x].site = box[x].site \/ box'[x].site \in sites)
          /\ \A x \in DOMAIN box : box'[x].monitored => box[x].monitored
      <4>1. CASE box' = [box EXCEPT ![d].monitored = FALSE, ![d].note = "Disabled"]
        <5>1. /\ DOMAIN box' = DOMAIN box /\ box'[d].monitored = FALSE
              /\ box'[d].ip = box[d].ip /\ box'[d].site = box[d].site /\ \A x \in DOMAIN box \ {d} : box'[x] = box[x]
          BY <1>0, <3>1, <4>1, BoxUpdate
        <5> QED BY <5>1
      <4>2. CASE box' = [box EXCEPT ![d].note = "own"]
        BY <1>0, <3>1, <4>2, NoteUpdate
      <4>3. ASSUME NEW s \in sites, box' = [box EXCEPT ![d].site = s]
            PROVE  /\ DOMAIN box' = DOMAIN box
                   /\ \A x \in DOMAIN box : box'[x].ip = box[x].ip /\ (box'[x].site = box[x].site \/ box'[x].site \in sites)
                   /\ \A x \in DOMAIN box : box'[x].monitored => box[x].monitored
        <5>1. /\ DOMAIN box' = DOMAIN box
              /\ \A x \in DOMAIN box : box'[x].monitored = box[x].monitored /\ box'[x].ip = box[x].ip
              /\ box'[d].site = s /\ \A x \in DOMAIN box \ {d} : box'[x].site = box[x].site
          BY <1>0, <3>1, <4>3, SiteUpdate
        <5> QED BY <5>1
      <4> QED BY <2>2, <4>1, <4>2, <4>3 DEF Edit
    <3>3. Monitored' \subseteq Monitored
      BY <3>2 DEF Monitored
    <3> QED BY <1>0, <3>2, <3>3, FewerMonitored
  <2>3. ASSUME NEW d \in 1 .. made, DeleteDevice(w, d)
        PROVE  /\ DOMAIN box' \subseteq DOMAIN box
               /\ \A x \in DOMAIN box' : box'[x].ip = box[x].ip /\ (box'[x].site = box[x].site \/ box'[x].site \in sites)
               /\ WithinCap => WithinCap'
    <3>1. DOMAIN box' = DOMAIN box \ {d} /\ \A x \in DOMAIN box' : box'[x] = box[x]
      BY <2>3 DEF DeleteDevice
    <3>2. Monitored' \subseteq Monitored
      BY <3>1 DEF Monitored
    <3> QED BY <1>0, <3>1, <3>2, FewerMonitored
  <2> QED BY <2>1, <2>2, <2>3
<1>3. (NoTwins => NoTwins') /\ (Placed => Placed')
  BY <1>0, <1>2 DEF NoTwins, Placed
<1>4. SoundHere(w)'
  BY <1>0, <1>2, <1>3 DEF SoundHere
<1> QED BY <1>1, <1>4, IdleNext

LEMMA SitesSound ==
    ASSUME InventoryTypes, NEW w \in Worker, SoundHere(w), TaskSound(task[w]), PutSite(w) \/ DeleteSite(w)
    PROVE  TaskSound(task[w])' /\ SoundHere(w)'
<1>1. DOMAIN task = Worker /\ Step(w, Idle) /\ UNCHANGED <<box, cap, raced>> /\ task[w].at \in {"site", "unsite"}
  BY DEF InventoryTypes, PutSite, DeleteSite, At
<1>2. task'[w] = Idle
  BY <1>1, StepSets
<1>3. Placed => Placed'
  <2>1. CASE PutSite(w)
    BY <1>1, <2>1 DEF PutSite, Placed
  <2>2. CASE DeleteSite(w)
    <3>1. \A d \in DOMAIN box : box[d].site # task[w].site
      BY <2>2 DEF DeleteSite, At, TaskSound
    <3> QED BY <1>1, <2>2, <3>1 DEF DeleteSite, Placed
  <2> QED BY <2>1, <2>2
<1>4. SoundHere(w)'
  BY <1>1, <1>3 DEF SoundHere, WithinCap, Monitored, NoTwins
<1> QED BY <1>2, <1>4, IdleNext

LEMMA LicenceSound ==
    ASSUME InventoryTypes, NEW w \in Worker, NEW key \in LicenceKey, SetLicense(w, key),
           SoundHere(w), raced' = raced \ {"limit"}
    PROVE  TaskSound(task[w])' /\ SoundHere(w)'
<1>1. task'[w] = [at |-> "apply", key |-> key, caps |-> CapsFor(key)] /\ UNCHANGED <<sites, box>>
  BY StepSets DEF SetLicense, InventoryTypes
<1>2. CapsFor(key) <= cap'
  BY InventoryBounds DEF SetLicense, CapsFor, InventoryTypes, BoxTypes, LicenceKey
<1>3. task'[w].at = "apply" /\ task'[w].caps <= cap'
  BY <1>1, <1>2
<1>4. TaskSound(task[w])'
  BY <1>3 DEF TaskSound
<1> QED BY <1>1, <1>3, <1>4 DEF SoundHere, NoTwins, Placed

LEMMA ApplySound ==
    ASSUME InventoryTypes, NEW w \in Worker, SoundHere(w), TaskSound(task[w]),
           ApplyCapRead(w) \/ ApplyCapNext(w) \/ ApplyCapEnd(w)
    PROVE  TaskSound(task[w])' /\ SoundHere(w)'
<1>0. /\ DOMAIN task = Worker /\ UNCHANGED <<cap, sites, raced>> /\ BoxTypes /\ TaskOK(task[w], made)
      /\ task[w].at \in {"apply", "applying"} /\ task[w].caps <= cap
  BY DEF InventoryTypes, ApplyCapRead, ApplyCapNext, ApplyCapEnd, At, TaskSound
<1>1. CASE ApplyCapRead(w)
  <2>1. task'[w] = [at |-> "applying", key |-> task[w].key, caps |-> task[w].caps, devs |-> box, left |-> DOMAIN box]
    BY <1>0, <1>1, StepSets DEF ApplyCapRead
  <2>2. box' = box
    BY <1>1 DEF ApplyCapRead
  <2>3. TaskSound(task[w])'
    BY <1>0, <2>1, <2>2 DEF TaskSound
  <2> QED BY <1>0, <2>1, <2>2, <2>3 DEF SoundHere, NoTwins, Placed
<1>2. CASE ApplyCapNext(w)
  <2> DEFINE devs == task[w].devs
  <2> DEFINE caps == task[w].caps
  <2>0. task[w].at = "applying" /\ DOMAIN devs = DOMAIN box
    BY <1>2 DEF ApplyCapNext, At, TaskSound
  <2>1. PICK d \in task[w].left :
              /\ DOMAIN box' = DOMAIN box
              /\ \A x \in DOMAIN box : box'[x].ip = box[x].ip /\ box'[x].site = box[x].site
              /\ \A x \in DOMAIN box \ {d} : box'[x] = box[x]
              /\ d \in DOMAIN box => IF devs[d].monitored # Want(devs, caps, d) THEN box'[d].monitored = Want(devs, caps, d)
                                      ELSE box'[d] = box[d]
              /\ Step(w, [at |-> "applying", key |-> task[w].key, caps |-> task[w].caps, devs |-> task[w].devs,
                          left |-> task[w].left \ {d}])
    BY <1>2, ApplyStep
  <2>2. task'[w] = [at |-> "applying", key |-> task[w].key, caps |-> caps, devs |-> devs, left |-> task[w].left \ {d}]
    BY <1>0, <2>1, StepSets
  <2>3. \A x \in DOMAIN box : IF x \in task[w].left THEN box[x].monitored = devs[x].monitored
                               ELSE box[x].monitored <=> Want(devs, caps, x)
    BY <2>0 DEF TaskSound
  <2>4. ASSUME NEW x \in DOMAIN box'
        PROVE  IF x \in task[w].left \ {d} THEN box'[x].monitored = devs[x].monitored
               ELSE box'[x].monitored <=> Want(devs, caps, x)
    <3>1. CASE x # d
      BY <2>1, <2>3, <3>1
    <3>2. CASE x = d
      <4>1. box'[d].monitored = Want(devs, caps, d)
        BY <2>1, <2>3, <3>2
      <4> QED BY <3>2, <4>1
    <3> QED BY <3>1, <3>2
  <2>5. TaskSound(task[w])'
    <3>1. /\ task'[w].at = "applying" /\ task'[w].devs = devs /\ task'[w].caps = caps /\ task'[w].left = task[w].left \ {d}
      BY <2>2
    <3>2. DOMAIN devs = DOMAIN box' /\ caps <= cap'
      BY <1>0, <2>0, <2>1
    <3> QED BY <2>4, <3>1, <3>2 DEF TaskSound
  <2> QED BY <1>0, <2>1, <2>2, <2>5 DEF SoundHere, NoTwins, Placed
<1>3. CASE ApplyCapEnd(w)
  <2>1. task'[w] = Idle /\ box' = box /\ task[w].left = {} /\ task[w].at = "applying"
    BY <1>0, <1>3, StepSets DEF ApplyCapEnd, At
  <2>2. Monitored = {d \in DOMAIN task[w].devs : Want(task[w].devs, task[w].caps, d)}
    BY <2>1 DEF TaskSound, Monitored
  <2>3. task[w].caps \in Nat /\ DOMAIN task[w].devs \subseteq 1 .. made /\ made \in Nat
    BY <1>0, <2>1 DEF TaskOK, BoxTypes
  <2>4. Cardinality(Monitored) <= task[w].caps
    BY <2>2, <2>3, WantedWithinCap
  <2>5. Cardinality(Monitored) \in Nat /\ cap \in Nat
    BY <1>0, MonitoredFinite DEF BoxTypes
  <2>6. Cardinality(Monitored) <= cap
    BY <1>0, <2>3, <2>4, <2>5
  <2>7. WithinCap'
    BY <1>0, <2>1, <2>6 DEF WithinCap, Monitored
  <2> QED BY <1>0, <2>1, <2>7, IdleNext DEF SoundHere, NoTwins, Placed
<1> QED BY <1>1, <1>2, <1>3

\* The steps of a worker: a start, the start that sets a licence, or a task going on.
BeginsTask(w) ==
    \/ \E ip \in IP, s \in Place, ping \in BOOLEAN : Probe(w, ip, s, ping)
    \/ \E d \in 1 .. made : EnableCount(w, d)
    \/ \E s \in Place : PutSiteCheck(w, s) \/ DeleteSiteCheck(w, s)

EditsDevice(w) == \E d \in 1 .. made : Edit(w, d) \/ DeleteDevice(w, d)

GoesOn(w) ==
    \/ Register(w) \/ RegisterCount(w) \/ RegisterPut(w) \/ RegisterPingOnly(w) \/ Enable(w)
    \/ PutSite(w) \/ DeleteSite(w) \/ ApplyCapRead(w) \/ ApplyCapNext(w) \/ ApplyCapEnd(w)

LEMMA WorkerSteps ==
    InventoryNext <=> \E w \in Worker :
        BeginsTask(w) \/ EditsDevice(w) \/ GoesOn(w) \/ \E key \in LicenceKey : SetLicense(w, key)
BY DEF InventoryNext, BeginsTask, EditsDevice, GoesOn

LEMMA OthersWait ==
    ASSUME InventoryTypes, NEW w \in Worker,
           BeginsTask(w) \/ EditsDevice(w) \/ GoesOn(w) \/ \E key \in LicenceKey : SetLicense(w, key)
    PROVE  /\ \A v \in Worker \ {w} : task'[v] = task[v]
           /\ BeginsTask(w) \/ EditsDevice(w) => Starts(w)
           /\ GoesOn(w) => task[w] # Idle /\ raced' = raced
<1>0. DOMAIN task = Worker
  BY DEF InventoryTypes
<1>1. task' = task \/ \E t : Step(w, t)
  BY DEF BeginsTask, EditsDevice, GoesOn, Probe, EnableCount, PutSiteCheck, DeleteSiteCheck, Edit, DeleteDevice, Register,
         RegisterCount, RegisterPut, RegisterPingOnly, Enable, PutSite, DeleteSite, ApplyCapRead, ApplyCapNext, ApplyCapEnd, SetLicense
<1>2. \A v \in Worker \ {w} : task'[v] = task[v]
  BY <1>0, <1>1, StepSets
<1>3. BeginsTask(w) \/ EditsDevice(w) => Starts(w)
  BY DEF BeginsTask, EditsDevice, Probe, EnableCount, PutSiteCheck, DeleteSiteCheck, Edit, DeleteDevice
<1>4. GoesOn(w) => raced' = raced /\ task[w].at # "idle"
  BY DEF GoesOn, At, Register, RegisterCount, RegisterPut, RegisterPingOnly, Enable, PutSite, DeleteSite, ApplyCapRead, ApplyCapNext, ApplyCapEnd
<1>5. GoesOn(w) => task[w] # Idle
  BY <1>4 DEF Idle
<1> QED BY <1>2, <1>3, <1>4, <1>5

LEMMA InventoryStep ==
    ASSUME InventoryInv, [InventoryNext]_inventoryVars
    PROVE  InventoryInv'
<1>1. CASE UNCHANGED inventoryVars
  <2>1. InventoryTypes'
    BY <1>1 DEF inventoryVars, InventoryInv, InventoryTypes, BoxTypes, TaskOK
  <2>2. SoundUnlessRaced'
    BY <1>1 DEF inventoryVars, InventoryInv, SoundUnlessRaced, Monitored
  <2>3. (Quiet => Single /\ \A w \in Worker : TaskSound(task[w]))'
    <3>1. Monitored' = Monitored
      BY <1>1 DEF inventoryVars, Monitored
    <3>2. (Quiet' <=> Quiet) /\ (Single' <=> Single)
      BY <1>1 DEF inventoryVars, Quiet, Single
    <3>3. ASSUME NEW w \in Worker, TaskSound(task[w])
          PROVE  TaskSound(task[w])'
      BY <1>1, <3>1, <3>3 DEF inventoryVars, TaskSound, HasIP
    <3> QED BY <3>2, <3>3 DEF InventoryInv
  <2> QED BY <2>1, <2>2, <2>3 DEF InventoryInv
<1>2. ASSUME NEW w \in Worker,
             BeginsTask(w) \/ EditsDevice(w) \/ GoesOn(w) \/ \E key \in LicenceKey : SetLicense(w, key)
      PROVE  InventoryInv'
  <2>0. InventoryTypes /\ SoundUnlessRaced
    BY DEF InventoryInv
  <2>1. InventoryTypes'
    BY <1>2, <2>0, RegisterTypes, PutTypes, EditTypes, OtherTypes, ApplyTypes DEF BeginsTask, EditsDevice, GoesOn
  <2>2. CASE ~Quiet'
    BY <2>1, <2>2 DEF InventoryInv, SoundUnlessRaced, Quiet
  <2>3. CASE Quiet'
    <3>1. /\ \A v \in Worker \ {w} : task'[v] = task[v]
          /\ BeginsTask(w) \/ EditsDevice(w) => Starts(w)
          /\ GoesOn(w) => task[w] # Idle /\ raced' = raced
      BY <1>2, <2>0, OthersWait
    <3>2. CASE GoesOn(w)
      <4>1. Quiet /\ Single /\ TaskSound(task[w])
        BY <2>3, <3>1, <3>2 DEF Quiet, InventoryInv
      <4>2. Alone(w) /\ Alone(w)'
        BY <3>1, <3>2, <4>1 DEF Single, Alone
      <4>3. SoundHere(w)
        BY <2>0, <4>2, AloneHere
      <4>4. raced' = raced
        BY <3>1, <3>2
      <4>5. TaskSound(task[w])' /\ SoundHere(w)'
        <5>1. CASE Register(w) \/ RegisterCount(w)
          <6>1. task[w].at \notin {"apply", "applying"}
            BY <5>1 DEF Register, RegisterCount, At
          <6> QED BY <2>0, <4>1, <4>3, <4>4, <5>1, <6>1, ChecksSound
        <5>2. CASE Enable(w)
          <6>1. task[w].at \notin {"apply", "applying"}
            BY <5>2 DEF Enable, At
          <6> QED BY <2>0, <4>1, <4>3, <4>4, <5>2, <6>1, EditsSound
        <5> QED BY <2>0, <3>2, <4>1, <4>3, <5>1, <5>2, PutsSound, SitesSound, ApplySound DEF GoesOn
      <4> QED BY <2>1, <4>2, <4>5, AloneHere, AloneSuffices DEF InventoryInv
    <3>3. CASE BeginsTask(w) \/ EditsDevice(w)
      <4>1. task[w] = Idle /\ Alone(w) /\ raced' = raced
        BY <2>3, <3>1, <3>3 DEF Starts, Quiet
      <4>2. Alone(w)' /\ SoundHere(w)
        BY <2>0, <3>1, <4>1, AloneHere DEF Alone
      <4>3. TaskSound(task[w]) /\ task[w].at \notin {"apply", "applying"}
        BY <4>1, IdleSound DEF Idle
      <4>4. TaskSound(task[w])' /\ SoundHere(w)'
        BY <2>0, <3>3, <4>1, <4>2, <4>3, ChecksSound, EditsSound DEF BeginsTask, EditsDevice
      <4> QED BY <2>1, <4>2, <4>4, AloneHere, AloneSuffices DEF InventoryInv
    <3>4. ASSUME NEW key \in LicenceKey, SetLicense(w, key)
          PROVE  InventoryInv'
      <4>1. Alone(w) /\ raced' = raced \ {"limit"}
        BY <2>3, <3>4 DEF SetLicense, Quiet
      <4>2. Alone(w)' /\ SoundHere(w)
        BY <2>0, <3>1, <4>1, AloneHere DEF Alone
      <4>3. TaskSound(task[w])' /\ SoundHere(w)'
        BY <2>0, <3>4, <4>1, <4>2, LicenceSound
      <4> QED BY <2>1, <4>2, <4>3, AloneHere, AloneSuffices DEF InventoryInv
    <3> QED BY <1>2, <3>2, <3>3, <3>4
  <2> QED BY <2>2, <2>3
<1> QED BY <1>1, <1>2, WorkerSteps

\* For any number of workers, addresses, sites and devices and any licence limits: as
\* long as no two tasks were in flight together, no more devices are monitored than
\* the licence allows, no address is twice in the inventory and no device is in a site
\* that is gone; and a licence applied alone restores the limit (discovery.go, Register
\* and ApplyCap; server.go, updateDevice, putSite and the licence route).
THEOREM InventoryIsSound == InventorySpec => []SoundUnlessRaced
<1>1. InventoryInit => InventoryInv
  <2> SUFFICES ASSUME InventoryInit PROVE InventoryInv
    OBVIOUS
  <2>1. DOMAIN box = {} /\ Monitored = {} /\ box \in [DOMAIN box -> Box]
    BY DEF InventoryInit, Monitored
  <2>2. \A w \in Worker : task[w] = Idle
    BY DEF InventoryInit
  <2>3. BoxTypes
    BY <2>1, InventoryBounds DEF InventoryInit, BoxTypes
  <2>4. InventoryTypes
    BY <2>2, <2>3, IdleSound DEF InventoryInit, InventoryTypes
  <2>5. Single /\ \A w \in Worker : TaskSound(task[w])
    BY <2>2, IdleSound DEF Single
  <2>6. Cardinality(Monitored) <= cap
    BY <2>1, FS_EmptySet, InventoryBounds DEF InventoryInit
  <2>7. SoundUnlessRaced
    BY <2>1, <2>6 DEF SoundUnlessRaced
  <2> QED BY <2>4, <2>5, <2>7 DEF InventoryInv
<1>2. InventoryInv => SoundUnlessRaced
  BY DEF InventoryInv
<1> QED BY <1>1, <1>2, InventoryStep, PTL DEF InventorySpec

-----------------------------------------------------------------------------
(* Routing and layer-2 alerts.                                             *)

RoutingEvent == [key : AlertKeys, raise : BOOLEAN]

\* What the alert of a key will be when the events on their way have been taken: the
\* last event of the key decides.
LastOf(k, b, i) == i \in DOMAIN b /\ b[i].key = k /\ \A j \in DOMAIN b : j > i => b[j].key # k
WillOpen(k) ==
    \/ \E i \in DOMAIN bus : LastOf(k, bus, i) /\ bus[i].raise
    \/ k \in opened /\ \A i \in DOMAIN bus : bus[i].key # k

\* Every bounded set of numbers that satisfies something has a last one: the last
\* event of a key, when there is one.
LEMMA LastExists ==
    ASSUME NEW b \in Seq(RoutingEvent), NEW k, NEW i \in DOMAIN b, b[i].key = k
    PROVE  \E j \in DOMAIN b : LastOf(k, b, j)
<1> DEFINE S == {j \in DOMAIN b : b[j].key = k}
<1>1. Len(b) \in Nat /\ S \subseteq 1 .. Len(b) /\ S # {}
  OBVIOUS
<1>2. PICK m \in S : \A x \in S : x <= m
  <2> HIDE DEF S
  <2> QED BY <1>1, GreatestExists
<1>3. ASSUME NEW j \in DOMAIN b, j > m PROVE b[j].key # k
  BY <1>1, <1>2, <1>3
<1> QED BY <1>2, <1>3 DEF LastOf

LEMMA TakeKeeps ==
    ASSUME bus \in Seq(RoutingEvent), TakeEvent, NEW k
    PROVE  WillOpen(k)' <=> WillOpen(k)
<1>1. /\ bus # <<>> /\ bus' = Tail(bus)
      /\ opened' = IF Head(bus).raise THEN opened \cup {Head(bus).key} ELSE opened \ {Head(bus).key}
  BY DEF TakeEvent
<1>2. Len(bus) \in Nat /\ Len(bus) >= 1 /\ DOMAIN bus = 1 .. Len(bus) /\ Head(bus) = bus[1]
  BY <1>1
<1>3. DOMAIN bus' = 1 .. (Len(bus) - 1) /\ \A i \in 1 .. (Len(bus) - 1) : bus'[i] = bus[i + 1]
  <2>1. Len(Tail(bus)) = Len(bus) - 1 /\ Tail(bus) \in Seq(RoutingEvent)
    BY <1>1
  <2>2. \A i \in 1 .. (Len(bus) - 1) : Tail(bus)[i] = bus[i + 1]
    BY <1>1, <1>2
  <2> QED BY <1>1, <2>1, <2>2
<1>4. \A i \in DOMAIN bus' : i + 1 \in DOMAIN bus /\ (LastOf(k, bus', i) <=> LastOf(k, bus, i + 1))
  <2> SUFFICES ASSUME NEW i \in DOMAIN bus' PROVE i + 1 \in DOMAIN bus /\ (LastOf(k, bus', i) <=> LastOf(k, bus, i + 1))
    OBVIOUS
  <2>1. i + 1 \in DOMAIN bus /\ bus'[i] = bus[i + 1] /\ i \in Nat
    BY <1>2, <1>3
  <2>2. ASSUME LastOf(k, bus', i), NEW j \in DOMAIN bus, j > i + 1 PROVE bus[j].key # k
    <3>1. j - 1 \in DOMAIN bus' /\ j - 1 > i /\ bus'[j - 1] = bus[j]
      BY <1>2, <1>3, <2>1, <2>2
    <3> QED BY <2>2, <3>1 DEF LastOf
  <2>3. ASSUME LastOf(k, bus, i + 1), NEW j \in DOMAIN bus', j > i PROVE bus'[j].key # k
    <3>1. j + 1 \in DOMAIN bus /\ j + 1 > i + 1 /\ bus'[j] = bus[j + 1]
      BY <1>2, <1>3, <2>1, <2>3
    <3> QED BY <2>3, <3>1 DEF LastOf
  <2> QED BY <2>1, <2>2, <2>3 DEF LastOf
<1>5. \A i \in DOMAIN bus \ {1} : i - 1 \in DOMAIN bus' /\ (i - 1) + 1 = i
  BY <1>2, <1>3
<1>6. CASE bus[1].key = k /\ \A i \in DOMAIN bus' : bus'[i].key # k
  <2>1. LastOf(k, bus, 1) /\ \A i \in DOMAIN bus : LastOf(k, bus, i) => i = 1
    <3>1. \A i \in DOMAIN bus \ {1} : bus[i].key # k
      BY <1>3, <1>5, <1>6
    <3>2. 1 \in DOMAIN bus
      BY <1>2
    <3> QED BY <1>2, <1>6, <3>1, <3>2 DEF LastOf
  <2>2. WillOpen(k) <=> bus[1].raise
    BY <1>2, <1>6, <2>1 DEF WillOpen
  <2>3. WillOpen(k)' <=> k \in opened'
    BY <1>6 DEF WillOpen, LastOf
  <2>4. k \in opened' <=> bus[1].raise
    BY <1>1, <1>2, <1>6
  <2> QED BY <2>2, <2>3, <2>4
<1>7. CASE bus[1].key # k /\ \A i \in DOMAIN bus' : bus'[i].key # k
  <2>1. ASSUME NEW i \in DOMAIN bus PROVE bus[i].key # k
    <3>1. CASE i # 1
      <4>1. i - 1 \in DOMAIN bus' /\ bus'[i - 1] = bus[(i - 1) + 1] /\ (i - 1) + 1 = i
        BY <1>3, <1>5, <3>1
      <4> QED BY <1>7, <4>1
    <3> QED BY <1>7, <3>1
  <2>2. k \in opened' <=> k \in opened
    BY <1>1, <1>2, <1>7
  <2> QED BY <1>7, <2>1, <2>2 DEF WillOpen, LastOf
<1>8. ASSUME NEW e \in DOMAIN bus', bus'[e].key = k
      PROVE  WillOpen(k)' <=> WillOpen(k)
  <2>1. ~LastOf(k, bus, 1)
    <3>1. e + 1 \in DOMAIN bus /\ e + 1 > 1 /\ bus[e + 1].key = k
      BY <1>2, <1>3, <1>8
    <3> QED BY <3>1 DEF LastOf
  <2>2. WillOpen(k)' <=> \E i \in DOMAIN bus' : LastOf(k, bus', i) /\ bus'[i].raise
    BY <1>8 DEF WillOpen
  <2>3. WillOpen(k) <=> \E i \in DOMAIN bus : LastOf(k, bus, i) /\ bus[i].raise
    <3>1. e + 1 \in DOMAIN bus /\ bus[e + 1].key = k
      BY <1>2, <1>3, <1>8
    <3> QED BY <3>1 DEF WillOpen
  <2>4. \A i \in DOMAIN bus' : bus'[i] = bus[i + 1]
    BY <1>3
  <2> QED BY <1>4, <1>5, <2>1, <2>2, <2>3, <2>4
<1> QED BY <1>6, <1>7, <1>8

\* What finds room follows what is on its way.
LEMMA EmittedFollows ==
    ASSUME bus \in Seq(RoutingEvent), Len(bus) <= BusCap, NEW evs \in Seq(RoutingEvent), bus' = bus \o Emitted(evs)
    PROVE  \E n \in Nat :
              /\ n <= Len(evs) /\ Sent(evs) = 1 .. n
              /\ bus' \in Seq(RoutingEvent) /\ Len(bus') = Len(bus) + n /\ Len(bus') <= BusCap
              /\ \A i \in 1 .. Len(bus) : bus'[i] = bus[i]
              /\ \A i \in 1 .. n : bus'[Len(bus) + i] = evs[i]
<1> DEFINE room == BusCap - Len(bus)
<1> DEFINE n == IF Len(evs) <= room THEN Len(evs) ELSE room
<1>1. Len(bus) \in Nat /\ Len(evs) \in Nat /\ BusCap \in Nat
  BY RoutingAssumption
<1>2. room \in Nat /\ n \in Nat /\ n <= Len(evs) /\ n <= room
  BY <1>1
<1>3. Sent(evs) = 1 .. n
  BY <1>1, <1>2 DEF Sent
<1> HIDE DEF n
<1>4. Emitted(evs) = [i \in 1 .. n |-> evs[i]]
  BY <1>3 DEF Emitted
<1>5. Emitted(evs) \in Seq(RoutingEvent) /\ Len(Emitted(evs)) = n /\ \A i \in 1 .. n : Emitted(evs)[i] = evs[i]
  <2>1. \A i \in 1 .. n : evs[i] \in RoutingEvent
    BY <1>1, <1>2
  <2> QED BY <1>2, <1>4, <2>1
<1> DEFINE e == Emitted(evs)
<1> HIDE DEF e
<1>6. e \in Seq(RoutingEvent) /\ Len(e) = n /\ (\A i \in 1 .. n : e[i] = evs[i]) /\ bus' = bus \o e
  BY <1>5 DEF e
<1>7. /\ bus' \in Seq(RoutingEvent) /\ Len(bus') = Len(bus) + n
      /\ \A i \in 1 .. Len(bus) : bus'[i] = bus[i]
      /\ \A i \in 1 .. n : bus'[Len(bus) + i] = e[i]
  BY <1>1, <1>2, <1>6
<1>8. Len(bus') <= BusCap
  BY <1>1, <1>2, <1>7
<1> QED BY <1>2, <1>3, <1>6, <1>7, <1>8

\* Of a key none of whose events was dropped: without one nothing changes, and events
\* that agree decide.
LEMMA EmitDecides ==
    ASSUME bus \in Seq(RoutingEvent), Len(bus) <= BusCap, NEW evs \in Seq(RoutingEvent), bus' = bus \o Emitted(evs),
           opened' = opened, NEW k, k \notin Unsent(evs)
    PROVE  /\ (\A i \in DOMAIN evs : evs[i].key # k) => (WillOpen(k)' <=> WillOpen(k))
           /\ \A r \in BOOLEAN :
                 (\E i \in DOMAIN evs : evs[i].key = k) /\ (\A i \in DOMAIN evs : evs[i].key = k => evs[i].raise = r)
                     => (WillOpen(k)' <=> r)
<1>1. PICK n \in Nat :
              /\ n <= Len(evs) /\ Sent(evs) = 1 .. n
              /\ bus' \in Seq(RoutingEvent) /\ Len(bus') = Len(bus) + n /\ Len(bus') <= BusCap
              /\ \A i \in 1 .. Len(bus) : bus'[i] = bus[i]
              /\ \A i \in 1 .. n : bus'[Len(bus) + i] = evs[i]
  BY EmittedFollows
<1>2. /\ Len(bus) \in Nat /\ Len(evs) \in Nat /\ DOMAIN bus = 1 .. Len(bus) /\ DOMAIN evs = 1 .. Len(evs)
      /\ DOMAIN bus' = 1 .. (Len(bus) + n)
  BY <1>1
<1>3. \A i \in DOMAIN evs : evs[i].key = k => i \in 1 .. n
  BY <1>1 DEF Unsent
<1>4. ASSUME NEW i \in DOMAIN bus'
      PROVE  \/ i \in DOMAIN bus /\ bus'[i] = bus[i] /\ i <= Len(bus)
             \/ i - Len(bus) \in DOMAIN evs /\ bus'[i] = evs[i - Len(bus)] /\ i > Len(bus)
  <2>1. CASE i <= Len(bus)
    BY <1>1, <1>2, <2>1
  <2>2. CASE i > Len(bus)
    <3>1. i - Len(bus) \in 1 .. n /\ Len(bus) + (i - Len(bus)) = i
      BY <1>2, <2>2
    <3>2. bus'[i] = evs[i - Len(bus)] /\ i - Len(bus) \in DOMAIN evs
      BY <1>1, <1>2, <3>1
    <3> QED BY <2>2, <3>2
  <2> QED BY <1>2, <2>1, <2>2
<1>5. \A i \in DOMAIN bus : i \in DOMAIN bus' /\ bus'[i] = bus[i] /\ i <= Len(bus) /\ i \in Nat
  BY <1>1, <1>2
<1>6. ASSUME \A i \in DOMAIN evs : evs[i].key # k
      PROVE  WillOpen(k)' <=> WillOpen(k)
  <2>1. \A i \in DOMAIN bus' : bus'[i].key = k => i \in DOMAIN bus
    BY <1>4, <1>6
  <2>2. \A i \in DOMAIN bus : LastOf(k, bus', i) <=> LastOf(k, bus, i)
    BY <1>5, <2>1 DEF LastOf
  <2>3. (\E i \in DOMAIN bus' : LastOf(k, bus', i) /\ bus'[i].raise) <=> (\E i \in DOMAIN bus : LastOf(k, bus, i) /\ bus[i].raise)
    <3>1. \A i \in DOMAIN bus' : LastOf(k, bus', i) => i \in DOMAIN bus
      BY <2>1 DEF LastOf
    <3> QED BY <1>5, <2>2, <3>1
  <2>4. (\A i \in DOMAIN bus' : bus'[i].key # k) <=> (\A i \in DOMAIN bus : bus[i].key # k)
    BY <1>5, <2>1
  <2> QED BY <2>3, <2>4 DEF WillOpen
<1>7. ASSUME NEW r \in BOOLEAN, NEW i \in DOMAIN evs, evs[i].key = k, \A j \in DOMAIN evs : evs[j].key = k => evs[j].raise = r
      PROVE  WillOpen(k)' <=> r
  <2>1. Len(bus) + i \in DOMAIN bus' /\ bus'[Len(bus) + i].key = k /\ Len(bus) + i > Len(bus)
    <3>1. i \in 1 .. n
      BY <1>3, <1>7
    <3>2. bus'[Len(bus) + i] = evs[i] /\ i \in Nat /\ Len(bus) + i \in DOMAIN bus' /\ Len(bus) + i > Len(bus)
      BY <1>1, <1>2, <3>1
    <3> QED BY <1>7, <3>2
  <2>2. PICK m \in DOMAIN bus' : LastOf(k, bus', m)
    BY <1>1, <2>1, LastExists
  <2>3. ASSUME NEW l \in DOMAIN bus', LastOf(k, bus', l)
        PROVE  bus'[l].raise = r
    <3>1. ~(Len(bus) + i > l)
      BY <2>1, <2>3 DEF LastOf
    <3>2. l > Len(bus)
      BY <1>2, <2>1, <3>1
    <3>3. l - Len(bus) \in DOMAIN evs /\ bus'[l] = evs[l - Len(bus)]
      BY <1>2, <1>4, <3>2
    <3> QED BY <1>7, <2>3, <3>3 DEF LastOf
  <2>4. WillOpen(k)' <=> \E l \in DOMAIN bus' : LastOf(k, bus', l) /\ bus'[l].raise
    BY <2>1 DEF WillOpen
  <2> QED BY <2>2, <2>3, <2>4
<1> QED BY <1>6, <1>7

LEMMA ConcatRange ==
    ASSUME NEW S, NEW a \in Seq(S), NEW b \in Seq(S)
    PROVE  a \o b \in Seq(S) /\ Range(a \o b) = Range(a) \cup Range(b)
<1>1. /\ a \o b \in Seq(S) /\ Len(a) \in Nat /\ Len(b) \in Nat /\ Len(a \o b) = Len(a) + Len(b)
      /\ DOMAIN a = 1 .. Len(a) /\ DOMAIN b = 1 .. Len(b)
  OBVIOUS
<1>2. DOMAIN (a \o b) = 1 .. (Len(a) + Len(b))
  BY <1>1
<1>3. \A i \in 1 .. Len(a) : (a \o b)[i] = a[i] /\ i \in DOMAIN (a \o b)
  BY <1>1, <1>2
<1>4. \A i \in 1 .. Len(b) : (a \o b)[Len(a) + i] = b[i] /\ Len(a) + i \in DOMAIN (a \o b)
  BY <1>1, <1>2
<1>5. Range(a) \cup Range(b) \subseteq Range(a \o b)
  BY <1>1, <1>3, <1>4 DEF Range
<1>6. ASSUME NEW i \in DOMAIN (a \o b)
      PROVE  (a \o b)[i] \in Range(a) \cup Range(b)
  <2>1. CASE i <= Len(a)
    BY <1>1, <1>2, <1>3, <1>6, <2>1 DEF Range
  <2>2. CASE i > Len(a)
    <3>1. i - Len(a) \in 1 .. Len(b) /\ Len(a) + (i - Len(a)) = i
      BY <1>1, <1>2, <2>2
    <3>2. (a \o b)[i] = b[i - Len(a)]
      BY <1>4, <3>1
    <3> QED BY <1>1, <3>1, <3>2 DEF Range
  <2> QED BY <1>1, <1>2, <2>1, <2>2
<1> QED BY <1>1, <1>5, <1>6 DEF Range

\* What the walks can give.
LEMMA WalkTypes ==
    ASSUME NEW t \in WalkResult \cup {NoWalk}
    PROVE  /\ t.ospf \in [Nbr -> NbrEntry] /\ t.lag.up \in Nat /\ t.lag.members \in Nat /\ t.lag.up <= t.lag.members
           /\ \A p \in Peer : t.bgp[p].state \in {"absent", "idle", "established"}
<1>1. CASE t = NoWalk
  BY <1>1 DEF NoWalk, NbrEntry
<1>2. CASE t \in WalkResult
  <2>1. t.bgp \in [Peer -> PeerEntry] /\ t.ospf \in [Nbr -> NbrEntry] /\ t.lag \in LagEntry
    BY <1>2, RoutingAssumption
  <2>2. t.lag.up \in Nat /\ t.lag.members \in Nat /\ t.lag.up <= t.lag.members
    BY <2>1 DEF LagEntry
  <2>3. \A p \in Peer : t.bgp[p].state \in {"absent", "idle", "established"}
    BY <2>1 DEF PeerEntry
  <2> QED BY <2>1, <2>2, <2>3
<1> QED BY <1>1, <1>2

LEMMA KeysDiffer ==
    /\ \A p \in Peer : {BgpKey(p), PrefixKey(p)} \subseteq AlertKeys
    /\ {OspfKey, LagKey, RootKey, ChangeKey} \subseteq AlertKeys
    /\ \A p, q \in Peer : BgpKey(p) = BgpKey(q) => p = q
    /\ \A p, q \in Peer : BgpKey(p) # PrefixKey(q)
    /\ \A p \in Peer : {BgpKey(p), PrefixKey(p)} \cap {OspfKey, LagKey, RootKey, ChangeKey} = {}
    /\ OspfKey # LagKey /\ {OspfKey, LagKey} \cap {RootKey, ChangeKey} = {}
BY DEF BgpKey, PrefixKey, OspfKey, LagKey, RootKey, ChangeKey, AlertKeys, Expiring

LEMMA OneEvent ==
    /\ <<>> \in Seq(RoutingEvent) /\ Range(<<>>) = {}
    /\ \A e : <<e>> # <<>> /\ Range(<<e>>) = {e}
    /\ \A e \in RoutingEvent : <<e>> \in Seq(RoutingEvent)
<1>1. \A e : <<e>> # <<>> /\ Range(<<e>>) = {e}
  BY DEF Range
<1>2. \A e \in RoutingEvent : <<e>> \in Seq(RoutingEvent)
  OBVIOUS
<1>3. <<>> \in Seq(RoutingEvent) /\ Range(<<>>) = {}
  BY DEF Range
<1> QED BY <1>1, <1>2, <1>3

\* The events of the BGP table are those of the peers that changed.
LEMMA BgpRange ==
    ASSUME NEW old, NEW new, NEW b \in BgpEvents(old, new)
    PROVE  /\ b \in Seq(RoutingEvent)
           /\ \A e : e \in Range(b) <=> \E p \in Peer : BgpChange(old, new, p) = <<e>>
<1> DEFINE changed == {p \in Peer : BgpChange(old, new, p) # <<>>}
<1>1. ASSUME NEW p \in changed
      PROVE  \E e \in RoutingEvent : BgpChange(old, new, p) = <<e>>
  <2>1. /\ [key |-> BgpKey(p), raise |-> TRUE] \in RoutingEvent /\ [key |-> BgpKey(p), raise |-> FALSE] \in RoutingEvent
        /\ [key |-> PrefixKey(p), raise |-> TRUE] \in RoutingEvent
    BY KeysDiffer DEF RoutingEvent
  <2> QED BY <2>1 DEF BgpChange
<1>2. \A p \in changed : BgpChange(old, new, p) = <<Head(BgpChange(old, new, p))>> /\ Head(BgpChange(old, new, p)) \in RoutingEvent
  BY <1>1
<1>3. IsFiniteSet(changed) /\ Cardinality(changed) \in Nat
  BY RoutingAssumption, SubsetIsNoLarger
<1>4. PICK q \in [1 .. Cardinality(changed) -> changed] : Range(q) = changed /\ b = [i \in DOMAIN q |-> Head(BgpChange(old, new, q[i]))]
  BY DEF BgpEvents
<1>5. b \in Seq(RoutingEvent)
  <2>1. \A i \in 1 .. Cardinality(changed) : Head(BgpChange(old, new, q[i])) \in RoutingEvent
    BY <1>2
  <2> HIDE DEF changed
  <2>2. b \in [1 .. Cardinality(changed) -> RoutingEvent]
    BY <1>4, <2>1
  <2> QED BY <1>3, <2>2
<1>6. ASSUME NEW e \in Range(b)
      PROVE  \E p \in Peer : BgpChange(old, new, p) = <<e>>
  <2>1. PICK i \in DOMAIN q : e = Head(BgpChange(old, new, q[i]))
    BY <1>4, <1>6 DEF Range
  <2>2. q[i] \in changed
    BY <2>1
  <2> QED BY <1>2, <2>1, <2>2
<1>7. ASSUME NEW p \in Peer, NEW e, BgpChange(old, new, p) = <<e>>
      PROVE  e \in Range(b)
  <2>1. p \in changed
    BY <1>7, OneEvent
  <2>2. PICK i \in DOMAIN q : q[i] = p
    BY <1>4, <2>1 DEF Range
  <2>3. b[i] = Head(<<e>>) /\ i \in DOMAIN b
    BY <1>4, <1>7, <2>2
  <2> QED BY <2>3 DEF Range
<1> QED BY <1>5, <1>6, <1>7

\* A neighbour lost raises the one alert of the device; the last one back ends it.
LEMMA OspfRange ==
    ASSUME NEW old, NEW new
    PROVE  /\ OspfEvents(old, new) \in Seq(RoutingEvent)
           /\ Range(OspfEvents(old, new)) =
                IF LostNbrs(old, new) # {} THEN {[key |-> OspfKey, raise |-> TRUE]}
                ELSE IF BackNbrs(old, new) # {} /\ AllFull(new) THEN {[key |-> OspfKey, raise |-> FALSE]} ELSE {}
<1>1. [key |-> OspfKey, raise |-> TRUE] \in RoutingEvent /\ [key |-> OspfKey, raise |-> FALSE] \in RoutingEvent
  BY KeysDiffer DEF RoutingEvent
<1>2. CASE LostNbrs(old, new) # {}
  <2> DEFINE n == Cardinality(LostNbrs(old, new))
  <2> DEFINE e == [key |-> OspfKey, raise |-> TRUE]
  <2>1. n \in Nat /\ n >= 1
    <3>1. IsFiniteSet(LostNbrs(old, new)) /\ n \in Nat
      BY RoutingAssumption, SubsetIsNoLarger DEF LostNbrs
    <3> QED BY <1>2, <3>1, FS_EmptySet
  <2>2. OspfEvents(old, new) = [i \in 1 .. n |-> e]
    BY <1>2 DEF OspfEvents
  <2>3. e \in RoutingEvent
    BY <1>1
  <2> HIDE DEF n, e
  <2>4. [i \in 1 .. n |-> e] \in Seq(RoutingEvent) /\ Range([i \in 1 .. n |-> e]) = {e}
    <3>1. 1 \in 1 .. n
      BY <2>1
    <3> QED BY <2>1, <2>3, <3>1 DEF Range
  <2>5. Range(OspfEvents(old, new)) = {e} /\ OspfEvents(old, new) \in Seq(RoutingEvent)
    BY <2>2, <2>4
  <2> QED BY <1>2, <2>5 DEF e
<1>3. CASE LostNbrs(old, new) = {} /\ BackNbrs(old, new) # {} /\ AllFull(new)
  <2>1. OspfEvents(old, new) = <<[key |-> OspfKey, raise |-> FALSE]>>
    BY <1>3 DEF OspfEvents
  <2> QED BY <1>1, <1>3, <2>1, OneEvent
<1>4. CASE LostNbrs(old, new) = {} /\ ~(BackNbrs(old, new) # {} /\ AllFull(new))
  <2>1. OspfEvents(old, new) = <<>>
    BY <1>4 DEF OspfEvents
  <2> QED BY <1>4, <2>1 DEF Range
<1> QED BY <1>2, <1>3, <1>4

LEMMA OtherRange ==
    ASSUME NEW old, NEW new
    PROVE  /\ StpEvents(old, new) \in Seq(RoutingEvent) /\ LagEvents(old, new) \in Seq(RoutingEvent)
           /\ \A e \in Range(StpEvents(old, new)) : e.key \in {RootKey, ChangeKey}
           /\ Range(LagEvents(old, new)) =
                IF old.lag.members = 0 \/ new.lag.members = 0 THEN {}
                ELSE IF new.lag.up < old.lag.up THEN {[key |-> LagKey, raise |-> TRUE]}
                ELSE IF new.lag.up > old.lag.up /\ new.lag.up = new.lag.members THEN {[key |-> LagKey, raise |-> FALSE]} ELSE {}
<1>1. /\ [key |-> RootKey, raise |-> TRUE] \in RoutingEvent /\ [key |-> ChangeKey, raise |-> TRUE] \in RoutingEvent
      /\ [key |-> LagKey, raise |-> TRUE] \in RoutingEvent /\ [key |-> LagKey, raise |-> FALSE] \in RoutingEvent
  BY KeysDiffer DEF RoutingEvent
<1>2. \A e : Range(<<e>>) = {e}
  BY DEF Range
<1>3. Range(<<>>) = {}
  BY DEF Range
<1>4. StpEvents(old, new) \in {<<>>, <<[key |-> RootKey, raise |-> TRUE]>>, <<[key |-> ChangeKey, raise |-> TRUE]>>}
  BY DEF StpEvents
<1>5. LagEvents(old, new) \in {<<>>, <<[key |-> LagKey, raise |-> TRUE]>>, <<[key |-> LagKey, raise |-> FALSE]>>}
  BY DEF LagEvents
<1>6. StpEvents(old, new) \in Seq(RoutingEvent) /\ LagEvents(old, new) \in Seq(RoutingEvent)
  BY <1>1, <1>4, <1>5, OneEvent
<1>7. \A e \in Range(StpEvents(old, new)) : e.key \in {RootKey, ChangeKey}
  BY <1>2, <1>3, <1>4
<1>8. Range(LagEvents(old, new)) =
                IF old.lag.members = 0 \/ new.lag.members = 0 THEN {}
                ELSE IF new.lag.up < old.lag.up THEN {[key |-> LagKey, raise |-> TRUE]}
                ELSE IF new.lag.up > old.lag.up /\ new.lag.up = new.lag.members THEN {[key |-> LagKey, raise |-> FALSE]} ELSE {}
  BY <1>2, <1>3 DEF LagEvents
<1> QED BY <1>6, <1>7, <1>8

LEMMA EventsRange ==
    ASSUME NEW old, NEW new, NEW evs \in RoutingEvents(old, new)
    PROVE  /\ evs \in Seq(RoutingEvent)
           /\ \E b \in BgpEvents(old, new) :
                Range(evs) = Range(b) \cup Range(OspfEvents(old, new)) \cup Range(StpEvents(old, new)) \cup Range(LagEvents(old, new))
<1> DEFINE o == OspfEvents(old, new)
<1> DEFINE t == StpEvents(old, new)
<1> DEFINE l == LagEvents(old, new)
<1>1. PICK b \in BgpEvents(old, new) : evs = b \o o \o t \o l
  BY DEF RoutingEvents
<1>2. b \in Seq(RoutingEvent) /\ o \in Seq(RoutingEvent) /\ t \in Seq(RoutingEvent) /\ l \in Seq(RoutingEvent)
  BY BgpRange, OspfRange, OtherRange
<1> HIDE DEF o, t, l
<1> DEFINE bo == b \o o
<1> DEFINE bot == bo \o t
<1>3. bo \in Seq(RoutingEvent) /\ Range(bo) = Range(b) \cup Range(o)
  BY <1>2, ConcatRange
<1>4. bot \in Seq(RoutingEvent) /\ Range(bot) = Range(bo) \cup Range(t)
  <2> HIDE DEF bo
  <2> QED BY <1>2, <1>3, ConcatRange
<1>5. bot \o l \in Seq(RoutingEvent) /\ Range(bot \o l) = Range(bot) \cup Range(l)
  <2> HIDE DEF bot
  <2> QED BY <1>2, <1>4, ConcatRange
<1>6. evs \in Seq(RoutingEvent) /\ Range(evs) = Range(b) \cup Range(o) \cup Range(t) \cup Range(l)
  <2>1. evs = bot \o l
    BY <1>1
  <2> HIDE DEF bo, bot
  <2> QED BY <1>3, <1>4, <1>5, <2>1
<1> QED BY <1>6 DEF o, t, l

\* The events of a peer's alert are those of the peer's own change.
LEMMA BgpKeyEvents ==
    ASSUME NEW old, NEW new, NEW evs \in RoutingEvents(old, new), NEW p \in Peer
    PROVE  \A e : e \in Range(evs) /\ e.key = BgpKey(p) <=> BgpChange(old, new, p) = <<e>> /\ e.key = BgpKey(p)
<1>1. PICK b \in BgpEvents(old, new) :
          Range(evs) = Range(b) \cup Range(OspfEvents(old, new)) \cup Range(StpEvents(old, new)) \cup Range(LagEvents(old, new))
  BY EventsRange
<1>2. \A e : e \in Range(b) <=> \E q \in Peer : BgpChange(old, new, q) = <<e>>
  BY BgpRange
<1>3. \A q \in Peer : \A e : BgpChange(old, new, q) = <<e>> => e.key \in {BgpKey(q), PrefixKey(q)}
  <2> SUFFICES ASSUME NEW q \in Peer, NEW e, BgpChange(old, new, q) = <<e>>
               PROVE  e.key \in {BgpKey(q), PrefixKey(q)}
    OBVIOUS
  <2>1. <<e>> \in {<<[key |-> BgpKey(q), raise |-> TRUE]>>, <<[key |-> BgpKey(q), raise |-> FALSE]>>,
                   <<[key |-> PrefixKey(q), raise |-> TRUE]>>}
    BY OneEvent DEF BgpChange
  <2>2. e = <<e>>[1]
    OBVIOUS
  <2>3. e \in {[key |-> BgpKey(q), raise |-> TRUE], [key |-> BgpKey(q), raise |-> FALSE], [key |-> PrefixKey(q), raise |-> TRUE]}
    BY <2>1, <2>2
  <2> QED BY <2>3
<1>4. \A e \in Range(OspfEvents(old, new)) \cup Range(StpEvents(old, new)) \cup Range(LagEvents(old, new)) :
          e.key \in {OspfKey, LagKey, RootKey, ChangeKey}
  BY OspfRange, OtherRange
<1>5. BgpKey(p) \notin {OspfKey, LagKey, RootKey, ChangeKey}
  BY KeysDiffer
<1>6. \A q \in Peer : BgpKey(p) \in {BgpKey(q), PrefixKey(q)} => q = p
  BY KeysDiffer
<1> QED BY <1>1, <1>2, <1>3, <1>4, <1>5, <1>6

LEMMA DeviceKeyEvents ==
    ASSUME NEW old, NEW new, NEW evs \in RoutingEvents(old, new)
    PROVE  /\ \A e : e \in Range(evs) /\ e.key = OspfKey <=> e \in Range(OspfEvents(old, new))
           /\ \A e : e \in Range(evs) /\ e.key = LagKey <=> e \in Range(LagEvents(old, new))
<1>1. PICK b \in BgpEvents(old, new) :
          Range(evs) = Range(b) \cup Range(OspfEvents(old, new)) \cup Range(StpEvents(old, new)) \cup Range(LagEvents(old, new))
  BY EventsRange
<1>2. \A e \in Range(b) : e.key \notin {OspfKey, LagKey}
  <2> SUFFICES ASSUME NEW e \in Range(b) PROVE e.key \notin {OspfKey, LagKey}
    OBVIOUS
  <2>1. PICK q \in Peer : BgpChange(old, new, q) = <<e>>
    BY BgpRange
  <2>2. <<e>> \in {<<[key |-> BgpKey(q), raise |-> TRUE]>>, <<[key |-> BgpKey(q), raise |-> FALSE]>>,
                   <<[key |-> PrefixKey(q), raise |-> TRUE]>>}
    BY <2>1, OneEvent DEF BgpChange
  <2>3. e = <<e>>[1]
    OBVIOUS
  <2>4. e.key \in {BgpKey(q), PrefixKey(q)}
    BY <2>2, <2>3
  <2> QED BY <2>4, KeysDiffer
<1>3. \A e \in Range(StpEvents(old, new)) : e.key \notin {OspfKey, LagKey}
  BY OtherRange, KeysDiffer
<1>4. (\A e \in Range(OspfEvents(old, new)) : e.key = OspfKey) /\ (\A e \in Range(LagEvents(old, new)) : e.key = LagKey)
  BY OspfRange, OtherRange
<1>5. OspfKey # LagKey
  BY KeysDiffer
<1> QED BY <1>1, <1>2, <1>3, <1>4, <1>5

LEMMA KeyDecided ==
    ASSUME bus \in Seq(RoutingEvent), Len(bus) <= BusCap, NEW evs \in Seq(RoutingEvent), bus' = bus \o Emitted(evs),
           opened' = opened, NEW k, k \notin Unsent(evs)
    PROVE  /\ (\A e \in Range(evs) : e.key # k) => (WillOpen(k)' <=> WillOpen(k))
           /\ \A r \in BOOLEAN :
                 (\E e \in Range(evs) : e.key = k) /\ (\A e \in Range(evs) : e.key = k => e.raise = r) => (WillOpen(k)' <=> r)
<1>1. (\A e \in Range(evs) : e.key # k) => \A i \in DOMAIN evs : evs[i].key # k
  BY DEF Range
<1>2. (\E e \in Range(evs) : e.key = k) => \E i \in DOMAIN evs : evs[i].key = k
  BY DEF Range
<1>3. \A r \in BOOLEAN : (\A e \in Range(evs) : e.key = k => e.raise = r) => \A i \in DOMAIN evs : evs[i].key = k => evs[i].raise = r
  BY DEF Range
<1>4. /\ (\A i \in DOMAIN evs : evs[i].key # k) => (WillOpen(k)' <=> WillOpen(k))
      /\ \A r \in BOOLEAN :
            (\E i \in DOMAIN evs : evs[i].key = k) /\ (\A i \in DOMAIN evs : evs[i].key = k => evs[i].raise = r)
                => (WillOpen(k)' <=> r)
  BY EmitDecides
<1> QED BY <1>1, <1>2, <1>3, <1>4

\* Every alert is, or will be, what the tables say, unless an event of it strayed.
BgpAgrees == \A p \in Peer : BgpKey(p) \notin strayed => (WillOpen(BgpKey(p)) <=> p \in everUp /\ ~Up(kept, p))

OspfAgrees ==
    OspfKey \notin strayed =>
        /\ \A n \in everUp \cap Nbr : kept.ospf[n] # "absent"
        /\ (\E n \in everUp \cap Nbr : kept.ospf[n] # "full") => WillOpen(OspfKey)
        /\ WillOpen(OspfKey) => \E n \in Nbr : kept.ospf[n] = "partial"

LagAgrees == LagKey \notin strayed /\ WillOpen(LagKey) => kept.lag.up < kept.lag.members

RoutingTypes ==
    /\ kept \in WalkResult \cup {NoWalk} /\ bus \in Seq(RoutingEvent) /\ Len(bus) <= BusCap
    /\ kept = NoWalk => everUp = {}
    /\ \A p \in Peer : Up(kept, p) => p \in everUp

RoutingInv == RoutingTypes /\ BgpAgrees /\ OspfAgrees /\ LagAgrees

LEMMA PollKept ==
    ASSUME RoutingTypes, NEW t \in WalkResult, PollRouting(t), ~NothingFound(t)
    PROVE  /\ RoutingTypes' /\ kept' = t /\ t # NoWalk /\ opened' = opened
           /\ everUp' = everUp \cup {p \in Peer : Up(t, p)} \cup {n \in Nbr : t.ospf[n] = "full"}
           /\ \E evs \in Seq(RoutingEvent) :
                 /\ evs \in IF kept = NoWalk THEN {<<>>} ELSE RoutingEvents(kept, t)
                 /\ bus' = bus \o Emitted(evs) /\ strayed' = strayed \cup Unsent(evs) \cup LeftOut(kept, t)
<1>1. /\ kept' = t /\ t # NoWalk /\ opened' = opened
      /\ everUp' = everUp \cup {p \in Peer : Up(t, p)} \cup {n \in Nbr : t.ospf[n] = "full"}
  BY DEF PollRouting, NothingFound
<1>2. PICK evs : /\ evs \in IF kept = NoWalk THEN {<<>>} ELSE RoutingEvents(kept, t)
                 /\ bus' = bus \o Emitted(evs) /\ strayed' = strayed \cup Unsent(evs) \cup LeftOut(kept, t)
  BY DEF PollRouting
<1>3. evs \in Seq(RoutingEvent)
  BY <1>2, EventsRange, OneEvent
<1>4. bus' \in Seq(RoutingEvent) /\ Len(bus') <= BusCap
  BY <1>2, <1>3, EmittedFollows DEF RoutingTypes
<1>5. RoutingTypes'
  BY <1>1, <1>4 DEF RoutingTypes, Up
<1> QED BY <1>1, <1>2, <1>3, <1>5

LEMMA PollBgp ==
    ASSUME RoutingInv, NEW t \in WalkResult, PollRouting(t), ~NothingFound(t)
    PROVE  BgpAgrees'
<1>0. RoutingTypes /\ BgpAgrees
  BY DEF RoutingInv
<1>1. /\ kept' = t /\ t # NoWalk /\ opened' = opened
      /\ everUp' = everUp \cup {p \in Peer : Up(t, p)} \cup {n \in Nbr : t.ospf[n] = "full"}
  BY <1>0, PollKept
<1>2. PICK evs \in Seq(RoutingEvent) :
                 /\ evs \in IF kept = NoWalk THEN {<<>>} ELSE RoutingEvents(kept, t)
                 /\ bus' = bus \o Emitted(evs) /\ strayed' = strayed \cup Unsent(evs) \cup LeftOut(kept, t)
  BY <1>0, PollKept
<1> SUFFICES ASSUME NEW p \in Peer, BgpKey(p) \notin strayed'
             PROVE  WillOpen(BgpKey(p))' <=> p \in everUp' /\ ~Up(t, p)
  BY <1>1 DEF BgpAgrees, Up
<1>3. BgpKey(p) \notin strayed /\ BgpKey(p) \notin Unsent(evs) /\ BgpKey(p) \notin LeftOut(kept, t)
  BY <1>2
<1>4. WillOpen(BgpKey(p)) <=> p \in everUp /\ ~Up(kept, p)
  BY <1>0, <1>3 DEF BgpAgrees
<1>5. p \in everUp' <=> p \in everUp \/ Up(t, p)
  BY <1>1, RoutingAssumption
<1>6. /\ (\A e \in Range(evs) : e.key # BgpKey(p)) => (WillOpen(BgpKey(p))' <=> WillOpen(BgpKey(p)))
      /\ \A r \in BOOLEAN : /\ \E e \in Range(evs) : e.key = BgpKey(p)
                            /\ \A e \in Range(evs) : e.key = BgpKey(p) => e.raise = r
                            => (WillOpen(BgpKey(p))' <=> r)
  BY <1>0, <1>1, <1>2, <1>3, KeyDecided DEF RoutingTypes
<1>7. kept.bgp[p].state \in {"absent", "idle", "established"} /\ t.bgp[p].state \in {"absent", "idle", "established"}
  BY <1>0, WalkTypes DEF RoutingTypes
<1>8. CASE kept = NoWalk
  <2>1. Range(evs) = {}
    BY <1>2, <1>8, OneEvent
  <2>2. p \notin everUp
    BY <1>0, <1>8 DEF RoutingTypes
  <2> QED BY <1>4, <1>5, <1>6, <2>1, <2>2
<1>9. CASE kept # NoWalk
  <2>0. \A e : e \in Range(evs) /\ e.key = BgpKey(p) <=> BgpChange(kept, t, p) = <<e>> /\ e.key = BgpKey(p)
    BY <1>2, <1>9, BgpKeyEvents
  <2> DEFINE down == [key |-> BgpKey(p), raise |-> TRUE]
  <2> DEFINE back == [key |-> BgpKey(p), raise |-> FALSE]
  <2>1. CASE Up(kept, p) /\ ~Up(t, p)
    <3>1. BgpChange(kept, t, p) = <<down>>
      BY <2>1 DEF BgpChange
    <3>2. down \in Range(evs) /\ \A e \in Range(evs) : e.key = BgpKey(p) => e.raise = TRUE
      <4>1. \A e : <<e>> = <<down>> => e = down
        OBVIOUS
      <4> QED BY <2>0, <3>1, <4>1
    <3>3. WillOpen(BgpKey(p))'
      BY <1>6, <3>2
    <3> QED BY <1>0, <1>5, <2>1, <3>3 DEF RoutingTypes
  <2>2. CASE kept.bgp[p].state # "absent" /\ ~Up(kept, p) /\ Up(t, p)
    <3>1. BgpChange(kept, t, p) = <<back>>
      BY <2>2 DEF BgpChange
    <3>2. back \in Range(evs) /\ \A e \in Range(evs) : e.key = BgpKey(p) => e.raise = FALSE
      <4>1. \A e : <<e>> = <<back>> => e = back
        OBVIOUS
      <4> QED BY <2>0, <3>1, <4>1
    <3>3. ~WillOpen(BgpKey(p))'
      BY <1>6, <3>2
    <3> QED BY <2>2, <3>3
  <2>3. CASE Up(kept, p) <=> Up(t, p)
    <3>1. \A e : BgpChange(kept, t, p) = <<e>> => e.key = PrefixKey(p)
      <4>1. BgpChange(kept, t, p) \in {<<>>, <<[key |-> PrefixKey(p), raise |-> TRUE]>>}
        BY <2>3 DEF BgpChange
      <4>2. \A e : <<e>> = <<[key |-> PrefixKey(p), raise |-> TRUE]>> => e = [key |-> PrefixKey(p), raise |-> TRUE]
        OBVIOUS
      <4> QED BY <4>1, <4>2, OneEvent
    <3>2. \A e \in Range(evs) : e.key # BgpKey(p)
      BY <2>0, <3>1, KeysDiffer
    <3> QED BY <1>4, <1>5, <1>6, <2>3, <3>2
  <2>4. CASE kept.bgp[p].state = "absent" /\ Up(t, p)
    <3>1. p \notin everUp
      BY <1>3, <2>4 DEF LeftOut
    <3>2. BgpChange(kept, t, p) = <<>>
      BY <2>4 DEF BgpChange, Up
    <3>3. \A e \in Range(evs) : e.key # BgpKey(p)
      BY <2>0, <3>2, OneEvent
    <3> QED BY <1>4, <1>6, <2>4, <3>1, <3>3
  <2> QED BY <1>7, <2>1, <2>2, <2>3, <2>4 DEF Up
<1> QED BY <1>8, <1>9

LEMMA PollOspf ==
    ASSUME RoutingInv, NEW t \in WalkResult, PollRouting(t), ~NothingFound(t)
    PROVE  OspfAgrees'
<1>0. RoutingTypes /\ OspfAgrees
  BY DEF RoutingInv
<1>1. /\ kept' = t /\ t # NoWalk /\ opened' = opened
      /\ everUp' = everUp \cup {p \in Peer : Up(t, p)} \cup {n \in Nbr : t.ospf[n] = "full"}
  BY <1>0, PollKept
<1>2. PICK evs \in Seq(RoutingEvent) :
                 /\ evs \in IF kept = NoWalk THEN {<<>>} ELSE RoutingEvents(kept, t)
                 /\ bus' = bus \o Emitted(evs) /\ strayed' = strayed \cup Unsent(evs) \cup LeftOut(kept, t)
  BY <1>0, PollKept
<1>3. SUFFICES ASSUME OspfKey \notin strayed'
               PROVE  /\ \A n \in everUp' \cap Nbr : t.ospf[n] # "absent"
                      /\ (\E n \in everUp' \cap Nbr : t.ospf[n] # "full") => WillOpen(OspfKey)'
                      /\ WillOpen(OspfKey)' => \E n \in Nbr : t.ospf[n] = "partial"
  BY <1>1 DEF OspfAgrees
<1>4. OspfKey \notin strayed /\ OspfKey \notin Unsent(evs) /\ OspfKey \notin LeftOut(kept, t)
  BY <1>2, <1>3
<1>5. /\ \A n \in everUp \cap Nbr : kept.ospf[n] # "absent"
      /\ (\E n \in everUp \cap Nbr : kept.ospf[n] # "full") => WillOpen(OspfKey)
      /\ WillOpen(OspfKey) => \E n \in Nbr : kept.ospf[n] = "partial"
  BY <1>0, <1>4 DEF OspfAgrees
<1>6. \A n \in Nbr : n \in everUp' <=> n \in everUp \/ t.ospf[n] = "full"
  BY <1>1, RoutingAssumption
<1>7. \A n \in Nbr : kept.ospf[n] # "absent" => t.ospf[n] # "absent"
  BY <1>4 DEF LeftOut
<1>8. \A n \in Nbr : kept.ospf[n] \in {"absent", "partial", "full"} /\ t.ospf[n] \in {"absent", "partial", "full"}
  BY <1>0, WalkTypes DEF RoutingTypes, NbrEntry
<1>9. /\ (\A e \in Range(evs) : e.key # OspfKey) => (WillOpen(OspfKey)' <=> WillOpen(OspfKey))
      /\ \A r \in BOOLEAN : (\E e \in Range(evs) : e.key = OspfKey) /\ (\A e \in Range(evs) : e.key = OspfKey => e.raise = r)
                            => (WillOpen(OspfKey)' <=> r)
  BY <1>0, <1>1, <1>2, <1>4, KeyDecided DEF RoutingTypes
<1>10. \A n \in everUp' \cap Nbr : t.ospf[n] # "absent"
  BY <1>5, <1>6, <1>7
<1>11. CASE kept = NoWalk
  <2>1. Range(evs) = {}
    BY <1>2, <1>11, OneEvent
  <2>2. everUp = {} /\ \A n \in Nbr : kept.ospf[n] = "absent"
    BY <1>0, <1>11 DEF RoutingTypes, NoWalk
  <2>3. ~WillOpen(OspfKey)'
    BY <1>5, <1>9, <2>1, <2>2
  <2> QED BY <1>6, <1>10, <2>2, <2>3
<1>12. CASE kept # NoWalk
  <2>0. \A e : e \in Range(evs) /\ e.key = OspfKey <=> e \in Range(OspfEvents(kept, t))
    BY <1>2, <1>12, DeviceKeyEvents
  <2>1. CASE LostNbrs(kept, t) # {}
    <3>1. Range(OspfEvents(kept, t)) = {[key |-> OspfKey, raise |-> TRUE]}
      BY <2>1, OspfRange
    <3>2. (\E e \in Range(evs) : e.key = OspfKey) /\ (\A e \in Range(evs) : e.key = OspfKey => e.raise = TRUE)
      <4> DEFINE ev == [key |-> OspfKey, raise |-> TRUE]
      <4>1. ev.key = OspfKey
        OBVIOUS
      <4>2. ev.raise = TRUE
        OBVIOUS
      <4>3. \A e : e \in Range(evs) /\ e.key = OspfKey <=> e = ev
        BY <2>0, <3>1
      <4> HIDE DEF ev
      <4> QED BY <4>1, <4>2, <4>3, Zenon
    <3>3. WillOpen(OspfKey)'
      BY <1>9, <3>2
    <3>4. PICK n \in Nbr : kept.ospf[n] = "full" /\ t.ospf[n] # "full"
      BY <2>1 DEF LostNbrs
    <3>5. t.ospf[n] = "partial"
      BY <1>7, <1>8, <3>4
    <3> QED BY <1>10, <3>3, <3>5
  <2>2. CASE LostNbrs(kept, t) = {} /\ BackNbrs(kept, t) # {} /\ AllFull(t)
    <3>1. Range(OspfEvents(kept, t)) = {[key |-> OspfKey, raise |-> FALSE]}
      BY <2>2, OspfRange
    <3>2. (\E e \in Range(evs) : e.key = OspfKey) /\ (\A e \in Range(evs) : e.key = OspfKey => e.raise = FALSE)
      <4> DEFINE ev == [key |-> OspfKey, raise |-> FALSE]
      <4>1. ev.key = OspfKey
        OBVIOUS
      <4>2. ev.raise = FALSE
        OBVIOUS
      <4>3. \A e : e \in Range(evs) /\ e.key = OspfKey <=> e = ev
        BY <2>0, <3>1
      <4> HIDE DEF ev
      <4> QED BY <4>1, <4>2, <4>3, Zenon
    <3>3. ~WillOpen(OspfKey)'
      BY <1>9, <3>2
    <3>4. \A n \in everUp' \cap Nbr : t.ospf[n] = "full"
      BY <1>8, <1>10, <2>2 DEF AllFull
    <3> QED BY <1>10, <3>3, <3>4
  <2>3. CASE LostNbrs(kept, t) = {} /\ ~(BackNbrs(kept, t) # {} /\ AllFull(t))
    <3>1. Range(OspfEvents(kept, t)) = {}
      BY <2>3, OspfRange
    <3>2. WillOpen(OspfKey)' <=> WillOpen(OspfKey)
      BY <1>9, <2>0, <3>1
    <3>3. ASSUME NEW n \in everUp' \cap Nbr, t.ospf[n] # "full"
          PROVE  WillOpen(OspfKey)
      BY <1>5, <1>6, <2>3, <3>3 DEF LostNbrs
    <3>4. ASSUME NEW n \in Nbr, kept.ospf[n] = "partial"
          PROVE  \E m \in Nbr : t.ospf[m] = "partial"
      <4>1. CASE t.ospf[n] = "partial"
        BY <4>1
      <4>2. CASE t.ospf[n] = "full"
        <5>1. n \in BackNbrs(kept, t)
          BY <3>4, <4>2 DEF BackNbrs
        <5> QED BY <2>3, <5>1 DEF AllFull
      <4> QED BY <1>7, <1>8, <3>4, <4>1, <4>2
    <3> QED BY <1>5, <1>10, <3>2, <3>3, <3>4
  <2> QED BY <2>1, <2>2, <2>3
<1> QED BY <1>11, <1>12

LEMMA PollLag ==
    ASSUME RoutingInv, NEW t \in WalkResult, PollRouting(t), ~NothingFound(t)
    PROVE  LagAgrees'
<1>0. RoutingTypes /\ LagAgrees
  BY DEF RoutingInv
<1>1. /\ kept' = t /\ t # NoWalk /\ opened' = opened
      /\ everUp' = everUp \cup {p \in Peer : Up(t, p)} \cup {n \in Nbr : t.ospf[n] = "full"}
  BY <1>0, PollKept
<1>2. PICK evs \in Seq(RoutingEvent) :
                 /\ evs \in IF kept = NoWalk THEN {<<>>} ELSE RoutingEvents(kept, t)
                 /\ bus' = bus \o Emitted(evs) /\ strayed' = strayed \cup Unsent(evs) \cup LeftOut(kept, t)
  BY <1>0, PollKept
<1>3. SUFFICES ASSUME LagKey \notin strayed', WillOpen(LagKey)'
               PROVE  t.lag.up < t.lag.members
  BY <1>1 DEF LagAgrees
<1>4. LagKey \notin strayed /\ LagKey \notin Unsent(evs) /\ LagKey \notin LeftOut(kept, t)
  BY <1>2, <1>3
<1>5. WillOpen(LagKey) => kept.lag.up < kept.lag.members
  BY <1>0, <1>4 DEF LagAgrees
<1>6. kept.lag.members \in {0, t.lag.members}
  BY <1>4 DEF LeftOut
<1>7. /\ kept.lag.up \in Nat /\ kept.lag.members \in Nat /\ kept.lag.up <= kept.lag.members
      /\ t.lag.up \in Nat /\ t.lag.members \in Nat /\ t.lag.up <= t.lag.members
  BY <1>0, WalkTypes DEF RoutingTypes
<1>8. /\ (\A e \in Range(evs) : e.key # LagKey) => (WillOpen(LagKey)' <=> WillOpen(LagKey))
      /\ \A r \in BOOLEAN : (\E e \in Range(evs) : e.key = LagKey) /\ (\A e \in Range(evs) : e.key = LagKey => e.raise = r)
                            => (WillOpen(LagKey)' <=> r)
  BY <1>0, <1>1, <1>2, <1>4, KeyDecided DEF RoutingTypes
<1>9. CASE kept = NoWalk
  <2>1. Range(evs) = {}
    BY <1>2, <1>9, OneEvent
  <2>2. kept.lag.up = 0 /\ kept.lag.members = 0
    BY <1>9 DEF NoWalk
  <2>3. WillOpen(LagKey)
    BY <1>3, <1>8, <2>1
  <2> QED BY <1>5, <2>2, <2>3
<1>10. CASE kept # NoWalk
  <2>0. \A e : e \in Range(evs) /\ e.key = LagKey <=> e \in Range(LagEvents(kept, t))
    BY <1>2, <1>10, DeviceKeyEvents
  <2>1. CASE Range(LagEvents(kept, t)) = {}
    <3>1. kept.lag.up < kept.lag.members
      BY <1>3, <1>5, <1>8, <2>0, <2>1
    <3>2. kept.lag.members = t.lag.members /\ kept.lag.members # 0
      BY <1>6, <1>7, <3>1
    <3>3. ~(t.lag.up < kept.lag.up) /\ ~(t.lag.up > kept.lag.up /\ t.lag.up = t.lag.members)
      BY <2>1, <3>2, OtherRange
    <3> QED BY <1>7, <3>1, <3>2, <3>3
  <2>2. CASE Range(LagEvents(kept, t)) = {[key |-> LagKey, raise |-> TRUE]}
    <3>0. [key |-> LagKey, raise |-> TRUE].raise # [key |-> LagKey, raise |-> FALSE].raise
      OBVIOUS
    <3>00. [key |-> LagKey, raise |-> TRUE] # [key |-> LagKey, raise |-> FALSE]
      BY <3>0
    <3> DEFINE opening == [key |-> LagKey, raise |-> TRUE]
               ended == [key |-> LagKey, raise |-> FALSE]
    <3>1. kept.lag.members # 0 /\ t.lag.up < kept.lag.up
      <4>1. /\ Range(LagEvents(kept, t)) # {} /\ Range(LagEvents(kept, t)) # {ended}
        <5>1. opening # ended /\ Range(LagEvents(kept, t)) = {opening}
          BY <2>2, <3>00
        <5> HIDE DEF opening, ended
        <5> QED BY <5>1
      <4> QED BY <4>1, OtherRange
    <3> QED BY <1>6, <1>7, <3>1
  <2>3. CASE Range(LagEvents(kept, t)) = {[key |-> LagKey, raise |-> FALSE]}
    <3>1. (\E e \in Range(evs) : e.key = LagKey) /\ (\A e \in Range(evs) : e.key = LagKey => e.raise = FALSE)
      <4> DEFINE ev == [key |-> LagKey, raise |-> FALSE]
      <4>1. ev.key = LagKey
        OBVIOUS
      <4>2. ev.raise = FALSE
        OBVIOUS
      <4>3. \A e : e \in Range(evs) /\ e.key = LagKey <=> e = ev
        BY <2>0, <2>3
      <4> HIDE DEF ev
      <4> QED BY <4>1, <4>2, <4>3, Zenon
    <3> QED BY <1>3, <1>8, <3>1
  <2> QED BY <2>1, <2>2, <2>3, OtherRange
<1> QED BY <1>9, <1>10

\* The steps of the engine and a stop.
LEMMA EngineStep ==
    ASSUME RoutingInv, TakeEvent \/ RoutingRestarts \/ \E k \in Expiring : AlertExpires(k)
    PROVE  RoutingInv'
<1>1. RoutingTypes /\ UNCHANGED <<kept, everUp>> /\ strayed \subseteq strayed'
  BY DEF RoutingInv, TakeEvent, RoutingRestarts, AlertExpires
<1>2. bus' \in Seq(RoutingEvent) /\ Len(bus') <= BusCap
  <2>1. CASE TakeEvent
    <3>1. bus \in Seq(RoutingEvent) /\ bus # <<>> /\ bus' = Tail(bus) /\ Len(bus) <= BusCap /\ BusCap \in Nat
      BY <1>1, <2>1, RoutingAssumption DEF TakeEvent, RoutingTypes
    <3> QED BY <3>1
  <2>2. CASE RoutingRestarts
    BY <2>2, RoutingAssumption DEF RoutingRestarts
  <2>3. CASE \E k \in Expiring : AlertExpires(k)
    BY <1>1, <2>3 DEF AlertExpires, RoutingTypes
  <2> QED BY <2>1, <2>2, <2>3
<1>3. RoutingTypes'
  BY <1>1, <1>2 DEF RoutingTypes, Up
<1>4. ASSUME NEW k, k \notin strayed', k \notin Expiring
      PROVE  WillOpen(k)' <=> WillOpen(k)
  <2>1. CASE TakeEvent
    BY <1>1, <2>1, TakeKeeps DEF RoutingTypes
  <2>2. CASE RoutingRestarts
    <3>1. bus' = <<>> /\ opened' = opened /\ \A i \in DOMAIN bus : bus[i].key # k
      BY <1>4, <2>2 DEF RoutingRestarts
    <3> QED BY <3>1 DEF WillOpen, LastOf
  <2>3. CASE \E x \in Expiring : AlertExpires(x)
    <3>1. bus' = bus /\ (k \in opened' <=> k \in opened)
      BY <1>4, <2>3 DEF AlertExpires
    <3> QED BY <3>1 DEF WillOpen, LastOf
  <2> QED BY <2>1, <2>2, <2>3
<1>5. (\A p \in Peer : BgpKey(p) \notin Expiring) /\ OspfKey \notin Expiring /\ LagKey \notin Expiring
  BY DEF Expiring, BgpKey, PrefixKey, OspfKey, LagKey, RootKey, ChangeKey
<1>6. BgpAgrees'
  BY <1>1, <1>4, <1>5 DEF RoutingInv, BgpAgrees, Up
<1>7. OspfAgrees'
  BY <1>1, <1>4, <1>5 DEF RoutingInv, OspfAgrees
<1>8. LagAgrees'
  BY <1>1, <1>4, <1>5 DEF RoutingInv, LagAgrees
<1> QED BY <1>3, <1>6, <1>7, <1>8 DEF RoutingInv

\* Once the events are taken the BGP, OSPF and aggregation alerts are what the tables
\* of the last walk say, for any number of peers and neighbours, any tables and any
\* size of the channel, except for a key of which an event was lost or an entry left
\* its table (routing.go, routingEvents; poller.go, emitEvent; engine.go, onEvent).
THEOREM AlertsAreTheTables == RoutingSpec => []RoutingAlertsAgree
<1>1. RoutingInit => RoutingInv
  <2> SUFFICES ASSUME RoutingInit PROVE RoutingInv
    OBVIOUS
  <2>1. RoutingTypes
    BY RoutingAssumption DEF RoutingInit, RoutingTypes, NoWalk, Up
  <2>2. \A k : ~WillOpen(k)
    BY DEF RoutingInit, WillOpen
  <2>3. everUp = {}
    BY DEF RoutingInit
  <2> QED BY <2>1, <2>2, <2>3 DEF RoutingInv, BgpAgrees, OspfAgrees, LagAgrees
<1>2. ASSUME RoutingInv, [RoutingNext]_routingVars
      PROVE  RoutingInv'
  <2>1. CASE UNCHANGED <<kept, bus, opened, everUp, strayed>>
    <3>1. \A k : WillOpen(k)' <=> WillOpen(k)
      BY <2>1 DEF WillOpen, LastOf
    <3> QED BY <1>2, <2>1, <3>1 DEF RoutingInv, RoutingTypes, BgpAgrees, OspfAgrees, LagAgrees, Up
  <2>2. ASSUME NEW t \in WalkResult, PollRouting(t)
        PROVE  RoutingInv'
    <3>1. CASE NothingFound(t)
      BY <2>1, <2>2, <3>1 DEF PollRouting
    <3>2. CASE ~NothingFound(t)
      BY <1>2, <2>2, <3>2, PollKept, PollBgp, PollOspf, PollLag DEF RoutingInv
    <3> QED BY <3>1, <3>2
  <2>3. UNCHANGED routingVars => UNCHANGED <<kept, bus, opened, everUp, strayed>>
    BY DEF routingVars
  <2> QED BY <1>2, <2>1, <2>2, <2>3, EngineStep DEF RoutingNext
<1>3. RoutingInv => RoutingAlertsAgree
  <2> SUFFICES ASSUME RoutingInv, bus = <<>> PROVE RoutingAlertsAgree
    BY DEF RoutingAlertsAgree
  <2>1. \A k : WillOpen(k) <=> k \in opened
    BY DEF WillOpen
  <2>2. \A p \in Peer : BgpKey(p) \notin strayed => (BgpKey(p) \in opened <=> p \in everUp /\ ~Up(kept, p))
    BY <2>1 DEF RoutingInv, BgpAgrees
  <2>3. OspfKey \notin strayed => /\ (\E n \in everUp \cap Nbr : kept.ospf[n] # "full") => OspfKey \in opened
                                  /\ OspfKey \in opened => \E n \in Nbr : kept.ospf[n] # "full"
    BY <2>1 DEF RoutingInv, OspfAgrees
  <2>4. LagKey \notin strayed /\ LagKey \in opened => kept.lag.up < kept.lag.members
    BY <2>1 DEF RoutingInv, LagAgrees
  <2> QED BY <2>2, <2>3, <2>4 DEF RoutingAlertsAgree
<1> QED BY <1>1, <1>2, <1>3, PTL DEF RoutingSpec

=============================================================================
