------------------------------ MODULE Accounts ------------------------------
(***************************************************************************)
(* Users, sessions and API tokens of the console                           *)
(* (internal/webui/server.go, internal/auth/auth.go).                      *)
(*                                                                         *)
(* Every handler runs on its own goroutine and the store's lock covers one *)
(* call only, so a handler that reads the users, hashes a password (which  *)
(* takes a while) and then stores a user is two steps here.  req[c] is the *)
(* request client c has in flight with what it read; sess[c] is the        *)
(* session its cookie names.                                               *)
(***************************************************************************)
EXTENDS Naturals, FiniteSets

CONSTANTS
    Client,       \* browsers
    UserName,     \* names a user may have
    Role,         \* the roles in use
    MaxUsers,     \* Caps.MaxUsers of the licence in force
    MaxFail,      \* failed sign-ins from one address before it is locked out
    MaxUserIds    \* bound: users ever created

ASSUME AccountsAssumption ==
    /\ {"admin"} \subseteq Role /\ Role \subseteq {"viewer", "operator", "admin"}
    /\ MaxUsers \in Nat \ {0}
    /\ MaxFail \in Nat \ {0}
    /\ MaxUserIds \in Nat

VARIABLES
    users,      \* the store's users
    tokens,     \* the roles of the store's API tokens
    sess,       \* the session table, by the client that holds the cookie
    req,        \* the handler each client has in flight
    fails,      \* Server.loginFail, by client address
    userIds,    \* IDs handed out by model.NewID
    crossed     \* users deleted while one of their sign-ins was in flight

accountVars == <<users, tokens, sess, req, fails, userIds, crossed>>

User == [id : 1 .. MaxUserIds, name : UserName, role : Role]
NoSession == [id |-> 0]
Session == [id : 1 .. MaxUserIds, role : Role]
NoRequest == [op |-> "none"]
Request == [op : {"setup", "login", "add", "password", "delete"}, user : User]

\* roleAllows.
Rank == [viewer |-> 1, operator |-> 2, admin |-> 3]
RoleAllows(have, need) == Rank[have] >= Rank[need]

\* require, session and tokenSession: who client c may act as on a route that
\* needs the role, by its cookie's live session or by a token.
Require(c, need) ==
    {a \in {sess[c]} \cup {[id |-> 0, role |-> r] : r \in tokens} :
       a # NoSession /\ req[c] = NoRequest /\ RoleAllows(a.role, need)}

Begin(c, op, u) == req' = [req EXCEPT ![c] = [op |-> op, user |-> u]]
End(c) == req' = [req EXCEPT ![c] = NoRequest]
InFlight(c, op) == req[c] # NoRequest /\ req[c].op = op

\* Store.PutUser: by ID, whether or not the ID is still there.
PutUser(u) == users' = {v \in users : v.id # u.id} \cup {u}

NewUser(name, role) == [id |-> userIds + 1, name |-> name, role |-> role]

-----------------------------------------------------------------------------
\* setup: refused when there is a user; the first user is an admin and is
\* signed in.
SetupCheck(c, name) ==
    /\ req[c] = NoRequest
    /\ users = {}
    /\ userIds < MaxUserIds
    /\ Begin(c, "setup", NewUser(name, "admin"))
    /\ userIds' = userIds + 1
    /\ UNCHANGED <<users, tokens, sess, fails, crossed>>

SetupPut(c) ==
    /\ InFlight(c, "setup")
    /\ LET u == req[c].user IN
         /\ PutUser(u)
         /\ sess' = [sess EXCEPT ![c] = [id |-> u.id, role |-> u.role]]
    /\ End(c)
    /\ UNCHANGED <<tokens, fails, userIds, crossed>>

\* login: the address is not locked out, and the name and password match.
LoginLookup(c) ==
    /\ req[c] = NoRequest
    /\ fails[c] < MaxFail
    /\ \E u \in users : Begin(c, "login", u)
    /\ UNCHANGED <<users, tokens, sess, fails, userIds, crossed>>

\* ... or they do not; the failure is remembered for ten minutes.
LoginFailed(c) ==
    /\ req[c] = NoRequest
    /\ fails[c] < MaxFail
    /\ fails' = [fails EXCEPT ![c] = @ + 1]
    /\ UNCHANGED <<users, tokens, sess, req, userIds, crossed>>

FailuresForgotten(c) ==
    /\ fails[c] > 0
    /\ fails' = [fails EXCEPT ![c] = 0]
    /\ UNCHANGED <<users, tokens, sess, req, userIds, crossed>>

\* Sessions.Create, after the password was verified.
LoginCreate(c) ==
    /\ InFlight(c, "login")
    /\ sess' = [sess EXCEPT ![c] = [id |-> req[c].user.id, role |-> req[c].user.role]]
    /\ End(c)
    /\ UNCHANGED <<users, tokens, fails, userIds, crossed>>

\* The logout route, and Sessions.Get past the session's seven days.
Logout(c) ==
    /\ req[c] = NoRequest
    /\ sess[c] # NoSession
    /\ sess' = [sess EXCEPT ![c] = NoSession]
    /\ UNCHANGED <<users, tokens, req, fails, userIds, crossed>>

\* addUser: the licence's number of users, the name, then the password hash.
AddUserCheck(c, name, role) ==
    /\ Require(c, "admin") # {}
    /\ Cardinality(users) < MaxUsers
    /\ \A u \in users : u.name # name
    /\ userIds < MaxUserIds
    /\ Begin(c, "add", NewUser(name, role))
    /\ userIds' = userIds + 1
    /\ UNCHANGED <<users, tokens, sess, fails, crossed>>

AddUserPut(c) ==
    /\ InFlight(c, "add")
    /\ PutUser(req[c].user)
    /\ End(c)
    /\ UNCHANGED <<tokens, sess, fails, userIds, crossed>>

\* PUT /api/users/{id}/password: a copy of the user is changed and stored.
PasswordRead(c) ==
    /\ \E u \in users, a \in Require(c, "viewer") :
         /\ u.id = a.id \/ a.role = "admin"
         /\ Begin(c, "password", u)
    /\ UNCHANGED <<users, tokens, sess, fails, userIds, crossed>>

PasswordPut(c) ==
    /\ InFlight(c, "password")
    /\ PutUser(req[c].user)
    /\ End(c)
    /\ UNCHANGED <<tokens, sess, fails, userIds, crossed>>

\* DELETE /api/users/{id}: the store first, ...
DeleteStored(c) ==
    /\ \E u \in users, a \in Require(c, "admin") :
         /\ u.id # a.id
         /\ users' = {v \in users : v.id # u.id}
         /\ Begin(c, "delete", u)
         /\ crossed' = IF \E d \in Client : req[d] # NoRequest /\ req[d].user.id = u.id
                         THEN crossed \cup {u.id} ELSE crossed
    /\ UNCHANGED <<tokens, sess, fails, userIds>>

\* Mutant: the sessions are left alone.
DeleteSessionsForgotten(c) ==
    /\ InFlight(c, "delete")
    /\ End(c)
    /\ UNCHANGED <<users, tokens, sess, fails, userIds, crossed>>

\* ... then Sessions.DeleteUser.
DeleteSessions(c) ==
    /\ InFlight(c, "delete")
    /\ sess' = [d \in Client |->
                  IF sess[d].id = req[c].user.id THEN NoSession ELSE sess[d]]
    /\ End(c)
    /\ UNCHANGED <<users, tokens, fails, userIds, crossed>>

\* addToken: no token outranks its creator.
AddToken(c, role) ==
    /\ \E a \in Require(c, "admin") : RoleAllows(a.role, role)
    /\ tokens' = tokens \cup {role}
    /\ UNCHANGED <<users, sess, req, fails, userIds, crossed>>

DeleteToken(c) ==
    /\ Require(c, "admin") # {}
    /\ \E t \in tokens : tokens' = tokens \ {t}
    /\ UNCHANGED <<users, sess, req, fails, userIds, crossed>>

-----------------------------------------------------------------------------
AccountsInit ==
    /\ users = {}
    /\ tokens = {}
    /\ sess = [c \in Client |-> NoSession]
    /\ req = [c \in Client |-> NoRequest]
    /\ fails = [c \in Client |-> 0]
    /\ userIds = 0
    /\ crossed = {}

AccountsNext ==
    \E c \in Client :
      \/ \E name \in UserName : SetupCheck(c, name)
      \/ SetupPut(c)
      \/ LoginLookup(c)
      \/ LoginFailed(c)
      \/ FailuresForgotten(c)
      \/ LoginCreate(c)
      \/ Logout(c)
      \/ \E name \in UserName, role \in Role : AddUserCheck(c, name, role)
      \/ AddUserPut(c)
      \/ PasswordRead(c)
      \/ PasswordPut(c)
      \/ DeleteStored(c)
      \/ DeleteSessions(c)
      \/ \E role \in Role : AddToken(c, role)
      \/ DeleteToken(c)

AccountsSpec == AccountsInit /\ [][AccountsNext]_accountVars

AccountsTypeOK ==
    /\ users \subseteq User
    /\ tokens \subseteq Role
    /\ sess \in [Client -> Session \cup {NoSession}]
    /\ req \in [Client -> Request \cup {NoRequest}]
    /\ fails \in [Client -> 0 .. MaxFail]
    /\ userIds \in 0 .. MaxUserIds
    /\ crossed \subseteq 1 .. MaxUserIds

(***************************************************************************)
(* Deleting a user signs it out everywhere: a session outlives its user    *)
(* only while the delete request has not ended its sessions yet, or when   *)
(* one of the user's own requests (a sign-in past its password check, a    *)
(* password change) was in flight at that moment.                          *)
(***************************************************************************)
SessionsHaveUsers ==
    \A c \in Client :
       sess[c] # NoSession =>
          \/ \E u \in users : u.id = sess[c].id
          \/ sess[c].id \in crossed
          \/ \E d \in Client : InFlight(d, "delete") /\ req[d].user.id = sess[c].id
=============================================================================
