----------------------------- MODULE StoreLock ------------------------------
(***************************************************************************)
(* The store's read-write lock and the calls that hold it                  *)
(* (internal/store/store.go: Store.mu; internal/webui/server.go,           *)
(* internal/poller/poller.go and the engine call it from many goroutines). *)
(*                                                                         *)
(* sync.RWMutex (Go's, external): readers share it, a writer has it alone, *)
(* a writer that waits keeps new readers out, and a writer that leaves     *)
(* lets the waiting readers in.  Getters and list methods read; Put,       *)
(* Delete and Update write.  UpdateDevice runs its caller's function while *)
(* it holds the lock.                                                      *)
(***************************************************************************)
EXTENDS Naturals, FiniteSets

CONSTANT Caller     \* goroutines

VARIABLES
    call,       \* what each goroutine is in: nothing, a getter, a write, an update
    lockPc,     \* "out", "rwait", "wwait", "in" or, inside an update, "nested"
    readers,    \* goroutines that hold the lock for reading
    writer      \* goroutines that hold it for writing

lockVars == <<call, lockPc, readers, writer>>

Calls == {"none", "get", "write", "update"}
Waiting(pc) == {c \in Caller : lockPc[c] = pc}

\* A goroutine calls the store: Device, Devices, Site, ... / PutDevice,
\* PutSite, DeleteDevice, ... / UpdateDevice.
StoreCall(c, what) ==
    /\ lockPc[c] = "out"
    /\ call' = [call EXCEPT ![c] = what]
    /\ lockPc' = [lockPc EXCEPT ![c] = IF what = "get" THEN "rwait" ELSE "wwait"]
    /\ UNCHANGED <<readers, writer>>

\* RLock, in a getter or in a function UpdateDevice runs.
CanRead == writer = {} /\ Waiting("wwait") = {}

RLock(c) ==
    /\ lockPc[c] = "rwait"
    /\ CanRead
    /\ readers' = readers \cup {c}
    /\ lockPc' = [lockPc EXCEPT ![c] = "in"]
    /\ UNCHANGED <<call, writer>>

Lock(c) ==
    /\ lockPc[c] = "wwait"
    /\ writer = {} /\ readers = {}
    /\ writer' = {c}
    /\ lockPc' = [lockPc EXCEPT ![c] = "in"]
    /\ UNCHANGED <<call, readers>>

\* Mutant: a write forgets to unlock.
UnlockForgotten(c) ==
    /\ lockPc[c] = "in"
    /\ lockPc' = [lockPc EXCEPT ![c] = "out"]
    /\ call' = [call EXCEPT ![c] = "none"]
    /\ readers' = readers \ {c}
    /\ UNCHANGED writer

\* The end of the call (defer mu.Unlock, defer mu.RUnlock).  A writer lets in
\* the readers that wait, before the next writer.
Unlock(c) ==
    /\ lockPc[c] = "in"
    /\ LET let == IF c \in writer THEN Waiting("rwait") ELSE {} IN
         /\ lockPc' = [d \in Caller |-> IF d = c THEN "out" ELSE IF d \in let THEN "in" ELSE lockPc[d]]
         /\ readers' = (readers \ {c}) \cup let
    /\ call' = [call EXCEPT ![c] = "none"]
    /\ writer' = writer \ {c}

\* updateDevice: the function given to UpdateDevice looks the site up.
UpdateLooksSiteUp(c) ==
    /\ lockPc[c] = "in"
    /\ call[c] = "update"
    /\ lockPc' = [lockPc EXCEPT ![c] = "nested"]
    /\ UNCHANGED <<call, readers, writer>>

NestedRLock(c) ==
    /\ lockPc[c] = "nested"
    /\ CanRead
    /\ lockPc' = [lockPc EXCEPT ![c] = "in"]
    /\ UNCHANGED <<call, readers, writer>>

-----------------------------------------------------------------------------
LockInit ==
    /\ call = [c \in Caller |-> "none"]
    /\ lockPc = [c \in Caller |-> "out"]
    /\ readers = {}
    /\ writer = {}

Inside(c) == RLock(c) \/ Lock(c) \/ Unlock(c)

LockNext ==
    \E c \in Caller :
      \/ \E what \in Calls \ {"none"} : StoreCall(c, what)
      \/ Inside(c)

\* The same with requests that move a device to another site.
MoveNext == LockNext \/ \E c \in Caller : UpdateLooksSiteUp(c) \/ NestedRLock(c)

\* A goroutine inside the store goes on, and the mutex does not pass over a
\* waiter for ever.
LockFairness ==
    \A c \in Caller : SF_lockVars(Lock(c)) /\ WF_lockVars(Inside(c)) /\ WF_lockVars(NestedRLock(c))

MoveSpec == LockInit /\ [][MoveNext]_lockVars /\ LockFairness

LockTypeOK ==
    /\ call \in [Caller -> Calls]
    /\ lockPc \in [Caller -> {"out", "rwait", "wwait", "in", "nested"}]
    /\ readers \subseteq Caller
    /\ writer \subseteq Caller

(***************************************************************************)
(* UpdateDevice "is the safe way to change a few fields concurrently":     *)
(* every call of the store returns, whatever the other goroutines call.    *)
(***************************************************************************)
CallsReturn == LockFairness => \A c \in Caller : []<>(lockPc[c] = "out")
=============================================================================
