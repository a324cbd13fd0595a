------------------------------- MODULE Poller -------------------------------
(***************************************************************************)
(* The poller's schedule (internal/poller/poller.go): which device is      *)
(* polled when, by how many workers, on one node of a cluster.             *)
(*                                                                         *)
(* Times are kept as what is left of them: next[d] and invDue[d] count     *)
(* down to the poll and to the inventory walk that are due at 0.  A poll   *)
(* is its beginning (in Run), what it reads (PollDevice) and its end.      *)
(***************************************************************************)
EXTENDS Naturals, FiniteSets

CONSTANTS
    Target,       \* devices
    Workers,      \* Poller.Workers: capacity of sem
    PollEvery,    \* seconds between polls
    InvEvery,     \* seconds between inventory walks (15 minutes)
    SampleCap,    \* capacity of the DeviceSamples channel
    InventoryAll  \* does this node walk devices others poll (the leader)?

ASSUME PollerAssumption ==
    /\ {Workers, PollEvery, InvEvery, SampleCap} \subseteq Nat \ {0}
    /\ InventoryAll \in BOOLEAN

VARIABLES
    monitored,  \* the store's monitored devices
    assigned,   \* Poller.assigned; Everything stands for nil
    next,       \* Poller.next, Unset when there is no entry
    invDue,     \* Poller.invAt
    inflight,   \* Poller.inflight
    scan,       \* devices Run has still to look at in this pass
    sem,        \* what Run wants to start and has no slot for yet, or nothing
    polls,      \* goroutines started by Run
    queued      \* device samples the engine has not taken yet

pollerVars == <<monitored, assigned, next, invDue, inflight, scan, sem, polls, queued>>

Unset == PollEvery + 1
Everything == Target
Kind == {"poll", "inventory"}
Job == [dev : Target, kind : Kind, read : BOOLEAN]
NewJob(d, kind) == [dev |-> d, kind |-> kind, read |-> FALSE]

\* Is d this node's to poll?  (nil: every device)
Ours(d) == d \in monitored /\ d \in assigned

-----------------------------------------------------------------------------
\* Run: one pass over the store's devices, every second.
Pass ==
    /\ scan = {} /\ sem = {}
    /\ scan' = monitored
    /\ UNCHANGED <<monitored, assigned, next, invDue, inflight, sem, polls, queued>>

Considered(d) ==
    /\ sem = {}
    /\ d \in scan
    /\ scan' = scan \ {d}
    /\ UNCHANGED <<monitored, assigned, polls, queued>>

\* Mutant: a walk in progress does not keep the next one from starting.
WalkElsewhereAgain(d) ==
    /\ Considered(d)
    /\ d \notin assigned
    /\ LET due == InventoryAll /\ invDue[d] = 0 IN
         /\ sem' = IF due THEN {NewJob(d, "inventory")} ELSE {}
         /\ inflight' = IF due THEN inflight \cup {d} ELSE inflight
         /\ invDue' = IF due THEN [invDue EXCEPT ![d] = InvEvery] ELSE invDue
    /\ UNCHANGED next

\* A device polled elsewhere: the leader keeps its inventory fresh.
WalkElsewhere(d) ==
    /\ Considered(d)
    /\ d \notin assigned
    /\ LET due == InventoryAll /\ invDue[d] = 0 /\ d \notin inflight IN
         /\ sem' = IF due THEN {NewJob(d, "inventory")} ELSE {}
         /\ inflight' = IF due THEN inflight \cup {d} ELSE inflight
         /\ invDue' = IF due THEN [invDue EXCEPT ![d] = InvEvery] ELSE invDue
    /\ UNCHANGED next

\* A device of this node: the first poll is somewhere in its interval.
PollIfDue(d) ==
    /\ Considered(d)
    /\ d \in assigned
    /\ \E nx \in IF next[d] = Unset THEN 0 .. PollEvery - 1 ELSE {next[d]} :
         LET due == nx = 0 /\ d \notin inflight IN
         /\ next' = [next EXCEPT ![d] = nx]
         /\ sem' = IF due THEN {NewJob(d, "poll")} ELSE {}
         /\ inflight' = IF due THEN inflight \cup {d} ELSE inflight
    /\ UNCHANGED invDue

\* Run waits here for a slot, and nothing else is looked at meanwhile.
Acquire ==
    /\ sem # {}
    /\ Cardinality(polls) < Workers
    /\ polls' = polls \cup sem
    /\ sem' = {}
    /\ UNCHANGED <<monitored, assigned, next, invDue, inflight, scan, queued>>

-----------------------------------------------------------------------------
\* pollDevice: one sample, whether or not the device answers; publishDevice
\* drops it when the channel is full.  A device that answers has its inventory
\* walked when that is due.
PollDevice(j, answers) ==
    /\ j \in polls /\ j.kind = "poll" /\ ~j.read
    /\ polls' = (polls \ {j}) \cup {[j EXCEPT !.read = TRUE]}
    /\ queued' = IF queued < SampleCap THEN queued + 1 ELSE queued
    /\ invDue' = IF answers /\ invDue[j.dev] = 0 THEN [invDue EXCEPT ![j.dev] = InvEvery] ELSE invDue
    /\ UNCHANGED <<monitored, assigned, next, inflight, scan, sem>>

\* Mutant: the next poll is planned but the device stays marked as in flight.
PollDoneInFlight(j) ==
    /\ j \in polls /\ j.kind = "poll" /\ j.read
    /\ polls' = polls \ {j}
    /\ next' = [next EXCEPT ![j.dev] = PollEvery]
    /\ UNCHANGED <<monitored, assigned, invDue, inflight, scan, sem, queued>>

\* The end of the goroutine Run starts for a poll: the next one is planned
\* from here, whatever happened to the entry meanwhile.
PollDone(j) ==
    /\ j \in polls /\ j.kind = "poll" /\ j.read
    /\ polls' = polls \ {j}
    /\ inflight' = inflight \ {j.dev}
    /\ next' = [next EXCEPT ![j.dev] = PollEvery]
    /\ UNCHANGED <<monitored, assigned, invDue, scan, sem, queued>>

\* inventoryOnly and the end of its goroutine.
InventoryOnly(j) ==
    /\ j \in polls /\ j.kind = "inventory"
    /\ polls' = polls \ {j}
    /\ inflight' = inflight \ {j.dev}
    /\ UNCHANGED <<monitored, assigned, next, invDue, scan, sem, queued>>

-----------------------------------------------------------------------------
\* PollNow: after a trap, or from the console.
PollNow(d) ==
    /\ next' = [next EXCEPT ![d] = 0]
    /\ UNCHANGED <<monitored, assigned, invDue, inflight, scan, sem, polls, queued>>

\* Forget, called when a device is deleted; inflight is left alone.
Forget(d) ==
    /\ d \in monitored
    /\ monitored' = monitored \ {d}
    /\ next' = [next EXCEPT ![d] = Unset]
    /\ invDue' = [invDue EXCEPT ![d] = 0]
    /\ UNCHANGED <<assigned, inflight, scan, sem, polls, queued>>

\* SetAssigned: the cluster hands out the devices anew.
SetAssigned(ids) ==
    /\ ids # assigned
    /\ assigned' = ids
    /\ UNCHANGED <<monitored, next, invDue, inflight, scan, sem, polls, queued>>

\* The engine takes a sample.
EngineTakes ==
    /\ queued > 0
    /\ queued' = queued - 1
    /\ UNCHANGED <<monitored, assigned, next, invDue, inflight, scan, sem, polls>>

Down(n) == IF n = 0 THEN 0 ELSE n - 1

Second ==
    /\ next' = [d \in Target |-> IF next[d] = Unset THEN Unset ELSE Down(next[d])]
    /\ invDue' = [d \in Target |-> Down(invDue[d])]
    /\ UNCHANGED <<monitored, assigned, inflight, scan, sem, polls, queued>>

-----------------------------------------------------------------------------
PollerInit ==
    /\ monitored = Target
    /\ assigned \in {Everything, {}}
    /\ next = [d \in Target |-> Unset]
    /\ invDue = [d \in Target |-> 0]
    /\ inflight = {}
    /\ scan = {}
    /\ sem = {}
    /\ polls = {}
    /\ queued = 0

RunLoop ==
    \/ Pass
    \/ \E d \in Target : WalkElsewhere(d)
    \/ \E d \in Target : PollIfDue(d)
    \/ Acquire

Goroutine(d) ==
    \/ \E j \in {j \in polls : j.dev = d}, answers \in BOOLEAN : PollDevice(j, answers)
    \/ \E j \in {j \in polls : j.dev = d} : PollDone(j)
    \/ \E j \in {j \in polls : j.dev = d} : InventoryOnly(j)

PollerNext ==
    \/ RunLoop
    \/ \E d \in Target : Goroutine(d)
    \/ \E d \in Target : PollNow(d)
    \/ \E d \in Target : Forget(d)
    \/ \E ids \in SUBSET Target : SetAssigned(ids)
    \/ EngineTakes
    \/ Second

PollerSpec == PollerInit /\ [][PollerNext]_pollerVars

\* The loop and the clock go on, and every poll ends (each of its requests has
\* a timeout and a number of retries).
PollerFairness ==
    /\ WF_pollerVars(RunLoop)
    /\ WF_pollerVars(Second)
    /\ \A d \in Target : WF_pollerVars(Goroutine(d))

PollerTypeOK ==
    /\ monitored \subseteq Target /\ assigned \subseteq Target
    /\ next \in [Target -> 0 .. Unset]
    /\ invDue \in [Target -> 0 .. InvEvery]
    /\ inflight \subseteq Target /\ scan \subseteq Target
    /\ sem \subseteq Job /\ polls \subseteq Job
    /\ queued \in 0 .. SampleCap

(***************************************************************************)
(* A device is never polled or walked by two goroutines of this node at a  *)
(* time, whoever asks for the poll, whenever the device is handed to       *)
(* another node and back, and even if it is forgotten meanwhile.           *)
(***************************************************************************)
OneVisitAtATime ==
    \A j, k \in polls \cup sem : j.dev = k.dev => j = k

(***************************************************************************)
(* A monitored device that stays this node's is polled again and again,    *)
(* and one that stays another node's is walked again and again by the node *)
(* that owns the inventory, however few the workers are.                   *)
(***************************************************************************)
Visited(d, kind) == \E j \in polls : j.dev = d /\ j.kind = kind
EveryDeviceVisited ==
    PollerFairness => \A d \in Target :
      /\ <>[]Ours(d) => []<>Visited(d, "poll")
      /\ InventoryAll /\ <>[](d \in monitored \ assigned) => []<>Visited(d, "inventory")
=============================================================================
