----------------------------- MODULE Forwarder -----------------------------
(***************************************************************************)
(* The queue between a standby or collector and the leader                 *)
(* (internal/cluster/sync.go, Forwarder; handleIngest in transport.go).    *)
(*                                                                         *)
(* Samples, events and traps are never dropped: they are one sequence here *)
(* ("kept"), numbered in the order they were added.  Metrics, log lines    *)
(* and flows are the cheap kinds, of which only the numbers matter.        *)
(*                                                                         *)
(* Flush takes the whole queue under f.mu and posts it without the lock,   *)
(* so producers go on adding meanwhile.  A posted batch stays in transit:  *)
(* the leader may handle it after the sender's timeout, and more than once *)
(* when it was sent more than once.                                        *)
(***************************************************************************)
EXTENDS Integers, Sequences

CONSTANTS
    Max,       \* Forwarder.Max
    BodyLimit, \* items that fit in the 64 MB handleIngest reads
    MaxKept,   \* bound: samples, events and traps added
    MaxCheap   \* bound: cheap items added

ASSUME ForwarderAssumption ==
    /\ Max \in Nat /\ Max >= 5
    /\ BodyLimit \in Nat
    /\ MaxKept \in Nat /\ MaxCheap \in Nat

VARIABLES
    b, n,        \* the queue and the number of its items
    taken,       \* the batch Flush has taken, or Nothing
    pc,          \* where Flush is: "idle", "taken" (no lock held), "posting"
    answered,    \* has the leader confirmed the post in progress?
    transit,     \* the kept items of every batch posted so far
    ingested,    \* numbers of the kept items the leader has ingested
    added, cheapAdded \* how many were added, for the numbering and the bounds

vars == <<b, n, taken, pc, answered, transit, ingested, added, cheapAdded>>

Cheap   == {"metrics", "logs", "flows"}
Batch   == [kept : Seq(Nat), cheap : [Cheap -> Nat]]
Nothing == [kept |-> <<>>, cheap |-> [k \in Cheap |-> 0]]

CheapSize(x) == x.cheap["metrics"] + x.cheap["logs"] + x.cheap["flows"]
Size(x)      == Len(x.kept) + CheapSize(x)

\* The older half of every cheap kind is dropped (s[len(s)/2:]).
Thinned(x) == [kept |-> x.kept, cheap |-> [k \in Cheap |-> x.cheap[k] - x.cheap[k] \div 2]]

\* One more item at the end of x.
WithKept(x, i)  == [kept |-> Append(x.kept, i), cheap |-> x.cheap]
WithCheap(x, k) == [kept |-> x.kept, cheap |-> [x.cheap EXCEPT ![k] = @ + 1]]

-----------------------------------------------------------------------------

\* f.add: x is the queue, thinned when it was full, with the item appended.
Added(x) ==
    /\ b' = x
    /\ n' = Size(x)

Room == IF n >= Max THEN Thinned(b) ELSE b

\* Device, Iface, Event, Trap.
AddKept ==
    /\ added < MaxKept
    /\ added' = added + 1
    /\ Added(WithKept(Room, added + 1))
    /\ UNCHANGED <<taken, pc, answered, transit, ingested, cheapAdded>>

\* Append, Log, Flow.
AddCheap(k) ==
    /\ cheapAdded < MaxCheap
    /\ cheapAdded' = cheapAdded + 1
    /\ Added(WithCheap(Room, k))
    /\ UNCHANGED <<taken, pc, answered, transit, ingested, added>>

\* Flush takes the queue.
Flush ==
    /\ pc = "idle"
    /\ n > 0
    /\ taken' = b
    /\ b' = Nothing
    /\ n' = 0
    /\ pc' = "taken"
    /\ UNCHANGED <<answered, transit, ingested, added, cheapAdded>>

\* Mutant: the failed batch is put behind what was added meanwhile.
RequeuedBehind(x, y) ==
    [kept |-> y.kept \o x.kept, cheap |-> [k \in Cheap |-> x.cheap[k] + y.cheap[k]]]

\* The failed batch x goes in front of the queue y.
Requeued(x, y) ==
    [kept |-> x.kept \o y.kept, cheap |-> [k \in Cheap |-> x.cheap[k] + y.cheap[k]]]

\* requeue: put the batch back and thin the queue when it is too long.
Requeue ==
    LET whole == Requeued(taken, b)
        all   == IF Size(whole) > Max THEN Thinned(whole) ELSE whole
    IN  /\ b' = all
        /\ n' = Size(all)
        /\ taken' = Nothing
        /\ pc' = "idle"
        /\ answered' = FALSE

\* Mutant: the batch is forgotten when there is no leader to post it to.
NoLeaderDrops ==
    /\ pc = "taken"
    /\ taken' = Nothing
    /\ pc' = "idle"
    /\ UNCHANGED <<b, n, answered, transit, ingested, added, cheapAdded>>

\* No leader is known, or it is this node itself.
NoLeader ==
    /\ pc = "taken"
    /\ Requeue
    /\ UNCHANGED <<transit, ingested, added, cheapAdded>>

\* The JSON of a batch beyond the limit is cut off and refused as bad.
Readable(x) == Size(x) <= BodyLimit

Post ==
    /\ pc = "taken"
    /\ pc' = "posting"
    /\ transit' = IF Readable(taken) THEN transit \union {taken.kept} ELSE transit
    /\ UNCHANGED <<b, n, taken, answered, ingested, added, cheapAdded>>

\* handleIngest of the current leader, in time or late.
Ingest(x) ==
    /\ x \in transit
    /\ ingested' = ingested \union {x[i] : i \in DOMAIN x}
    /\ answered' = (answered \/ (pc = "posting" /\ x = taken.kept /\ Readable(taken)))
    /\ UNCHANGED <<b, n, taken, pc, transit, added, cheapAdded>>

\* The confirmation arrives within the client's timeout.
PostSucceeds ==
    /\ pc = "posting"
    /\ answered
    /\ pc' = "idle"
    /\ taken' = Nothing
    /\ answered' = FALSE
    /\ UNCHANGED <<b, n, transit, ingested, added, cheapAdded>>

\* Refused, cut off, timed out, or the answer was lost.
PostFails ==
    /\ pc = "posting"
    /\ Requeue
    /\ UNCHANGED <<transit, ingested, added, cheapAdded>>

Init ==
    /\ b = Nothing /\ n = 0
    /\ taken = Nothing /\ pc = "idle" /\ answered = FALSE
    /\ transit = {} /\ ingested = {}
    /\ added = 0 /\ cheapAdded = 0

Next ==
    \/ AddKept \/ \E k \in Cheap : AddCheap(k)
    \/ Flush \/ NoLeader \/ Post \/ PostSucceeds \/ PostFails
    \/ \E x \in transit : Ingest(x)

Spec == Init /\ [][Next]_vars

\* Run flushes every second and a post ends at the latest with the client's
\* timeout; a leader that is asked again and again is eventually known and
\* eventually handles what it can read and confirms it in time.
ForwarderFairness ==
    /\ WF_vars(Flush)
    /\ SF_vars(Post)
    /\ SF_vars(Ingest(taken.kept) /\ ~answered)
    /\ SF_vars(PostSucceeds)
    /\ WF_vars(PostFails)

FairSpec == Spec /\ ForwarderFairness

-----------------------------------------------------------------------------
(* Properties.                                                             *)

TypeOK ==
    /\ b \in Batch /\ taken \in Batch
    /\ n \in Nat
    /\ pc \in {"idle", "taken", "posting"}
    /\ answered \in BOOLEAN
    /\ transit \subseteq Seq(Nat)
    /\ ingested \subseteq Nat
    /\ added \in Nat /\ cheapAdded \in Nat

\* f.n, which decides when to thin the queue and is shown as its length, is the
\* number of items queued, through thinning, Flush and requeue.
CountExact == n = Size(b)

\* While no leader answers, the cheap kinds do not outgrow Max by more than the
\* three items that halving rounds up (add and requeue).
CheapBounded == CheapSize(b) <= Max + 3

\* What Flush holds and what is queued behind it.
Unconfirmed == taken.kept \o b.kept

\* Samples, events and traps are neither lost nor reordered on this side: what
\* the leader has not confirmed is held, in order and without a gap, and all
\* that came before it has been ingested (add, Flush, requeue).
HeldInOrder ==
    LET first == added - Len(Unconfirmed)
    IN  /\ \A i \in 1..Len(Unconfirmed) : Unconfirmed[i] = first + i
        /\ 1..first \subseteq ingested

\* The leader never ingests an item before all that were queued before it,
\* whatever is retried or late (Flush, requeue, handleIngest).
IngestedInOrder == \A i \in ingested : 1..i \subseteq ingested

\* Everything that is added is ingested in the end: again and again the leader
\* has all that was added so far (Run, Flush, requeue, handleIngest).
AllDelivered == ForwarderFairness => []<>(1..added \subseteq ingested)
=============================================================================
