-------------------------------- MODULE Siem --------------------------------
(***************************************************************************)
(* The SIEM export (internal/siemexport): Tee stands between the engine's  *)
(* alert channel and the notifier's and copies each alert to a queue of    *)
(* its own; a second goroutine batches the queue and sends every batch to  *)
(* every sink.  A sink may fail, or keep the sender waiting.  An alert is  *)
(* a number in the order the engine raised it; the fields of the exported  *)
(* event are a function of the alert and are left out.                     *)
(***************************************************************************)
EXTENDS Integers, Sequences, FiniteSets, Functions

CONSTANTS
    Sink,
    MaxAlerts,      \* bound on the alerts raised
    InCap, OutCap,  \* capacities of the engine's and the notifier's channels
    QueueCap,       \* capacity of the export queue (4096)
    BatchSize           \* Exporter.Batch

ASSUME SiemAssumption == {MaxAlerts, InCap, OutCap, QueueCap, BatchSize} \subseteq Nat \ {0} /\ IsFiniteSet(Sink)

VARIABLES
    alertsRaised,   \* alerts the engine has handed over
    teeIn, teeOut,  \* the two channels
    hand,           \* the alert Tee holds: [at, alert]
    exportQ,        \* its queue
    batch,          \* run's batch
    sendingTo,      \* the sinks a Send has still to try, {} when none is under way
    notified,       \* what the notifier has taken
    exported,       \* sink -> what it accepted
    missed,         \* sink -> what was dropped at the full queue, by a failed send or at the stop
    stopped         \* the context has ended: "no", "yes", and "done" once run has returned

siemVars == <<alertsRaised, teeIn, teeOut, hand, exportQ, batch, sendingTo, notified, exported, missed, stopped>>

EmptyHand == [at |-> "take", alert |-> 0]
Missing(S) == missed' = [s \in Sink |-> missed[s] \cup S]

----------------------------------------------------------------------------
(* Tee.                                                                    *)

EngineRaises ==
    /\ alertsRaised < MaxAlerts /\ Len(teeIn) < InCap
    /\ alertsRaised' = alertsRaised + 1
    /\ teeIn' = Append(teeIn, alertsRaised + 1)
    /\ UNCHANGED <<teeOut, hand, exportQ, batch, sendingTo, notified, exported, missed, stopped>>

TeeTakes ==
    /\ hand.at = "take" /\ teeIn # <<>>
    /\ hand' = [at |-> "out", alert |-> Head(teeIn)]
    /\ teeIn' = Tail(teeIn)
    /\ UNCHANGED <<alertsRaised, teeOut, exportQ, batch, sendingTo, notified, exported, missed, stopped>>

TeeForwards ==
    /\ hand.at = "out" /\ Len(teeOut) < OutCap
    /\ teeOut' = Append(teeOut, hand.alert)
    /\ hand' = [hand EXCEPT !.at = "queue"]
    /\ UNCHANGED <<alertsRaised, teeIn, exportQ, batch, sendingTo, notified, exported, missed, stopped>>

\* Mutant: Tee waits for room in the export queue.
TeeQueuesWaits ==
    /\ hand.at = "queue" /\ Len(exportQ) < QueueCap
    /\ hand' = EmptyHand
    /\ exportQ' = Append(exportQ, hand.alert)
    /\ UNCHANGED <<alertsRaised, teeIn, teeOut, batch, sendingTo, notified, exported, missed, stopped>>

TeeQueues ==
    /\ hand.at = "queue"
    /\ hand' = EmptyHand
    /\ IF Len(exportQ) < QueueCap
       THEN exportQ' = Append(exportQ, hand.alert) /\ UNCHANGED missed
       ELSE Missing({hand.alert}) /\ UNCHANGED exportQ
    /\ UNCHANGED <<alertsRaised, teeIn, teeOut, batch, sendingTo, notified, exported, stopped>>

\* Tee sees the end of the context where it selects on it: the alert it holds is lost to both.
TeeStops ==
    /\ stopped # "no" /\ hand.at \in {"take", "out"}
    /\ hand' = [EmptyHand EXCEPT !.at = "gone"]
    /\ UNCHANGED <<alertsRaised, teeIn, teeOut, exportQ, batch, sendingTo, notified, exported, missed, stopped>>

NotifierTakes ==
    /\ teeOut # <<>>
    /\ notified' = Append(notified, Head(teeOut))
    /\ teeOut' = Tail(teeOut)
    /\ UNCHANGED <<alertsRaised, teeIn, hand, exportQ, batch, sendingTo, exported, missed, stopped>>

----------------------------------------------------------------------------
(* run, flush and Send: a full batch, or whatever the ticker finds, goes to *)
(* each sink in turn; a sink that fails has missed it, the others have not. *)

RunTakes ==
    /\ sendingTo = {} /\ stopped # "done" /\ exportQ # <<>>
    /\ exportQ' = Tail(exportQ)
    /\ batch' = Append(batch, Head(exportQ))
    /\ sendingTo' = IF Len(batch') >= BatchSize THEN Sink ELSE {}
    /\ UNCHANGED <<alertsRaised, teeIn, teeOut, hand, notified, exported, missed, stopped>>

RunTicks ==
    /\ sendingTo = {} /\ stopped # "done" /\ batch # <<>>
    /\ sendingTo' = Sink
    /\ UNCHANGED <<alertsRaised, teeIn, teeOut, hand, exportQ, batch, notified, exported, missed, stopped>>

\* Mutant: the batch is kept when a sink has failed, and sent again to all of them.
AfterSendKept(left, ok) == IF left = {} /\ ok THEN <<>> ELSE batch

AfterSend(left, ok) == IF left = {} THEN <<>> ELSE batch

SendReturns(s, ok) ==
    /\ s \in sendingTo
    /\ sendingTo' = sendingTo \ {s}
    /\ exported' = IF ok THEN [exported EXCEPT ![s] = @ \o batch] ELSE exported
    /\ missed' = IF ok THEN missed ELSE [missed EXCEPT ![s] = @ \cup Range(batch)]
    /\ batch' = AfterSend(sendingTo', ok)
    /\ UNCHANGED <<alertsRaised, teeIn, teeOut, hand, exportQ, notified, stopped>>

ContextEnds ==
    /\ stopped = "no" /\ stopped' = "yes"
    /\ UNCHANGED <<alertsRaised, teeIn, teeOut, hand, exportQ, batch, sendingTo, notified, exported, missed>>

\* run returns after a last flush of its batch; what is still queued is not drained.
RunStops ==
    /\ stopped = "yes" /\ sendingTo = {} /\ batch = <<>>
    /\ stopped' = "done"
    /\ Missing(Range(exportQ))
    /\ exportQ' = <<>>
    /\ UNCHANGED <<alertsRaised, teeIn, teeOut, hand, batch, sendingTo, notified, exported>>

SiemInit ==
    /\ alertsRaised = 0 /\ teeIn = <<>> /\ teeOut = <<>> /\ hand = EmptyHand /\ exportQ = <<>> /\ batch = <<>>
    /\ sendingTo = {} /\ notified = <<>> /\ exported = [s \in Sink |-> <<>>] /\ missed = [s \in Sink |-> {}]
    /\ stopped = "no"

SiemNext ==
    \/ EngineRaises \/ TeeTakes \/ TeeForwards \/ TeeQueues \/ TeeStops \/ NotifierTakes
    \/ RunTakes \/ RunTicks \/ \E s \in Sink, ok \in BOOLEAN : SendReturns(s, ok)
    \/ ContextEnds \/ RunStops

SiemSpec == SiemInit /\ [][SiemNext]_siemVars

(* Tee's goroutine and the notifier go on; nothing is assumed of a sink.   *)
SiemFairness ==
    /\ WF_siemVars(TeeTakes) /\ WF_siemVars(TeeForwards) /\ WF_siemVars(TeeQueues)
    /\ WF_siemVars(NotifierTakes)

SiemTypeOK ==
    /\ alertsRaised \in 0 .. MaxAlerts /\ Len(teeIn) <= InCap /\ Len(teeOut) <= OutCap
    /\ hand.at \in {"take", "out", "queue", "gone"} /\ hand.alert \in 0 .. MaxAlerts
    /\ Len(exportQ) <= QueueCap /\ Len(batch) <= BatchSize /\ sendingTo \subseteq Sink
    /\ stopped \in {"no", "yes", "done"}

(* Tee, run and Send (siemexport.go): a sink holds alerts in the order they *)
(* were raised and none twice, although another sink failed on the same     *)
(* batch; and every alert Tee has let go of is at the sink, on its way, or  *)
(* missed by a full queue, a failed send of that sink, or the stop.         *)
ExportedOnceInOrder ==
    \A s \in Sink :
        /\ \A i, j \in DOMAIN exported[s] : i < j => exported[s][i] < exported[s][j]
        /\ stopped # "done" => Range(notified) \subseteq
               Range(exported[s]) \cup Range(batch) \cup Range(exportQ) \cup missed[s] \cup {hand.alert}

(* "Out is never held up by the SIEM" (siemexport.go, Tee): whatever the    *)
(* sinks do, an alert the engine hands over reaches the notifier, unless    *)
(* the process is told to stop.                                             *)
NeverHeldUp ==
    SiemFairness => \A a \in 1 .. MaxAlerts : (alertsRaised >= a) ~> (a \in Range(notified) \/ stopped # "no")

=============================================================================
