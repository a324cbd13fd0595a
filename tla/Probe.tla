-------------------------------- MODULE Probe --------------------------------
(***************************************************************************)
(* One synthetic probe (internal/probe): the runner's schedule, the run the *)
(* console asks for beside it, the count of failures, and the probe_failed *)
(* and probe_ok events it hands to the engine, which opens and resolves    *)
(* the alert.  A result is recorded under the runner's lock and its event  *)
(* sent after the unlock.  The alert is in the store and outlives the      *)
(* process; the runner's memory of having raised it does not.  What a run  *)
(* measures (TCP, HTTP, DNS, TLS, ping, traceroute) is its outcome.        *)
(***************************************************************************)
EXTENDS Integers, Sequences, FiniteSets

CONSTANTS
    Run,            \* runs under way at once (the schedule's, the console's)
    FailAfter,      \* Runner.FailAfter
    ProbeEvery,     \* Probe.Every, in ticks
    EventCap,       \* cap(Runner.Events)
    MaxStops        \* bound on the restarts

ASSUME ProbeAssumption ==
    {FailAfter, ProbeEvery, EventCap} \subseteq Nat \ {0} /\ MaxStops \in Nat /\ IsFiniteSet(Run)

VARIABLES
    stored,         \* the probe is in the store and enabled
    due,            \* ticks until Runner.next, 0 when due, Unscheduled when there is none
    active,         \* Runner.running
    runs,           \* run -> NoRun, or [by, then], then: what it does next
    streak,          \* Runner.fails, up to FailAfter
    raised,         \* Runner.alerted
    lastOK,         \* Runner.last.OK: "none", "ok" or "failed"
    events,         \* Runner.Events
    alertOpen,      \* the probe_failed alert in the store
    stops,
    astray          \* an event was lost, overtaken, or the runner forgot the alert it had raised

probeVars == <<stored, due, active, runs, streak, raised, lastOK, events, alertOpen, stops, astray>>

Unscheduled == ProbeEvery + 1
NoRun == [by |-> "none", then |-> "none"]
RunBegins(r, by) == runs[r] = NoRun /\ runs' = [runs EXCEPT ![r] = [by |-> by, then |-> "test"]]
Sending == {r \in Run : runs[r].then \in {"failed", "ok"}}

----------------------------------------------------------------------------
(* Runner.Run, once a second, and RunOnce from the console.                *)

Schedule ==
    /\ stored /\ due = Unscheduled
    /\ due' \in {0, 1}
    /\ UNCHANGED <<stored, active, runs, streak, raised, lastOK, events, alertOpen, stops, astray>>

RunDue(r) ==
    /\ stored /\ due = 0 /\ ~active
    /\ active' = TRUE
    /\ RunBegins(r, "schedule")
    /\ UNCHANGED <<stored, due, streak, raised, lastOK, events, alertOpen, stops, astray>>

RunFromConsole(r) ==
    /\ stored /\ RunBegins(r, "console")
    /\ UNCHANGED <<stored, due, active, streak, raised, lastOK, events, alertOpen, stops, astray>>

Counted(ok) == IF ok THEN 0 ELSE IF streak < FailAfter THEN streak + 1 ELSE streak

\* Mutant: an answer leaves the probe marked as alerted.
RaisedForGood(ok) == raised \/ (~ok /\ Counted(ok) >= FailAfter)

RaisedBy(ok) == ~ok /\ (raised \/ Counted(ok) >= FailAfter)

\* record, under the lock: the count, the mark, and the event to send.
Record(r, ok) ==
    /\ runs[r].then = "test"
    /\ streak' = Counted(ok)
    /\ raised' = RaisedBy(ok)
    /\ lastOK' = IF ok THEN "ok" ELSE "failed"
    /\ LET ev == IF raised' = raised THEN "end" ELSE IF raised' THEN "failed" ELSE "ok"
       IN  /\ runs' = [runs EXCEPT ![r].then = ev]
           /\ astray' = (astray \/ (ev # "end" /\ Sending # {}))
    /\ UNCHANGED <<stored, due, active, events, alertOpen, stops>>

\* emit, after the unlock: an event that finds the channel full is dropped.
Emit(r) ==
    /\ r \in Sending
    /\ runs' = [runs EXCEPT ![r].then = "end"]
    /\ IF Len(events) < EventCap
       THEN events' = Append(events, runs[r].then) /\ UNCHANGED astray
       ELSE astray' = TRUE /\ UNCHANGED events
    /\ UNCHANGED <<stored, due, active, streak, raised, lastOK, alertOpen, stops>>

RunEnds(r) ==
    /\ runs[r].then = "end"
    /\ runs' = [runs EXCEPT ![r] = NoRun]
    /\ IF runs[r].by = "schedule"
       THEN active' = FALSE /\ due' = ProbeEvery
       ELSE UNCHANGED <<active, due>>
    /\ UNCHANGED <<stored, streak, raised, lastOK, events, alertOpen, stops, astray>>

Tick ==
    /\ due \in 1 .. ProbeEvery
    /\ due' = due - 1
    /\ UNCHANGED <<stored, active, runs, streak, raised, lastOK, events, alertOpen, stops, astray>>

----------------------------------------------------------------------------
(* putProbe stores the probe and asks for a run; DELETE forgets it, but    *)
(* neither resolves its alert nor waits for the runs under way.            *)

PutProbe ==
    /\ stored' = TRUE
    /\ due' = 0
    /\ UNCHANGED <<active, runs, streak, raised, lastOK, events, alertOpen, stops, astray>>

DeleteProbe ==
    /\ stored /\ stored' = FALSE
    /\ due' = Unscheduled /\ active' = FALSE /\ streak' = 0 /\ raised' = FALSE /\ lastOK' = "none"
    /\ astray' = (astray \/ raised \/ Sending # {})
    /\ UNCHANGED <<runs, events, alertOpen, stops>>

\* Engine.onEvent: probe_failed opens the alert, probe_ok resolves it.
OnEvent ==
    /\ events # <<>>
    /\ events' = Tail(events)
    /\ alertOpen' = (Head(events) = "failed")
    /\ UNCHANGED <<stored, due, active, runs, streak, raised, lastOK, stops, astray>>

ProcessRestarts ==
    /\ stops < MaxStops /\ stops' = stops + 1
    /\ due' = Unscheduled /\ active' = FALSE /\ runs' = [r \in Run |-> NoRun]
    /\ streak' = 0 /\ raised' = FALSE /\ lastOK' = "none" /\ events' = <<>>
    /\ astray' = (astray \/ alertOpen \/ events # <<>>)
    /\ UNCHANGED <<stored, alertOpen>>

ProbeInit ==
    /\ stored = TRUE /\ due = Unscheduled /\ active = FALSE /\ runs = [r \in Run |-> NoRun]
    /\ streak = 0 /\ raised = FALSE /\ lastOK = "none" /\ events = <<>> /\ alertOpen = FALSE
    /\ stops = 0 /\ astray = FALSE

RunSteps == \E r \in Run : RunDue(r) \/ Emit(r) \/ RunEnds(r) \/ \E ok \in BOOLEAN : Record(r, ok)

ProbeNext ==
    \/ Schedule \/ RunSteps \/ Tick \/ OnEvent
    \/ \E r \in Run : RunFromConsole(r)
    \/ PutProbe \/ DeleteProbe \/ ProcessRestarts

ProbeSpec == ProbeInit /\ [][ProbeNext]_probeVars

ProbeTypeOK ==
    /\ {stored, active, raised, alertOpen, astray} \subseteq BOOLEAN
    /\ due \in 0 .. Unscheduled
    /\ runs \in [Run -> {NoRun} \cup [by : {"schedule", "console"}, then : {"test", "failed", "ok", "end"}]]
    /\ streak \in 0 .. FailAfter /\ lastOK \in {"none", "ok", "failed"}
    /\ Len(events) <= EventCap /\ stops \in 0 .. MaxStops

\* Nothing of the probe is on its way: no run, no event.
Settled == events = <<>> /\ \A r \in Run : runs[r] = NoRun

(* Once every event has been taken, the alert is open exactly when the last *)
(* FailAfter results failed and none has answered since (record, onEvent) - *)
(* unless an event was dropped at a full channel, an event was recorded     *)
(* while an earlier one was still to be sent, the probe was deleted with    *)
(* its alert open, or the process was restarted with it open.               *)
AlertFollowsProbe ==
    Settled /\ ~astray => (alertOpen <=> raised) /\ (lastOK = "ok" => ~alertOpen)

(* rules.go:48 on probe_failed: "Resolves when it answers again."  Once the *)
(* probe has answered and its events have been taken, no alert is open.     *)
(* It does not hold across a restart or a deletion (README).                *)
ResolvesWhenItAnswers ==
    Settled /\ lastOK = "ok" => ~alertOpen

=============================================================================
