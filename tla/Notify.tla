------------------------------- MODULE Notify -------------------------------
(***************************************************************************)
(* How an alert becomes a message: the alert operations of the engine      *)
(* (internal/state/engine.go: openAlert, resolveAlert, queueNotify, Ack,   *)
(* Resolve), the bounded channel, and the dispatcher that groups, filters, *)
(* sorts and sends (internal/notify/notify.go: Run, flush).                *)
(*                                                                         *)
(* What is queued is a copy of the alert.  The dispatcher sends without a  *)
(* lock, for as long as mail servers and web hooks take, and only then     *)
(* marks the alerts in the store as notified; engine and operators go on   *)
(* meanwhile.  An episode is the time from an opening to its resolution.   *)
(***************************************************************************)
EXTENDS Integers, Sequences, FiniteSets, Functions

CONSTANTS
    Alert,       \* alert IDs
    Severity,    \* the ranks in use, 1 (info) to 4 (critical)
    Config,      \* the settings that may be in force when flush reads them
    ChanCap,     \* capacity of Engine.Notify
    MaxOpens     \* bound: calls of openAlert

Critical == 4

ASSUME NotifyAssumption ==
    /\ Severity \subseteq 1..Critical
    /\ Config \subseteq [resolvedToo : BOOLEAN, minSeverity : 1..Critical,
                         quiet : BOOLEAN, criticalAlways : BOOLEAN]
    /\ ChanCap \in Nat /\ MaxOpens \in Nat

VARIABLES
    alerts,    \* the store's alerts
    opens,     \* calls of openAlert, for the bound
    chan,      \* Engine.Notify
    pending,   \* Dispatcher.pending
    aged,      \* has the oldest pending copy waited for the grouping window?
    sending,   \* what flush is sending, <<>> when Run waits in its select
    out        \* per alert, the messages sent about it: what each said

notifyVars == <<alerts, opens, chan, pending, aged, sending, out>>

State == {"none", "open", "acked", "resolved"}

StoredAlert == [state : State, sev : Severity, notified : BOOLEAN,
                folded : BOOLEAN, episode : Nat]

\* A copy of an alert in the queue.
Copy == [alert : Alert, episode : Nat, state : {"open", "resolved"}, sev : Severity, notified : BOOLEAN]

CopyOf(a, x) == [alert |-> a, episode |-> x.episode, state |-> x.state,
                 sev |-> x.sev, notified |-> x.notified]

Unresolved(x) == x.state \in {"open", "acked"}

-----------------------------------------------------------------------------
(* The engine and the operators.                                           *)

\* queueNotify: acknowledged alerts are not queued, a full channel drops.
Queue(a, x) ==
    chan' = IF x.state # "acked" /\ Len(chan) < ChanCap THEN Append(chan, CopyOf(a, x)) ELSE chan

\* openAlert, a new alert: queued unless it is folded under a root cause.
Open(a, s, root) ==
    LET x == [state |-> "open", sev |-> s, notified |-> FALSE, folded |-> root, episode |-> 1]
    IN  /\ alerts[a].state = "none"
        /\ opens < MaxOpens
        /\ opens' = opens + 1
        /\ alerts' = [alerts EXCEPT ![a] = x]
        /\ IF root THEN UNCHANGED chan ELSE Queue(a, x)
        /\ UNCHANGED <<pending, aged, sending, out>>

\* openAlert, a recently resolved alert: always queued.  The copy is read from
\* the store again, where an operator may have been in between (state s).
Reopen(a, s) ==
    LET x == [alerts[a] EXCEPT !.state = s, !.notified = FALSE, !.episode = @ + 1]
    IN  /\ alerts[a].state = "resolved"
        /\ opens < MaxOpens
        /\ opens' = opens + 1
        /\ alerts' = [alerts EXCEPT ![a] = x]
        /\ Queue(a, x)
        /\ UNCHANGED <<pending, aged, sending, out>>

\* openAlert, an unresolved alert: a higher severity is taken over, a root
\* cause it did not have folds it and brings its own severity; nothing is queued.
Repeat(a, s, fold) ==
    LET x == alerts[a]
    IN  /\ Unresolved(x)
        /\ opens < MaxOpens
        /\ opens' = opens + 1
        /\ alerts' = [alerts EXCEPT ![a].sev = IF fold \/ s > x.sev THEN s ELSE x.sev,
                                    ![a].folded = x.folded \/ fold]
        /\ UNCHANGED <<chan, pending, aged, sending, out>>

\* resolveAlert.
Resolve(a) ==
    LET x == [alerts[a] EXCEPT !.state = "resolved"]
    IN  /\ Unresolved(alerts[a])
        /\ alerts' = [alerts EXCEPT ![a] = x]
        /\ IF x.folded THEN UNCHANGED chan ELSE Queue(a, x)
        /\ UNCHANGED <<opens, pending, aged, sending, out>>

\* Ack and Resolve of the console.
Ack(a) ==
    /\ alerts[a].state = "open"
    /\ alerts' = [alerts EXCEPT ![a].state = "acked"]
    /\ UNCHANGED <<opens, chan, pending, aged, sending, out>>

ResolveByHand(a) ==
    /\ Unresolved(alerts[a])
    /\ alerts' = [alerts EXCEPT ![a].state = "resolved"]
    /\ UNCHANGED <<opens, chan, pending, aged, sending, out>>

-----------------------------------------------------------------------------
(* The dispatcher.                                                         *)

\* Run takes a copy from the channel.
Receive ==
    /\ sending = <<>>
    /\ chan # <<>>
    /\ pending' = Append(pending, Head(chan))
    /\ chan' = Tail(chan)
    /\ UNCHANGED <<alerts, opens, aged, sending, out>>

\* The grouping window of the oldest pending copy runs out.
Age ==
    /\ pending # <<>>
    /\ ~aged
    /\ aged' = TRUE
    /\ UNCHANGED <<alerts, opens, chan, pending, sending, out>>

HasCritical == \E i \in DOMAIN pending : pending[i].sev = Critical /\ pending[i].state # "resolved"

\* Mutant: resolutions do not look at notified.
PassesAllResolved(c, m) ==
    /\ m.state = "resolved" => c.resolvedToo
    /\ m.sev >= c.minSeverity \/ m.state = "resolved"
    /\ ~c.quiet \/ (c.criticalAlways /\ m.sev = Critical)

\* Mutant: quiet hours hold for every severity.
PassesQuiet(c, m) ==
    /\ m.state = "resolved" => c.resolvedToo /\ m.notified
    /\ m.sev >= c.minSeverity \/ m.state = "resolved"
    /\ ~c.quiet

\* flush's filters under the settings c.
Passes(c, m) ==
    /\ m.state = "resolved" => c.resolvedToo /\ m.notified
    /\ m.sev >= c.minSeverity \/ m.state = "resolved"
    /\ ~c.quiet \/ (c.criticalAlways /\ m.sev = Critical)

\* The places in pending of the copies that pass.
Passing(c) == {i \in DOMAIN pending : Passes(c, pending[i])}

\* sort.SliceStable, the worst first: in which order the copies at the places S are
\* sent (there is exactly one).
StableOrder(S) ==
    {o \in Injection(1..Cardinality(S), S) : \A i, j \in 1..Cardinality(S) : i < j =>
        \/ pending[o[i]].sev > pending[o[j]].sev
        \/ pending[o[i]].sev = pending[o[j]].sev /\ o[i] < o[j]}

Sorted(S) == {[i \in 1..Cardinality(S) |-> pending[o[i]]] : o \in StableOrder(S)}

\* Mutant: the pending copies are not cleared.
FlushPendingKeeps(c) ==
    /\ sending = <<>>
    /\ pending # <<>>
    /\ HasCritical \/ aged
    /\ aged' = FALSE
    /\ sending' \in Sorted(Passing(c))
    /\ UNCHANGED <<alerts, opens, chan, pending, out>>

\* flush up to the sending.
FlushPending(c) ==
    /\ sending = <<>>
    /\ pending # <<>>
    /\ HasCritical \/ aged
    /\ pending' = <<>>
    /\ aged' = FALSE
    /\ sending' \in Sorted(Passing(c))
    /\ UNCHANGED <<alerts, opens, chan, out>>

\* What the message in hand says about a.
About(a) == {m \in {sending[i] : i \in DOMAIN sending} : m.alert = a}

\* Is a marked as notified when the sending is over?
Marked(a) == \E m \in About(a) : m.state # "resolved"

\* The services have taken the message or failed; either way the alerts whose
\* opening it held are marked as notified.
Deliver ==
    /\ sending # <<>>
    /\ sending' = <<>>
    /\ alerts' = [a \in Alert |-> [alerts[a] EXCEPT !.notified = @ \/ Marked(a)]]
    /\ out' = [a \in Alert |-> IF About(a) = {} THEN out[a] ELSE Append(out[a], About(a))]
    /\ UNCHANGED <<opens, chan, pending, aged>>

NotifyInit ==
    /\ \E s \in Severity :
         alerts = [a \in Alert |-> [state |-> "none", sev |-> s, notified |-> FALSE,
                                    folded |-> FALSE, episode |-> 0]]
    /\ opens = 0
    /\ chan = <<>> /\ pending = <<>> /\ aged = FALSE /\ sending = <<>>
    /\ out = [a \in Alert |-> <<>>]

NotifyNext ==
    \/ \E a \in Alert :
         \/ \E s \in Severity, root \in BOOLEAN : Open(a, s, root) \/ Repeat(a, s, root)
         \/ \E s \in {"open", "acked", "resolved"} : Reopen(a, s)
         \/ Resolve(a) \/ Ack(a) \/ ResolveByHand(a)
    \/ Receive \/ Age \/ (\E c \in Config : FlushPending(c)) \/ Deliver

NotifySpec == NotifyInit /\ [][NotifyNext]_notifyVars

\* Run selects for ever, the clock runs, and a sending ends.
NotifyFairness ==
    /\ WF_notifyVars(Receive) /\ WF_notifyVars(Age) /\ WF_notifyVars(\E c \in Config : FlushPending(c)) /\ WF_notifyVars(Deliver)

-----------------------------------------------------------------------------
(* Properties.                                                             *)

NotifyTypeOK ==
    /\ alerts \in [Alert -> StoredAlert]
    /\ opens \in Nat
    /\ chan \in Seq(Copy) /\ pending \in Seq(Copy) /\ sending \in Seq(Copy)
    /\ aged \in BOOLEAN
    /\ out \in [Alert -> Seq(SUBSET Copy)]

\* notify.go: "only announce resolution of alerts that were notified".  Every
\* message that an alert is resolved comes after one that it was open (flush).
ResolutionFollowsOpen ==
    \A a \in Alert : \A j \in DOMAIN out[a] : \A m \in out[a][j] :
        m.state = "resolved" => \E i \in 1..(j - 1) : \E l \in out[a][i] : l.state = "open"

\* Place of a copy in its alert's history.
Place(m) == 2 * m.episode + (IF m.state = "resolved" THEN 1 ELSE 0)

\* The messages about one alert tell its history in order and tell nothing
\* twice, across channel, grouping and sort (Run, flush).
HistoryInOrder ==
    \A a \in Alert : \A i, j \in DOMAIN out[a] : i < j =>
        \A l \in out[a][i], m \in out[a][j] : Place(l) < Place(m)

\* With "critical always" the opening of a critical alert that got into the
\* channel is sent in the end, quiet hours or not (queueNotify, Run, flush).
Queued(a, e) ==
    \E i \in DOMAIN chan : /\ chan[i].alert = a /\ chan[i].episode = e
                           /\ chan[i].state = "open" /\ chan[i].sev = Critical
Announced(a, e, s) == \E i \in DOMAIN out[a] : \E m \in out[a][i] : m.episode = e /\ m.state = s
CriticalIsSent ==
    NotifyFairness => \A a \in Alert, e \in 1..MaxOpens : Queued(a, e) ~> Announced(a, e, "open")

\* USER-GUIDE.md lists "whether to send resolutions" among the settings, and
\* notify.go means to withhold them only for alerts that were not notified.
\* Where they are wanted, flush withholds no resolution of an episode whose
\* opening has been announced or is about to be.
ResolutionNotWithheld ==
    [][\A i \in DOMAIN pending :
          LET m == pending[i]
          IN  /\ pending' = <<>>
              /\ m.state = "resolved"
              /\ \/ Announced(m.alert, m.episode, "open")
                 \/ \E j \in DOMAIN sending' : /\ sending'[j].alert = m.alert
                                               /\ sending'[j].episode = m.episode
                                               /\ sending'[j].state = "open"
              => \E j \in DOMAIN sending' : sending'[j] = m]_notifyVars
=============================================================================
