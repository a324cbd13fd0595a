---------------------------- MODULE StateEngine ----------------------------
(***************************************************************************)
(* The state engine (internal/state/engine.go): samples and events move    *)
(* devices and interfaces between statuses, transitions open, fold,        *)
(* re-open and resolve alerts, and alerts go to the notification channel.  *)
(*                                                                         *)
(* Run() handles one input at a time, so every handler is one step; only   *)
(* Ack and Resolve, called by the console, run beside it, and each of them *)
(* is one locked update of the store.                                      *)
(*                                                                         *)
(* The store keeps at most one unresolved alert per dedup key              *)
(* (AlertByDedup is consulted before PutAlert), and only the newest alert  *)
(* of a key can be re-opened, so a key has one record here; gen counts the *)
(* alerts the key has had and stands for the id.                           *)
(*                                                                         *)
(* A measured value is abstracted to its place against the rule's two      *)
(* thresholds: "high" (>= Enter), "low" (<= Exit), "mid" between them and  *)
(* "absent" when the sample has none.  One metric rule stands for the five *)
(* of a device, one for the two of an interface.  Every monitored device   *)
(* belongs to one site, every interface is important, and every rule but   *)
(* the flapping rule is enabled.                                           *)
(***************************************************************************)
EXTENDS Integers, FiniteSets

CONSTANTS
    Device, Interface,
    Source,        \* what the generic event rules are about
    None,          \* no device; also no root cause
    Upstream,      \* e.parents: the neighbour on the path to the root, or None
    Owner,         \* the device of an interface
    Sample,        \* device samples the poller can deliver
    IfSample,      \* interface samples
    DownCycles,    \* device_down.ForCycles
    RuleCycles,    \* ForCycles of the metric rules and of snmp_unreachable
    FlapRule,      \* is the flapping rule enabled?
    FlapLimit,     \* flapping.ForCycles: more changes than this in ten minutes
    SitePct,       \* site_down.Enter
    MaxGen,        \* bound: alerts per dedup key
    Restarts,      \* may the process restart?
    Operators      \* what operators do to alerts: "ack", "resolve"

Object == Device \union Interface
Level  == {"low", "mid", "high", "absent"}
Status == {"unknown", "up", "degraded", "down", "unreachable", "maintenance"}
Rule   == {"metric", "snmp_unreachable"}

ASSUME StateEngineAssumption ==
    /\ IsFiniteSet(Device)
    /\ Device \intersect Interface = {}
    /\ None \notin Device
    /\ Upstream \in [Device -> Device \union {None}]
    /\ Owner \in [Interface -> Device]
    /\ Sample \subseteq [icmp : BOOLEAN, snmp : BOOLEAN, level : Level]
    /\ IfSample \subseteq [admin : BOOLEAN, oper : BOOLEAN, level : Level]
    /\ {DownCycles, RuleCycles, FlapLimit, MaxGen} \subseteq Nat \ {0}
    /\ SitePct \in 1..100
    /\ {FlapRule, Restarts} \subseteq BOOLEAN
    /\ Operators \subseteq {"ack", "resolve"}

VARIABLES
    obj,     \* e.dev and e.ifs: the objState of every object
    maint,   \* the devices in a maintenance window
    alerts,  \* the store's alerts, by dedup key
    notes    \* what the last step put on the Notify channel

vars == <<obj, maint, alerts, notes>>

-----------------------------------------------------------------------------
(* Dedup keys and the life of an alert.                                    *)

DownKey(d)   == <<"device_down", d>>
FlapKey(o)   == <<"flapping", o>>
RuleKey(r, o) == <<r, o>>
IfDownKey(i) == <<"interface_down", i>>
EventKey(s)  == <<"event", s>>
SiteKey      == <<"site_down", None>>

DownKeys == {DownKey(d) : d \in Device}
Key == DownKeys \union {FlapKey(o) : o \in Object} \union {RuleKey(r, o) : r \in Rule, o \in Object}
       \union {IfDownKey(i) : i \in Interface} \union {EventKey(s) : s \in Source} \union {SiteKey}

\* "recent": resolved less than 30 minutes ago; "old": longer ago or archived.
AlertState == {"none", "open", "acked", "recent", "old"}
RootCause  == {None} \union (DownKeys \X Nat)
Alert      == [state : AlertState, gen : Nat, root : RootCause, byHand : BOOLEAN]

NoAlert == [state |-> "none", gen |-> 0, root |-> None, byHand |-> FALSE]

Unresolved(a) == a.state \in {"open", "acked"}

\* The id of the alert of key k.
IdOf(k, a) == <<k, a.gen>>

\* openAlert on the key's present record: an unresolved alert is only updated
\* (and folded when a root cause is given), one resolved less than 30 minutes
\* ago is re-opened as it was, otherwise there is a new one.
Opened(a, root) ==
    CASE Unresolved(a)      -> [a EXCEPT !.root = IF root = None THEN @ ELSE root]
      [] a.state = "recent" -> [a EXCEPT !.state = "open", !.byHand = FALSE]
      [] OTHER              -> [state |-> "open", gen |-> a.gen + 1, root |-> root, byHand |-> FALSE]

\* ... and whether it goes to queueNotify.
OpenNotifies(a, root) == a.state = "recent" \/ (~Unresolved(a) /\ root = None)

\* resolveAlert.
Resolved(a) == IF Unresolved(a) THEN [a EXCEPT !.state = "recent"] ELSE a
ResolveNotifies(a) == Unresolved(a) /\ a.root = None

\* One handler's calls of openAlert, for the keys in opens without a root cause
\* and for those in folds with the root cause given, and of resolveAlert; no
\* handler touches a key twice.
Alerting(opens, folds, root, closes) ==
    LET rootOf(k) == IF k \in folds THEN root ELSE None
    IN  /\ alerts' = [k \in Key |->
                        IF k \in opens \union folds THEN Opened(alerts[k], rootOf(k))
                        ELSE IF k \in closes THEN Resolved(alerts[k]) ELSE alerts[k]]
        /\ notes'  = {[key |-> k, what |-> "open"] :
                         k \in {k \in opens \union folds : OpenNotifies(alerts[k], rootOf(k))}}
                     \union {[key |-> k, what |-> "resolved"] :
                         k \in {k \in closes : ResolveNotifies(alerts[k])}}

When(condition, keys) == IF condition THEN keys ELSE {}

-----------------------------------------------------------------------------
(* Objects.                                                                *)

Obj == [status : Status, fails : 0..DownCycles, oks : 0..2,
        runs : [Rule -> 0..RuleCycles], on : [Rule -> BOOLEAN], flips : 0..FlapLimit + 1]

\* newObj: streaks and rule state start empty.
NewObj(st) == [status |-> st, fails |-> 0, oks |-> 0, runs |-> [r \in Rule |-> 0],
               on |-> [r \in Rule |-> FALSE], flips |-> 0]

\* Counters are capped where a larger value changes nothing.
Bump(n, cap) == IF n < cap THEN n + 1 ELSE n

\* transition: changes to or from unknown do not count as flaps; without the
\* flapping rule nobody reads the count.
Transition(o, to) ==
    IF o.status = to THEN o
    ELSE [o EXCEPT !.status = to,
                   !.flips  = IF ~FlapRule \/ "unknown" \in {to, o.status} THEN @
                                ELSE Bump(@, FlapLimit + 1)]

Flapping(o) == o.flips > FlapLimit
Out(o)      == o.status \in {"down", "unreachable"}

\* metricRuns and metricOn of rule r.
SetRule(o, r, n, on) == [o EXCEPT !.runs[r] = n, !.on[r] = on]

\* The run of rule r is one cycle longer.
Longer(o, r) == Bump(o.runs[r], RuleCycles)

\* A rule with hysteresis: on after RuleCycles values above Enter, off at Exit.
Hysteresis(o, r, level) ==
    CASE level = "high" /\ ~o.on[r] -> SetRule(o, r, Longer(o, r), Longer(o, r) >= RuleCycles)
      [] level = "low"              -> SetRule(o, r, 0, FALSE)
      [] OTHER                      -> o

-----------------------------------------------------------------------------
(* onDevice.                                                               *)

Reachable(s) == s.icmp \/ s.snmp

\* Mutant: the good cycles are not counted beyond the first.
StreaksOfOne(o, s) ==
    IF Reachable(s) THEN [o EXCEPT !.oks = 1, !.fails = 0]
                    ELSE [o EXCEPT !.fails = Bump(@, DownCycles), !.oks = 0]

Streaks(o, s) ==
    IF Reachable(s) THEN [o EXCEPT !.oks = Bump(@, 2), !.fails = 0]
                    ELSE [o EXCEPT !.fails = Bump(@, DownCycles), !.oks = 0]

MetricRules(o, s) == IF Reachable(s) THEN Hysteresis(o, "metric", s.level) ELSE o

\* Ping answers, SNMP does not.
SnmpRule(o, s) ==
    LET r == "snmp_unreachable"
    IN  CASE s.icmp /\ ~s.snmp -> SetRule(o, r, Longer(o, r), o.on[r] \/ Longer(o, r) >= RuleCycles)
          [] s.snmp /\ o.on[r] -> SetRule(o, r, 0, FALSE)
          [] OTHER             -> o

\* Mutant: a flapping device gets the status flapping, which no transition knows.
DecideFlapping(d, o, s) == IF Flapping(o) THEN "flapping" ELSE IF Reachable(s) THEN "up" ELSE "down"

\* The status decision; o has its streaks and rules brought up to date.
Decide(d, o, s) ==
    CASE d \in maint -> "maintenance"
      [] ~Reachable(s) /\ o.fails >= DownCycles ->
            IF Upstream[d] # None /\ Out(obj[Upstream[d]]) THEN "unreachable" ELSE "down"
      [] ~Reachable(s) /\ o.fails < DownCycles ->
            IF o.status = "maintenance" THEN "up" ELSE o.status
      [] Reachable(s) /\ Out(o) /\ o.oks < 2 -> o.status
      [] OTHER -> IF o.on["metric"] /\ s.level # "absent" THEN "degraded" ELSE "up"

\* The object after the sample.
Sampled(d, s) ==
    LET o == SnmpRule(MetricRules(Streaks(obj[d], s), s), s)
    IN  Transition(o, Decide(d, o, s))

\* The status changes from obj[d].status to something in to.
Goes(d, s, to) == Sampled(d, s).status \in to \ {obj[d].status}

\* The rule alerts, which are handled before the transition: the metric rule
\* calls openAlert on every sample while it is on, snmp_unreachable once.
Raised(d, s) ==
    When(Reachable(s) /\ s.level # "absent" /\ Sampled(d, s).on["metric"], {RuleKey("metric", d)})
    \union When(Sampled(d, s).on["snmp_unreachable"] /\ ~obj[d].on["snmp_unreachable"],
                {RuleKey("snmp_unreachable", d)})

\* Mutant: only the threshold rule resolves its alert.
ClearedMetricOnly(d, s) ==
    When(obj[d].on["metric"] /\ ~Sampled(d, s).on["metric"], {RuleKey("metric", d)})

Cleared(d, s) == {RuleKey(r, d) : r \in {r \in Rule : obj[d].on[r] /\ ~Sampled(d, s).on[r]}}

\* evaluateSite on the statuses in objs: TRUE when site_down is to be open.
SiteIsDown(objs) ==
    /\ Cardinality(Device) >= 3
    /\ Cardinality({d \in Device : Out(objs[d])}) * 100 >= SitePct * Cardinality(Device)

\* A confirmed failure: alert, fold the downstream devices that are down
\* already under it (foldChildren), judge the site.
DeviceGoesDown(d, s) ==
    LET kids == {k \in Device : Upstream[k] = d /\ obj[k].status = "down"}
        objs == [o \in Object |-> IF o = d THEN Sampled(d, s)
                                  ELSE IF o \in kids THEN Transition(obj[o], "unreachable")
                                  ELSE obj[o]]
    IN  /\ Goes(d, s, {"down"})
        /\ ~Flapping(Sampled(d, s))
        /\ obj' = objs
        /\ Alerting(Raised(d, s) \union {DownKey(d)} \union When(SiteIsDown(objs), {SiteKey}),
                    {DownKey(k) : k \in kids}, IdOf(DownKey(d), Opened(alerts[DownKey(d)], None)),
                    Cleared(d, s) \union When(~SiteIsDown(objs), {SiteKey}))
        /\ UNCHANGED maint

\* More changes than the limit: only the flapping alert.
DeviceFlaps(d, s) ==
    /\ Goes(d, s, {"down"})
    /\ Flapping(Sampled(d, s))
    /\ obj' = [obj EXCEPT ![d] = Sampled(d, s)]
    /\ Alerting(Raised(d, s) \union {FlapKey(d)}, {}, None, Cleared(d, s))
    /\ UNCHANGED maint

\* Suppressed: folded under the upstream's alert when there is one.
DeviceGoesUnreachable(d, s) ==
    LET cause == DownKey(Upstream[d])
    IN  /\ Goes(d, s, {"unreachable"})
        /\ obj' = [obj EXCEPT ![d] = Sampled(d, s)]
        /\ Alerting(Raised(d, s), When(Unresolved(alerts[cause]), {DownKey(d)}),
                    IdOf(cause, alerts[cause]), Cleared(d, s))
        /\ UNCHANGED maint

\* Answering again: resolve, judge the site.
DeviceComesBack(d, s) ==
    LET objs == [obj EXCEPT ![d] = Sampled(d, s)]
    IN  /\ obj[d].status \in {"down", "unreachable", "unknown"}
        /\ Goes(d, s, {"up", "degraded"})
        /\ obj' = objs
        /\ Alerting(Raised(d, s) \union When(SiteIsDown(objs), {SiteKey}), {}, None,
                    Cleared(d, s) \union {DownKey(d), FlapKey(d)}
                                 \union When(~SiteIsDown(objs), {SiteKey}))
        /\ UNCHANGED maint

\* Mutant: the down alert is left open.
DeviceEntersMaintenanceAlerted(d, s) ==
    /\ Goes(d, s, {"maintenance"})
    /\ obj' = [obj EXCEPT ![d] = Sampled(d, s)]
    /\ Alerting(Raised(d, s), {}, None, Cleared(d, s))
    /\ UNCHANGED maint

\* The first sample inside a maintenance window.
DeviceEntersMaintenance(d, s) ==
    /\ Goes(d, s, {"maintenance"})
    /\ obj' = [obj EXCEPT ![d] = Sampled(d, s)]
    /\ Alerting(Raised(d, s), {}, None, Cleared(d, s) \union {DownKey(d)})
    /\ UNCHANGED maint

\* No transition, or one that onDeviceTransition only logs.
DeviceCarriesOn(d, s) ==
    /\ \/ ~Goes(d, s, Status)
       \/ Goes(d, s, {"up", "degraded"}) /\ obj[d].status \in {"up", "degraded", "maintenance"}
    /\ obj' = [obj EXCEPT ![d] = Sampled(d, s)]
    /\ Alerting(Raised(d, s), {}, None, Cleared(d, s))
    /\ UNCHANGED maint

OnDevice(d, s) ==
    \/ DeviceGoesDown(d, s) \/ DeviceFlaps(d, s) \/ DeviceGoesUnreachable(d, s)
    \/ DeviceComesBack(d, s) \/ DeviceEntersMaintenance(d, s) \/ DeviceCarriesOn(d, s)

-----------------------------------------------------------------------------
(* onInterface and the hard link events of onEvent.                        *)

\* The status the sample calls for, before the utilisation rule.
IfDecide(i, s) ==
    LET dev == obj[Owner[i]]
    IN  CASE Out(dev) -> "unknown"
          [] dev.status = "maintenance" -> "maintenance"
          [] OTHER -> IF ~s.admin THEN "unknown" ELSE IF ~s.oper THEN "down" ELSE "up"

\* The rule of an interface counts on while it is on; it is only evaluated
\* on an interface that is up.
IfRule(o, level) ==
    LET r == "metric"
    IN  IF level = "high" THEN SetRule(o, r, Longer(o, r), o.on[r] \/ Longer(o, r) >= RuleCycles)
        ELSE Hysteresis(o, r, level)

IfSampled(i, s) ==
    LET to    == IfDecide(i, s)
        rated == to = "up" /\ s.level # "absent"
        o     == IF rated THEN IfRule(obj[i], s.level) ELSE obj[i]
    IN  Transition(o, IF rated /\ o.on["metric"] THEN "degraded" ELSE to)

\* Mutant: a flapping port is not alerted at all.
IfOpensUnlessFlapping(i, o) ==
    When(o.status = "down" /\ obj[i].status # "down" /\ ~Flapping(o), {IfDownKey(i)})

\* onInterfaceTransition from obj[i] to o.
IfOpens(i, o) ==
    When(o.status = "down" /\ obj[i].status # "down",
         IF Flapping(o) THEN {FlapKey(i)} ELSE {IfDownKey(i)})
IfCloses(i, o) ==
    When(o.status \in {"up", "degraded"} /\ obj[i].status = "down", {IfDownKey(i), FlapKey(i)})

OnInterface(i, s) ==
    LET o == IfSampled(i, s)
    IN  /\ obj' = [obj EXCEPT ![i] = o]
        /\ Alerting(When(o.on["metric"] /\ ~obj[i].on["metric"], {RuleKey("metric", i)})
                       \union IfOpens(i, o), {}, None,
                    When(~o.on["metric"] /\ obj[i].on["metric"], {RuleKey("metric", i)})
                       \union IfCloses(i, o))
        /\ UNCHANGED maint

\* A linkDown or linkUp trap or log line moves the interface at once.
OnLinkEvent(i, target) ==
    LET o == Transition(obj[i], target)
    IN  /\ obj' = [obj EXCEPT ![i] = o]
        /\ Alerting(IfOpens(i, o), {}, None, IfCloses(i, o))
        /\ UNCHANGED maint

\* An event with a rule of its own, and the event that ends it.
OnEventRaise(x) == Alerting({EventKey(x)}, {}, None, {}) /\ UNCHANGED <<obj, maint>>
OnEventClear(x) == Alerting({}, {}, None, {EventKey(x)}) /\ UNCHANGED <<obj, maint>>

-----------------------------------------------------------------------------
(* Housekeeping, operators, time and restarts.                             *)

\* The root cause of a is resolved, or archived.
RootIsResolved(a) == LET r == a.root IN ~Unresolved(alerts[r[1]]) \/ alerts[r[1]].gen # r[2]

\* Event alerts that ran out are resolved, and folded alerts of devices that
\* are up again after their root cause; devices not polled for five intervals
\* become unknown.
Housekeeping(expired, stale) ==
    LET orphans == {DownKey(d) : d \in {d \in Device :
                      LET a == alerts[DownKey(d)]
                      IN  /\ Unresolved(a) /\ a.root # None /\ RootIsResolved(a)
                          /\ obj[d].status = "up"}}
    IN  /\ obj' = [o \in Object |-> IF o \in stale THEN Transition(obj[o], "unknown") ELSE obj[o]]
        /\ Alerting({}, {}, None, {EventKey(x) : x \in expired} \union orphans)
        /\ UNCHANGED maint

\* Ack by an operator.
Ack(k) ==
    /\ "ack" \in Operators
    /\ alerts[k].state = "open"
    /\ alerts' = [alerts EXCEPT ![k].state = "acked"]
    /\ notes' = {}
    /\ UNCHANGED <<obj, maint>>

\* Resolve by an operator, even of a resolved alert: nobody is notified.
Resolve(k) ==
    /\ "resolve" \in Operators
    /\ alerts[k].state # "none"
    /\ alerts' = [alerts EXCEPT ![k].state = "recent", ![k].byHand = TRUE]
    /\ notes' = {}
    /\ UNCHANGED <<obj, maint>>

\* A maintenance window begins or ends.
ToggleMaintenance(d) ==
    /\ maint' = (maint \union {d}) \ (maint \intersect {d})
    /\ notes' = {}
    /\ UNCHANGED <<obj, alerts>>

\* Thirty minutes after an alert was resolved it can not be re-opened any more.
AlertAges(k) ==
    /\ alerts[k].state = "recent"
    /\ alerts[k].gen < MaxGen
    /\ alerts' = [alerts EXCEPT ![k].state = "old"]
    /\ notes' = {}
    /\ UNCHANGED <<obj, maint>>

\* Changes drop out of the ten-minute window.
FlapsAge(o) ==
    /\ obj[o].flips > 0
    /\ obj' = [obj EXCEPT ![o].flips = 0]
    /\ notes' = {}
    /\ UNCHANGED <<maint, alerts>>

\* New: the statuses come from the store, everything else starts anew.
Restart ==
    /\ Restarts
    /\ obj' = [o \in Object |-> NewObj(obj[o].status)]
    /\ notes' = {}
    /\ UNCHANGED <<maint, alerts>>

Init ==
    /\ obj = [o \in Object |-> NewObj("unknown")]
    /\ maint = {}
    /\ alerts = [k \in Key |-> NoAlert]
    /\ notes = {}

Next ==
    \/ \E d \in Device, s \in Sample : OnDevice(d, s)
    \/ \E i \in Interface, s \in IfSample : OnInterface(i, s)
    \/ \E i \in Interface, target \in {"up", "down"} : OnLinkEvent(i, target)
    \/ \E x \in Source : OnEventRaise(x) \/ OnEventClear(x)
    \/ \E expired \in SUBSET Source, stale \in SUBSET Device : Housekeeping(expired, stale)
    \/ \E k \in Key : Ack(k) \/ Resolve(k) \/ AlertAges(k)
    \/ \E d \in Device : ToggleMaintenance(d)
    \/ \E o \in Object : FlapsAge(o)
    \/ Restart

Spec == Init /\ [][Next]_vars

\* The device keeps being polled (the poller's schedule) and Run's select
\* takes every channel that stays ready.
EngineFairness(d) == WF_vars(\E s \in Sample : OnDevice(d, s))

-----------------------------------------------------------------------------
(* Properties.                                                             *)

TypeOK ==
    /\ obj    \in [Object -> Obj]
    /\ maint  \subseteq Device
    /\ alerts \in [Key -> Alert]
    /\ notes  \subseteq [key : Key, what : {"open", "resolved"}]

\* A device the engine calls up or degraded has no device_down alert left open,
\* folded or not: every way back from an outage, through maintenance, silence
\* (unknown), suppression or a restart, resolves it (onDeviceTransition).
UpHasNoDownAlert ==
    \A d \in Device : obj[d].status \in {"up", "degraded"} => ~Unresolved(alerts[DownKey(d)])

\* What is down is on somebody's list: the object's outage alert or its flapping
\* alert is unresolved, unless an operator closed it by hand (openAlert from
\* onDeviceTransition and onInterfaceTransition).
OutageKeys(o) == {FlapKey(o), IF o \in Device THEN DownKey(o) ELSE IfDownKey(o)}
DownIsAlerted ==
    \A o \in Object : obj[o].status = "down" =>
        \E k \in OutageKeys(o) : Unresolved(alerts[k]) \/ alerts[k].byHand

\* While the process runs, an unresolved threshold or SNMP alert has its rule's
\* condition on, so that the value crossing Exit will resolve it (check in
\* onDevice, the utilisation loop of onInterface).
RuleAlertHasCondition ==
    \A o \in Object, r \in Rule : Unresolved(alerts[RuleKey(r, o)]) => obj[o].on[r]

\* A device that answers every poll from some moment on, of a process that stays
\* up from then on, does not keep its device_down alert, folded or not: two good
\* cycles bring it back (onDevice, onDeviceTransition), whatever happens around
\* it and however often the process was restarted before.
\* Every poll in vain counts in fails, every answer clears it.
AnswersFromNowOn(d) == <>[](obj[d].fails = 0) /\ <>[][~Restart]_vars
AnsweringEndsOutage ==
    \A d \in Device : EngineFairness(d) /\ AnswersFromNowOn(d) => []<>~Unresolved(alerts[DownKey(d)])

\* README.md: TopoLight "tells you *what is down, where, and why*".  While some device is down
\* (confirmed, with nothing upstream to blame) the list of root causes, which
\* is what the console shows, is not empty.
OutageIsVisible ==
    (\E d \in Device : obj[d].status = "down") =>
        \E k \in Key : Unresolved(alerts[k]) /\ alerts[k].root = None
=============================================================================
