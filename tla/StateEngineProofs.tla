------------------------- MODULE StateEngineProofs -------------------------
(***************************************************************************)
(* Proofs about StateEngine, for any devices, interfaces, upstream map,    *)
(* samples and rule settings.                                              *)
(***************************************************************************)
EXTENDS StateEngine, TLAPS

-----------------------------------------------------------------------------
(* The objects.                                                            *)

\* transition() gives the object the status it is told and touches nothing of
\* its rules.
LEMMA TransitionFacts ==
    ASSUME NEW o \in Obj, NEW to \in Status
    PROVE  /\ Transition(o, to) \in Obj
           /\ Transition(o, to).status = to
           /\ Transition(o, to).on = o.on
<1>1. FlapLimit + 1 \in Nat /\ DownCycles \in Nat /\ RuleCycles \in Nat
    BY StateEngineAssumption
<1>2. o.flips \in 0..FlapLimit + 1
    BY DEF Obj
<1>3. Bump(o.flips, FlapLimit + 1) \in 0..FlapLimit + 1
    BY <1>1, <1>2 DEF Bump
<1>4. QED
    BY <1>1, <1>2, <1>3 DEF Transition, Obj

\* Samples move the streaks and the rules of an object, not its status.
LEMMA StreaksFacts ==
    ASSUME NEW o \in Obj, NEW s
    PROVE  Streaks(o, s) \in Obj /\ Streaks(o, s).status = o.status /\ Streaks(o, s).on = o.on
<1>1. DownCycles \in Nat
    BY StateEngineAssumption
<1>2. o.fails \in 0..DownCycles /\ o.oks \in 0..2
    BY DEF Obj
<1>3. Bump(o.oks, 2) \in 0..2 /\ Bump(o.fails, DownCycles) \in 0..DownCycles /\ 0 \in 0..DownCycles /\ 0 \in 0..2
    BY <1>1, <1>2 DEF Bump
<1>4. QED
    BY <1>3 DEF Streaks, Obj

\* Setting rule r of an object leaves its status alone.
LEMMA SetRuleFacts ==
    ASSUME NEW o \in Obj, NEW r \in Rule, NEW n \in 0..RuleCycles, NEW b \in BOOLEAN
    PROVE  /\ SetRule(o, r, n, b) \in Obj
           /\ SetRule(o, r, n, b).status = o.status
           /\ SetRule(o, r, n, b).on = [o.on EXCEPT ![r] = b]
<1>1. o.runs \in [Rule -> 0..RuleCycles] /\ o.on \in [Rule -> BOOLEAN]
    BY DEF Obj
<1>2. SetRule(o, r, n, b) = [o EXCEPT !.runs = [o.runs EXCEPT ![r] = n], !.on = [o.on EXCEPT ![r] = b]]
    BY DEF Obj, SetRule
<1>3. [o.runs EXCEPT ![r] = n] \in [Rule -> 0..RuleCycles] /\ [o.on EXCEPT ![r] = b] \in [Rule -> BOOLEAN]
    BY <1>1
<1>4. QED
    BY <1>2, <1>3 DEF Obj

\* The run of a rule stays within its bound.
LEMMA LongerFacts ==
    ASSUME NEW o \in Obj, NEW r \in Rule
    PROVE  /\ Longer(o, r) \in 0..RuleCycles
           /\ (Longer(o, r) >= RuleCycles) \in BOOLEAN
           /\ 0 \in 0..RuleCycles
           /\ o.on \in [Rule -> BOOLEAN]
<1>1. RuleCycles \in Nat \ {0}
    BY StateEngineAssumption
<1>2. o.runs[r] \in 0..RuleCycles /\ o.on \in [Rule -> BOOLEAN]
    BY DEF Obj
<1>3. QED
    BY <1>1, <1>2 DEF Bump, Longer

\* What sets rule r of o, or nothing, leaves the status and the other rules alone.
SetsRule(o, r, p) == p = o \/ \E n \in 0..RuleCycles, b \in BOOLEAN : p = SetRule(o, r, n, b)

\* So does everything that sets rule r or nothing.
LEMMA SetsRuleFacts ==
    ASSUME NEW o \in Obj, NEW r \in Rule, NEW p, SetsRule(o, r, p)
    PROVE  /\ p \in Obj
           /\ p.status = o.status
           /\ \A q \in Rule \ {r} : p.on[q] = o.on[q]
<1>1. CASE p = o
    BY <1>1
<1>2. CASE p # o
  <2>1. PICK n \in 0..RuleCycles, b \in BOOLEAN : p = SetRule(o, r, n, b)
    BY <1>2 DEF SetsRule
  <2>2. p \in Obj /\ p.status = o.status /\ p.on = [o.on EXCEPT ![r] = b]
    BY <2>1, SetRuleFacts
  <2>3. o.on \in [Rule -> BOOLEAN]
    BY DEF Obj
  <2>4. QED
    BY <2>2, <2>3
<1>3. QED
    BY <1>1, <1>2

\* check() in onDevice sets its own rule or nothing.
LEMMA HysteresisSets ==
    ASSUME NEW o \in Obj, NEW r \in Rule, NEW level
    PROVE  SetsRule(o, r, Hysteresis(o, r, level))
<1>1. Longer(o, r) \in 0..RuleCycles /\ 0 \in 0..RuleCycles
    BY LongerFacts
<1>2. (Longer(o, r) >= RuleCycles) \in BOOLEAN /\ FALSE \in BOOLEAN
    BY LongerFacts
<1>3. CASE level = "high" /\ ~o.on[r]
  <2>1. Hysteresis(o, r, level) = SetRule(o, r, Longer(o, r), Longer(o, r) >= RuleCycles)
    BY <1>3, Zenon DEF Hysteresis
  <2>2. QED
    BY <1>1, <1>2, <2>1, Zenon DEF SetsRule
<1>4. CASE level = "low"
  <2>1. Hysteresis(o, r, level) = SetRule(o, r, 0, FALSE)
    BY <1>4 DEF Hysteresis
  <2>2. QED
    BY <1>1, <1>2, <2>1, Zenon DEF SetsRule
<1>5. CASE ~(level = "high" /\ ~o.on[r]) /\ level # "low"
    BY <1>5 DEF Hysteresis, SetsRule
<1>6. QED
    BY <1>3, <1>4, <1>5

\* The SNMP test of onDevice sets its own rule or nothing.
LEMMA SnmpRuleSets ==
    ASSUME NEW o \in Obj, NEW s
    PROVE  SetsRule(o, "snmp_unreachable", SnmpRule(o, s))
<1> DEFINE r == "snmp_unreachable"
           on == o.on[r] \/ Longer(o, r) >= RuleCycles
<1>r. r \in Rule
    BY DEF Rule
<1>1. Longer(o, r) \in 0..RuleCycles /\ 0 \in 0..RuleCycles
    BY <1>r, LongerFacts
<1>2. on \in BOOLEAN /\ FALSE \in BOOLEAN
    OBVIOUS
<1>3. CASE s.icmp /\ ~s.snmp
  <2>1. SnmpRule(o, s) = SetRule(o, r, Longer(o, r), on)
    BY <1>3, Zenon DEF SnmpRule
  <2>2. QED
    BY <1>1, <1>2, <2>1, Zenon DEF SetsRule
<1>4. CASE ~(s.icmp /\ ~s.snmp) /\ s.snmp /\ o.on[r]
  <2>1. SnmpRule(o, s) = SetRule(o, r, 0, FALSE)
    BY <1>4 DEF SnmpRule
  <2>2. QED
    BY <1>1, <1>2, <2>1, Zenon DEF SetsRule
<1>5. CASE ~(s.icmp /\ ~s.snmp) /\ ~(s.snmp /\ o.on[r])
    BY <1>5 DEF SnmpRule, SetsRule
<1>6. QED
    BY <1>3, <1>4, <1>5

\* The utilisation loop of onInterface sets its own rule or nothing.
LEMMA IfRuleSets ==
    ASSUME NEW o \in Obj, NEW level
    PROVE  SetsRule(o, "metric", IfRule(o, level))
<1> DEFINE r == "metric"
           on == o.on[r] \/ Longer(o, r) >= RuleCycles
<1>r. r \in Rule
    BY DEF Rule
<1>1. Longer(o, r) \in 0..RuleCycles
    BY <1>r, LongerFacts
<1>2. on \in BOOLEAN
    OBVIOUS
<1>3. CASE level = "high"
  <2>1. IfRule(o, level) = SetRule(o, r, Longer(o, r), on)
    BY <1>3, Zenon DEF IfRule
  <2>2. QED
    BY <1>1, <1>2, <2>1, Zenon DEF SetsRule
<1>4. CASE level # "high"
    BY <1>r, <1>4, HysteresisSets DEF IfRule
<1>5. QED
    BY <1>3, <1>4

-----------------------------------------------------------------------------
(* What a sample makes of an object.                                       *)

\* The object of device d as Decide sees it.
Updated(d, s) == SnmpRule(MetricRules(Streaks(obj[d], s), s), s)

\* Streaks and rules leave the status to the decision that follows.
LEMMA UpdatedFacts ==
    ASSUME TypeOK, NEW d \in Device, NEW s
    PROVE  Updated(d, s) \in Obj /\ Updated(d, s).status = obj[d].status
<1>1. obj[d] \in Obj
    BY DEF TypeOK, Object
<1>2. Streaks(obj[d], s) \in Obj /\ Streaks(obj[d], s).status = obj[d].status
    BY <1>1, StreaksFacts
<1> DEFINE m == MetricRules(Streaks(obj[d], s), s)
<1>3. m \in Obj /\ m.status = obj[d].status
  <2>1. "metric" \in Rule
    BY DEF Rule
  <2>2. CASE Reachable(s)
    <3>1. SetsRule(Streaks(obj[d], s), "metric", m)
      BY <1>2, <2>1, <2>2, HysteresisSets DEF MetricRules
    <3>2. QED
      BY <1>2, <2>1, <3>1, SetsRuleFacts
  <2>3. CASE ~Reachable(s)
    BY <1>2, <2>3 DEF MetricRules
  <2>4. QED
    BY <2>2, <2>3
<1>4. SetsRule(m, "snmp_unreachable", SnmpRule(m, s))
    BY <1>3, SnmpRuleSets
<1>5. "snmp_unreachable" \in Rule
    BY DEF Rule
<1>6. SnmpRule(m, s) \in Obj /\ SnmpRule(m, s).status = m.status
    BY <1>3, <1>4, <1>5, SetsRuleFacts
<1>7. QED
    BY <1>3, <1>6 DEF Updated

\* A sample gives the device a status of the engine, the rules decided before
\* it, and suppression only below an upstream device that is out.
LEMMA SampledFacts ==
    ASSUME TypeOK, NEW d \in Device, NEW s
    PROVE  /\ Sampled(d, s) \in Obj
           /\ Sampled(d, s).on = Updated(d, s).on
           /\ Goes(d, s, {"unreachable"}) => Upstream[d] \in Device
<1> DEFINE o == Updated(d, s)
<1>1. o \in Obj /\ o.status = obj[d].status
    BY UpdatedFacts
<1>2. o.status \in Status
    BY <1>1 DEF Obj
<1>3. Decide(d, o, s) \in Status
    BY <1>2 DEF Decide, Status
<1>4. Sampled(d, s) = Transition(o, Decide(d, o, s))
    BY DEF Sampled, Updated
<1>5. /\ Sampled(d, s) \in Obj
      /\ Sampled(d, s).status = Decide(d, o, s)
      /\ Sampled(d, s).on = o.on
    BY <1>1, <1>3, <1>4, TransitionFacts
<1>6. ASSUME Goes(d, s, {"unreachable"})
      PROVE  Upstream[d] \in Device
  <2>1. Decide(d, o, s) = "unreachable" /\ o.status # "unreachable"
    BY <1>1, <1>5, <1>6 DEF Goes
  <2>2. Upstream[d] # None
    BY <2>1 DEF Decide
  <2>3. QED
    BY <2>2, StateEngineAssumption
<1>7. QED
    BY <1>5, <1>6

\* An interface sample gives a well-formed object and has no SNMP rule.
LEMMA IfSampledFacts ==
    ASSUME TypeOK, NEW i \in Interface, NEW s
    PROVE  /\ IfSampled(i, s) \in Obj
           /\ IfSampled(i, s).on["snmp_unreachable"] = obj[i].on["snmp_unreachable"]
<1> DEFINE to    == IfDecide(i, s)
           rated == to = "up" /\ s.level # "absent"
           o     == IF rated THEN IfRule(obj[i], s.level) ELSE obj[i]
<1>1. obj[i] \in Obj
    BY DEF TypeOK, Object
<1>2. "metric" \in Rule /\ "snmp_unreachable" \in Rule \ {"metric"}
    BY DEF Rule
<1>3. SetsRule(obj[i], "metric", IfRule(obj[i], s.level))
    BY <1>1, IfRuleSets
<1>4. o \in Obj /\ o.on["snmp_unreachable"] = obj[i].on["snmp_unreachable"]
    BY <1>1, <1>2, <1>3, SetsRuleFacts
<1>5. to \in Status /\ "degraded" \in Status
    BY DEF IfDecide, Status
<1>6. (IF rated /\ o.on["metric"] THEN "degraded" ELSE to) \in Status
    BY <1>5
<1>7. IfSampled(i, s) = Transition(o, IF rated /\ o.on["metric"] THEN "degraded" ELSE to)
    BY Zenon DEF IfSampled
<1>8. QED
    BY <1>4, <1>6, <1>7, TransitionFacts

-----------------------------------------------------------------------------
(* The alerts.                                                             *)

\* openAlert leaves an unresolved alert, whatever was there.
LEMMA OpenedFacts ==
    ASSUME NEW a \in Alert, NEW root \in RootCause
    PROVE  Opened(a, root) \in Alert /\ Unresolved(Opened(a, root))
<1>1. a.state \in AlertState /\ a.gen \in Nat /\ a.root \in RootCause
    BY DEF Alert
<1>2. CASE Unresolved(a)
    BY <1>1, <1>2 DEF Opened, Alert, Unresolved
<1>3. CASE a.state = "recent"
    BY <1>1, <1>3 DEF Opened, Alert, Unresolved, AlertState
<1>4. CASE ~Unresolved(a) /\ a.state # "recent"
    BY <1>1, <1>4 DEF Opened, Alert, Unresolved, AlertState
<1>5. QED
    BY <1>2, <1>3, <1>4

\* resolveAlert leaves a resolved alert or none.
LEMMA ResolvedFacts ==
    ASSUME NEW a \in Alert
    PROVE  Resolved(a) \in Alert /\ ~Unresolved(Resolved(a))
    BY DEF Resolved, Alert, Unresolved, AlertState

\* A step opens the alerts in op, resolves those in cl and leaves the others.
Effect(op, cl) ==
    /\ alerts' \in [Key -> Alert]
    /\ notes' \subseteq [key : Key, what : {"open", "resolved"}]
    /\ \A k \in op : Unresolved(alerts'[k])
    /\ \A k \in cl \ op : ~Unresolved(alerts'[k])
    /\ \A k \in Key \ (op \union cl) : alerts'[k] = alerts[k]

\* A handler's calls of openAlert and resolveAlert have their effect.
LEMMA AlertingEffect ==
    ASSUME TypeOK, NEW opens \in SUBSET Key, NEW folds \in SUBSET Key, NEW closes \in SUBSET Key,
           NEW root \in RootCause, Alerting(opens, folds, root, closes)
    PROVE  Effect(opens \union folds, closes)
<1> DEFINE rootOf(k) == IF k \in folds THEN root ELSE None
<1>1. \A k \in Key : alerts[k] \in Alert /\ rootOf(k) \in RootCause
    BY DEF TypeOK, RootCause
<1>2. alerts' = [k \in Key |->
                   IF k \in opens \union folds THEN Opened(alerts[k], rootOf(k))
                   ELSE IF k \in closes THEN Resolved(alerts[k]) ELSE alerts[k]]
    BY DEF Alerting
<1> HIDE DEF rootOf
<1>3. \A k \in Key : /\ Opened(alerts[k], rootOf(k)) \in Alert
                     /\ Unresolved(Opened(alerts[k], rootOf(k)))
                     /\ Resolved(alerts[k]) \in Alert
                     /\ ~Unresolved(Resolved(alerts[k]))
    BY <1>1, OpenedFacts, ResolvedFacts
<1>4. alerts' \in [Key -> Alert]
    BY <1>1, <1>2, <1>3
<1>5. notes' \subseteq [key : Key, what : {"open", "resolved"}]
    BY DEF Alerting
<1>6. QED
    BY <1>2, <1>3, <1>4, <1>5 DEF Effect

\* The rule alerts of an object.
RuleKeysOf(o) == {RuleKey(r, o) : r \in Rule}

\* The keys of different objects and of different rules are different.
LEMMA KeyFacts ==
    /\ \A o \in Object : OutageKeys(o) \subseteq Key /\ RuleKeysOf(o) \subseteq Key
    /\ \A d \in Device : DownKey(d) \in DownKeys /\ DownKey(d) \in OutageKeys(d)
    /\ \A o \in Object : FlapKey(o) \in OutageKeys(o)
    /\ \A i \in Interface : IfDownKey(i) \in OutageKeys(i)
    /\ SiteKey \in Key
    /\ \A x \in Source : EventKey(x) \in Key
    /\ \A o, p \in Object : o # p => OutageKeys(o) \intersect OutageKeys(p) = {}
    /\ \A o, p \in Object : OutageKeys(o) \intersect RuleKeysOf(p) = {}
    /\ \A o \in Object : SiteKey \notin OutageKeys(o) /\ \A x \in Source : EventKey(x) \notin OutageKeys(o)
    /\ \A d \in Device : DownKey(d) # FlapKey(d)
<1> USE DEF OutageKeys, RuleKeysOf, RuleKey, DownKey, FlapKey, IfDownKey, SiteKey, EventKey
<1>1. \A o \in Object : OutageKeys(o) \subseteq Key /\ RuleKeysOf(o) \subseteq Key
    BY DEF Key, DownKeys, Object
<1>2. \A d \in Device : DownKey(d) \in DownKeys /\ DownKey(d) \in OutageKeys(d)
    BY DEF DownKeys
<1>3. \A o \in Object : FlapKey(o) \in OutageKeys(o)
    OBVIOUS
<1>4. \A i \in Interface : IfDownKey(i) \in OutageKeys(i)
    BY StateEngineAssumption
<1>5. SiteKey \in Key /\ \A x \in Source : EventKey(x) \in Key
    BY DEF Key
<1>6. \A o, p \in Object : o # p => OutageKeys(o) \intersect OutageKeys(p) = {}
    OBVIOUS
<1>7. \A o, p \in Object : OutageKeys(o) \intersect RuleKeysOf(p) = {}
    BY DEF Rule
<1>8. \A o \in Object : SiteKey \notin OutageKeys(o) /\ \A x \in Source : EventKey(x) \notin OutageKeys(o)
    OBVIOUS
<1>9. \A d \in Device : DownKey(d) # FlapKey(d)
    OBVIOUS
<1>10. QED
    BY <1>1, <1>2, <1>3, <1>4, <1>5, <1>6, <1>7, <1>8, <1>9

\* A device sample raises and clears rule alerts of that device only.
LEMMA RuleAlertFacts ==
    ASSUME NEW d, NEW s
    PROVE  Raised(d, s) \subseteq RuleKeysOf(d) /\ Cleared(d, s) \subseteq RuleKeysOf(d)
    BY DEF Raised, Cleared, RuleKeysOf, When, Rule

-----------------------------------------------------------------------------
(* The inductive invariant.                                                *)

\* UpHasNoDownAlert extended to maintenance, which is left for "up" without a
\* look at the alerts.
Settled ==
    \A d \in Device : obj[d].status \in {"up", "degraded", "maintenance"} =>
        ~Unresolved(alerts[DownKey(d)])

\* Object o is on the list of outages after the step.
Listed(o) == \E k \in OutageKeys(o) : Unresolved(alerts'[k]) \/ alerts'[k].byHand

EngineInv == TypeOK /\ Settled /\ DownIsAlerted

\* An outage stays listed in a step that resolves none of the object's alerts.
LEMMA OutageKept ==
    ASSUME EngineInv, NEW op, NEW cl, Effect(op, cl), NEW o \in Object,
           obj[o].status = "down", OutageKeys(o) \intersect cl = {}
    PROVE  Listed(o)
<1>1. PICK k \in OutageKeys(o) : Unresolved(alerts[k]) \/ alerts[k].byHand
    BY DEF EngineInv, DownIsAlerted
<1>2. k \in Key /\ k \notin cl
    BY <1>1, KeyFacts
<1>3. CASE k \in op
    BY <1>1, <1>3 DEF Effect, Listed, Unresolved
<1>4. CASE k \notin op
  <2>1. alerts'[k] = alerts[k]
    BY <1>2, <1>4 DEF Effect
  <2>2. QED
    BY <1>1, <2>1 DEF Listed, Unresolved
<1>5. QED
    BY <1>3, <1>4

\* A device without an unresolved device_down alert gets none in a step that
\* does not open it.
LEMMA QuietKept ==
    ASSUME NEW op, NEW cl, Effect(op, cl), NEW d \in Device,
           ~Unresolved(alerts[DownKey(d)]), DownKey(d) \notin op
    PROVE  ~Unresolved(alerts[DownKey(d)])'
<1>1. DownKey(d) \in Key
    BY KeyFacts DEF Object
<1>2. CASE DownKey(d) \in cl
    BY <1>2 DEF Effect, Unresolved
<1>3. CASE DownKey(d) \notin cl
    BY <1>1, <1>3 DEF Effect, Unresolved
<1>4. QED
    BY <1>2, <1>3

\* What most actions have in common: obj' differs from obj in the object x only,
\* which is listed if it is down and quiet if it is settled.
OneObject(x, new, op, cl) ==
    /\ new \in Obj
    /\ obj' = [obj EXCEPT ![x] = new]
    /\ maint' \subseteq Device
    /\ Effect(op, cl)
    /\ op \intersect DownKeys \subseteq {DownKey(x)}
    /\ \A o \in Object \ {x} : OutageKeys(o) \intersect cl = {}
    /\ new.status = "down" => Listed(x)
    /\ x \in Device /\ new.status \in {"up", "degraded", "maintenance"} =>
           ~Unresolved(alerts'[DownKey(x)])

\* A step of this kind preserves the invariant.
LEMMA OneObjectKeeps ==
    ASSUME EngineInv, NEW x \in Object, NEW new, NEW op, NEW cl, OneObject(x, new, op, cl)
    PROVE  EngineInv'
<1> USE DEF OneObject
<1>1. TypeOK'
    BY DEF EngineInv, TypeOK, Effect
<1>2. obj'[x] = new /\ \A o \in Object \ {x} : obj'[o] = obj[o]
    BY DEF EngineInv, TypeOK
<1>3. Settled'
  <2> SUFFICES ASSUME NEW d \in Device, obj'[d].status \in {"up", "degraded", "maintenance"}
               PROVE  ~Unresolved(alerts[DownKey(d)])'
    BY DEF Settled
  <2>1. CASE d = x
    BY <1>2, <2>1
  <2>2. CASE d # x
    <3>1. d \in Object \ {x}
      BY <2>2 DEF Object
    <3>2. ~Unresolved(alerts[DownKey(d)])
      BY <1>2, <3>1 DEF EngineInv, Settled
    <3>3. DownKey(d) \notin op
      BY <2>2, KeyFacts DEF DownKey
    <3>4. QED
      BY <3>2, <3>3, QuietKept
  <2>3. QED
    BY <2>1, <2>2
<1>4. DownIsAlerted'
  <2> SUFFICES ASSUME NEW o \in Object, obj'[o].status = "down"
               PROVE  Listed(o)
    BY DEF DownIsAlerted, Listed
  <2>1. CASE o = x
    BY <1>2, <2>1
  <2>2. CASE o # x
    BY <1>2, <2>2, OutageKept
  <2>3. QED
    BY <2>1, <2>2
<1>5. QED
    BY <1>1, <1>3, <1>4 DEF EngineInv

-----------------------------------------------------------------------------
(* The device actions preserve it.                                         *)

\* A flapping device that goes down is listed by its flapping alert.
LEMMA DeviceFlapsKeeps ==
    ASSUME EngineInv, NEW d \in Device, NEW s \in Sample, DeviceFlaps(d, s)
    PROVE  EngineInv'
<1> DEFINE op == Raised(d, s) \union {FlapKey(d)}
           cl == Cleared(d, s)
<1>1. d \in Object /\ TypeOK
    BY DEF Object, EngineInv
<1>2. Sampled(d, s) \in Obj /\ maint' \subseteq Device /\ obj' = [obj EXCEPT ![d] = Sampled(d, s)]
    BY <1>1, SampledFacts DEF DeviceFlaps, TypeOK
<1>3. op \in SUBSET Key /\ cl \in SUBSET Key
    BY <1>1, KeyFacts, RuleAlertFacts DEF When
<1>4. Effect(op, cl)
  <2>1. Alerting(op, {}, None, cl)
    BY DEF DeviceFlaps
  <2>2. None \in RootCause /\ {} \in SUBSET Key
    BY DEF RootCause
  <2>3. Effect(op \union {}, cl)
    BY <1>1, <1>3, <2>1, <2>2, AlertingEffect
  <2>4. op \union {} = op
    OBVIOUS
  <2>5. QED
    BY <2>3, <2>4
<1>5. op \intersect DownKeys \subseteq {DownKey(d)}
    BY <1>1, KeyFacts, RuleAlertFacts DEF When, DownKeys, FlapKey, DownKey, RuleKeysOf, RuleKey, Rule, SiteKey
<1>6. \A o \in Object \ {d} : OutageKeys(o) \intersect cl = {}
    BY <1>1, KeyFacts, RuleAlertFacts DEF When
<1>7. Sampled(d, s).status = "down" => Listed(d)
    BY <1>1, <1>4, KeyFacts DEF Effect, Listed, Unresolved
<1>8. Sampled(d, s).status \in {"up", "degraded", "maintenance"} => ~Unresolved(alerts[DownKey(d)])'
    BY DEF DeviceFlaps, Goes
<1> HIDE DEF op, cl
<1>9. OneObject(d, Sampled(d, s), op, cl)
    BY <1>2, <1>4, <1>5, <1>6, <1>7, <1>8 DEF OneObject
<1>10. QED
    BY <1>1, <1>9, OneObjectKeeps

\* A device that comes back has its device_down alert resolved.
LEMMA DeviceComesBackKeeps ==
    ASSUME EngineInv, NEW d \in Device, NEW s \in Sample, DeviceComesBack(d, s)
    PROVE  EngineInv'
<1> DEFINE op == Raised(d, s) \union When(SiteIsDown([obj EXCEPT ![d] = Sampled(d, s)]), {SiteKey})
           cl == Cleared(d, s) \union {DownKey(d), FlapKey(d)}
                     \union When(~SiteIsDown([obj EXCEPT ![d] = Sampled(d, s)]), {SiteKey})
<1>1. d \in Object /\ TypeOK
    BY DEF Object, EngineInv
<1>2. Sampled(d, s) \in Obj /\ maint' \subseteq Device /\ obj' = [obj EXCEPT ![d] = Sampled(d, s)]
    BY <1>1, SampledFacts DEF DeviceComesBack, TypeOK
<1>3. op \in SUBSET Key /\ cl \in SUBSET Key
    BY <1>1, KeyFacts, RuleAlertFacts DEF When
<1>4. Effect(op, cl)
  <2>1. Alerting(op, {}, None, cl)
    BY DEF DeviceComesBack
  <2>2. None \in RootCause /\ {} \in SUBSET Key
    BY DEF RootCause
  <2>3. Effect(op \union {}, cl)
    BY <1>1, <1>3, <2>1, <2>2, AlertingEffect
  <2>4. op \union {} = op
    OBVIOUS
  <2>5. QED
    BY <2>3, <2>4
<1>5. op \intersect DownKeys \subseteq {DownKey(d)}
    BY <1>1, KeyFacts, RuleAlertFacts DEF When, DownKeys, FlapKey, DownKey, RuleKeysOf, RuleKey, Rule, SiteKey
<1>6. \A o \in Object \ {d} : OutageKeys(o) \intersect cl = {}
    BY <1>1, KeyFacts, RuleAlertFacts DEF When
<1>7. Sampled(d, s).status = "down" => Listed(d)
    BY DEF DeviceComesBack, Goes
<1>8. Sampled(d, s).status \in {"up", "degraded", "maintenance"} => ~Unresolved(alerts[DownKey(d)])'
  <2>1. DownKey(d) \in cl \ op
    BY <1>1, KeyFacts, RuleAlertFacts DEF When, DownKey, RuleKeysOf, RuleKey, Rule, SiteKey
  <2>2. QED
    BY <1>4, <2>1 DEF Effect, Unresolved
<1> HIDE DEF op, cl
<1>9. OneObject(d, Sampled(d, s), op, cl)
    BY <1>2, <1>4, <1>5, <1>6, <1>7, <1>8 DEF OneObject
<1>10. QED
    BY <1>1, <1>9, OneObjectKeeps

\* A device that enters maintenance has its device_down alert resolved.
LEMMA DeviceEntersMaintenanceKeeps ==
    ASSUME EngineInv, NEW d \in Device, NEW s \in Sample, DeviceEntersMaintenance(d, s)
    PROVE  EngineInv'
<1> DEFINE op == Raised(d, s)
           cl == Cleared(d, s) \union {DownKey(d)}
<1>1. d \in Object /\ TypeOK
    BY DEF Object, EngineInv
<1>2. Sampled(d, s) \in Obj /\ maint' \subseteq Device /\ obj' = [obj EXCEPT ![d] = Sampled(d, s)]
    BY <1>1, SampledFacts DEF DeviceEntersMaintenance, TypeOK
<1>3. op \in SUBSET Key /\ cl \in SUBSET Key
    BY <1>1, KeyFacts, RuleAlertFacts DEF When
<1>4. Effect(op, cl)
  <2>1. Alerting(op, {}, None, cl)
    BY DEF DeviceEntersMaintenance
  <2>2. None \in RootCause /\ {} \in SUBSET Key
    BY DEF RootCause
  <2>3. Effect(op \union {}, cl)
    BY <1>1, <1>3, <2>1, <2>2, AlertingEffect
  <2>4. op \union {} = op
    OBVIOUS
  <2>5. QED
    BY <2>3, <2>4
<1>5. op \intersect DownKeys \subseteq {DownKey(d)}
    BY <1>1, KeyFacts, RuleAlertFacts DEF When, DownKeys, FlapKey, DownKey, RuleKeysOf, RuleKey, Rule, SiteKey
<1>6. \A o \in Object \ {d} : OutageKeys(o) \intersect cl = {}
    BY <1>1, KeyFacts, RuleAlertFacts DEF When
<1>7. Sampled(d, s).status = "down" => Listed(d)
    BY DEF DeviceEntersMaintenance, Goes
<1>8. Sampled(d, s).status \in {"up", "degraded", "maintenance"} => ~Unresolved(alerts[DownKey(d)])'
  <2>1. DownKey(d) \in cl \ op
    BY <1>1, KeyFacts, RuleAlertFacts DEF When, DownKey, RuleKeysOf, RuleKey, Rule, SiteKey
  <2>2. QED
    BY <1>4, <2>1 DEF Effect, Unresolved
<1> HIDE DEF op, cl
<1>9. OneObject(d, Sampled(d, s), op, cl)
    BY <1>2, <1>4, <1>5, <1>6, <1>7, <1>8 DEF OneObject
<1>10. QED
    BY <1>1, <1>9, OneObjectKeeps

\* A sample without a transition that matters keeps outage alerts as they are.
LEMMA DeviceCarriesOnKeeps ==
    ASSUME EngineInv, NEW d \in Device, NEW s \in Sample, DeviceCarriesOn(d, s)
    PROVE  EngineInv'
<1> DEFINE op == Raised(d, s)
           cl == Cleared(d, s)
<1>1. d \in Object /\ TypeOK
    BY DEF Object, EngineInv
<1>2. Sampled(d, s) \in Obj /\ maint' \subseteq Device /\ obj' = [obj EXCEPT ![d] = Sampled(d, s)]
    BY <1>1, SampledFacts DEF DeviceCarriesOn, TypeOK
<1>3. op \in SUBSET Key /\ cl \in SUBSET Key
    BY <1>1, KeyFacts, RuleAlertFacts DEF When
<1>4. Effect(op, cl)
  <2>1. Alerting(op, {}, None, cl)
    BY DEF DeviceCarriesOn
  <2>2. None \in RootCause /\ {} \in SUBSET Key
    BY DEF RootCause
  <2>3. Effect(op \union {}, cl)
    BY <1>1, <1>3, <2>1, <2>2, AlertingEffect
  <2>4. op \union {} = op
    OBVIOUS
  <2>5. QED
    BY <2>3, <2>4
<1>5. op \intersect DownKeys \subseteq {DownKey(d)}
    BY <1>1, KeyFacts, RuleAlertFacts DEF When, DownKeys, FlapKey, DownKey, RuleKeysOf, RuleKey, Rule, SiteKey
<1>6. \A o \in Object \ {d} : OutageKeys(o) \intersect cl = {}
    BY <1>1, KeyFacts, RuleAlertFacts DEF When
<1>7. Sampled(d, s).status = "down" => Listed(d)
  <2> SUFFICES ASSUME Sampled(d, s).status = "down"
               PROVE  Listed(d)
    OBVIOUS
  <2>1. obj[d].status = "down"
    BY DEF DeviceCarriesOn, Goes, Status
  <2>2. OutageKeys(d) \intersect cl = {}
    BY <1>1, KeyFacts, RuleAlertFacts
  <2> HIDE DEF op, cl
  <2>3. QED
    BY <1>1, <1>4, <2>1, <2>2, OutageKept
<1>8. Sampled(d, s).status \in {"up", "degraded", "maintenance"} => ~Unresolved(alerts[DownKey(d)])'
  <2> SUFFICES ASSUME Sampled(d, s).status \in {"up", "degraded", "maintenance"}
               PROVE  ~Unresolved(alerts[DownKey(d)])'
    OBVIOUS
  <2>1. obj[d].status \in {"up", "degraded", "maintenance"}
    BY DEF DeviceCarriesOn, Goes, Status
  <2>2. ~Unresolved(alerts[DownKey(d)])
    BY <2>1 DEF EngineInv, Settled
  <2>3. DownKey(d) \notin op
    BY <1>1, KeyFacts, RuleAlertFacts
  <2> HIDE DEF op, cl
  <2>4. QED
    BY <1>4, <2>2, <2>3, QuietKept
<1> HIDE DEF op, cl
<1>9. OneObject(d, Sampled(d, s), op, cl)
    BY <1>2, <1>4, <1>5, <1>6, <1>7, <1>8 DEF OneObject
<1>10. QED
    BY <1>1, <1>9, OneObjectKeeps

\* A suppressed device is neither down nor settled.
LEMMA DeviceGoesUnreachableKeeps ==
    ASSUME EngineInv, NEW d \in Device, NEW s \in Sample, DeviceGoesUnreachable(d, s)
    PROVE  EngineInv'
<1> DEFINE cause == DownKey(Upstream[d])
           root  == IdOf(cause, alerts[cause])
           fold  == When(Unresolved(alerts[cause]), {DownKey(d)})
           op    == Raised(d, s) \union fold
           cl    == Cleared(d, s)
<1>1. d \in Object /\ TypeOK
    BY DEF Object, EngineInv
<1>2. Sampled(d, s) \in Obj /\ maint' \subseteq Device /\ obj' = [obj EXCEPT ![d] = Sampled(d, s)]
    BY <1>1, SampledFacts DEF DeviceGoesUnreachable, TypeOK
<1>3. root \in RootCause
  <2>1. Upstream[d] \in Device
    BY <1>1, SampledFacts DEF DeviceGoesUnreachable
  <2>2. cause \in DownKeys /\ cause \in Key
    BY <2>1, KeyFacts DEF Object
  <2>3. alerts[cause].gen \in Nat
    BY <1>1, <2>2 DEF TypeOK, Alert
  <2>4. QED
    BY <2>2, <2>3 DEF IdOf, RootCause
<1>4. Raised(d, s) \in SUBSET Key /\ fold \in SUBSET Key /\ cl \in SUBSET Key
    BY <1>1, KeyFacts, RuleAlertFacts DEF When
<1>5. Effect(op, cl)
  <2>1. Alerting(Raised(d, s), fold, root, cl)
    BY DEF DeviceGoesUnreachable
  <2> HIDE DEF fold, root, cl
  <2>2. QED
    BY <1>1, <1>3, <1>4, <2>1, AlertingEffect
<1>6. op \intersect DownKeys \subseteq {DownKey(d)}
    BY RuleAlertFacts DEF When, DownKeys, DownKey, RuleKeysOf, RuleKey, Rule
<1>7. \A o \in Object \ {d} : OutageKeys(o) \intersect cl = {}
    BY <1>1, KeyFacts, RuleAlertFacts
<1>8. Sampled(d, s).status = "unreachable"
    BY DEF DeviceGoesUnreachable, Goes
<1> HIDE DEF op, cl
<1>9. OneObject(d, Sampled(d, s), op, cl)
    BY <1>2, <1>5, <1>6, <1>7, <1>8 DEF OneObject
<1>10. QED
    BY <1>1, <1>9, OneObjectKeeps

\* A device goes down and its downstream devices that are down already are
\* folded: they are unreachable afterwards.
LEMMA DeviceGoesDownKeeps ==
    ASSUME EngineInv, NEW d \in Device, NEW s \in Sample, DeviceGoesDown(d, s)
    PROVE  EngineInv'
<1> DEFINE kids == {k \in Device : Upstream[k] = d /\ obj[k].status = "down"}
           objs == [o \in Object |-> IF o = d THEN Sampled(d, s)
                                     ELSE IF o \in kids THEN Transition(obj[o], "unreachable")
                                     ELSE obj[o]]
           root  == IdOf(DownKey(d), Opened(alerts[DownKey(d)], None))
           opens == Raised(d, s) \union {DownKey(d)} \union When(SiteIsDown(objs), {SiteKey})
           folds == {DownKey(k) : k \in kids}
           cl    == Cleared(d, s) \union When(~SiteIsDown(objs), {SiteKey})
           op    == opens \union folds
<1>1. d \in Object /\ TypeOK
    BY DEF Object, EngineInv
<1>2. obj' = objs /\ maint' \subseteq Device /\ Alerting(opens, folds, root, cl)
    BY <1>1 DEF DeviceGoesDown, TypeOK
<1>3. Sampled(d, s) \in Obj /\ Sampled(d, s).status = "down"
    BY <1>1, SampledFacts DEF DeviceGoesDown, Goes
<1>4. \A k \in kids : /\ k \in Object
                      /\ Transition(obj[k], "unreachable") \in Obj
                      /\ Transition(obj[k], "unreachable").status = "unreachable"
    BY <1>1, TransitionFacts DEF TypeOK, Object, Status
<1>5. obj' \in [Object -> Obj]
    BY <1>1, <1>2, <1>3, <1>4 DEF TypeOK
<1>6. root \in RootCause
  <2>1. DownKey(d) \in DownKeys /\ DownKey(d) \in Key /\ None \in RootCause
    BY <1>1, KeyFacts DEF RootCause
  <2>2. Opened(alerts[DownKey(d)], None) \in Alert
    BY <1>1, <2>1, OpenedFacts DEF TypeOK
  <2>3. Opened(alerts[DownKey(d)], None).gen \in Nat
    BY <2>2 DEF Alert
  <2>4. QED
    BY <2>1, <2>3 DEF IdOf, RootCause
<1>7. opens \in SUBSET Key /\ folds \in SUBSET Key /\ cl \in SUBSET Key
    BY <1>1, <1>4, KeyFacts, RuleAlertFacts DEF When
<1>8. Effect(op, cl)
  <2> HIDE DEF opens, folds, root, cl
  <2>1. QED
    BY <1>1, <1>2, <1>6, <1>7, AlertingEffect
<1>9. TypeOK'
    BY <1>2, <1>5, <1>8 DEF TypeOK, Effect
<1>10. Settled'
  <2> SUFFICES ASSUME NEW e \in Device, obj'[e].status \in {"up", "degraded", "maintenance"}
               PROVE  ~Unresolved(alerts[DownKey(e)])'
    BY DEF Settled
  <2>1. e # d /\ e \notin kids /\ obj'[e] = obj[e]
    BY <1>2, <1>3, <1>4 DEF Object
  <2>2. ~Unresolved(alerts[DownKey(e)])
    BY <2>1 DEF EngineInv, Settled
  <2>3. DownKey(e) \notin op
    BY <1>1, <2>1, RuleAlertFacts DEF When, DownKey, RuleKeysOf, RuleKey, Rule, SiteKey
  <2> HIDE DEF op, cl
  <2>4. QED
    BY <1>8, <2>2, <2>3, QuietKept
<1>11. DownIsAlerted'
  <2> SUFFICES ASSUME NEW o \in Object, obj'[o].status = "down"
               PROVE  Listed(o)
    BY DEF DownIsAlerted, Listed
  <2>1. CASE o = d
    BY <1>8, <2>1, KeyFacts DEF Effect, Listed
  <2>2. CASE o # d
    <3>1. obj[o].status = "down"
      BY <1>2, <1>4, <2>2
    <3>2. OutageKeys(o) \intersect cl = {}
      BY <1>1, <2>2, KeyFacts, RuleAlertFacts DEF When
    <3> HIDE DEF op, cl
    <3>3. QED
      BY <1>8, <3>1, <3>2, OutageKept
  <2>3. QED
    BY <2>1, <2>2
<1>12. QED
    BY <1>9, <1>10, <1>11 DEF EngineInv

\* onDevice preserves the invariant.
LEMMA OnDeviceKeeps ==
    ASSUME EngineInv, NEW d \in Device, NEW s \in Sample, OnDevice(d, s)
    PROVE  EngineInv'
    BY DeviceGoesDownKeeps, DeviceFlapsKeeps, DeviceGoesUnreachableKeeps, DeviceComesBackKeeps,
       DeviceEntersMaintenanceKeeps, DeviceCarriesOnKeeps DEF OnDevice

-----------------------------------------------------------------------------
(* The interface actions.                                                  *)

\* onInterfaceTransition touches outage alerts of its interface only.
LEMMA IfAlertFacts ==
    ASSUME NEW i \in Interface, NEW o
    PROVE  /\ IfOpens(i, o) \subseteq OutageKeys(i)
           /\ IfOpens(i, o) \intersect DownKeys = {}
           /\ IfCloses(i, o) \subseteq OutageKeys(i)
           /\ o.status = "down" => IfCloses(i, o) = {}
           /\ o.status = "down" /\ obj[i].status # "down" => \E k \in OutageKeys(i) : k \in IfOpens(i, o)
<1>1. i \in Object /\ i \notin Device
    BY StateEngineAssumption DEF Object
<1>2. QED
    BY <1>1 DEF IfOpens, IfCloses, OutageKeys, When, DownKeys, DownKey, FlapKey, IfDownKey

\* An interface step opens and resolves alerts of that interface only.
LEMMA InterfaceKeeps ==
    ASSUME EngineInv, NEW i \in Interface, NEW o \in Obj,
           NEW raised \in SUBSET RuleKeysOf(i), NEW cleared \in SUBSET RuleKeysOf(i),
           obj' = [obj EXCEPT ![i] = o], maint' = maint,
           Alerting(raised \union IfOpens(i, o), {}, None, cleared \union IfCloses(i, o))
    PROVE  EngineInv'
<1> DEFINE op == raised \union IfOpens(i, o)
           cl == cleared \union IfCloses(i, o)
<1>1. i \in Object /\ i \notin Device /\ TypeOK /\ maint' \subseteq Device
    BY StateEngineAssumption DEF Object, EngineInv, TypeOK
<1>2. op \in SUBSET Key /\ cl \in SUBSET Key
    BY <1>1, KeyFacts, IfAlertFacts
<1>3. Effect(op, cl)
  <2>1. None \in RootCause /\ {} \in SUBSET Key
    BY DEF RootCause
  <2> HIDE DEF op, cl
  <2>2. Effect(op \union {}, cl)
    BY <1>1, <1>2, <2>1, AlertingEffect DEF op, cl
  <2>3. op \union {} = op
    OBVIOUS
  <2>4. QED
    BY <2>2, <2>3
<1>4. op \intersect DownKeys = {}
    BY IfAlertFacts DEF DownKeys, DownKey, RuleKeysOf, RuleKey, Rule
<1>5. \A p \in Object \ {i} : OutageKeys(p) \intersect cl = {}
    BY <1>1, KeyFacts, IfAlertFacts
<1>6. ASSUME o.status = "down"
      PROVE  Listed(i)
  <2>1. CASE obj[i].status = "down"
    <3>1. OutageKeys(i) \intersect cl = {}
      BY <1>1, <1>6, KeyFacts, IfAlertFacts
    <3> HIDE DEF op, cl
    <3>2. QED
      BY <1>1, <1>3, <2>1, <3>1, OutageKept
  <2>2. CASE obj[i].status # "down"
    BY <1>3, <1>6, <2>2, IfAlertFacts DEF Effect, Listed
  <2>3. QED
    BY <2>1, <2>2
<1> HIDE DEF op, cl
<1>7. OneObject(i, o, op, cl)
    BY <1>1, <1>3, <1>4, <1>5, <1>6 DEF OneObject
<1>8. QED
    BY <1>1, <1>7, OneObjectKeeps

\* onInterface preserves the invariant.
LEMMA OnInterfaceKeeps ==
    ASSUME EngineInv, NEW i \in Interface, NEW s \in IfSample, OnInterface(i, s)
    PROVE  EngineInv'
<1> DEFINE o       == IfSampled(i, s)
           raised  == When(o.on["metric"] /\ ~obj[i].on["metric"], {RuleKey("metric", i)})
           cleared == When(~o.on["metric"] /\ obj[i].on["metric"], {RuleKey("metric", i)})
<1>1. o \in Obj
    BY IfSampledFacts DEF EngineInv
<1>2. raised \in SUBSET RuleKeysOf(i) /\ cleared \in SUBSET RuleKeysOf(i)
    BY DEF When, RuleKeysOf, Rule
<1>3. /\ obj' = [obj EXCEPT ![i] = o]
      /\ maint' = maint
      /\ Alerting(raised \union IfOpens(i, o), {}, None, cleared \union IfCloses(i, o))
    BY Zenon DEF OnInterface
<1> HIDE DEF o, raised, cleared
<1>4. QED
    BY <1>1, <1>2, <1>3, InterfaceKeeps

\* A link event preserves the invariant.
LEMMA OnLinkEventKeeps ==
    ASSUME EngineInv, NEW i \in Interface, NEW target \in {"up", "down"}, OnLinkEvent(i, target)
    PROVE  EngineInv'
<1> DEFINE o == Transition(obj[i], target)
<1>1. o \in Obj
  <2>1. obj[i] \in Obj /\ target \in Status
    BY DEF EngineInv, TypeOK, Object, Status
  <2>2. QED
    BY <2>1, TransitionFacts
<1>2. {} \in SUBSET RuleKeysOf(i)
    OBVIOUS
<1>3. /\ obj' = [obj EXCEPT ![i] = o]
      /\ maint' = maint
      /\ Alerting(IfOpens(i, o), {}, None, IfCloses(i, o))
    BY Zenon DEF OnLinkEvent
<1> HIDE DEF o
<1>4. {} \union IfOpens(i, o) = IfOpens(i, o) /\ {} \union IfCloses(i, o) = IfCloses(i, o)
    OBVIOUS
<1>5. Alerting({} \union IfOpens(i, o), {}, None, {} \union IfCloses(i, o))
    BY <1>3, <1>4
<1>6. QED
    BY <1>1, <1>2, <1>3, <1>5, InterfaceKeeps

-----------------------------------------------------------------------------
(* The other actions.                                                      *)

\* An event rule alert is no object's outage alert.
LEMMA OnEventKeeps ==
    ASSUME EngineInv, NEW x \in Source, OnEventRaise(x) \/ OnEventClear(x)
    PROVE  EngineInv'
<1>1. TypeOK /\ None \in RootCause /\ {} \in SUBSET Key /\ {EventKey(x)} \in SUBSET Key
    BY KeyFacts DEF EngineInv, RootCause
<1>2. obj' = obj /\ maint' = maint
    BY DEF OnEventRaise, OnEventClear
<1>3. PICK op \in SUBSET {EventKey(x)}, cl \in SUBSET {EventKey(x)} : Effect(op, cl)
  <2>1. CASE OnEventRaise(x)
    <3>1. Effect({EventKey(x)} \union {}, {})
      BY <1>1, <2>1, AlertingEffect DEF OnEventRaise
    <3>2. QED
      BY <3>1
  <2>2. CASE OnEventClear(x)
    <3>1. Effect({} \union {}, {EventKey(x)})
      BY <1>1, <2>2, AlertingEffect DEF OnEventClear
    <3>2. QED
      BY <3>1
  <2>3. QED
    BY <2>1, <2>2
<1>4. \A o \in Object : OutageKeys(o) \intersect (op \union cl) = {}
    BY KeyFacts
<1>5. TypeOK'
    BY <1>1, <1>2, <1>3 DEF TypeOK, Effect
<1>6. Settled'
  <2> SUFFICES ASSUME NEW d \in Device, obj[d].status \in {"up", "degraded", "maintenance"}
               PROVE  ~Unresolved(alerts[DownKey(d)])'
    BY <1>2 DEF Settled
  <2>1. ~Unresolved(alerts[DownKey(d)]) /\ DownKey(d) \notin op
    BY <1>4, KeyFacts DEF EngineInv, Settled, Object
  <2>2. QED
    BY <1>3, <2>1, QuietKept
<1>7. DownIsAlerted'
  <2> SUFFICES ASSUME NEW o \in Object, obj[o].status = "down"
               PROVE  Listed(o)
    BY <1>2 DEF DownIsAlerted, Listed
  <2>1. QED
    BY <1>3, <1>4, OutageKept
<1>8. QED
    BY <1>5, <1>6, <1>7 DEF EngineInv

\* Housekeeping resolves device_down alerts of devices that are up, and only
\* moves devices to unknown.
LEMMA HousekeepingKeeps ==
    ASSUME EngineInv, NEW expired \in SUBSET Source, NEW stale \in SUBSET Device,
           Housekeeping(expired, stale)
    PROVE  EngineInv'
<1> DEFINE orphaned == {d \in Device : LET a == alerts[DownKey(d)]
                         IN  /\ Unresolved(a) /\ a.root # None /\ RootIsResolved(a)
                             /\ obj[d].status = "up"}
           cl == {EventKey(x) : x \in expired} \union {DownKey(d) : d \in orphaned}
<1>1. TypeOK /\ None \in RootCause /\ {} \in SUBSET Key
    BY DEF EngineInv, RootCause
<1>2. /\ obj' = [o \in Object |-> IF o \in stale THEN Transition(obj[o], "unknown") ELSE obj[o]]
      /\ maint' = maint
      /\ Alerting({}, {}, None, cl)
    BY DEF Housekeeping
<1>3. cl \in SUBSET Key
    BY KeyFacts DEF Object
<1>4. \A o \in Object : obj[o].status = "down" => OutageKeys(o) \intersect cl = {}
  <2> SUFFICES ASSUME NEW o \in Object, obj[o].status = "down", NEW k \in OutageKeys(o), k \in cl
               PROVE  FALSE
    OBVIOUS
  <2>1. PICK d \in orphaned : k = DownKey(d)
    BY KeyFacts
  <2>2. d \in Object /\ d # o
    BY DEF Object
  <2>3. QED
    BY <2>1, <2>2, KeyFacts
<1> HIDE DEF cl
<1>5. Effect({}, cl)
  <2>1. Effect({} \union {}, cl)
    BY <1>1, <1>2, <1>3, AlertingEffect
  <2>2. QED
    BY <2>1
<1>6. \A o \in Object : obj[o] \in Obj
    BY <1>1 DEF TypeOK
<1>7. \A o \in Object : /\ obj'[o] \in Obj
                        /\ obj'[o].status \in {obj[o].status, "unknown"}
  <2> SUFFICES ASSUME NEW o \in Object
               PROVE  obj'[o] \in Obj /\ obj'[o].status \in {obj[o].status, "unknown"}
    OBVIOUS
  <2>1. "unknown" \in Status
    BY DEF Status
  <2>2. Transition(obj[o], "unknown") \in Obj /\ Transition(obj[o], "unknown").status = "unknown"
    BY <1>6, <2>1, TransitionFacts
  <2>3. QED
    BY <1>2, <1>6, <2>2
<1>8. TypeOK'
    BY <1>1, <1>2, <1>5, <1>7 DEF TypeOK, Effect
<1>9. Settled'
  <2> SUFFICES ASSUME NEW d \in Device, obj'[d].status \in {"up", "degraded", "maintenance"}
               PROVE  ~Unresolved(alerts[DownKey(d)])'
    BY DEF Settled
  <2>1. obj[d].status \in {"up", "degraded", "maintenance"}
    BY <1>7 DEF Object
  <2>2. ~Unresolved(alerts[DownKey(d)])
    BY <2>1 DEF EngineInv, Settled
  <2>3. QED
    BY <1>5, <2>2, QuietKept
<1>10. DownIsAlerted'
  <2> SUFFICES ASSUME NEW o \in Object, obj'[o].status = "down"
               PROVE  Listed(o)
    BY DEF DownIsAlerted, Listed
  <2>1. obj[o].status = "down"
    BY <1>7
  <2>2. QED
    BY <1>4, <1>5, <2>1, OutageKept
<1>11. QED
    BY <1>8, <1>9, <1>10 DEF EngineInv

\* Operators and the passing of time change one alert, and never make a
\* resolved one unresolved.
LEMMA AlertLifeKeeps ==
    ASSUME EngineInv, NEW k \in Key, Ack(k) \/ Resolve(k) \/ AlertAges(k)
    PROVE  EngineInv'
<1> DEFINE new == alerts'[k]
<1>1. obj' = obj /\ maint' = maint /\ notes' = {}
    BY DEF Ack, Resolve, AlertAges
<1>2. TypeOK /\ alerts \in [Key -> Alert] /\ alerts[k] \in Alert
    BY DEF EngineInv, TypeOK
<1>3. /\ new \in Alert
      /\ Unresolved(new) => Unresolved(alerts[k])
      /\ Unresolved(alerts[k]) \/ alerts[k].byHand => Unresolved(new) \/ new.byHand
      /\ alerts' = [alerts EXCEPT ![k] = new]
  <2>1. CASE Ack(k)
    BY <1>2, <2>1 DEF Ack, Alert, AlertState, Unresolved
  <2>2. CASE Resolve(k)
    BY <1>2, <2>2 DEF Resolve, Alert, AlertState, Unresolved
  <2>3. CASE AlertAges(k)
    BY <1>2, <2>3 DEF AlertAges, Alert, AlertState, Unresolved
  <2>4. QED
    BY <2>1, <2>2, <2>3
<1> HIDE DEF new
<1>4. TypeOK'
    BY <1>1, <1>2, <1>3 DEF TypeOK
<1>5. \A j \in Key : /\ Unresolved(alerts'[j]) => Unresolved(alerts[j])
                     /\ Unresolved(alerts[j]) \/ alerts[j].byHand =>
                            Unresolved(alerts'[j]) \/ alerts'[j].byHand
    BY <1>2, <1>3
<1>6. Settled'
    BY <1>1, <1>5, KeyFacts DEF EngineInv, Settled, Object
<1>7. DownIsAlerted'
    BY <1>1, <1>5, KeyFacts DEF EngineInv, DownIsAlerted
<1>8. QED
    BY <1>4, <1>6, <1>7 DEF EngineInv

\* A maintenance window, the flap window and a restart change no status and no
\* alert.
LEMMA StatusUnchangedKeeps ==
    ASSUME EngineInv, obj' \in [Object -> Obj], \A o \in Object : obj'[o].status = obj[o].status,
           maint' \subseteq Device, alerts' = alerts, notes' \in {{}, notes}
    PROVE  EngineInv'
<1>1. TypeOK'
    BY DEF EngineInv, TypeOK
<1>2. Settled'
    BY DEF EngineInv, Settled, Object
<1>3. DownIsAlerted'
    BY DEF EngineInv, DownIsAlerted
<1>4. QED
    BY <1>1, <1>2, <1>3 DEF EngineInv

\* newObj is a well-formed object.
LEMMA NewObjFacts ==
    ASSUME NEW st \in Status
    PROVE  NewObj(st) \in Obj /\ NewObj(st).status = st
<1>1. 0 \in 0..DownCycles /\ 0 \in 0..2 /\ 0 \in 0..RuleCycles /\ 0 \in 0..FlapLimit + 1
    BY StateEngineAssumption
<1>2. QED
    BY <1>1 DEF NewObj, Obj

\* Maintenance windows, the flap window and restarts preserve the invariant.
LEMMA WindowsAndRestartKeep ==
    ASSUME EngineInv, \/ \E d \in Device : ToggleMaintenance(d)
                      \/ \E o \in Object : FlapsAge(o)
                      \/ Restart
                      \/ UNCHANGED vars
    PROVE  EngineInv'
<1>1. TypeOK /\ \A o \in Object : obj[o] \in Obj
    BY DEF EngineInv, TypeOK
<1>2. CASE \E d \in Device : ToggleMaintenance(d)
  <2>1. PICK d \in Device : ToggleMaintenance(d)
    BY <1>2
  <2>2. obj' = obj /\ alerts' = alerts /\ notes' = {} /\ maint' \subseteq Device
    BY <1>1, <2>1 DEF ToggleMaintenance, TypeOK
  <2>3. QED
    BY <1>1, <2>2, StatusUnchangedKeeps DEF TypeOK
<1>3. CASE \E o \in Object : FlapsAge(o)
  <2>1. PICK x \in Object : FlapsAge(x)
    BY <1>3
  <2> DEFINE new == [obj[x] EXCEPT !.flips = 0]
  <2>2. 0 \in 0..FlapLimit + 1
    BY StateEngineAssumption
  <2>3. new \in Obj /\ new.status = obj[x].status
    BY <1>1, <2>2 DEF Obj
  <2>4. obj' = [obj EXCEPT ![x] = new] /\ alerts' = alerts /\ notes' = {} /\ maint' \subseteq Device
    BY <1>1, <2>1 DEF FlapsAge, TypeOK
  <2> HIDE DEF new
  <2>5. obj' \in [Object -> Obj] /\ \A o \in Object : obj'[o].status = obj[o].status
    BY <1>1, <2>3, <2>4 DEF TypeOK
  <2>6. QED
    BY <2>4, <2>5, StatusUnchangedKeeps
<1>4. CASE Restart
  <2>1. obj' = [o \in Object |-> NewObj(obj[o].status)] /\ alerts' = alerts /\ notes' = {} /\ maint' \subseteq Device
    BY <1>1, <1>4 DEF Restart, TypeOK
  <2>2. \A o \in Object : obj[o].status \in Status
    BY <1>1 DEF Obj
  <2>3. obj' \in [Object -> Obj] /\ \A o \in Object : obj'[o].status = obj[o].status
    BY <2>1, <2>2, NewObjFacts
  <2>4. QED
    BY <2>1, <2>3, StatusUnchangedKeeps
<1>5. CASE UNCHANGED vars
    BY <1>1, <1>5, StatusUnchangedKeeps DEF vars, TypeOK
<1>6. QED
    BY <1>2, <1>3, <1>4, <1>5

-----------------------------------------------------------------------------
(* The theorems.                                                           *)

\* EngineInv holds in every reachable state.
THEOREM EngineInvariant == Spec => []EngineInv
<1>1. Init => EngineInv
  <2> SUFFICES ASSUME Init
               PROVE  EngineInv
    OBVIOUS
  <2>1. "unknown" \in Status
    BY DEF Status
  <2>2. NewObj("unknown") \in Obj /\ NewObj("unknown").status = "unknown"
    BY <2>1, NewObjFacts
  <2>3. NoAlert \in Alert
    BY DEF NoAlert, Alert, AlertState, RootCause
  <2>4. TypeOK
    BY <2>2, <2>3 DEF Init, TypeOK
  <2>5. \A o \in Object : obj[o].status = "unknown"
    BY <2>2 DEF Init
  <2>6. Settled /\ DownIsAlerted
    BY <2>5 DEF Settled, DownIsAlerted, Object
  <2>7. QED
    BY <2>4, <2>6 DEF EngineInv
<1>2. EngineInv /\ [Next]_vars => EngineInv'
  <2> SUFFICES ASSUME EngineInv, [Next]_vars
               PROVE  EngineInv'
    OBVIOUS
  <2>1. CASE \E d \in Device, s \in Sample : OnDevice(d, s)
    BY <2>1, OnDeviceKeeps
  <2>2. CASE \E i \in Interface, s \in IfSample : OnInterface(i, s)
    BY <2>2, OnInterfaceKeeps
  <2>3. CASE \E i \in Interface, target \in {"up", "down"} : OnLinkEvent(i, target)
    BY <2>3, OnLinkEventKeeps
  <2>4. CASE \E x \in Source : OnEventRaise(x) \/ OnEventClear(x)
    BY <2>4, OnEventKeeps
  <2>5. CASE \E expired \in SUBSET Source, stale \in SUBSET Device : Housekeeping(expired, stale)
    BY <2>5, HousekeepingKeeps
  <2>6. CASE \E k \in Key : Ack(k) \/ Resolve(k) \/ AlertAges(k)
    BY <2>6, AlertLifeKeeps
  <2>7. CASE \/ \E d \in Device : ToggleMaintenance(d)
             \/ \E o \in Object : FlapsAge(o)
             \/ Restart
             \/ UNCHANGED vars
    BY <2>7, WindowsAndRestartKeep
  <2>8. QED
    BY <2>1, <2>2, <2>3, <2>4, <2>5, <2>6, <2>7 DEF Next
<1>3. QED
    BY <1>1, <1>2, PTL DEF Spec

\* The state engine keeps its types, whatever samples, events and operators do.
THEOREM TypeCorrect == Spec => []TypeOK
<1>1. EngineInv => TypeOK
    BY DEF EngineInv
<1>2. QED
    BY <1>1, EngineInvariant, PTL

\* No device the engine calls up or degraded has an unresolved device_down
\* alert (every branch of onDeviceTransition, housekeeping, New after a restart).
THEOREM NoStaleDownAlert == Spec => []UpHasNoDownAlert
<1>1. EngineInv => UpHasNoDownAlert
    BY DEF EngineInv, Settled, UpHasNoDownAlert
<1>2. QED
    BY <1>1, EngineInvariant, PTL

\* Whatever the engine calls down has an unresolved alert that says so, unless
\* an operator closed it.
THEOREM NoSilentOutage == Spec => []DownIsAlerted
<1>1. EngineInv => DownIsAlerted
    BY DEF EngineInv
<1>2. QED
    BY <1>1, EngineInvariant, PTL

-----------------------------------------------------------------------------
(* The rule alerts, while the process is not restarted.                    *)

\* The handler opens a rule alert only with the rule on, and resolves it with
\* the step that turns the rule off.
RulesAgree(opens, closes) ==
    \A o \in Object, r \in Rule :
        /\ RuleKey(r, o) \in opens => obj'[o].on[r]
        /\ obj[o].on[r] => obj'[o].on[r] \/ RuleKey(r, o) \in closes

\* A handler that does so preserves RuleAlertHasCondition.
LEMMA RuleStep ==
    ASSUME RuleAlertHasCondition, TypeOK, NEW opens, NEW folds, NEW closes, NEW root,
           folds \subseteq DownKeys, Alerting(opens, folds, root, closes), RulesAgree(opens, closes)
    PROVE  RuleAlertHasCondition'
<1> SUFFICES ASSUME NEW o \in Object, NEW r \in Rule, Unresolved(alerts'[RuleKey(r, o)]), ~obj'[o].on[r]
             PROVE  FALSE
    BY DEF RuleAlertHasCondition
<1> DEFINE k == RuleKey(r, o)
<1>1. k \in Key /\ k \notin folds
    BY DEF Key, DownKeys, DownKey, RuleKey, Rule
<1>2. k \notin opens
    BY DEF RulesAgree
<1>3. alerts'[k] = IF k \in closes THEN Resolved(alerts[k]) ELSE alerts[k]
    BY <1>1, <1>2 DEF Alerting
<1>4. alerts[k] \in Alert
    BY <1>1 DEF TypeOK
<1>5. k \notin closes /\ Unresolved(alerts[k])
    BY <1>3, <1>4, ResolvedFacts
<1>6. obj[o].on[r]
    BY <1>5 DEF RuleAlertHasCondition
<1>7. QED
    BY <1>5, <1>6 DEF RulesAgree

\* The rule alerts of one device sample.
LEMMA SampleRules ==
    ASSUME TypeOK, NEW d \in Device, NEW s, NEW r \in Rule, NEW o \in Object
    PROVE  /\ RuleKey(r, o) \in Raised(d, s) => o = d /\ Sampled(d, s).on[r]
           /\ obj[d].on[r] => Sampled(d, s).on[r] \/ RuleKey(r, d) \in Cleared(d, s)
    BY DEF Raised, Cleared, When, RuleKey, Rule

\* Folding a device does not touch its rules.
LEMMA FoldedRules ==
    ASSUME TypeOK, NEW o \in Object, NEW to \in Status
    PROVE  Transition(obj[o], to).on = obj[o].on
<1>1. obj[o] \in Obj
    BY DEF TypeOK
<1>2. QED
    BY <1>1, TransitionFacts

\* onDevice preserves RuleAlertHasCondition.
LEMMA DeviceRules ==
    ASSUME RuleAlertHasCondition, TypeOK, NEW d \in Device, NEW s \in Sample, OnDevice(d, s)
    PROVE  RuleAlertHasCondition'
<1>1. d \in Object /\ \A o \in Object : obj[o] \in Obj
    BY DEF Object, TypeOK
<1>2. ASSUME obj' = [obj EXCEPT ![d] = Sampled(d, s)],
             NEW opens, NEW closes, Cleared(d, s) \subseteq closes,
             \A k \in opens : k \in Raised(d, s) \/ k \in {FlapKey(d), DownKey(d), SiteKey}
      PROVE  RulesAgree(opens, closes)
  <2> SUFFICES ASSUME NEW o \in Object, NEW r \in Rule
               PROVE  /\ RuleKey(r, o) \in opens => obj'[o].on[r]
                      /\ obj[o].on[r] => obj'[o].on[r] \/ RuleKey(r, o) \in closes
    BY DEF RulesAgree
  <2>1. obj'[d] = Sampled(d, s) /\ (o # d => obj'[o] = obj[o])
    BY <1>1, <1>2 DEF TypeOK
  <2>2. RuleKey(r, o) \notin {FlapKey(d), DownKey(d), SiteKey}
    BY DEF RuleKey, FlapKey, DownKey, SiteKey, Rule
  <2>3. QED
    BY <1>2, <2>1, <2>2, SampleRules
<1>3. CASE DeviceFlaps(d, s)
  <2> DEFINE opens == Raised(d, s) \union {FlapKey(d)}
  <2>1. RulesAgree(opens, Cleared(d, s))
    BY <1>2, <1>3 DEF DeviceFlaps
  <2>2. Alerting(opens, {}, None, Cleared(d, s))
    BY <1>3 DEF DeviceFlaps
  <2>3. QED
    BY <2>1, <2>2, RuleStep
<1>4. CASE DeviceGoesUnreachable(d, s)
  <2> DEFINE cause == DownKey(Upstream[d])
             folds == When(Unresolved(alerts[cause]), {DownKey(d)})
  <2>1. RulesAgree(Raised(d, s), Cleared(d, s))
    BY <1>2, <1>4 DEF DeviceGoesUnreachable
  <2>2. Alerting(Raised(d, s), folds, IdOf(cause, alerts[cause]), Cleared(d, s))
    BY <1>4 DEF DeviceGoesUnreachable
  <2>3. folds \subseteq DownKeys
    BY DEF When, DownKeys
  <2> HIDE DEF folds, cause
  <2>4. QED
    BY <2>1, <2>2, <2>3, RuleStep
<1>5. CASE DeviceComesBack(d, s)
  <2> DEFINE objs   == [obj EXCEPT ![d] = Sampled(d, s)]
             opens  == Raised(d, s) \union When(SiteIsDown(objs), {SiteKey})
             closes == Cleared(d, s) \union {DownKey(d), FlapKey(d)} \union When(~SiteIsDown(objs), {SiteKey})
  <2>1. Cleared(d, s) \subseteq closes /\ \A k \in opens : k \in Raised(d, s) \/ k \in {FlapKey(d), DownKey(d), SiteKey}
    BY DEF When
  <2>2. obj' = [obj EXCEPT ![d] = Sampled(d, s)] /\ Alerting(opens, {}, None, closes)
    BY <1>5 DEF DeviceComesBack
  <2> HIDE DEF opens, closes
  <2>3. RulesAgree(opens, closes)
    BY <1>2, <2>1, <2>2
  <2>4. QED
    BY <2>2, <2>3, RuleStep
<1>6. CASE DeviceEntersMaintenance(d, s)
  <2> DEFINE closes == Cleared(d, s) \union {DownKey(d)}
  <2>1. RulesAgree(Raised(d, s), closes)
    BY <1>2, <1>6 DEF DeviceEntersMaintenance
  <2>2. Alerting(Raised(d, s), {}, None, closes)
    BY <1>6 DEF DeviceEntersMaintenance
  <2>3. QED
    BY <2>1, <2>2, RuleStep
<1>7. CASE DeviceCarriesOn(d, s)
  <2>1. RulesAgree(Raised(d, s), Cleared(d, s))
    BY <1>2, <1>7 DEF DeviceCarriesOn
  <2>2. Alerting(Raised(d, s), {}, None, Cleared(d, s))
    BY <1>7 DEF DeviceCarriesOn
  <2>3. QED
    BY <2>1, <2>2, RuleStep
<1>8. CASE DeviceGoesDown(d, s)
  <2> DEFINE kids == {k \in Device : Upstream[k] = d /\ obj[k].status = "down"}
             objs == [o \in Object |-> IF o = d THEN Sampled(d, s)
                                       ELSE IF o \in kids THEN Transition(obj[o], "unreachable")
                                       ELSE obj[o]]
             root   == IdOf(DownKey(d), Opened(alerts[DownKey(d)], None))
             opens  == Raised(d, s) \union {DownKey(d)} \union When(SiteIsDown(objs), {SiteKey})
             folds  == {DownKey(k) : k \in kids}
             closes == Cleared(d, s) \union When(~SiteIsDown(objs), {SiteKey})
  <2>1. obj' = objs /\ Alerting(opens, folds, root, closes)
    BY <1>8 DEF DeviceGoesDown
  <2>2. RulesAgree(opens, closes)
    <3> SUFFICES ASSUME NEW o \in Object, NEW r \in Rule
                 PROVE  /\ RuleKey(r, o) \in opens => obj'[o].on[r]
                        /\ obj[o].on[r] => obj'[o].on[r] \/ RuleKey(r, o) \in closes
      BY DEF RulesAgree
    <3>1. obj'[d] = Sampled(d, s) /\ (o # d => obj'[o].on = obj[o].on)
      <4>1. Transition(obj[o], "unreachable").on = obj[o].on
        BY FoldedRules DEF Status
      <4>2. QED
        BY <1>1, <2>1, <4>1
    <3>2. RuleKey(r, o) \in opens => RuleKey(r, o) \in Raised(d, s)
      BY DEF When, RuleKey, DownKey, SiteKey, Rule
    <3>3. Cleared(d, s) \subseteq closes
      OBVIOUS
    <3> HIDE DEF opens, closes
    <3>4. QED
      BY <3>1, <3>2, <3>3, SampleRules
  <2>3. folds \subseteq DownKeys
    BY DEF DownKeys
  <2> HIDE DEF opens, folds, closes, root
  <2>4. QED
    BY <2>1, <2>2, <2>3, RuleStep
<1>9. QED
    BY <1>3, <1>4, <1>5, <1>6, <1>7, <1>8 DEF OnDevice

\* The rule alert of one interface sample.
LEMMA InterfaceRules ==
    ASSUME RuleAlertHasCondition, TypeOK, NEW i \in Interface, NEW s \in IfSample, OnInterface(i, s)
    PROVE  RuleAlertHasCondition'
<1> DEFINE new     == IfSampled(i, s)
           raised  == When(new.on["metric"] /\ ~obj[i].on["metric"], {RuleKey("metric", i)})
           cleared == When(~new.on["metric"] /\ obj[i].on["metric"], {RuleKey("metric", i)})
           opens   == raised \union IfOpens(i, new)
           closes  == cleared \union IfCloses(i, new)
<1>1. obj' = [obj EXCEPT ![i] = new] /\ Alerting(opens, {}, None, closes)
    BY Zenon DEF OnInterface
<1>2. new.on["snmp_unreachable"] = obj[i].on["snmp_unreachable"]
    BY IfSampledFacts
<1> HIDE DEF new
<1>3. RulesAgree(opens, closes)
  <2> SUFFICES ASSUME NEW o \in Object, NEW r \in Rule
               PROVE  /\ RuleKey(r, o) \in opens => obj'[o].on[r]
                      /\ obj[o].on[r] => obj'[o].on[r] \/ RuleKey(r, o) \in closes
    BY DEF RulesAgree
  <2>1. obj'[i] = new /\ (o # i => obj'[o] = obj[o])
    BY <1>1 DEF TypeOK, Object
  <2>2. RuleKey(r, o) \notin IfOpens(i, new)
    BY IfAlertFacts, KeyFacts DEF RuleKeysOf, Object
  <2>3. RuleKey(r, o) \in opens => o = i /\ r = "metric" /\ new.on["metric"]
    BY <2>2 DEF When, RuleKey
  <2>4. obj[i].on["metric"] /\ ~new.on["metric"] => RuleKey("metric", i) \in closes
    BY DEF When
  <2> HIDE DEF opens, closes
  <2>5. r = "metric" \/ r = "snmp_unreachable"
    BY DEF Rule
  <2>6. QED
    BY <1>2, <2>1, <2>3, <2>4, <2>5
<1> HIDE DEF opens, closes
<1>4. {} \subseteq DownKeys
    OBVIOUS
<1>5. QED
    BY <1>1, <1>3, <1>4, RuleStep

\* A step that changes no rule and opens no rule alert.
LEMMA OtherRules ==
    ASSUME RuleAlertHasCondition, TypeOK, \A o \in Object : obj'[o].on = obj[o].on,
           \A o \in Object, r \in Rule : Unresolved(alerts'[RuleKey(r, o)]) => Unresolved(alerts[RuleKey(r, o)])
    PROVE  RuleAlertHasCondition'
    BY DEF RuleAlertHasCondition

\* Every step but a restart preserves RuleAlertHasCondition.
LEMMA RulesHold ==
    ASSUME ~Restarts, RuleAlertHasCondition, TypeOK, [Next]_vars
    PROVE  RuleAlertHasCondition'
<1>1. CASE \E d \in Device, s \in Sample : OnDevice(d, s)
    BY <1>1, DeviceRules
<1>2. CASE \E i \in Interface, s \in IfSample : OnInterface(i, s)
    BY <1>2, InterfaceRules
<1>3. CASE \E i \in Interface, target \in {"up", "down"} : OnLinkEvent(i, target)
  <2>1. PICK i \in Interface, target \in {"up", "down"} : OnLinkEvent(i, target)
    BY <1>3
  <2> DEFINE new == Transition(obj[i], target)
  <2>2. obj' = [obj EXCEPT ![i] = new] /\ Alerting(IfOpens(i, new), {}, None, IfCloses(i, new))
    BY <2>1, Zenon DEF OnLinkEvent
  <2>3. i \in Object /\ new.on = obj[i].on
    BY FoldedRules DEF Object, Status
  <2> HIDE DEF new
  <2>4. RulesAgree(IfOpens(i, new), IfCloses(i, new))
    <3>1. \A o \in Object : obj'[o].on = obj[o].on
      BY <2>2, <2>3 DEF TypeOK
    <3>2. \A o \in Object, r \in Rule : RuleKey(r, o) \notin IfOpens(i, new)
      BY IfAlertFacts, KeyFacts DEF RuleKeysOf, Object
    <3>3. QED
      BY <3>1, <3>2 DEF RulesAgree
  <2>5. QED
    BY <2>2, <2>4, RuleStep
<1>4. CASE \E x \in Source : OnEventRaise(x) \/ OnEventClear(x)
  <2>1. PICK x \in Source : OnEventRaise(x) \/ OnEventClear(x)
    BY <1>4
  <2>2. \A o \in Object, r \in Rule : RuleKey(r, o) # EventKey(x)
    BY DEF RuleKey, EventKey, Rule
  <2>3. obj' = obj
    BY <2>1 DEF OnEventRaise, OnEventClear
  <2>4. CASE OnEventRaise(x)
    <3>1. Alerting({EventKey(x)}, {}, None, {}) /\ RulesAgree({EventKey(x)}, {})
      BY <2>2, <2>3, <2>4 DEF OnEventRaise, RulesAgree
    <3>2. QED
      BY <3>1, RuleStep
  <2>5. CASE OnEventClear(x)
    <3>1. Alerting({}, {}, None, {EventKey(x)}) /\ RulesAgree({}, {EventKey(x)})
      BY <2>3, <2>5 DEF OnEventClear, RulesAgree
    <3>2. QED
      BY <3>1, RuleStep
  <2>6. QED
    BY <2>1, <2>4, <2>5
<1>5. CASE \E expired \in SUBSET Source, stale \in SUBSET Device : Housekeeping(expired, stale)
  <2>1. PICK expired \in SUBSET Source, stale \in SUBSET Device : Housekeeping(expired, stale)
    BY <1>5
  <2>2. PICK closes : Alerting({}, {}, None, closes)
    BY <2>1 DEF Housekeeping
  <2>3. \A o \in Object : obj'[o].on = obj[o].on
    BY <2>1, FoldedRules DEF Housekeeping, Status
  <2>4. RulesAgree({}, closes)
    BY <2>3 DEF RulesAgree
  <2>5. QED
    BY <2>2, <2>4, RuleStep
<1>6. CASE \E k \in Key : Ack(k) \/ Resolve(k) \/ AlertAges(k)
  <2>1. PICK k \in Key : Ack(k) \/ Resolve(k) \/ AlertAges(k)
    BY <1>6
  <2>2. obj' = obj
    BY <2>1 DEF Ack, Resolve, AlertAges
  <2>3. \A j \in Key : Unresolved(alerts'[j]) => Unresolved(alerts[j])
    <3>1. alerts \in [Key -> Alert]
      BY DEF TypeOK
    <3>2. CASE Ack(k)
      BY <3>1, <3>2 DEF Ack, Unresolved, Alert
    <3>3. CASE Resolve(k)
      BY <3>1, <3>3 DEF Resolve, Unresolved, Alert
    <3>4. CASE AlertAges(k)
      BY <3>1, <3>4 DEF AlertAges, Unresolved, Alert
    <3>5. QED
      BY <2>1, <3>2, <3>3, <3>4
  <2>4. \A o \in Object, r \in Rule : RuleKey(r, o) \in Key
    BY DEF Key
  <2>5. QED
    BY <2>2, <2>3, <2>4, OtherRules
<1>7. CASE \/ \E d \in Device : ToggleMaintenance(d)
           \/ \E o \in Object : FlapsAge(o)
           \/ UNCHANGED vars
  <2>1. alerts' = alerts
    BY <1>7 DEF ToggleMaintenance, FlapsAge, vars
  <2>2. \A o \in Object : obj'[o].on = obj[o].on
    BY <1>7 DEF ToggleMaintenance, FlapsAge, vars, TypeOK, Obj
  <2>3. QED
    BY <2>1, <2>2, OtherRules
<1>8. CASE Restart
    BY <1>8 DEF Restart
<1>9. QED
    BY <1>1, <1>2, <1>3, <1>4, <1>5, <1>6, <1>7, <1>8 DEF Next

\* As long as the process is not restarted, every unresolved threshold or SNMP
\* alert has its rule on and can still be resolved by a value below Exit.
THEOREM RuleAlertsCanClear ==
    ASSUME ~Restarts
    PROVE  Spec => []RuleAlertHasCondition
<1>1. Init => RuleAlertHasCondition
    BY DEF Init, RuleAlertHasCondition, NoAlert, Unresolved, Key
<1>2. RuleAlertHasCondition /\ TypeOK /\ [Next]_vars => RuleAlertHasCondition'
    BY RulesHold
<1>3. QED
    BY <1>1, <1>2, TypeCorrect, PTL DEF Spec
=============================================================================
