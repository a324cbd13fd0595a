--------------------------- MODULE MeasureProofs ---------------------------
(***************************************************************************)
(* Proofs about what is measured and shown: the rates made from counters,  *)
(* the links of the topology, the endpoints, the walk of an SNMP client,   *)
(* the tree of parents and the time windows of flows; and of the seven     *)
(* components MCMeasure puts side by side, their types.                    *)
(*************************************************************************)
EXTENDS MCMeasure, StateEngineProofs, SequenceTheorems, FiniteSetTheorems, WellFoundedInduction, TLAPS

-----------------------------------------------------------------------------
(* Counters.                                                               *)

\* A counter that moved on by less than a round has wrapped at most once.
LEMMA ModFacts ==
    ASSUME NEW b \in Nat, NEW n \in Nat \ {0}
    PROVE  /\ b % n \in 0 .. n - 1 /\ (b < n => b % n = b)
           /\ \E q \in Nat, r \in 0 .. n - 1 : b = n * q + r /\ b % n = r
<1>1. b % n \in 0 .. n - 1 /\ (b < n => b % n = b)
  OBVIOUS
<1> PICK q : q = b \div n
  OBVIOUS
<1> PICK r : r = b % n
  OBVIOUS
<1>2. q \in Nat /\ r \in 0 .. n - 1 /\ b = n * q + r
  OBVIOUS
<1>3. \E p \in Nat, t \in 0 .. n - 1 : b = n * p + t /\ b % n = t
  BY <1>2
<1> QED BY <1>1, <1>3

LEMMA FewRounds ==
    ASSUME NEW n \in Nat \ {0}, NEW k \in Int, n * k > 0 - n, n * k < 2 * n
    PROVE  k \in {0, 1}
<1>1. CASE k <= -1
  <2>1. n * k <= 0 - n
    BY <1>1
  <2> QED BY <2>1
<1>2. CASE k >= 2
  <2>1. n * k >= 2 * n
    BY <1>2
  <2> QED BY <2>1
<1> QED BY <1>1, <1>2

LEMMA ModMovesOn ==
    ASSUME NEW b \in Nat, NEW s \in Nat, NEW n \in Nat \ {0}, s < n
    PROVE  (b + s) % n = (IF (b % n) + s < n THEN (b % n) + s ELSE ((b % n) + s) - n)
<1>1. PICK q \in Nat, r \in 0 .. n - 1 : b = n * q + r /\ b % n = r
  BY ModFacts
<1>2. PICK q2 \in Nat, r2 \in 0 .. n - 1 : b + s = n * q2 + r2 /\ (b + s) % n = r2
  <2>1. PICK c \in Nat : c = b + s
    OBVIOUS
  <2>2. PICK q2 \in Nat, r2 \in 0 .. n - 1 : c = n * q2 + r2 /\ c % n = r2
    BY ModFacts
  <2> QED BY <2>1, <2>2
<1>3. PICK k \in Int : k = q2 - q
  OBVIOUS
<1>4. n * q2 - n * q = n * k
  BY <1>3
<1>5. n * k = r + s - r2
  BY <1>1, <1>2, <1>4
<1>6. n * k > 0 - n /\ n * k < 2 * n
  BY <1>5
<1>7. k \in {0, 1}
  BY <1>6, FewRounds
<1>8. n * k = IF k = 0 THEN 0 ELSE n
  BY <1>7
<1> QED BY <1>1, <1>2, <1>5, <1>7, <1>8

ReadRec == [octets : Nat, hc : BOOLEAN, uptime : Nat]

CounterTypes ==
    /\ agent \in [octets : 0 .. MaxOctets, uptime : Nat, hc : BOOLEAN]
    /\ lastRead \in ReadRec \cup {NoReading}
    /\ sinceRead \in Nat /\ spoilt \subseteq {"walk", "restart"}
    /\ between \in [octets : Nat, spoilt : BOOLEAN]

\* What a counter of the agent's kind showed before the octets sent since.
Earlier == IF agent.hc THEN agent.octets - sinceRead ELSE (agent.octets - sinceRead) % Narrow

\* Unless something spoilt it, the last reading is that of the counter it will be compared with.
ReadingStands == lastRead # NoReading /\ spoilt = {} => sinceRead <= agent.octets /\ lastRead.octets = Earlier

CounterInv == CounterTypes /\ ReadingStands /\ RateIsTraffic

LEMMA CountersInitInv == CountersInit => CounterInv
BY CountersAssumption DEF CountersInit, CounterInv, CounterTypes, ReadingStands, RateIsTraffic, ReadRec

LEMMA AgentKeeps ==
    ASSUME CounterInv, (\E n \in 1 .. Narrow : Send(n)) \/ UpSecond \/ DeviceRestart
    PROVE  CounterInv'
<1>0. CounterTypes /\ ReadingStands /\ RateIsTraffic /\ Narrow \in Nat \ {0} /\ MaxOctets \in Nat
  BY CountersAssumption DEF CounterInv
<1>1. agent.octets \in Nat /\ agent.uptime \in Nat /\ agent.hc \in BOOLEAN /\ sinceRead \in Nat
  BY <1>0 DEF CounterTypes
<1>2. ASSUME NEW n \in 1 .. Narrow, Send(n) PROVE CounterInv'
  <2>1. /\ agent.octets + n <= MaxOctets /\ agent' = [agent EXCEPT !.octets = @ + n] /\ sinceRead' = sinceRead + n
        /\ UNCHANGED <<lastRead, shown, spoilt, between>>
    BY <1>2 DEF Send
  <2>2. agent' \in [octets : 0 .. MaxOctets, uptime : Nat, hc : BOOLEAN] /\ agent'.octets = agent.octets + n /\ agent'.hc = agent.hc
    BY <1>0, <1>1, <2>1 DEF CounterTypes
  <2>3. CounterTypes'
    BY <1>0, <1>1, <2>1, <2>2 DEF CounterTypes
  <2>4. agent'.octets - sinceRead' = agent.octets - sinceRead /\ (sinceRead <= agent.octets => sinceRead' <= agent'.octets)
    BY <1>1, <2>1, <2>2
  <2>5. Earlier' = Earlier
    BY <2>2, <2>4 DEF Earlier
  <2>6. ReadingStands'
    BY <1>0, <2>1, <2>4, <2>5 DEF ReadingStands
  <2> QED BY <1>0, <2>1, <2>3, <2>6 DEF CounterInv, RateIsTraffic
<1>3. CASE UpSecond
  <2>1. /\ agent' = [agent EXCEPT !.uptime = @ + 1] /\ UNCHANGED <<lastRead, shown, sinceRead, spoilt, between>>
    BY <1>3 DEF UpSecond
  <2>2. agent' \in [octets : 0 .. MaxOctets, uptime : Nat, hc : BOOLEAN] /\ agent'.octets = agent.octets /\ agent'.hc = agent.hc
    BY <1>0, <1>1, <2>1 DEF CounterTypes
  <2>3. CounterTypes' /\ Earlier' = Earlier
    BY <1>0, <2>1, <2>2 DEF CounterTypes, Earlier
  <2> QED BY <1>0, <2>1, <2>2, <2>3 DEF CounterInv, RateIsTraffic, ReadingStands
<1>4. CASE DeviceRestart
  <2>1. /\ agent' = [agent EXCEPT !.octets = 0, !.uptime = 0] /\ spoilt' = spoilt \cup {"restart"}
        /\ UNCHANGED <<lastRead, shown, sinceRead, between>>
    BY <1>4 DEF DeviceRestart
  <2>5. \A r \in [octets : 0 .. MaxOctets, uptime : Nat, hc : BOOLEAN] :
           /\ [r EXCEPT !.octets = 0] \in [octets : 0 .. MaxOctets, uptime : Nat, hc : BOOLEAN]
           /\ [r EXCEPT !.uptime = 0] \in [octets : 0 .. MaxOctets, uptime : Nat, hc : BOOLEAN]
    BY <1>0
  <2>6. agent' = [[agent EXCEPT !.octets = 0] EXCEPT !.uptime = 0]
    BY <2>1
  <2>2. agent' \in [octets : 0 .. MaxOctets, uptime : Nat, hc : BOOLEAN]
    BY <1>0, <2>5, <2>6 DEF CounterTypes
  <2>4. spoilt' # {} /\ spoilt' \subseteq {"walk", "restart"}
    BY <1>0, <2>1 DEF CounterTypes
  <2>3. CounterTypes'
    BY <1>0, <2>1, <2>2, <2>4 DEF CounterTypes
  <2> QED BY <1>0, <2>1, <2>4, <2>3 DEF CounterInv, RateIsTraffic, ReadingStands
<1> QED BY <1>2, <1>3, <1>4

LEMMA RateFacts ==
    ASSUME NEW p \in Nat, NEW c \in Nat, NEW h
    PROVE  /\ c >= p => Rate(p, c, h) = c - p
           /\ c < p /\ ~h => Rate(p, c, h) = (Narrow - p + c) % Wide
BY DEF Rate

LEMMA PollKeeps ==
    ASSUME CounterInv, NEW wide \in BOOLEAN, NEW narrow \in BOOLEAN, PollInterfaces(wide, narrow)
    PROVE  CounterInv'
<1>0. /\ CounterTypes /\ ReadingStands /\ RateIsTraffic
      /\ Narrow \in Nat \ {0} /\ Wide \in Nat \ {0} /\ MaxOctets \in Nat /\ Narrow < Wide /\ MaxOctets < Wide
  BY CountersAssumption DEF CounterInv
<1>1. agent.octets \in Nat /\ agent.octets < Wide /\ agent.uptime \in Nat /\ agent.hc \in BOOLEAN /\ sinceRead \in Nat
  BY <1>0 DEF CounterTypes
<1> PICK now : now = Reading(wide, narrow)
  OBVIOUS
<1>2. /\ now.hc = (agent.hc /\ wide) /\ now.uptime = agent.uptime
      /\ now.octets = IF agent.hc /\ wide THEN agent.octets % Wide ELSE IF narrow THEN agent.octets % Narrow ELSE 0
      /\ now = [octets |-> now.octets, hc |-> now.hc, uptime |-> now.uptime]
  BY DEF Reading
<1>3. now \in ReadRec /\ now.octets \in Nat
  <2>3. agent.octets % Wide \in 0 .. Wide - 1
    BY <1>0, <1>1, ModFacts
  <2>4. agent.octets % Narrow \in 0 .. Narrow - 1
    BY <1>0, <1>1, ModFacts
  <2>1. agent.octets % Wide \in Nat /\ agent.octets % Narrow \in Nat
    BY <2>3, <2>4
  <2>2. now.octets \in Nat
    BY <1>2, <2>1
  <2> QED BY <1>1, <1>2, <2>2 DEF ReadRec
<1>4. /\ shown' = (IF Comparable(now) /\ now.uptime # lastRead.uptime THEN Rate(lastRead.octets, now.octets, now.hc) ELSE NoRate)
      /\ lastRead' = now /\ sinceRead' = 0
      /\ spoilt' = (IF now.hc = agent.hc /\ (now.hc \/ narrow) THEN {} ELSE {"walk"})
      /\ between' = [octets |-> sinceRead, spoilt |-> "walk" \in spoilt \cup spoilt' \/ Hidden(now)]
      /\ UNCHANGED agent
  BY DEF PollInterfaces
<1>5. CounterTypes'
  <2>1. ("walk" \in spoilt \cup spoilt' \/ Hidden(now)) \in BOOLEAN
    BY DEF Hidden
  <2>2. between' \in [octets : Nat, spoilt : BOOLEAN]
    BY <1>1, <1>4, <2>1
  <2> QED BY <1>0, <1>3, <1>4, <2>2 DEF CounterTypes
<1>6. spoilt' = {} => now.hc = agent.hc /\ now.octets = IF agent.hc THEN agent.octets ELSE agent.octets % Narrow
  <2> SUFFICES ASSUME spoilt' = {} PROVE now.hc = agent.hc /\ now.octets = IF agent.hc THEN agent.octets ELSE agent.octets % Narrow
    OBVIOUS
  <2>1. now.hc = agent.hc /\ (now.hc \/ narrow)
    BY <1>4
  <2>2. agent.octets % Wide = agent.octets
    BY <1>0, <1>1, ModFacts
  <2> QED BY <1>2, <2>1, <2>2
<1>7. ReadingStands'
  <2>1. agent'.octets - sinceRead' = agent.octets /\ agent'.hc = agent.hc /\ sinceRead' <= agent'.octets
    BY <1>1, <1>4
  <2>2. Earlier' = IF agent.hc THEN agent.octets ELSE agent.octets % Narrow
    BY <2>1 DEF Earlier
  <2> QED BY <1>4, <1>6, <2>1, <2>2 DEF ReadingStands
<1>8. RateIsTraffic'
  <2> SUFFICES ASSUME shown' # NoRate, ~between'.spoilt PROVE shown' = sinceRead
    BY <1>4 DEF RateIsTraffic
  <2>1. Comparable(now) /\ shown' = Rate(lastRead.octets, now.octets, now.hc)
    BY <1>4
  <2>2. ~("walk" \in spoilt) /\ ~("walk" \in spoilt') /\ ~Hidden(now)
    BY <1>4
  <2>3. lastRead # NoReading /\ now.uptime >= lastRead.uptime
    BY <2>1 DEF Comparable
  <2>4. "restart" \notin spoilt /\ (now.hc \/ ~(sinceRead >= Narrow))
    BY <2>2, <2>3 DEF Hidden
  <2>5. spoilt' = {}
    BY <1>4, <2>2
  <2>6. spoilt = {}
    BY <1>0, <2>2, <2>4 DEF CounterTypes
  <2>7. sinceRead <= agent.octets /\ lastRead.octets = Earlier
    BY <1>0, <2>3, <2>6 DEF ReadingStands
  <2> PICK b : b = agent.octets - sinceRead
    OBVIOUS
  <2>8. b \in Nat /\ agent.octets = b + sinceRead
    BY <1>1, <2>7
  <2>9. CASE agent.hc
    <3>1. lastRead.octets = b /\ now.octets = b + sinceRead
      BY <1>6, <2>5, <2>7, <2>8, <2>9 DEF Earlier
    <3>2. now.octets >= lastRead.octets /\ now.octets - lastRead.octets = sinceRead /\ lastRead.octets \in Nat
      <4>1. PICK s \in Nat : s = sinceRead
        BY <1>1
      <4>2. PICK c \in Nat : c = now.octets
        BY <1>3
      <4>3. PICK p \in Nat : p = lastRead.octets
        BY <2>8, <3>1
      <4>4. c = p + s
        BY <3>1, <4>1, <4>2, <4>3
      <4>5. c >= p /\ c - p = s
        BY <4>4
      <4> QED BY <4>1, <4>2, <4>3, <4>5
    <3>3. Rate(lastRead.octets, now.octets, now.hc) = now.octets - lastRead.octets
      BY <1>3, <3>2, RateFacts
    <3> QED BY <2>1, <3>2, <3>3
  <2>10. CASE ~agent.hc
    <3>1. lastRead.octets = b % Narrow /\ now.octets = (b + sinceRead) % Narrow /\ ~now.hc /\ sinceRead < Narrow
      <4>1. ~now.hc
        BY <1>6, <2>5, <2>10
      <4>2. sinceRead < Narrow
        BY <1>0, <1>1, <2>4, <4>1
      <4> QED BY <1>6, <2>5, <2>7, <2>8, <2>10, <4>1, <4>2 DEF Earlier
    <3>2. (b + sinceRead) % Narrow = (IF (b % Narrow) + sinceRead < Narrow THEN (b % Narrow) + sinceRead ELSE ((b % Narrow) + sinceRead) - Narrow)
      BY <1>0, <1>1, <2>8, <3>1, ModMovesOn
    <3>3. PICK r \in 0 .. Narrow - 1 : b % Narrow = r
      BY <1>0, <2>8, ModFacts
    <3>4. lastRead.octets = r /\ now.octets = (IF r + sinceRead < Narrow THEN r + sinceRead ELSE (r + sinceRead) - Narrow)
      BY <3>1, <3>2, <3>3
    <3>7. PICK p \in Nat : p = lastRead.octets
      BY <1>0, <3>4
    <3>8. PICK c \in Nat : c = now.octets
      BY <1>3
    <3>9. PICK s \in Nat : s = sinceRead
      BY <1>1
    <3>10. p = r /\ c = (IF r + s < Narrow THEN r + s ELSE (r + s) - Narrow) /\ s < Narrow /\ shown' = Rate(p, c, now.hc) /\ ~now.hc
      BY <2>1, <3>1, <3>4, <3>7, <3>8, <3>9
    <3>11. shown' = s
      <4>1. CASE r + s < Narrow
        <5>1. c >= p /\ c - p = s
          BY <3>10, <4>1
        <5>2. Rate(p, c, now.hc) = c - p
          BY <5>1, RateFacts
        <5> QED BY <3>10, <5>1, <5>2
      <4>2. CASE ~(r + s < Narrow)
        <5>1. c < p /\ Narrow - p + c = s /\ s < Wide
          BY <1>0, <3>10, <4>2
        <5>2. Rate(p, c, now.hc) = (Narrow - p + c) % Wide
          BY <3>10, <5>1, RateFacts
        <5>3. s % Wide = s
          BY <1>0, <5>1, ModFacts
        <5> QED BY <3>10, <5>1, <5>2, <5>3
      <4> QED BY <4>1, <4>2
    <3> QED BY <3>9, <3>11
  <2> QED BY <1>1, <2>9, <2>10
<1> QED BY <1>5, <1>7, <1>8 DEF CounterInv

LEMMA CountersStep == CounterInv /\ [CountersNext]_counterVars => CounterInv'
<1> SUFFICES ASSUME CounterInv, [CountersNext]_counterVars PROVE CounterInv'
  OBVIOUS
<1>1. CASE UNCHANGED counterVars
  BY <1>1 DEF counterVars, CounterInv, CounterTypes, ReadingStands, Earlier, RateIsTraffic
<1>2. CASE (\E n \in 1 .. Narrow : Send(n)) \/ UpSecond \/ DeviceRestart
  BY <1>2, AgentKeeps
<1>3. CASE \E wide, narrow \in BOOLEAN : PollInterfaces(wide, narrow)
  BY <1>3, PollKeeps
<1> QED BY <1>1, <1>2, <1>3 DEF CountersNext

\* Every rate that is shown is the traffic there was, for counters of any two widths, over
\* wraps, early polls and restarts; a missing column, a hidden restart and a second wrap
\* are the exceptions (rate, ifRates).
THEOREM RatesAreTraffic == CountersSpec => []RateIsTraffic
<1>1. CounterInv => RateIsTraffic
  BY DEF CounterInv
<1> QED BY <1>1, CountersInitInv, CountersStep, PTL DEF CountersSpec

-----------------------------------------------------------------------------
(* Links.                                                                  *)

\* A link is a record of these fields; a computed one carries its confidence.
IsLink(l) ==
    /\ l = [a |-> l.a, aIf |-> l.aIf, b |-> l.b, bIf |-> l.bIf, ext |-> l.ext, manual |-> l.manual,
            conf |-> l.conf, stale |-> l.stale, aged |-> l.aged]
    /\ l.conf \in 60 .. 100 /\ l.ext \in BOOLEAN /\ l.manual \in BOOLEAN /\ l.stale \in BOOLEAN

\* Both ends are devices of the inventory, or were while something was going on.
Joined(l) == l.a \in units \union ghosts /\ (l.ext \/ l.b \in units \union ghosts)

\* What a walk, a Rebuild and an addLink have read is of such devices too.
ReadsJoined(b) ==
    /\ build[b].devs \subseteq units \union ghosts
    /\ DOMAIN build[b].sights = Unit /\ \A d \in Unit : build[b].sights[d] # {} => d \in units \union ghosts
    /\ \A l \in build[b].old : IsLink(l) /\ Joined(l)

IsBuild(r) ==
    r = [at |-> r.at, devs |-> r.devs, role |-> r.role, locked |-> r.locked, known |-> r.known,
         sights |-> r.sights, old |-> r.old]

TopoTypes ==
    /\ units \subseteq Unit /\ DOMAIN sights = Unit
    /\ build = [b \in Builder |-> build[b]]
    /\ \A b \in Builder : IsBuild(build[b]) /\ (build[b].at = "idle" => build[b] = NotBuilding)

NowJoined ==
    /\ collecting \subseteq units \union ghosts
    /\ \A m \in drawing : {m[1], m[3]} \subseteq units \union ghosts
    /\ \A d \in Unit : sights[d] # {} => d \in units \union ghosts
    /\ \A l \in links : IsLink(l) /\ Joined(l)

\* Of the links in ls, as OnePeerPerPort says it of all.
OnePeerIn(ls) ==
    \A k, l \in ls : ~k.manual /\ ~l.manual /\ ~k.ext /\ ~l.ext /\ ~k.stale /\ k.conf = 100
                      /\ Ends(k) \intersect Ends(l) # {}
        => ~l.stale /\ l.conf = 100

TopoInv == TopoTypes /\ NowJoined /\ (\A b \in Builder : ReadsJoined(b)) /\ OnePeerPerPort

LEMMA LeastThere ==
    ASSUME NEW T, T \subseteq Nat, T # {}
    PROVE  \E k \in T : \A y \in T : k <= y
<1> DEFINE R == OpToRel(<, Nat)
<1>1. IsWellFoundedOn(R, Nat)
  BY NatLessThanWellFounded
<1>2. \A x, y \in Nat : <<x, y>> \in R <=> x < y
  BY DEF OpToRel
<1> HIDE DEF R
<1>3. PICK k \in T : \A y \in T : ~(<<y, k>> \in R)
  BY <1>1, WFMin
<1>4. \A y \in T : k <= y
  <2> SUFFICES ASSUME NEW y \in T PROVE k <= y
    OBVIOUS
  <2>1. k \in Nat /\ y \in Nat
    OBVIOUS
  <2>2. ~(y < k)
    BY <1>2, <1>3, <2>1
  <2> QED BY <2>1, <2>2
<1> QED BY <1>4

LEMMA LargestThere ==
    ASSUME NEW S, S \subseteq 0 .. 100, S # {}
    PROVE  Max(S) \in S /\ \A y \in S : Max(S) >= y
<1>1. PICK T : T = {100 - x : x \in S}
  OBVIOUS
<1>2. \A t \in T : \E x \in S : t = 100 - x
  BY <1>1
<1>3. \A x \in S : 100 - x \in T
  BY <1>1
<1>4. T \subseteq Nat /\ T # {}
  <2>1. \A x \in S : 100 - x \in Nat
    OBVIOUS
  <2> QED BY <1>2, <1>3, <2>1
<1>5. PICK k \in T : \A y \in T : k <= y
  BY <1>4, LeastThere
<1>6. PICK x \in S : k = 100 - x
  BY <1>2
<1>7. \A y \in S : x >= y
  <2> SUFFICES ASSUME NEW y \in S PROVE x >= y
    OBVIOUS
  <2>1. k <= 100 - y
    BY <1>3, <1>5
  <2> QED BY <1>6, <2>1
<1> QED BY <1>7 DEF Max

LEMMA ConfidenceIn == ASSUME NEW k, k[5] \in BOOLEAN, NEW mine PROVE Confidence(k, mine) \in 60 .. 100
BY DEF Confidence

LEMMA FreshFacts ==
    ASSUME NEW r, DOMAIN r.sights = Unit, r.devs \subseteq units \union ghosts,
           \A d \in Unit : r.sights[d] # {} => d \in units \union ghosts
    PROVE  \A l \in Fresh(r) : IsLink(l) /\ Joined(l)
<1>1. ASSUME NEW k \in LinkKeys(r)
      PROVE  k[5] \in BOOLEAN /\ k[1] \in units \union ghosts /\ (k[5] \/ k[3] \in units \union ghosts)
  <2>1. PICK s \in Observed(r) : k = LinkKey(r, s[1], s[2])
    BY DEF LinkKeys
  <2>2. s[1] \in Unit /\ s[2] \in r.sights[s[1]]
    BY DEF Observed
  <2>3. s[1] \in units \union ghosts
    BY <2>2
  <2> QED BY <2>1, <2>3 DEF LinkKey
<1> SUFFICES ASSUME NEW l \in Fresh(r) PROVE IsLink(l) /\ Joined(l)
  OBVIOUS
<1>2. PICK k, mine : k \in LinkKeys(r) /\ l = [a |-> k[1], aIf |-> k[2], b |-> k[3], bIf |-> k[4], ext |-> k[5], manual |-> FALSE,
          conf |-> Confidence(k, mine), stale |-> FALSE, aged |-> FALSE]
  BY DEF Fresh
<1>3. Confidence(k, mine) \in 60 .. 100
  BY <1>1, <1>2, ConfidenceIn
<1> QED BY <1>1, <1>2, <1>3 DEF IsLink, Joined

\* The links a Rebuild makes join devices, and keep to one peer.
LEMMA NewLinksFacts ==
    ASSUME NEW r, DOMAIN r.sights = Unit, r.devs \subseteq units \union ghosts,
           \A d \in Unit : r.sights[d] # {} => d \in units \union ghosts,
           \A l \in r.old : IsLink(l) /\ Joined(l)
    PROVE  (\A l \in NewLinks(r) : IsLink(l) /\ Joined(l)) /\ OnePeerIn(NewLinks(r))
<1>1. PICK ls : ls = Fresh(r) \union Kept(r) \union Stale(r)
  OBVIOUS
<1>2. \A l \in Stale(r) : IsLink(l) /\ Joined(l)
  <2> SUFFICES ASSUME NEW l \in Stale(r) PROVE IsLink(l) /\ Joined(l)
    OBVIOUS
  <2>1. PICK o \in r.old : l = [o EXCEPT !.stale = TRUE]
    BY DEF Stale
  <2>2. IsLink(o) /\ Joined(o)
    OBVIOUS
  <2>3. l = [a |-> o.a, aIf |-> o.aIf, b |-> o.b, bIf |-> o.bIf, ext |-> o.ext, manual |-> o.manual,
             conf |-> o.conf, stale |-> TRUE, aged |-> o.aged]
    BY <2>1, <2>2 DEF IsLink
  <2> QED BY <2>2, <2>3 DEF IsLink, Joined
<1>3. \A l \in ls : IsLink(l) /\ Joined(l)
  BY <1>1, <1>2, FreshFacts DEF Kept
<1>4. NewLinks(r) = OnePeer(ls) /\ OnePeer(ls) \subseteq ls
  BY <1>1 DEF NewLinks, OnePeer
<1>5. OnePeerIn(NewLinks(r))
  <2> SUFFICES ASSUME NEW k \in OnePeer(ls), NEW l \in OnePeer(ls),
                      ~k.manual, ~l.manual, ~k.ext, ~l.ext, ~k.stale, k.conf = 100,
                      Ends(k) \intersect Ends(l) # {}
               PROVE  ~l.stale /\ l.conf = 100
    BY <1>4 DEF OnePeerIn
  <2>1. PICK e : e \in Ends(k) /\ e \in Ends(l)
    OBVIOUS
  <2>2. PICK S : S = {0} \union {x.conf : x \in {x \in ls : e \in Ends(x) /\ ~x.stale /\ ~x.ext}}
    OBVIOUS
  <2>3. S \subseteq 0 .. 100 /\ S # {} /\ 100 \in S
    <3>1. \A x \in ls : x.conf \in 0 .. 100
      BY <1>3 DEF IsLink
    <3>2. k \in {x \in ls : e \in Ends(x) /\ ~x.stale /\ ~x.ext}
      BY <1>4, <2>1
    <3> QED BY <2>2, <3>1, <3>2
  <2>4. Max(S) \in 0 .. 100 /\ Max(S) >= 100
    BY <2>3, LargestThere
  <2>5. Max(S) < 100 \/ (~l.stale /\ l.conf >= Max(S))
    BY <2>1, <2>2 DEF OnePeer
  <2>6. l.conf \in 60 .. 100
    BY <1>3, <1>4 DEF IsLink
  <2> QED BY <2>4, <2>5, <2>6
<1> QED BY <1>3, <1>4, <1>5

LEMMA TopoInitInv == TopoInit => TopoInv
<1> SUFFICES ASSUME TopoInit PROVE TopoInv
  OBVIOUS
<1>1. IsBuild(NotBuilding) /\ NotBuilding.devs = {} /\ NotBuilding.old = {} /\ NotBuilding.sights = [d \in Unit |-> {}]
  BY DEF NotBuilding, IsBuild
<1>2. units = Unit /\ links = {} /\ sights = [d \in Unit |-> {}] /\ collecting = {} /\ drawing = {} /\ build = [b \in Builder |-> NotBuilding]
  BY DEF TopoInit
<1>3. \A b \in Builder : build[b] = NotBuilding
  BY <1>2
<1>4. TopoTypes
  BY <1>1, <1>2, <1>3 DEF TopoTypes
<1> QED BY <1>1, <1>2, <1>3, <1>4 DEF TopoInv, NowJoined, ReadsJoined, OnePeerPerPort

\* While no device leaves, what is joined stays so.
LEMMA JoinedStays ==
    ASSUME TopoInv, units \union ghosts \subseteq units' \union ghosts'
    PROVE  /\ \A l : Joined(l) => Joined(l)'
           /\ \A b \in Builder : build'[b] = build[b] => ReadsJoined(b)'
<1>1. \A l : Joined(l) => Joined(l)'
  BY DEF Joined
<1>2. ASSUME NEW b \in Builder, build'[b] = build[b] PROVE ReadsJoined(b)'
  <2>1. ReadsJoined(b)
    BY DEF TopoInv
  <2>2. \A l \in build[b].old : IsLink(l) /\ Joined(l)'
    BY <1>1, <2>1 DEF ReadsJoined
  <2>3. /\ build'[b].devs \subseteq (units \union ghosts)' /\ DOMAIN build'[b].sights = Unit
        /\ \A d \in Unit : build'[b].sights[d] # {} => d \in (units \union ghosts)'
    BY <1>2, <2>1 DEF ReadsJoined
  <2> QED BY <1>2, <2>2, <2>3 DEF ReadsJoined
<1> QED BY <1>1, <1>2

\* The inventory and the links, edited from outside.
LEMMA InventoryKeeps ==
    ASSUME TopoInv, NEW d \in Unit, PutDevice(d) \/ PutInterfaces(d) \/ (\E r \in LockRole : SetRole(d, r))
    PROVE  TopoInv'
<1>1. /\ UNCHANGED <<sights, links, collecting, drawing, build>>
      /\ units' \subseteq Unit /\ units \union ghosts \subseteq units' \union ghosts'
  BY DEF PutDevice, PutInterfaces, SetRole, TopoInv, TopoTypes
<1>2. TopoTypes'
  BY <1>1 DEF TopoInv, TopoTypes
<1>3. NowJoined'
  <2>1. \A l \in links : IsLink(l) /\ Joined(l)'
    BY <1>1, JoinedStays DEF TopoInv, NowJoined
  <2> QED BY <1>1, <2>1 DEF TopoInv, NowJoined
<1>4. \A b \in Builder : ReadsJoined(b)'
  BY <1>1, JoinedStays
<1>5. OnePeerPerPort'
  BY <1>1 DEF TopoInv, OnePeerPerPort
<1> QED BY <1>2, <1>3, <1>4, <1>5 DEF TopoInv

LEMMA LinksKeep ==
    ASSUME TopoInv, (\E l \in links : DeleteLink(l)) \/ WeekPasses
    PROVE  TopoInv'
<1>1. UNCHANGED <<units, ghosts, sights, collecting, drawing, build>>
  BY DEF DeleteLink, WeekPasses
<1>2. \A n \in links' : \E l \in links : n = l \/ n = [l EXCEPT !.aged = l.stale]
  BY DEF DeleteLink, WeekPasses
<1>3. \A n \in links' : \E l \in links :
        /\ IsLink(n) /\ Joined(n)
        /\ n.a = l.a /\ n.aIf = l.aIf /\ n.b = l.b /\ n.bIf = l.bIf
        /\ n.manual = l.manual /\ n.ext = l.ext /\ n.stale = l.stale /\ n.conf = l.conf
  <2> SUFFICES ASSUME NEW n \in links' PROVE \E l \in links :
        /\ IsLink(n) /\ Joined(n)
        /\ n.a = l.a /\ n.aIf = l.aIf /\ n.b = l.b /\ n.bIf = l.bIf
        /\ n.manual = l.manual /\ n.ext = l.ext /\ n.stale = l.stale /\ n.conf = l.conf
    OBVIOUS
  <2>1. PICK l \in links : n = l \/ n = [l EXCEPT !.aged = l.stale]
    BY <1>2
  <2>2. IsLink(l) /\ Joined(l)
    BY DEF TopoInv, NowJoined
  <2>3. n.a = l.a /\ n.aIf = l.aIf /\ n.b = l.b /\ n.bIf = l.bIf
        /\ n.manual = l.manual /\ n.ext = l.ext /\ n.stale = l.stale /\ n.conf = l.conf
    BY <2>1, <2>2 DEF IsLink
  <2>4. n = [a |-> n.a, aIf |-> n.aIf, b |-> n.b, bIf |-> n.bIf, ext |-> n.ext, manual |-> n.manual,
            conf |-> n.conf, stale |-> n.stale, aged |-> n.aged]
    BY <2>1, <2>2 DEF IsLink
  <2> QED BY <2>2, <2>3, <2>4 DEF IsLink, Joined
<1>4. TopoTypes'
  BY <1>1 DEF TopoInv, TopoTypes
<1>5. NowJoined'
  <2>1. \A l \in links' : IsLink(l) /\ Joined(l)'
    BY <1>1, <1>3, JoinedStays
  <2> QED BY <1>1, <2>1 DEF TopoInv, NowJoined
<1>6. \A b \in Builder : ReadsJoined(b)'
  BY <1>1, JoinedStays
<1>7. OnePeerPerPort'
  <2>1. OnePeerPerPort
    BY DEF TopoInv
  <2> SUFFICES ASSUME NEW k \in links', NEW l \in links',
                      ~k.manual, ~l.manual, ~k.ext, ~l.ext, ~k.stale, k.conf = 100,
                      Ends(k) \intersect Ends(l) # {}
               PROVE  ~l.stale /\ l.conf = 100
    BY DEF OnePeerPerPort
  <2>2. PICK k0 \in links : /\ k.a = k0.a /\ k.aIf = k0.aIf /\ k.b = k0.b /\ k.bIf = k0.bIf
                            /\ k.manual = k0.manual /\ k.ext = k0.ext /\ k.stale = k0.stale /\ k.conf = k0.conf
    BY <1>3
  <2>3. PICK l0 \in links : /\ l.a = l0.a /\ l.aIf = l0.aIf /\ l.b = l0.b /\ l.bIf = l0.bIf
                            /\ l.manual = l0.manual /\ l.ext = l0.ext /\ l.stale = l0.stale /\ l.conf = l0.conf
    BY <1>3
  <2>4. Ends(k) = Ends(k0) /\ Ends(l) = Ends(l0)
    BY <2>2, <2>3 DEF Ends
  <2> QED BY <2>1, <2>2, <2>3, <2>4 DEF OnePeerPerPort
<1> QED BY <1>4, <1>5, <1>6, <1>7 DEF TopoInv

LEMMA DrawingKeeps ==
    ASSUME TopoInv, NEW m \in ManualLink, AddLink(m) \/ PutLink(m)
    PROVE  TopoInv'
<1>0. TopoTypes /\ NowJoined /\ OnePeerPerPort
  BY DEF TopoInv
<1>1. UNCHANGED <<units, ghosts, sights, collecting, build>>
  BY DEF AddLink, PutLink
<1>2. TopoTypes'
  BY <1>0, <1>1 DEF TopoTypes
<1>3. \A b \in Builder : ReadsJoined(b)'
  BY <1>1, JoinedStays
<1>4. CASE AddLink(m)
  <2>1. {m[1], m[3]} \subseteq units /\ drawing' = drawing \union {m} /\ links' = links
    BY <1>4 DEF AddLink
  <2>2. \A l \in links : IsLink(l) /\ Joined(l)'
    BY <1>0, <1>1, JoinedStays DEF NowJoined
  <2>3. NowJoined'
    BY <1>0, <1>1, <2>1, <2>2 DEF NowJoined
  <2>4. OnePeerPerPort'
    BY <1>0, <2>1 DEF OnePeerPerPort
  <2> QED BY <1>2, <1>3, <2>3, <2>4 DEF TopoInv
<1>5. CASE PutLink(m)
  <2>1. PICK new : new = [a |-> m[1], aIf |-> m[2], b |-> m[3], bIf |-> m[4], ext |-> FALSE,
                               manual |-> TRUE, conf |-> 100, stale |-> FALSE, aged |-> FALSE]
    OBVIOUS
  <2>2. m \in drawing /\ drawing' = drawing \ {m} /\ links' = links \union {new}
    BY <1>5, <2>1 DEF PutLink
  <2>3. new.a \in units \union ghosts /\ new.b \in units \union ghosts
    BY <1>0, <2>1, <2>2 DEF NowJoined
  <2>4. IsLink(new) /\ Joined(new) /\ new.manual
    BY <2>1, <2>3 DEF IsLink, Joined
  <2>5. \A l \in links' : IsLink(l) /\ Joined(l)'
    BY <1>0, <1>1, <2>2, <2>4, JoinedStays DEF NowJoined
  <2>6. NowJoined'
    BY <1>0, <1>1, <2>2, <2>5 DEF NowJoined
  <2>7. OnePeerPerPort'
    BY <1>0, <2>2, <2>4 DEF OnePeerPerPort
  <2> QED BY <1>2, <1>3, <2>6, <2>7 DEF TopoInv
<1> QED BY <1>4, <1>5

\* A step of one builder: what it makes of its Rebuild, and of the links.
LEMMA BuilderKeeps ==
    ASSUME TopoInv, NEW b \in Builder, NEW now,
           UNCHANGED <<units, ghosts, sights, drawing>>, collecting' \subseteq units \union ghosts,
           build' = [build EXCEPT ![b] = now],
           IsBuild(now), now.at = "idle" => now = NotBuilding,
           now.devs \subseteq units \union ghosts,
           DOMAIN now.sights = Unit, \A d \in Unit : now.sights[d] # {} => d \in units \union ghosts,
           \A l \in now.old : IsLink(l) /\ Joined(l),
           \A l \in links' : IsLink(l) /\ Joined(l),
           OnePeerPerPort'
    PROVE  TopoInv'
<1>0. TopoTypes /\ NowJoined
  BY DEF TopoInv
<1>1. /\ build' = [c \in Builder |-> build'[c]] /\ build'[b] = now
      /\ \A c \in Builder : c # b => build'[c] = build[c]
  BY <1>0 DEF TopoTypes
<1>2. TopoTypes'
  BY <1>0, <1>1 DEF TopoTypes
<1>3. ASSUME NEW c \in Builder PROVE ReadsJoined(c)'
  <2>1. CASE c = b
    <3>1. \A l \in now.old : IsLink(l) /\ Joined(l)'
      BY JoinedStays
    <3> QED BY <1>1, <2>1, <3>1 DEF ReadsJoined
  <2>2. CASE c # b
    BY <1>1, <2>2, JoinedStays
  <2> QED BY <2>1, <2>2
<1>4. \A l \in links' : IsLink(l) /\ Joined(l)'
  BY JoinedStays
<1>5. NowJoined'
  BY <1>0, <1>4 DEF NowJoined
<1> QED BY <1>2, <1>3, <1>5 DEF TopoInv

LEMMA BeginFacts ==
    ASSUME NEW b
    PROVE  /\ IsBuild(BeginRebuild(b)) /\ BeginRebuild(b).at = "indexed" /\ BeginRebuild(b).devs = units
           /\ BeginRebuild(b).sights = [d \in Unit |-> {}] /\ BeginRebuild(b).old = {}
           /\ IsBuild(NotBuilding) /\ NotBuilding.at = "idle" /\ NotBuilding.devs = {}
           /\ NotBuilding.sights = [d \in Unit |-> {}] /\ NotBuilding.old = {}
<1>1. PICK none, nil : none = [d \in Unit |-> "none"] /\ nil = [d \in Unit |-> {}]
  OBVIOUS
<1>2. NotBuilding = [at |-> "idle", devs |-> {}, role |-> none, locked |-> {}, known |-> {}, sights |-> nil, old |-> {}]
  BY <1>1 DEF NotBuilding
<1>3. PICK n : n = NotBuilding
  OBVIOUS
<1>4. BeginRebuild(b) = [n EXCEPT !.at = "indexed", !.devs = units, !.role = role, !.locked = locked, !.known = known]
  BY <1>3 DEF BeginRebuild
<1>5. n = [at |-> "idle", devs |-> {}, role |-> none, locked |-> {}, known |-> {}, sights |-> nil, old |-> {}]
  BY <1>2, <1>3
<1>6. BeginRebuild(b) = [at |-> "indexed", devs |-> units, role |-> role, locked |-> locked, known |-> known,
                         sights |-> nil, old |-> {}]
  BY <1>4, <1>5
<1> QED BY <1>1, <1>2, <1>6 DEF IsBuild

LEMMA RebuildKeeps ==
    ASSUME TopoInv, NEW b \in Builder, Index \/ ReadNeighbors(b) \/ ReadLinks(b) \/ ReplaceLinks(b) \/ FinishRebuild(b)
    PROVE  TopoInv'
<1>0. TopoTypes /\ NowJoined /\ OnePeerPerPort /\ \A c \in Builder : IsBuild(build[c]) /\ ReadsJoined(c)
  BY DEF TopoInv, TopoTypes
<1>1. UNCHANGED <<units, ghosts, sights, drawing, collecting>> /\ collecting' \subseteq units \union ghosts
  BY <1>0 DEF Index, ReadNeighbors, ReadLinks, ReplaceLinks, FinishRebuild, NowJoined
<1>2. links' = links => OnePeerPerPort' /\ \A l \in links' : IsLink(l) /\ Joined(l)
  BY <1>0 DEF OnePeerPerPort, NowJoined
<1>3. PICK r : r = build[b]
  OBVIOUS
<1>4. /\ r = [at |-> r.at, devs |-> r.devs, role |-> r.role, locked |-> r.locked, known |-> r.known,
              sights |-> r.sights, old |-> r.old]
      /\ r.devs \subseteq units \union ghosts
      /\ DOMAIN r.sights = Unit /\ (\A d \in Unit : r.sights[d] # {} => d \in units \union ghosts)
      /\ \A l \in r.old : IsLink(l) /\ Joined(l)
  <2>1. IsBuild(r) /\ ReadsJoined(b)
    BY <1>0, <1>3
  <2>2. r = [at |-> r.at, devs |-> r.devs, role |-> r.role, locked |-> r.locked, known |-> r.known,
              sights |-> r.sights, old |-> r.old]
    BY <2>1 DEF IsBuild
  <2> QED BY <1>3, <2>1, <2>2 DEF ReadsJoined
<1>5. CASE Index
  <2>1. "collect" \in Builder /\ build' = [build EXCEPT !["collect"] = BeginRebuild("collect")] /\ links' = links
    BY <1>5 DEF Index, Builder
  <2>2. PICK now : now = BeginRebuild("collect")
    OBVIOUS
  <2>3. /\ IsBuild(now) /\ now.at # "idle" /\ now.devs \subseteq units \union ghosts
        /\ DOMAIN now.sights = Unit /\ (\A d \in Unit : now.sights[d] = {})
        /\ now.old = {}
    BY <2>2, BeginFacts
  <2> QED BY <1>1, <1>2, <2>1, <2>2, <2>3, BuilderKeeps
<1>6. CASE ReadNeighbors(b)
  <2>1. build' = [build EXCEPT ![b].at = "sighted", ![b].sights = sights] /\ links' = links
    BY <1>6 DEF ReadNeighbors
  <2>2. PICK now : now = [r EXCEPT !.at = "sighted", !.sights = sights]
    OBVIOUS
  <2>3. build' = [build EXCEPT ![b] = now]
    BY <1>0, <1>3, <2>1, <2>2 DEF TopoTypes
  <2>4. now = [at |-> "sighted", devs |-> r.devs, role |-> r.role, locked |-> r.locked, known |-> r.known,
               sights |-> sights, old |-> r.old]
    BY <1>4, <2>2
  <2>5. IsBuild(now) /\ now.at # "idle" /\ now.devs = r.devs /\ now.old = r.old /\ now.sights = sights
    BY <2>4 DEF IsBuild
  <2>6. DOMAIN now.sights = Unit /\ \A d \in Unit : now.sights[d] # {} => d \in units \union ghosts
    BY <1>0, <2>5 DEF NowJoined, TopoTypes
  <2> QED BY <1>1, <1>2, <1>4, <2>1, <2>3, <2>5, <2>6, BuilderKeeps
<1>7. CASE ReadLinks(b)
  <2>1. build' = [build EXCEPT ![b].at = "ready", ![b].old = links] /\ links' = links
    BY <1>7 DEF ReadLinks
  <2>2. PICK now : now = [r EXCEPT !.at = "ready", !.old = links]
    OBVIOUS
  <2>3. build' = [build EXCEPT ![b] = now]
    BY <1>0, <1>3, <2>1, <2>2 DEF TopoTypes
  <2>4. now = [at |-> "ready", devs |-> r.devs, role |-> r.role, locked |-> r.locked, known |-> r.known,
               sights |-> r.sights, old |-> links]
    BY <1>4, <2>2
  <2>5. IsBuild(now) /\ now.at # "idle" /\ now.devs = r.devs /\ now.old = links /\ now.sights = r.sights
    BY <2>4 DEF IsBuild
  <2>6. \A l \in now.old : IsLink(l) /\ Joined(l)
    BY <1>0, <2>5 DEF NowJoined
  <2>7. DOMAIN now.sights = Unit /\ \A d \in Unit : now.sights[d] # {} => d \in units \union ghosts
    BY <1>4, <2>5
  <2> QED BY <1>1, <1>2, <1>4, <2>1, <2>3, <2>5, <2>6, <2>7, BuilderKeeps
<1>8. CASE ReplaceLinks(b)
  <2>1. PICK new : new = NewLinks(r)
    OBVIOUS
  <2>2. links' = new \union {l \in links : l.manual} /\ build' = [build EXCEPT ![b].at = "linked", ![b].old = new]
    BY <1>3, <1>8, <2>1 DEF ReplaceLinks
  <2>3. DOMAIN r.sights = Unit => (\A l \in new : IsLink(l) /\ Joined(l)) /\ OnePeerIn(new)
    BY <1>4, <2>1, NewLinksFacts
  <2>4. PICK now : now = [r EXCEPT !.at = "linked", !.old = new]
    OBVIOUS
  <2>5. build' = [build EXCEPT ![b] = now]
    BY <1>0, <1>3, <2>2, <2>4 DEF TopoTypes
  <2>6. now = [at |-> "linked", devs |-> r.devs, role |-> r.role, locked |-> r.locked, known |-> r.known,
               sights |-> r.sights, old |-> new]
    BY <1>4, <2>4
  <2>7. IsBuild(now) /\ now.at # "idle" /\ now.devs = r.devs /\ now.old = new /\ now.sights = r.sights
    BY <2>6 DEF IsBuild
  <2>8. DOMAIN r.sights = Unit
    BY <1>4
  <2>9. OnePeerPerPort'
    BY <2>2, <2>3, <2>8 DEF OnePeerPerPort, OnePeerIn
  <2>10. \A l \in links' : IsLink(l) /\ Joined(l)
    BY <1>0, <2>2, <2>3, <2>8 DEF NowJoined
  <2>11. \A l \in now.old : IsLink(l) /\ Joined(l)
    BY <2>3, <2>7, <2>8
  <2>12. DOMAIN now.sights = Unit /\ \A d \in Unit : now.sights[d] # {} => d \in units \union ghosts
    BY <1>4, <2>7
  <2> QED BY <1>1, <1>4, <2>5, <2>7, <2>9, <2>10, <2>11, <2>12, BuilderKeeps
<1>9. CASE FinishRebuild(b)
  <2>1. build' = [build EXCEPT ![b] = NotBuilding] /\ links' = links
    BY <1>9 DEF FinishRebuild
  <2>2. PICK now : now = NotBuilding
    OBVIOUS
  <2>3. /\ IsBuild(now) /\ now.devs \subseteq units \union ghosts /\ now.old = {}
        /\ DOMAIN now.sights = Unit /\ \A d \in Unit : now.sights[d] = {}
    BY <2>2, BeginFacts
  <2> QED BY <1>1, <1>2, <2>1, <2>2, <2>3, BuilderKeeps
<1> QED BY <1>5, <1>6, <1>7, <1>8, <1>9

\* The walks: Collect and its collectDevice.
LEMMA CollectKeeps ==
    ASSUME TopoInv, Collect \/ (\E d \in Unit : \E table \in Sight[d], expired \in BOOLEAN : CollectDevice(d, table, expired))
    PROVE  TopoInv'
<1>0. TopoTypes /\ NowJoined /\ OnePeerPerPort /\ \A c \in Builder : IsBuild(build[c]) /\ ReadsJoined(c)
  BY DEF TopoInv, TopoTypes
<1>1. UNCHANGED <<units, ghosts, drawing, links>>
  BY DEF Collect, CollectDevice
<1>2. OnePeerPerPort' /\ \A l \in links' : IsLink(l) /\ Joined(l)
  BY <1>0, <1>1 DEF OnePeerPerPort, NowJoined
<1>3. CASE Collect
  <2>1. "collect" \in Builder
    BY DEF Builder
  <2>2. PICK r : r = build["collect"]
    OBVIOUS
  <2>3. PICK now : now = [r EXCEPT !.at = "walk"]
    OBVIOUS
  <2>4. IsBuild(r) /\ ReadsJoined("collect")
    BY <1>0, <2>1, <2>2
  <2>5. r = [at |-> r.at, devs |-> r.devs, role |-> r.role, locked |-> r.locked, known |-> r.known,
              sights |-> r.sights, old |-> r.old]
    BY <2>4 DEF IsBuild
  <2>6. now = [at |-> "walk", devs |-> r.devs, role |-> r.role, locked |-> r.locked, known |-> r.known,
              sights |-> r.sights, old |-> r.old]
    BY <2>3, <2>5
  <2>7. IsBuild(now) /\ now.at # "idle" /\ now.devs = r.devs /\ now.old = r.old /\ now.sights = r.sights
    BY <2>6 DEF IsBuild
  <2>8. build' = [build EXCEPT !["collect"].at = "walk"] /\ collecting' = units /\ sights' = sights
    BY <1>3 DEF Collect
  <2>9. build' = [build EXCEPT !["collect"] = now]
    BY <2>2, <2>3, <2>8
  <2>10. /\ now.devs \subseteq units \union ghosts /\ DOMAIN now.sights = Unit
         /\ (\A d \in Unit : now.sights[d] # {} => d \in units \union ghosts)
         /\ \A l \in now.old : IsLink(l) /\ Joined(l)
    BY <2>2, <2>4, <2>7 DEF ReadsJoined
  <2>11. collecting' \subseteq units \union ghosts
    BY <2>8
  <2> QED BY <1>1, <1>2, <2>1, <2>7, <2>8, <2>9, <2>10, <2>11, BuilderKeeps
<1>4. CASE \E d \in Unit : \E table \in Sight[d], expired \in BOOLEAN : CollectDevice(d, table, expired)
  <2>1. PICK d, table, expired : d \in Unit /\ CollectDevice(d, table, expired)
    BY <1>4
  <2>2. /\ d \in collecting /\ build' = build /\ collecting' \subseteq collecting
        /\ sights' = sights \/ sights' = [sights EXCEPT ![d] = table]
    BY <2>1 DEF CollectDevice
  <2>3. TopoTypes'
    BY <1>0, <1>1, <2>2 DEF TopoTypes
  <2>4. \A e \in Unit : sights'[e] # {} => e \in units \union ghosts
    BY <1>0, <2>2 DEF NowJoined, TopoTypes
  <2>5. \A l \in links' : IsLink(l) /\ Joined(l)'
    BY <1>1, <1>2, JoinedStays
  <2>6. NowJoined'
    BY <1>0, <1>1, <2>2, <2>4, <2>5 DEF NowJoined
  <2>7. \A b \in Builder : ReadsJoined(b)'
    BY <1>1, <2>2, JoinedStays
  <2> QED BY <1>2, <2>3, <2>6, <2>7 DEF TopoInv
<1> QED BY <1>3, <1>4

\* A device that leaves takes its table and its links along; where something that had
\* read it is still running it becomes a ghost.
LEMMA DeleteDeviceKeeps ==
    ASSUME TopoInv, NEW d \in Unit, DeleteDevice(d)
    PROVE  TopoInv'
<1>0. TopoTypes /\ NowJoined /\ OnePeerPerPort /\ \A c \in Builder : IsBuild(build[c]) /\ ReadsJoined(c)
  BY DEF TopoInv, TopoTypes
<1>1. "console" \in Builder
  BY DEF Builder
<1>2. PICK begun : begun = BeginRebuild("console")
  OBVIOUS
<1>3. PICK now : now = [begun EXCEPT !.devs = units', !.known = known', !.role = role']
  OBVIOUS
<1>4. /\ IsBuild(begun) /\ begun.at = "indexed" /\ begun.devs = units
      /\ begun.sights = [e \in Unit |-> {}] /\ begun.old = {}
  BY <1>2, BeginFacts
<1>5. begun = [at |-> begun.at, devs |-> begun.devs, role |-> begun.role, locked |-> begun.locked,
               known |-> begun.known, sights |-> begun.sights, old |-> begun.old]
  BY <1>4 DEF IsBuild
<1>6. now = [at |-> begun.at, devs |-> units', role |-> role', locked |-> begun.locked,
             known |-> known', sights |-> begun.sights, old |-> begun.old]
  BY <1>3, <1>5
<1>7. IsBuild(now) /\ now.at = "indexed" /\ now.devs = units' /\ now.sights = [e \in Unit |-> {}] /\ now.old = {}
  BY <1>4, <1>6 DEF IsBuild
<1>8. /\ units' = units \ {d} /\ sights' = [sights EXCEPT ![d] = {}]
      /\ links' = {l \in links : l.a # d /\ (l.ext \/ l.b # d)}
      /\ ghosts' = (IF InFlight THEN ghosts \union {d} ELSE ghosts)
      /\ collecting' = collecting /\ drawing' = drawing
  BY DEF DeleteDevice
<1>9. build' = [build EXCEPT !["console"] = now]
  BY <1>2, <1>3 DEF DeleteDevice
<1>10. /\ build' = [c \in Builder |-> build'[c]] /\ build'["console"] = now
       /\ \A c \in Builder : c # "console" => build'[c] = build[c]
  BY <1>0, <1>1, <1>9 DEF TopoTypes
<1>11. TopoTypes'
  <2>1. units' \subseteq Unit /\ DOMAIN sights' = Unit
    BY <1>0, <1>8 DEF TopoTypes
  <2>2. \A c \in Builder : IsBuild(build'[c]) /\ (build'[c].at = "idle" => build'[c] = NotBuilding)
    <3> SUFFICES ASSUME NEW c \in Builder PROVE IsBuild(build'[c]) /\ (build'[c].at = "idle" => build'[c] = NotBuilding)
      OBVIOUS
    <3>1. CASE c = "console"
      BY <1>7, <1>10, <3>1
    <3>2. CASE c # "console"
      BY <1>0, <1>10, <3>2 DEF TopoTypes
    <3> QED BY <3>1, <3>2
  <2> QED BY <1>10, <2>1, <2>2 DEF TopoTypes
<1>12. OnePeerPerPort'
  BY <1>0, <1>8 DEF OnePeerPerPort
<1>13. ReadsJoined("console")'
  BY <1>7, <1>10 DEF ReadsJoined
<1>14. \A l \in links' : IsLink(l) /\ Joined(l)'
  <2> SUFFICES ASSUME NEW l \in links' PROVE IsLink(l) /\ Joined(l)'
    OBVIOUS
  <2>1. l \in links /\ l.a # d /\ (l.ext \/ l.b # d)
    BY <1>8
  <2>2. IsLink(l) /\ Joined(l)
    BY <1>0, <2>1 DEF NowJoined
  <2> QED BY <1>8, <2>1, <2>2 DEF Joined
<1>15. \A e \in Unit : sights'[e] # {} => e \in (units \union ghosts)'
  BY <1>0, <1>8 DEF NowJoined, TopoTypes
<1>16. CASE InFlight
  <2>1. units \union ghosts \subseteq units' \union ghosts'
    BY <1>8, <1>16
  <2>2. ASSUME NEW c \in Builder PROVE ReadsJoined(c)'
    BY <1>10, <1>13, <2>1, JoinedStays
  <2>3. NowJoined'
    BY <1>0, <1>8, <1>14, <1>15, <2>1 DEF NowJoined
  <2> QED BY <1>11, <1>12, <2>2, <2>3 DEF TopoInv
<1>17. CASE ~InFlight
  <2>1. collecting = {} /\ drawing = {} /\ \A c \in Builder : build[c] = NotBuilding
    BY <1>0, <1>17 DEF InFlight, TopoTypes
  <2>2. ASSUME NEW c \in Builder PROVE ReadsJoined(c)'
    <3>1. CASE c = "console"
      BY <1>13, <3>1
    <3>2. CASE c # "console"
      <4>1. build'[c] = NotBuilding
        BY <1>10, <2>1, <3>2
      <4> QED BY <4>1, BeginFacts DEF ReadsJoined
    <3> QED BY <3>1, <3>2
  <2>3. NowJoined'
    BY <1>8, <1>14, <1>15, <2>1 DEF NowJoined
  <2> QED BY <1>11, <1>12, <2>2, <2>3 DEF TopoInv
<1> QED BY <1>16, <1>17

LEMMA TopoStep == TopoInv /\ [TopoNext]_topoVars => TopoInv'
<1> SUFFICES ASSUME TopoInv, [TopoNext]_topoVars PROVE TopoInv'
  OBVIOUS
<1>1. CASE UNCHANGED topoVars
  <2>1. UNCHANGED <<units, ghosts, sights, links, collecting, drawing, build>>
    BY <1>1 DEF topoVars
  <2>2. TopoTypes' /\ OnePeerPerPort'
    BY <2>1 DEF TopoInv, TopoTypes, OnePeerPerPort
  <2>3. \A l \in links' : IsLink(l) /\ Joined(l)'
    BY <2>1, JoinedStays DEF TopoInv, NowJoined
  <2>4. NowJoined'
    BY <2>1, <2>3 DEF TopoInv, NowJoined
  <2>5. \A b \in Builder : ReadsJoined(b)'
    BY <2>1, JoinedStays
  <2> QED BY <2>2, <2>4, <2>5 DEF TopoInv
<1>2. CASE Collect \/ \E d \in Unit : \E table \in Sight[d], expired \in BOOLEAN : CollectDevice(d, table, expired)
  BY <1>2, CollectKeeps
<1>3. CASE Index
  <2>1. "collect" \in Builder
    BY DEF Builder
  <2> QED BY <1>3, <2>1, RebuildKeeps
<1>4. CASE \E b \in Builder : ReadNeighbors(b) \/ ReadLinks(b) \/ ReplaceLinks(b) \/ FinishRebuild(b)
  BY <1>4, RebuildKeeps
<1>5. CASE \E d \in Unit : PutDevice(d) \/ PutInterfaces(d) \/ (\E r \in LockRole : SetRole(d, r))
  BY <1>5, InventoryKeeps
<1>6. CASE \E d \in Unit : DeleteDevice(d)
  BY <1>6, DeleteDeviceKeeps
<1>7. CASE \E m \in ManualLink : AddLink(m) \/ PutLink(m)
  BY <1>7, DrawingKeeps
<1>8. CASE (\E l \in links : DeleteLink(l)) \/ WeekPasses
  BY <1>8, LinksKeep
<1> QED BY <1>1, <1>2, <1>3, <1>4, <1>5, <1>6, <1>7, <1>8 DEF TopoNext

\* What the two theorems on links rest on: everything that is held of an observation or
\* a link, by a walk, a Rebuild or addLink too, is of devices that are or were there.
THEOREM TopoInvariant == TopoSpec => []TopoInv
BY TopoInitInv, TopoStep, PTL DEF TopoSpec

\* Whatever is collected, drawn, deleted and rebuilt at the same time, a link joins
\* devices of the inventory, or one that left while somebody still held what he had
\* read of it (ReplaceLinks and addLink do not look again).
THEOREM LinksAreJoined == TopoSpec => []LinksJoinDevices
<1>1. TopoInv => LinksJoinDevices
  BY DEF TopoInv, NowJoined, Joined, LinksJoinDevices
<1> QED BY <1>1, TopoInvariant, PTL

\* "A physical port has one peer": no Rebuild leaves, and no other step makes, a stale
\* or weaker computed link beside one that both sides confirm.
THEOREM OnePeerAlways == TopoSpec => []OnePeerPerPort
<1>1. TopoInv => OnePeerPerPort
  BY DEF TopoInv
<1> QED BY <1>1, TopoInvariant, PTL

-----------------------------------------------------------------------------
(* Endpoints.                                                              *)

IsEp(e) == e = [dev |-> e.dev, port |-> e.port, silent |-> e.silent]

\* What the switches saw: ports, with how many addresses were on them.
SightOK(st) ==
    \A m \in DOMAIN st : \A d \in DOMAIN st[m] : st[m][d].port \in Port /\ st[m][d].count \in Nat

\* Of the endpoints es and the sightings st, as PlacedOnLeastBusyPort says it.
LeastAt(e, sg) ==
    (e.dev \in DOMAIN sg /\ sg[e.dev].port = e.port) => \A d \in DOMAIN sg : sg[e.dev].count <= sg[d].count
LeastIn(es, st) == \A m \in DOMAIN es \cap DOMAIN st : LeastAt(es[m], st[m])

EpInv == (\A m \in DOMAIN eps : IsEp(eps[m])) /\ SightOK(sight) /\ LeastIn(eps, sight)

\* The table of a table are counted, and an address of it has one port.
LEMMA TableFacts ==
    ASSUME NEW table \in Tables
    PROVE  /\ \A p : Busy(table, p) \in Nat
           /\ \A up, m : KeptOn(table, up, m) \subseteq Port
           /\ \A up, m : \A p, q \in KeptOn(table, up, m) : p = q
<1>1. PICK f \in [Mac -> Port \cup {0}] : table = {r \in Mac \X Port : f[r[1]] = r[2]}
  BY DEF Tables
<1>2. IsFiniteSet(table)
  <2>1. [r \in table |-> r[1]] \in Injection(table, Mac)
    <3>1. [r \in table |-> r[1]] \in [table -> Mac]
      BY <1>1
    <3>2. \A r, s \in table : r[1] = s[1] => r = s
      BY <1>1
    <3> QED BY <3>1, <3>2 DEF Injection, IsInjective
  <2> QED BY <2>1, FS_Injection, EndpointsAssumption
<1>3. ASSUME NEW p PROVE Busy(table, p) \in Nat
  <2>1. {r \in table : r[2] = p} \in SUBSET table
    OBVIOUS
  <2> QED BY <1>2, <2>1, FS_Subset, FS_CardinalityType DEF Busy
<1>4. ASSUME NEW up, NEW m PROVE KeptOn(table, up, m) \subseteq Port /\ \A p, q \in KeptOn(table, up, m) : p = q
  BY <1>1 DEF KeptOn
<1> QED BY <1>3, <1>4

LEMMA SightingFacts ==
    ASSUME NEW table \in Tables, NEW up, NEW m, KeptOn(table, up, m) # {}
    PROVE  Sighting(table, up, m).port \in Port /\ Sighting(table, up, m).count \in Nat
<1>1. PICK p \in KeptOn(table, up, m) : \A q \in KeptOn(table, up, m) : Busy(table, p) <= Busy(table, q)
  <2>1. PICK p : p \in KeptOn(table, up, m)
    OBVIOUS
  <2>2. Busy(table, p) <= Busy(table, p)
    BY TableFacts
  <2> QED BY <2>1, <2>2, TableFacts
<1>2. PICK k : k = CHOOSE x \in KeptOn(table, up, m) : \A q \in KeptOn(table, up, m) : Busy(table, x) <= Busy(table, q)
  OBVIOUS
<1>3. k \in KeptOn(table, up, m)
  BY <1>1, <1>2
<1>4. k \in Port /\ Busy(table, k) \in Nat
  BY <1>3, TableFacts
<1>5. Sighting(table, up, m) = [port |-> k, count |-> Busy(table, k)]
  BY <1>2 DEF Sighting
<1> QED BY <1>4, <1>5

\* An address that is placed sits on the least busy of its sightings.
LEMMA PlacedIsLeast ==
    ASSUME NEW sg, DOMAIN sg # {}, \A x \in DOMAIN sg : sg[x].count \in Nat, NEW d
    PROVE  \E x \in DOMAIN sg : \A y \in DOMAIN sg :
               sg[x].count < sg[y].count \/ (sg[x].count = sg[y].count /\ (x = d \/ y # d))
<1>1. PICK T : T = {sg[x].count : x \in DOMAIN sg}
  OBVIOUS
<1>2. T \subseteq Nat /\ T # {}
  BY <1>1
<1>3. PICK k \in T : \A y \in T : k <= y
  BY <1>2, LeastThere
<1>4. \A y \in DOMAIN sg : sg[y].count \in Nat /\ k <= sg[y].count /\ k \in Nat
  BY <1>1, <1>2, <1>3
<1>5. PICK x \in DOMAIN sg : sg[x].count = k
  BY <1>1
<1>6. CASE d \in DOMAIN sg /\ sg[d].count = k
  <2>1. d \in DOMAIN sg /\ \A y \in DOMAIN sg : sg[d].count < sg[y].count \/ sg[d].count = sg[y].count
    BY <1>4, <1>6
  <2> QED BY <2>1
<1>7. CASE ~(d \in DOMAIN sg /\ sg[d].count = k)
  <2>1. \A y \in DOMAIN sg : sg[x].count < sg[y].count \/ (sg[x].count = sg[y].count /\ (x = d \/ y # d))
    BY <1>4, <1>5, <1>7
  <2> QED BY <2>1
<1> QED BY <1>6, <1>7

LEMMA BestSightFacts ==
    ASSUME NEW st, SightOK(st), NEW m \in DOMAIN st, NEW d, DOMAIN st[m] # {}
    PROVE  /\ BestSight(st, m, d) \in DOMAIN st[m]
           /\ \A e : e.dev = Placed(st, m, d).dev /\ e.port = Placed(st, m, d).port => LeastAt(e, st[m])
<1>1. PICK sg : sg = st[m]
  OBVIOUS
<1>2. DOMAIN sg # {} /\ \A x \in DOMAIN sg : sg[x].count \in Nat
  BY <1>1 DEF SightOK
<1>3. \E x \in DOMAIN sg : \A y \in DOMAIN sg :
          sg[x].count < sg[y].count \/ (sg[x].count = sg[y].count /\ (x = d \/ y # d))
  <2>1. DOMAIN sg # {}
    BY <1>2
  <2>2. \A x \in DOMAIN sg : sg[x].count \in Nat
    BY <1>2
  <2> QED BY <2>1, <2>2, PlacedIsLeast, Zenon
<1>4. PICK b : b = BestSight(st, m, d)
  OBVIOUS
<1>5. b \in DOMAIN sg /\ \A y \in DOMAIN sg :
          sg[b].count < sg[y].count \/ (sg[b].count = sg[y].count /\ (b = d \/ y # d))
  BY <1>1, <1>3, <1>4 DEF BestSight
<1>6. Placed(st, m, d).dev = b
  BY <1>4 DEF Placed
<1>7. \A y \in DOMAIN sg : sg[b].count <= sg[y].count
  BY <1>2, <1>5
<1> QED BY <1>1, <1>4, <1>5, <1>6, <1>7 DEF LeastAt

\* Leaving endpoints and sightings out disturbs nobody else.
LEMMA WithoutKeeps ==
    ASSUME NEW es, NEW st, NEW drop, \A m \in DOMAIN es : IsEp(es[m]), SightOK(st), LeastIn(es, st)
    PROVE  /\ \A m \in DOMAIN Without(es, drop) : IsEp(Without(es, drop)[m])
           /\ SightOK(Without(st, drop)) /\ LeastIn(Without(es, drop), Without(st, drop))
BY DEF Without, SightOK, LeastIn

\* What is sighted of an address once d's table is taken: as before, but by d.
SightsTaken(st, now, d) ==
    /\ \A m \in DOMAIN st : DOMAIN st[m] = (DOMAIN SightsOf(sight, m) \ {d}) \cup (IF m \in now THEN {d} ELSE {})
    /\ \A m \in DOMAIN st : DOMAIN st[m] # {}
    /\ \A m \in DOMAIN st : \A x \in DOMAIN st[m] : x # d => st[m][x] = sight[m][x]
    /\ \A m : DOMAIN SightsOf(sight, m) # {} => m \in DOMAIN sight /\ SightsOf(sight, m) = sight[m]
    /\ SightOK(st)

\* The sightings after a table has been read.
LEMMA SightedFacts ==
    ASSUME SightOK(sight), NEW d \in Switch, NEW table \in Tables, NEW up
    PROVE  SightsTaken(Sighted(d, table, up), Touched(table, up), d)
<1> PICK st : st = Sighted(d, table, up)
  OBVIOUS
<1> PICK now : now = Touched(table, up)
  OBVIOUS
<1>1. /\ \A m \in DOMAIN st : DOMAIN st[m] = (DOMAIN SightsOf(sight, m) \ {d}) \cup (IF m \in now THEN {d} ELSE {})
      /\ \A m \in DOMAIN st : DOMAIN st[m] # {}
      /\ \A m \in DOMAIN st : \A x \in DOMAIN st[m] : st[m][x] = (IF x = d THEN Sighting(table, up, m) ELSE sight[m][x])
  BY DEF Sighted
<1>2. \A m \in now : KeptOn(table, up, m) # {}
  BY DEF Touched
<1>3. \A m : DOMAIN SightsOf(sight, m) # {} => m \in DOMAIN sight /\ SightsOf(sight, m) = sight[m]
  BY DEF SightsOf, Known
<1>4. SightOK(st)
  <2> SUFFICES ASSUME NEW m \in DOMAIN st, NEW x \in DOMAIN st[m] PROVE st[m][x].port \in Port /\ st[m][x].count \in Nat
    BY DEF SightOK
  <2>1. CASE x = d
    <3>1. m \in now
      BY <1>1, <2>1
    <3>2. KeptOn(table, up, m) # {}
      BY <1>2, <3>1
    <3> QED BY <1>1, <2>1, <3>2, SightingFacts
  <2>2. CASE x # d
    <3>1. x \in DOMAIN SightsOf(sight, m)
      BY <1>1, <2>2
    <3>2. m \in DOMAIN sight /\ x \in DOMAIN sight[m]
      BY <1>3, <3>1
    <3> QED BY <1>1, <2>2, <3>2 DEF SightOK
  <2> QED BY <2>1, <2>2
<1> QED BY <1>1, <1>3, <1>4 DEF SightsTaken

LEMMA ObserveFDBKeeps ==
    ASSUME EpInv, NEW d \in Switch, NEW table \in Tables, NEW up, ObserveFDB(d, table, up)
    PROVE  EpInv'
<1>0. (\A m \in DOMAIN eps : IsEp(eps[m])) /\ SightOK(sight) /\ LeastIn(eps, sight)
  BY DEF EpInv
<1>1. PICK st : st = Sighted(d, table, up)
  OBVIOUS
<1>2. PICK now : now = Touched(table, up)
  OBVIOUS
<1>3. PICK es : es = [m \in DOMAIN eps \cup now |->
                  LET p == IF m \in now THEN Placed(st, m, d) ELSE Place(eps[m])
                  IN  [dev |-> p.dev, port |-> p.port, silent |-> Heard(now, m)]]
  OBVIOUS
<1>4. PICK drop : eps' = Without(es, drop) /\ sight' = Without(st, drop)
  BY <1>1, <1>2, <1>3 DEF ObserveFDB
<1>5. /\ \A m \in DOMAIN st : DOMAIN st[m] = (DOMAIN SightsOf(sight, m) \ {d}) \cup (IF m \in now THEN {d} ELSE {})
      /\ \A m \in DOMAIN st : DOMAIN st[m] # {}
      /\ \A m \in DOMAIN st : \A x \in DOMAIN st[m] : x # d => st[m][x] = sight[m][x]
      /\ \A m : DOMAIN SightsOf(sight, m) # {} => m \in DOMAIN sight /\ SightsOf(sight, m) = sight[m]
      /\ SightOK(st)
  <2>1. SightsTaken(Sighted(d, table, up), Touched(table, up), d)
    BY <1>0, SightedFacts
  <2> QED BY <1>1, <1>2, <2>1 DEF SightsTaken
<1>6. \A m \in DOMAIN es : IsEp(es[m])
  BY <1>3 DEF IsEp
<1>7. LeastIn(es, st)
  <2> SUFFICES ASSUME NEW m \in DOMAIN es, m \in DOMAIN st PROVE LeastAt(es[m], st[m])
    BY DEF LeastIn
  <2>1. CASE m \in now
    <3>1. es[m].dev = Placed(st, m, d).dev /\ es[m].port = Placed(st, m, d).port
      BY <1>3, <2>1
    <3>2. DOMAIN st[m] # {}
      BY <1>5
    <3> QED BY <1>5, <3>1, <3>2, BestSightFacts
  <2>2. CASE m \notin now
    <3>1. m \in DOMAIN eps /\ es[m].dev = eps[m].dev /\ es[m].port = eps[m].port
      BY <1>3, <2>2 DEF Place
    <3>2. m \in DOMAIN sight /\ DOMAIN st[m] \subseteq DOMAIN sight[m]
      BY <1>5, <2>2
    <3>3. \A x \in DOMAIN st[m] : st[m][x] = sight[m][x]
      BY <1>5, <2>2
    <3>4. LeastAt(eps[m], sight[m])
      BY <1>0, <3>1, <3>2 DEF LeastIn
    <3> QED BY <3>1, <3>2, <3>3, <3>4 DEF LeastAt
  <2> QED BY <2>1, <2>2
<1> QED BY <1>4, <1>5, <1>6, <1>7, WithoutKeeps DEF EpInv

\* Everything else leaves the placements that count where they are.
LEMMA EndpointsStep == EpInv /\ [EndpointsNext]_epVars => EpInv'
<1> SUFFICES ASSUME EpInv, [EndpointsNext]_epVars PROVE EpInv'
  OBVIOUS
<1>0. (\A m \in DOMAIN eps : IsEp(eps[m])) /\ SightOK(sight) /\ LeastIn(eps, sight)
  BY DEF EpInv
<1>1. CASE \E d \in Switch, table \in Tables, up \in SUBSET Trunk : ObserveFDB(d, table, up)
  BY <1>1, ObserveFDBKeeps
<1>2. CASE \E r \in Router, S \in SUBSET Mac : ObserveARP(r, S)
  <2>1. PICK r, S : ObserveARP(r, S)
    BY <1>2
  <2>2. PICK es : es = [m \in DOMAIN eps \cup S |->
                  IF Known(eps, m) THEN [eps[m] EXCEPT !.silent = Heard(S, m)]
                                   ELSE [dev |-> NoDevice, port |-> 0, silent |-> 0]]
    OBVIOUS
  <2>3. PICK drop : eps' = Without(es, drop) /\ sight' = Without(sight, drop)
    BY <2>1, <2>2 DEF ObserveARP
  <2>4. \A m \in DOMAIN es : IsEp(es[m]) /\ (m \in DOMAIN eps => es[m].dev = eps[m].dev /\ es[m].port = eps[m].port)
    BY <1>0, <2>2 DEF IsEp, Known
  <2>5. \A m \in DOMAIN es : m \notin DOMAIN eps => es[m].port = 0
    BY <2>2 DEF Known
  <2>6. ASSUME NEW m \in DOMAIN es, m \in DOMAIN sight PROVE LeastAt(es[m], sight[m])
    <3>1. CASE m \in DOMAIN eps
      BY <1>0, <2>4, <2>6, <3>1 DEF LeastIn, LeastAt
    <3>2. CASE m \notin DOMAIN eps
      <4>1. \A x \in DOMAIN sight[m] : sight[m][x].port # 0
        BY <1>0, <2>6, EndpointsAssumption DEF SightOK
      <4> QED BY <2>5, <3>2, <4>1 DEF LeastAt
    <3> QED BY <3>1, <3>2
  <2>7. LeastIn(es, sight)
    BY <2>6 DEF LeastIn
  <2> QED BY <1>0, <2>3, <2>4, <2>7, WithoutKeeps DEF EpInv
<1>3. CASE DayPasses
  BY <1>0, <1>3 DEF DayPasses, EpInv, IsEp, LeastIn, LeastAt
<1>4. CASE \E drop \in SUBSET DOMAIN eps : PruneEndpoints(drop)
  <2>1. PICK drop : eps' = Without(eps, drop) /\ sight' = Without(sight, drop)
    BY <1>4 DEF PruneEndpoints
  <2> QED BY <1>0, <2>1, WithoutKeeps DEF EpInv
<1>5. CASE \E d \in Switch : ForgetSwitch(d)
  <2>1. PICK d : ForgetSwitch(d)
    BY <1>5
  <2>2. /\ DOMAIN sight' \subseteq DOMAIN sight
        /\ \A m \in DOMAIN sight' : DOMAIN sight'[m] = DOMAIN sight[m] \ {d}
        /\ \A m \in DOMAIN sight' : \A x \in DOMAIN sight'[m] : sight'[m][x] = sight[m][x]
    BY <2>1 DEF ForgetSwitch
  <2>3. DOMAIN eps' = DOMAIN eps /\ \A m \in DOMAIN eps : eps'[m] =
            (IF eps[m].dev = d THEN [eps[m] EXCEPT !.dev = NoDevice, !.port = 0] ELSE eps[m])
    BY <2>1 DEF ForgetSwitch
  <2>4. \A e : IsEp(e) => [e EXCEPT !.dev = NoDevice, !.port = 0] = [dev |-> NoDevice, port |-> 0, silent |-> e.silent]
    <3> SUFFICES ASSUME NEW e, IsEp(e)
                 PROVE  [e EXCEPT !.dev = NoDevice, !.port = 0] = [dev |-> NoDevice, port |-> 0, silent |-> e.silent]
      OBVIOUS
    <3>1. PICK x, y, z : x = e.dev /\ y = e.port /\ z = e.silent
      OBVIOUS
    <3>2. e = [dev |-> x, port |-> y, silent |-> z]
      BY <3>1 DEF IsEp
    <3>3. PICK f : f = [e EXCEPT !.dev = NoDevice, !.port = 0]
      OBVIOUS
    <3>4. f = [dev |-> NoDevice, port |-> 0, silent |-> z]
      BY <3>2, <3>3
    <3> QED BY <3>1, <3>3, <3>4
  <2>5. \A m \in DOMAIN eps' : IsEp(eps'[m]) /\ (eps'[m] = eps[m] \/ eps'[m].port = 0)
    <3> SUFFICES ASSUME NEW m \in DOMAIN eps' PROVE IsEp(eps'[m]) /\ (eps'[m] = eps[m] \/ eps'[m].port = 0)
      OBVIOUS
    <3>1. IsEp(eps[m])
      BY <1>0, <2>3
    <3>2. CASE eps[m].dev = d
      <4>1. eps'[m] = [dev |-> NoDevice, port |-> 0, silent |-> eps[m].silent]
        BY <2>3, <2>4, <3>1, <3>2
      <4> QED BY <4>1 DEF IsEp
    <3>3. CASE eps[m].dev # d
      BY <2>3, <3>1, <3>3
    <3> QED BY <3>2, <3>3
  <2>6. SightOK(sight')
    BY <1>0, <2>2 DEF SightOK
  <2>7. ASSUME NEW m \in DOMAIN eps', m \in DOMAIN sight' PROVE LeastAt(eps'[m], sight'[m])
    <3>1. CASE eps'[m] = eps[m]
      BY <1>0, <2>2, <2>3, <2>7, <3>1, ZenonT(30) DEF LeastIn, LeastAt
    <3>2. CASE eps'[m].port = 0
      <4>1. \A x \in DOMAIN sight'[m] : sight'[m][x].port # 0
        BY <2>6, <2>7, EndpointsAssumption DEF SightOK
      <4> QED BY <3>2, <4>1 DEF LeastAt
    <3> QED BY <2>5, <3>1, <3>2
  <2> QED BY <2>5, <2>6, <2>7 DEF EpInv, LeastIn, SightOK
<1>6. CASE EndpointsReopened
  <2>1. DOMAIN sight' = {} /\ \A m \in DOMAIN eps' : IsEp(eps'[m])
    BY <1>6 DEF EndpointsReopened, IsEp
  <2> QED BY <2>1 DEF EpInv, SightOK, LeastIn
<1>7. CASE UNCHANGED epVars
  BY <1>0, <1>7 DEF epVars, EpInv, SightOK, LeastIn
<1> QED BY <1>1, <1>2, <1>3, <1>4, <1>5, <1>6, <1>7 DEF EndpointsNext

\* Tables, leases, deleted switches, the cap, prunes and restarts in any order: an
\* address whose port still sees it sits on the least busy port that does.
THEOREM LeastBusyAlways == EndpointsSpec => []PlacedOnLeastBusyPort
<1>1. EndpointsInit => EpInv
  BY DEF EndpointsInit, EpInv, SightOK, LeastIn
<1>2. EpInv => PlacedOnLeastBusyPort
  BY DEF EpInv, LeastIn, LeastAt, PlacedOnLeastBusyPort
<1> QED BY <1>1, <1>2, EndpointsStep, PTL DEF EndpointsSpec

-----------------------------------------------------------------------------
(* The walk of an SNMP client.                                             *)

\* The row the walk has come to, which the next request asks beyond.
Floor == IF out = <<>> THEN 0 ELSE Last(out)

Ascends(s) == \A i, j \in 1 .. Len(s) : i < j => s[i] < s[j]

WalkTypes ==
    /\ rows \subseteq Row /\ steady \subseteq rows /\ rows \subseteq ever /\ ever \subseteq Row
    /\ reqID \in Nat /\ out \in Seq(Row)

\* An answer goes on where the walk has come to: it holds the steady rows from there
\* to its end, which is the column's when it has fewer than MaxRep.
GoesOn(vbs) ==
    /\ vbs \in Seq(Row) /\ Len(vbs) <= MaxRep /\ Ascends(vbs)
    /\ \A i \in 1 .. Len(vbs) : vbs[i] \in ever /\ vbs[i] > Floor
    /\ \A r \in steady : r > Floor =>
           (\E i \in 1 .. Len(vbs) : vbs[i] = r) \/ (Len(vbs) = MaxRep /\ vbs[MaxRep] < r)

\* The rows so far: those that stayed are in it or ahead.
Walked ==
    /\ Ascends(out) /\ \A i \in 1 .. Len(out) : out[i] \in ever
    /\ \A r \in steady : (\E i \in 1 .. Len(out) : out[i] = r) \/ r > Floor
    /\ ended = "nil" => \A r \in steady : \E i \in 1 .. Len(out) : out[i] = r

\* Only what carries the last id matters, and while somebody waits for it it is about
\* the row the walk has come to.
OnTheWire ==
    /\ \A m \in wire : m.id \in Nat /\ m.id <= reqID
    /\ \A m \in wire : m.id = reqID /\ phase # "idle" =>
           /\ m.to = "agent" => m.after = Floor
           /\ m.to = "client" /\ m.kind = "response" => GoesOn(m.vbs)

WalkInv == WalkTypes /\ Walked /\ OnTheWire

LEMMA FloorType == ASSUME WalkTypes PROVE Floor \in Nat /\ (out # <<>> => Len(out) \in 1 .. Len(out) /\ Floor = out[Len(out)])
<1>1. out \in Seq(Row) /\ Row \subseteq Nat /\ Len(out) \in Nat
  BY SnmpAssumption DEF WalkTypes, Row
<1>2. CASE out = <<>>
  BY <1>2 DEF Floor
<1>3. CASE out # <<>>
  <2>1. Len(out) \in 1 .. Len(out)
    BY <1>1, <1>3
  <2>2. out[Len(out)] \in Row
    BY <1>1, <2>1
  <2>3. Floor = out[Len(out)]
    BY <1>3 DEF Floor, Last
  <2> QED BY <1>1, <1>3, <2>1, <2>2, <2>3
<1> QED BY <1>2, <1>3

LEMMA WalkInitInv == SnmpInit => WalkInv
<1> SUFFICES ASSUME SnmpInit PROVE WalkInv
  OBVIOUS
<1>1. rows \subseteq Row /\ steady = rows /\ ever = rows /\ wire = {} /\ reqID = 0 /\ out = <<>> /\ ended = ""
  BY DEF SnmpInit
<1>2. out \in Seq(Row) /\ reqID \in Nat /\ Len(out) = 0 /\ Floor = 0
  <2>1. out \in Seq(Row) /\ reqID \in Nat
    BY <1>1, EmptySeq
  <2>2. Len(out) = 0
    BY <1>1
  <2>3. Floor = 0
    BY <1>1 DEF Floor
  <2> QED BY <2>1, <2>2, <2>3
<1>3. WalkTypes
  BY <1>1, <1>2 DEF WalkTypes
<1>4. \A r \in steady : r > Floor
  <2>1. \A r \in Row : r > 0
    BY SnmpAssumption DEF Row
  <2> QED BY <1>1, <1>2, <2>1
<1>5. Walked
  <2>1. ended # "nil"
    BY <1>1
  <2> QED BY <1>2, <1>4, <2>1 DEF Walked, Ascends
<1>6. OnTheWire
  BY <1>1 DEF OnTheWire
<1> QED BY <1>3, <1>5, <1>6 DEF WalkInv

\* While the walk stays where it is, rows come to ever and go from steady.
LEMMA StaysGood ==
    ASSUME out' = out, steady' \subseteq steady, ever \subseteq ever'
    PROVE  Floor' = Floor /\ \A vbs : GoesOn(vbs) => GoesOn(vbs)'
<1>1. Floor' = Floor
  BY DEF Floor
<1> SUFFICES ASSUME NEW vbs, GoesOn(vbs) PROVE GoesOn(vbs)'
  BY <1>1
<1> QED BY <1>1 DEF GoesOn

LEMMA StaysWalked ==
    ASSUME Walked, out' = out, steady' \subseteq steady, ever \subseteq ever', ended' # "nil" \/ ended' = ended
    PROVE  Walked'
<1>1. Floor' = Floor
  BY StaysGood
<1> QED BY <1>1 DEF Walked

\* What the agent sends: its rows after the one it is asked about.
LEMMA BulkGoesOn ==
    ASSUME WalkTypes, NEW vbs \in Bulk(Floor)
    PROVE  GoesOn(vbs)
<1>1. PICK later : later = {r \in rows : r > Floor}
  OBVIOUS
<1>2. /\ vbs \in UNION {[1 .. n -> later] : n \in 0 .. MaxRep}
      /\ \A i, j \in DOMAIN vbs : i < j => vbs[i] < vbs[j]
      /\ \A r \in later \ Range(vbs) : Len(vbs) = MaxRep /\ vbs[MaxRep] < r
  BY <1>1 DEF Bulk
<1>3. PICK n \in 0 .. MaxRep : vbs \in [1 .. n -> later]
  BY <1>2
<1>4. later \subseteq Row /\ later \subseteq ever /\ n \in Nat /\ n <= MaxRep
  BY <1>1, <1>3, SnmpAssumption DEF WalkTypes
<1>5. vbs \in Seq(Row) /\ Len(vbs) = n /\ DOMAIN vbs = 1 .. Len(vbs)
  BY <1>3, <1>4
<1>6. \A i \in 1 .. Len(vbs) : vbs[i] \in ever /\ vbs[i] > Floor
  BY <1>1, <1>3, <1>4, <1>5
<1>7. ASSUME NEW r \in steady, r > Floor
      PROVE  (\E i \in 1 .. Len(vbs) : vbs[i] = r) \/ (Len(vbs) = MaxRep /\ vbs[MaxRep] < r)
  <2>1. r \in later
    BY <1>1, <1>7 DEF WalkTypes
  <2>2. CASE r \in Range(vbs)
    BY <1>5, <2>2 DEF Range
  <2>3. CASE r \notin Range(vbs)
    BY <1>2, <2>1, <2>3
  <2> QED BY <2>2, <2>3
<1> QED BY <1>2, <1>4, <1>5, <1>6, <1>7 DEF GoesOn, Ascends

LEMMA NetworkKeeps ==
    ASSUME WalkInv, (\E m \in wire : Lost(m) \/ AgentAnswers(m)) \/ AgentRestarts \/ \E r \in Row : RowComesOrGoes(r)
    PROVE  WalkInv'
<1>0. WalkTypes /\ Walked /\ OnTheWire
  BY DEF WalkInv
<1>1. /\ UNCHANGED <<phase, reqID, out, ended>>
      /\ steady' \subseteq steady /\ ever \subseteq ever'
  BY DEF Lost, AgentAnswers, AgentRestarts, RowComesOrGoes
<1>2. WalkTypes'
  <2>1. rows' \subseteq Row /\ steady' \subseteq rows' /\ rows' \subseteq ever' /\ ever' \subseteq Row
    BY <1>0 DEF WalkTypes, Lost, AgentAnswers, AgentRestarts, RowComesOrGoes
  <2> QED BY <1>0, <1>1, <2>1 DEF WalkTypes
<1>3. Walked'
  BY <1>0, <1>1, StaysWalked
<1>4. Floor' = Floor /\ \A vbs : GoesOn(vbs) => GoesOn(vbs)'
  BY <1>1, StaysGood
<1>5. ASSUME NEW m \in wire
      PROVE  /\ m.id \in Nat /\ m.id <= reqID'
             /\ (m.id = reqID' /\ phase' # "idle" =>
                   /\ m.to = "agent" => m.after = Floor'
                   /\ m.to = "client" /\ m.kind = "response" => GoesOn(m.vbs)')
  BY <1>0, <1>1, <1>4 DEF OnTheWire
<1>6. CASE wire' \subseteq wire
  BY <1>2, <1>3, <1>5, <1>6 DEF WalkInv, OnTheWire
<1>7. CASE \E q \in wire : AgentAnswers(q)
  <2>1. PICK q \in wire : AgentAnswers(q)
    BY <1>7
  <2>2. PICK kind, vbs : /\ q.to = "agent" /\ wire' = wire \cup {Answer(q, kind, vbs)}
                         /\ kind = "response" => vbs \in Bulk(q.after)
    <3>1. \E kind \in {"error", "auth", "response", "report"} :
             \E vbs \in IF kind = "response" THEN Bulk(q.after) ELSE {<<>>} : wire' = wire \cup {Answer(q, kind, vbs)}
      BY <2>1 DEF AgentAnswers
    <3>2. q.to = "agent"
      BY <2>1 DEF AgentAnswers
    <3> QED BY <3>1, <3>2
  <2>3. PICK a : a = Answer(q, kind, vbs)
    OBVIOUS
  <2>4. a.to = "client" /\ a.kind = kind /\ a.id = q.id /\ a.vbs = vbs
    BY <2>3 DEF Answer
  <2>5. ASSUME a.id = reqID', phase' # "idle", a.kind = "response" PROVE GoesOn(a.vbs)'
    <3>1. q.after = Floor
      BY <1>0, <1>1, <2>2, <2>4, <2>5 DEF OnTheWire
    <3>2. vbs \in Bulk(Floor)
      BY <2>2, <2>4, <2>5, <3>1
    <3> QED BY <1>0, <1>4, <2>4, <3>2, BulkGoesOn
  <2>6. a.id \in Nat /\ a.id <= reqID' /\ a.to # "agent"
    BY <1>5, <2>4
  <2>7. OnTheWire'
    BY <1>5, <2>2, <2>3, <2>5, <2>6 DEF OnTheWire
  <2> QED BY <1>2, <1>3, <2>7 DEF WalkInv
<1> QED BY <1>6, <1>7 DEF Lost, AgentRestarts, RowComesOrGoes

\* A message goes out: nobody else carries its id, and what carries another is past.
LEMMA SendsKeeps ==
    ASSUME WalkInv, NEW ph, NEW eng, NEW rest, rest \subseteq wire, Sends(ph, eng, rest),
           UNCHANGED <<rows, out, steady, ever, ended>>
    PROVE  WalkInv'
<1>0. WalkTypes /\ Walked /\ OnTheWire
  BY DEF WalkInv
<1>1. PICK q : q = [Question(ph, reqID + 1) EXCEPT !.boots = eng]
  OBVIOUS
<1>2. q.to = "agent" /\ q.id = reqID + 1 /\ q.after = Floor
  BY <1>1 DEF Question, Floor
<1>3. reqID' = reqID + 1 /\ wire' = rest \cup {q} /\ reqID \in Nat
  BY <1>0, <1>1 DEF Sends, WalkTypes
<1>4. WalkTypes'
  BY <1>0, <1>3 DEF WalkTypes
<1>5. Walked'
  BY <1>0, StaysWalked
<1>6. Floor' = Floor
  BY StaysGood
<1>7. ASSUME NEW m \in wire'
      PROVE  m.id \in Nat /\ m.id <= reqID' /\ (m.id = reqID' => m.to = "agent" /\ m.after = Floor')
  <2>1. CASE m = q
    BY <1>2, <1>3, <1>6, <2>1
  <2>2. CASE m # q
    <3>1. m.id \in Nat /\ m.id <= reqID
      BY <1>0, <1>3, <2>2 DEF OnTheWire
    <3> QED BY <1>3, <3>1
  <2> QED BY <2>1, <2>2
<1>8. OnTheWire'
  <2>1. "agent" # "client"
    OBVIOUS
  <2> QED BY <1>7, <2>1 DEF OnTheWire
<1> QED BY <1>4, <1>5, <1>8 DEF WalkInv

\* A request ends in an error.
LEMMA FailureKeeps ==
    ASSUME WalkInv, WalkFails, wire' \subseteq wire, UNCHANGED <<rows, reqID, out, steady, ever>>
    PROVE  WalkInv'
<1>0. WalkTypes /\ Walked /\ OnTheWire
  BY DEF WalkInv
<1>1. phase' = "idle" /\ ended' # "nil"
  BY DEF WalkFails
<1>2. WalkTypes'
  BY <1>0 DEF WalkTypes
<1>3. Walked'
  BY <1>0, <1>1, StaysWalked
<1>4. OnTheWire'
  BY <1>0, <1>1 DEF OnTheWire
<1> QED BY <1>2, <1>3, <1>4 DEF WalkInv

LEMMA AttemptsKeep ==
    ASSUME WalkInv, NEW eng, NEW rest, rest \subseteq wire, AttemptFails(eng, rest), UNCHANGED <<rows, out, steady, ever>>
    PROVE  WalkInv'
<1>1. CASE attempt < Retries
  <2>1. Attempt(eng, rest) /\ ended' = ended
    BY <1>1 DEF AttemptFails
  <2>2. PICK ph : Sends(ph, eng, rest)
    BY <2>1 DEF Attempt
  <2> QED BY <2>1, <2>2, SendsKeeps
<1>2. CASE ~(attempt < Retries)
  <2>1. WalkFails /\ wire' = rest /\ reqID' = reqID
    BY <1>2 DEF AttemptFails
  <2> QED BY <2>1, FailureKeeps
<1> QED BY <1>1, <1>2

LEMMA ClientKeeps ==
    ASSUME WalkInv, GetBulk \/ TimesOut \/ (\E m \in wire : Resynchronise(m) \/ SecondReport(m) \/ Refused(m))
    PROVE  WalkInv'
<1>0. UNCHANGED <<rows, out, steady, ever>>
  BY DEF GetBulk, TimesOut, Resynchronise, SecondReport, Refused
<1>1. CASE GetBulk
  <2>1. Attempt(engine, wire) /\ ended' = ended
    BY <1>1 DEF GetBulk
  <2>2. PICK ph : Sends(ph, engine, wire)
    BY <2>1 DEF Attempt
  <2> QED BY <1>0, <2>1, <2>2, SendsKeeps
<1>2. CASE TimesOut
  BY <1>0, <1>2, AttemptsKeep DEF TimesOut
<1>3. CASE \E m \in wire : Resynchronise(m)
  <2>1. PICK m \in wire : Resynchronise(m)
    BY <1>3
  <2>2. PICK ph : Sends(ph, m.boots, wire \ {m}) /\ ended' = ended
    BY <2>1 DEF Resynchronise
  <2>3. wire \ {m} \subseteq wire
    OBVIOUS
  <2> QED BY <1>0, <2>2, <2>3, SendsKeeps
<1>4. CASE \E m \in wire : SecondReport(m)
  <2>1. PICK m \in wire : AttemptFails(m.boots, wire \ {m})
    BY <1>4 DEF SecondReport
  <2>2. wire \ {m} \subseteq wire
    OBVIOUS
  <2> QED BY <1>0, <2>1, <2>2, AttemptsKeep
<1>5. CASE \E m \in wire : Refused(m)
  <2>1. WalkFails /\ wire' \subseteq wire /\ reqID' = reqID
    BY <1>5 DEF Refused
  <2> QED BY <1>0, <2>1, FailureKeeps
<1> QED BY <1>1, <1>2, <1>3, <1>4, <1>5

\* Of an answer that goes on, every row is kept.
LEMMA AllAscending == ASSUME WalkTypes, NEW vbs, GoesOn(vbs) PROVE Ascending(vbs) = Len(vbs)
<1>1. PICK S : S = {n \in 0 .. Len(vbs) : \A i \in 1 .. n : vbs[i] > (IF i > 1 THEN vbs[i - 1] ELSE IF out = <<>> THEN 0 ELSE Last(out))}
  OBVIOUS
<1>2. Ascending(vbs) = Max(S)
  BY <1>1 DEF Ascending
<1>3. vbs \in Seq(Row) /\ Len(vbs) \in Nat /\ Ascends(vbs) /\ \A i \in 1 .. Len(vbs) : vbs[i] > Floor
  BY DEF GoesOn
<1>4. ASSUME NEW i \in 1 .. Len(vbs) PROVE vbs[i] > (IF i > 1 THEN vbs[i - 1] ELSE Floor)
  <2>1. CASE i > 1
    <3>1. i - 1 \in 1 .. Len(vbs) /\ i - 1 < i
      BY <1>3, <2>1
    <3>2. vbs[i - 1] < vbs[i]
      BY <1>3, <3>1 DEF Ascends
    <3>3. Row \subseteq Nat /\ vbs[i] \in Row /\ vbs[i - 1] \in Row
      <4>1. Row \subseteq Nat
        BY SnmpAssumption DEF Row
      <4> QED BY <1>3, <3>1, <4>1
    <3> QED BY <2>1, <3>2, <3>3
  <2>2. CASE ~(i > 1)
    BY <1>3, <2>2
  <2> QED BY <2>1, <2>2
<1>5. Len(vbs) \in S /\ S \subseteq 0 .. Len(vbs)
  BY <1>1, <1>3, <1>4 DEF Floor
<1>6. \A x \in S : x \in Nat /\ Len(vbs) >= x
  BY <1>3, <1>5
<1>7. Max(S) = Len(vbs)
  <2>1. PICK x : x = Max(S)
    OBVIOUS
  <2>2. x \in S /\ \A y \in S : x >= y
    BY <1>5, <1>6, <2>1 DEF Max
  <2>3. x \in Nat /\ Len(vbs) >= x /\ x >= Len(vbs)
    BY <1>5, <1>6, <2>2
  <2> QED BY <1>3, <2>1, <2>3
<1> QED BY <1>2, <1>7

LEMMA ConcatFacts ==
    ASSUME NEW S, NEW s \in Seq(S), NEW t \in Seq(S)
    PROVE  /\ s \o t \in Seq(S) /\ Len(s \o t) = Len(s) + Len(t) /\ Len(s) \in Nat /\ Len(t) \in Nat
           /\ \A i \in 1 .. Len(s) : (s \o t)[i] = s[i]
           /\ \A i \in 1 .. Len(t) : Len(s) + i \in 1 .. Len(s \o t) /\ (s \o t)[Len(s) + i] = t[i]
<1>1. s \o t \in Seq(S) /\ Len(s \o t) = Len(s) + Len(t) /\ Len(s) \in Nat /\ Len(t) \in Nat
  OBVIOUS
<1>2. \A i \in 1 .. Len(s) : (s \o t)[i] = s[i]
  OBVIOUS
<1>3. ASSUME NEW i \in 1 .. Len(t) PROVE Len(s) + i \in 1 .. Len(s \o t) /\ (s \o t)[Len(s) + i] = t[i]
  <2>1. Len(s) + i \in 1 .. Len(s) + Len(t) /\ ~(Len(s) + i <= Len(s)) /\ (Len(s) + i) - Len(s) = i
    BY <1>1
  <2> QED BY <1>1, <2>1
<1> QED BY <1>1, <1>2, <1>3

LEMMA RespondedKeeps ==
    ASSUME WalkInv, NEW m \in wire, Responded(m)
    PROVE  WalkInv'
<1>0. WalkTypes /\ Walked /\ OnTheWire
  BY DEF WalkInv
<1>1. PICK vbs : vbs = m.vbs
  OBVIOUS
<1>2. GoesOn(vbs)
  BY <1>0, <1>1 DEF Responded, Matches, OnTheWire
<1>3. /\ vbs \in Seq(Row) /\ Len(vbs) \in Nat /\ Len(vbs) <= MaxRep /\ Ascends(vbs)
      /\ \A i \in 1 .. Len(vbs) : vbs[i] \in ever /\ vbs[i] > Floor
  BY <1>2 DEF GoesOn
<1>4. SubSeq(vbs, 1, Ascending(vbs)) = vbs
  <2>1. Ascending(vbs) = Len(vbs)
    BY <1>0, <1>2, AllAscending
  <2> QED BY <1>3, <2>1
<1>5. out' = out \o vbs /\ ended' = (IF Len(vbs) < MaxRep THEN "nil" ELSE "")
  <2>1. Ascending(vbs) = Len(vbs)
    BY <1>0, <1>2, AllAscending
  <2> QED BY <1>1, <1>4, <2>1 DEF Responded
<1>6. phase' = "idle" /\ wire' \subseteq wire /\ UNCHANGED <<rows, reqID, steady, ever>>
  BY DEF Responded
<1>7. out \in Seq(Row) /\ Row \subseteq Nat /\ Len(out) \in Nat /\ Floor \in Nat /\ MaxRep \in Nat \ {0}
  BY <1>0, FloorType, SnmpAssumption DEF WalkTypes, Row
<1>8. /\ out' \in Seq(Row) /\ Len(out') = Len(out) + Len(vbs)
      /\ \A i \in 1 .. Len(out) : out'[i] = out[i]
      /\ \A i \in 1 .. Len(vbs) : Len(out) + i \in 1 .. Len(out') /\ out'[Len(out) + i] = vbs[i]
  <2>1. vbs \in Seq(Row)
    BY <1>3
  <2>2. out \in Seq(Row)
    BY <1>7
  <2>3. out' = out \o vbs
    BY <1>5
  <2> QED BY <2>1, <2>2, <2>3, ConcatFacts
<1>9. \A i \in 1 .. Len(out) : out[i] <= Floor /\ out[i] \in Nat
  <2> SUFFICES ASSUME NEW i \in 1 .. Len(out) PROVE out[i] <= Floor /\ out[i] \in Nat
    OBVIOUS
  <2>1. out # <<>> /\ Len(out) \in 1 .. Len(out)
    BY <1>7
  <2>2. Floor = out[Len(out)] /\ out[i] \in Nat
    <3>1. out[i] \in Row
      BY <1>7
    <3> QED BY <1>0, <1>7, <2>1, <3>1, FloorType
  <2>3. CASE i = Len(out)
    BY <1>7, <2>2, <2>3
  <2>4. CASE i < Len(out)
    BY <1>0, <1>7, <2>1, <2>2, <2>4 DEF Walked, Ascends
  <2> QED BY <1>7, <2>3, <2>4
<1>10. WalkTypes'
  BY <1>0, <1>6, <1>8 DEF WalkTypes
<1>11. \A i \in 1 .. Len(out') : i \in 1 .. Len(out) \/ \E k \in 1 .. Len(vbs) : i = Len(out) + k
  <2> SUFFICES ASSUME NEW i \in 1 .. Len(out'), i \notin 1 .. Len(out) PROVE \E k \in 1 .. Len(vbs) : i = Len(out) + k
    OBVIOUS
  <2>1. i - Len(out) \in 1 .. Len(vbs) /\ i = Len(out) + (i - Len(out))
    BY <1>3, <1>7, <1>8
  <2> QED BY <2>1
<1>12. Ascends(out')
  <2> SUFFICES ASSUME NEW i \in 1 .. Len(out'), NEW j \in 1 .. Len(out'), i < j PROVE out'[i] < out'[j]
    BY DEF Ascends
  <2>1. CASE j \in 1 .. Len(out)
    <3>1. i \in 1 .. Len(out)
      BY <1>7, <2>1
    <3> QED BY <1>0, <1>8, <2>1, <3>1 DEF Walked, Ascends
  <2>2. CASE j \notin 1 .. Len(out)
    <3>1. PICK l \in 1 .. Len(vbs) : j = Len(out) + l
      BY <1>11, <2>2
    <3>2. CASE i \in 1 .. Len(out)
      <4>0. vbs[l] \in Row
        BY <1>3
      <4>1. out[i] <= Floor /\ out[i] \in Nat /\ vbs[l] > Floor /\ vbs[l] \in Nat
        BY <1>3, <1>7, <1>9, <3>2, <4>0
      <4>2. out'[i] = out[i] /\ out'[j] = vbs[l]
        BY <1>8, <3>1, <3>2
      <4> QED BY <1>7, <4>1, <4>2
    <3>3. CASE i \notin 1 .. Len(out)
      <4>1. PICK k \in 1 .. Len(vbs) : i = Len(out) + k
        BY <1>11, <3>3
      <4>2. k < l
        BY <1>7, <3>1, <4>1
      <4>3. vbs[k] < vbs[l]
        BY <1>3, <4>2 DEF Ascends
      <4> QED BY <1>8, <3>1, <4>1, <4>3
    <3> QED BY <3>2, <3>3
  <2> QED BY <2>1, <2>2
<1>13. \A i \in 1 .. Len(out') : out'[i] \in ever'
  <2> SUFFICES ASSUME NEW i \in 1 .. Len(out') PROVE out'[i] \in ever
    BY <1>6
  <2>1. CASE i \in 1 .. Len(out)
    BY <1>0, <1>8, <2>1 DEF Walked
  <2>2. CASE i \notin 1 .. Len(out)
    <3>1. PICK k \in 1 .. Len(vbs) : i = Len(out) + k
      BY <1>11, <2>2
    <3> QED BY <1>3, <1>8, <3>1
  <2> QED BY <2>1, <2>2
<1>14. ASSUME NEW r \in steady
       PROVE  (\E i \in 1 .. Len(out') : out'[i] = r) \/ (Len(vbs) = MaxRep /\ vbs[MaxRep] < r)
  <2>1. CASE \E i \in 1 .. Len(out) : out[i] = r
    <3>1. PICK i \in 1 .. Len(out) : out[i] = r
      BY <2>1
    <3>2. i \in 1 .. Len(out')
      BY <1>3, <1>7, <1>8
    <3> QED BY <1>8, <3>1, <3>2
  <2>2. CASE ~\E i \in 1 .. Len(out) : out[i] = r
    <3>1. r > Floor
      BY <1>0, <2>2 DEF Walked
    <3>2. (\E i \in 1 .. Len(vbs) : vbs[i] = r) \/ (Len(vbs) = MaxRep /\ vbs[MaxRep] < r)
      BY <1>2, <3>1 DEF GoesOn
    <3>3. CASE \E i \in 1 .. Len(vbs) : vbs[i] = r
      <4>1. PICK k \in 1 .. Len(vbs) : vbs[k] = r
        BY <3>3
      <4>2. Len(out) + k \in 1 .. Len(out') /\ out'[Len(out) + k] = r
        BY <1>8, <4>1
      <4> QED BY <4>2
    <3> QED BY <3>2, <3>3
  <2> QED BY <2>1, <2>2
<1>15. Len(vbs) = MaxRep => Floor' = vbs[MaxRep]
  <2> SUFFICES ASSUME Len(vbs) = MaxRep PROVE Floor' = vbs[MaxRep]
    OBVIOUS
  <2>1. Len(out') = Len(out) + MaxRep /\ out'[Len(out')] = vbs[MaxRep] /\ out' # <<>>
    BY <1>3, <1>7, <1>8
  <2> QED BY <2>1 DEF Floor, Last
<1>16. \A r \in steady' : (\E i \in 1 .. Len(out') : out'[i] = r) \/ r > Floor'
  <2> SUFFICES ASSUME NEW r \in steady, ~\E i \in 1 .. Len(out') : out'[i] = r PROVE r > Floor'
    BY <1>6
  <2>1. Len(vbs) = MaxRep /\ vbs[MaxRep] < r
    BY <1>14
  <2>2. MaxRep \in 1 .. Len(vbs)
    BY <1>7, <2>1
  <2>3. vbs[MaxRep] \in Row
    BY <1>3, <2>2
  <2>4. r \in Nat /\ vbs[MaxRep] \in Nat
    BY <1>0, <1>7, <2>3 DEF WalkTypes
  <2> QED BY <1>15, <2>1, <2>4
<1>17. ended' = "nil" => \A r \in steady' : \E i \in 1 .. Len(out') : out'[i] = r
  <2> SUFFICES ASSUME ended' = "nil", NEW r \in steady PROVE \E i \in 1 .. Len(out') : out'[i] = r
    BY <1>6
  <2>1. Len(vbs) < MaxRep
    BY <1>5
  <2>2. ~(Len(vbs) = MaxRep)
    BY <1>3, <1>7, <2>1
  <2> QED BY <1>14, <2>2
<1>18. Walked'
  BY <1>12, <1>13, <1>16, <1>17 DEF Walked
<1>19. OnTheWire'
  BY <1>0, <1>6 DEF OnTheWire
<1> QED BY <1>10, <1>18, <1>19 DEF WalkInv

LEMMA WalkStep == WalkInv /\ [SnmpNext]_snmpVars => WalkInv'
<1> SUFFICES ASSUME WalkInv, [SnmpNext]_snmpVars PROVE WalkInv'
  OBVIOUS
<1>1. CASE (\E m \in wire : Lost(m) \/ AgentAnswers(m)) \/ AgentRestarts \/ \E r \in Row : RowComesOrGoes(r)
  BY <1>1, NetworkKeeps
<1>2. CASE GetBulk \/ TimesOut \/ (\E m \in wire : Resynchronise(m) \/ SecondReport(m) \/ Refused(m))
  BY <1>2, ClientKeeps
<1>3. CASE \E m \in wire : Responded(m)
  BY <1>3, RespondedKeeps
<1>4. CASE UNCHANGED snmpVars
  <2>1. UNCHANGED <<rows, wire, phase, reqID, out, ended, steady, ever>>
    BY <1>4 DEF snmpVars
  <2>2. Floor' = Floor /\ \A vbs : GoesOn(vbs) => GoesOn(vbs)'
    BY <2>1, StaysGood
  <2>3. WalkTypes' /\ Walked'
    BY <2>1, <2>2, StaysWalked DEF WalkInv, WalkTypes
  <2>4. OnTheWire'
    BY <2>1, <2>2 DEF WalkInv, OnTheWire
  <2> QED BY <2>3, <2>4 DEF WalkInv
<1> QED BY <1>1, <1>2, <1>3, <1>4 DEF SnmpNext

\* However many rows, rows to an answer, datagrams under way and restarts there are: a
\* walk that ends without an error has every row that stayed, each once and in order.
THEOREM WalkIsComplete == SnmpSpec => []WalkMissesNoRow
<1>1. WalkInv => WalkMissesNoRow
  <2> SUFFICES ASSUME WalkInv PROVE WalkMissesNoRow
    OBVIOUS
  <2>1. out \in Seq(Row) /\ DOMAIN out = 1 .. Len(out)
    BY DEF WalkInv, WalkTypes
  <2>2. \A i, j \in DOMAIN out : i < j => out[i] < out[j]
    BY <2>1 DEF WalkInv, Walked, Ascends
  <2>3. Range(out) \subseteq ever
    BY <2>1 DEF WalkInv, Walked, Range
  <2>4. ended = "nil" => steady \subseteq Range(out)
    BY <2>1 DEF WalkInv, Walked, Range
  <2> QED BY <2>2, <2>3, <2>4 DEF WalkMissesNoRow
<1> QED BY <1>1, WalkInitInv, WalkStep, PTL DEF SnmpSpec

-----------------------------------------------------------------------------
(* The parent map.                                                         *)

SearchTypes ==
    /\ cable \subseteq Wire /\ basis \subseteq Wire /\ visited \subseteq Box
    /\ queue \in Seq(Box) /\ parents \in [Box -> Box \union {NoRoot}]
    /\ rootDevice \in Box \union {NoRoot}

\* Who was visited is a root or has a parent, who was visited before; his neighbours
\* are visited too, or will be, as he is in the queue.
SearchOrder ==
    /\ \A i \in DOMAIN queue : queue[i] \in visited
    /\ visited # {} => Roots(basis) \subseteq visited
    /\ visited \subseteq Roots(basis) \union Mapped
    /\ \A d \in Mapped : d \in visited /\ parents[d] \in visited /\ {d, parents[d]} \in basis
    /\ \A d \in visited : Near(basis, d) \subseteq visited \/ \E i \in DOMAIN queue : queue[i] = d

\* The queue is in the order of the levels and spans two of them at most; the devices
\* not visited are taken to be one further than its head.
QueueLevels(h) ==
    /\ \A d \in visited : h[d] < Cardinality(visited)
    /\ \A i, j \in DOMAIN queue : i <= j => h[queue[i]] <= h[queue[j]]
    /\ \A i \in DOMAIN queue : h[queue[i]] <= h[queue[1]] + 1
    /\ queue # <<>> => \A u \in Box \ visited : h[u] = h[queue[1]] + 1

LevelFn == [Box -> 0..Cardinality(Box) - 1]
Levelled == \E h \in LevelFn : Levels(h, Roots(basis)) /\ QueueLevels(h)

\* What impactOf has found beneath dev: those done and those on the stack, each once.
Reached(done, stack) == done \union {stack[i] : i \in DOMAIN stack}
Found(done, c, ps) ==
    /\ \A i, j \in DOMAIN c.stack : c.stack[i] = c.stack[j] => i = j
    /\ \A i \in DOMAIN c.stack : c.stack[i] \notin done
    /\ c.dev \in Reached(done, c.stack)
    /\ Cardinality(Reached(done, c.stack)) = c.n + 1
    /\ \A x \in Reached(done, c.stack) \ {c.dev} : ps[x] \in done

ImpactInv ==
    counted # Nothing =>
        /\ queue = <<>>
        /\ counted.stack \in Seq(Box) /\ counted.n \in Nat
        /\ counted = [dev |-> counted.dev, n |-> counted.n, stack |-> counted.stack]
        /\ \E done \in SUBSET Box : Found(done, counted, parents)

ParentInv == SearchTypes /\ SearchOrder /\ Levelled /\ ImpactInv

LEMMA BoxBounds ==
    /\ IsFiniteSet(Box) /\ NoRoot \notin Box /\ Cardinality(Box) \in Nat
    /\ \A S \in SUBSET Box : IsFiniteSet(S) /\ Cardinality(S) \in Nat /\ Cardinality(S) <= Cardinality(Box)
    /\ \A S \in SUBSET Box : S # {} => Cardinality(S) >= 1
    /\ \A S \in SUBSET Box, x \in Box : x \notin S => Cardinality(S) < Cardinality(Box)
<1>1. IsFiniteSet(Box) /\ NoRoot \notin Box
  BY ParentsAssumption
<1>2. Cardinality(Box) \in Nat
  BY <1>1, FS_CardinalityType
<1>3. \A S \in SUBSET Box : IsFiniteSet(S) /\ Cardinality(S) \in Nat /\ Cardinality(S) <= Cardinality(Box)
  BY <1>1, FS_Subset, FS_CardinalityType
<1>4. \A S \in SUBSET Box : S # {} => Cardinality(S) >= 1
  <2> SUFFICES ASSUME NEW S \in SUBSET Box, S # {} PROVE Cardinality(S) >= 1
    OBVIOUS
  <2>1. Cardinality(S) # 0
    BY <1>3, FS_EmptySet
  <2> QED BY <1>3, <2>1
<1>5. \A S \in SUBSET Box, x \in Box : x \notin S => Cardinality(S) < Cardinality(Box)
  <2> SUFFICES ASSUME NEW S \in SUBSET Box, NEW x \in Box, x \notin S PROVE Cardinality(S) < Cardinality(Box)
    OBVIOUS
  <2>1. Cardinality(S) # Cardinality(Box)
    BY <1>1, FS_Subset
  <2> QED BY <1>2, <1>3, <2>1
<1> QED BY <1>1, <1>2, <1>3, <1>4, <1>5

LEMMA OrdersFacts ==
    ASSUME NEW S, S \subseteq Box, NEW q \in Orders(S)
    PROVE  /\ q \in Seq(S) /\ q \in Seq(Box) /\ Len(q) = Cardinality(S) /\ DOMAIN q = 1 .. Len(q)
           /\ \A i \in DOMAIN q : q[i] \in S
           /\ \A x \in S : \E i \in DOMAIN q : q[i] = x
           /\ \A i, j \in DOMAIN q : q[i] = q[j] => i = j
<1> DEFINE n == Cardinality(S)
<1>1. IsFiniteSet(S) /\ n \in Nat
  BY BoxBounds
<1>2. q \in [1 .. n -> S] /\ \A i, j \in 1 .. n : q[i] = q[j] => i = j
  BY DEF Orders, Injection, IsInjective
<1>3. IsFiniteSet(1 .. n) /\ Cardinality(1 .. n) = n
  BY <1>1, FS_Interval
<1>4. q \in Surjection(1 .. n, S)
  BY <1>1, <1>3, FS_Injection DEF Orders
<1>5. \A x \in S : \E i \in 1 .. n : q[i] = x
  BY <1>4 DEF Surjection
<1> HIDE DEF n
<1>6. q \in Seq(S) /\ q \in Seq(Box) /\ Len(q) = n /\ DOMAIN q = 1 .. n
  BY <1>1, <1>2
<1> QED BY <1>2, <1>5, <1>6 DEF n

LEMMA RootsAreBoxes ==
    ASSUME rootDevice \in Box \union {NoRoot}, NEW ws
    PROVE  Roots(ws) \subseteq Box
BY DEF Roots, Best

\* A link is between two devices that are near each other.
LEMMA WireEnds ==
    ASSUME NEW w \in Wire, NEW d \in w, NEW e \in w, d # e
    PROVE  d \in Box /\ e \in Box /\ w = {d, e}
<1>1. w \in SUBSET Box /\ Cardinality(w) = 2 /\ IsFiniteSet(w)
  BY BoxBounds DEF Wire
<1>2. Cardinality({d, e}) = 2
  <2>1. IsFiniteSet({d}) /\ Cardinality({d}) = 1
    BY FS_Singleton
  <2>2. Cardinality({d} \union {e}) = 2
    BY <2>1, FS_AddElement, SMTT(30)
  <2>3. {d} \union {e} = {d, e}
    OBVIOUS
  <2> QED BY <2>2, <2>3
<1>3. w = {d, e}
  BY <1>1, <1>2, FS_Subset
<1> QED BY <1>1, <1>3

\* The queue after a turn of the loop: what was left of it, then the new ones.
LEMMA QueueAfter ==
    ASSUME queue \in Seq(Box), queue # <<>>, NEW q \in Seq(Box), queue' = Tail(queue) \o q
    PROVE  /\ queue[1] \in Box /\ queue' \in Seq(Box)
           /\ \A i \in DOMAIN queue' : \/ i + 1 \in DOMAIN queue /\ queue'[i] = queue[i + 1]
                                       \/ \E k \in DOMAIN q : i = Len(queue) - 1 + k /\ queue'[i] = q[k]
           /\ \A i \in DOMAIN queue : i # 1 => i - 1 \in DOMAIN queue' /\ queue'[i - 1] = queue[i]
           /\ \A k \in DOMAIN q : \E i \in DOMAIN queue' : queue'[i] = q[k]
<1> DEFINE t == Tail(queue)
<1>1. Len(queue) \in Nat /\ Len(queue) >= 1 /\ Len(q) \in Nat /\ queue[1] \in Box
  OBVIOUS
<1>2. t \in Seq(Box) /\ Len(t) = Len(queue) - 1 /\ \A i \in 1 .. Len(t) : t[i] = queue[i + 1]
  BY <1>1
<1> HIDE DEF t
<1>3. queue' = t \o q
  BY DEF t
<1>4. /\ queue' \in Seq(Box) /\ Len(queue') = Len(queue) - 1 + Len(q)
      /\ \A i \in 1 .. Len(queue') : queue'[i] = IF i <= Len(t) THEN t[i] ELSE q[i - Len(t)]
  BY <1>1, <1>2, <1>3
<1>5. /\ DOMAIN queue' = 1 .. Len(queue) - 1 + Len(q) /\ DOMAIN queue = 1 .. Len(queue) /\ DOMAIN q = 1 .. Len(q)
  BY <1>1, <1>4
<1>6. \A i \in DOMAIN queue' : \/ i + 1 \in DOMAIN queue /\ queue'[i] = queue[i + 1]
                               \/ \E k \in DOMAIN q : i = Len(queue) - 1 + k /\ queue'[i] = q[k]
  <2> SUFFICES ASSUME NEW i \in DOMAIN queue'
               PROVE  \/ i + 1 \in DOMAIN queue /\ queue'[i] = queue[i + 1]
                      \/ \E k \in DOMAIN q : i = Len(queue) - 1 + k /\ queue'[i] = q[k]
    OBVIOUS
  <2>1. CASE i <= Len(t)
    BY <1>1, <1>2, <1>4, <1>5, <2>1
  <2>2. CASE i > Len(t)
    <3>0. i \in Nat /\ i <= Len(queue) - 1 + Len(q)
      BY <1>1, <1>5
    <3>1. i - Len(t) \in DOMAIN q /\ i = Len(queue) - 1 + (i - Len(t)) /\ queue'[i] = q[i - Len(t)]
      BY <3>0, <1>1, <1>2, <1>4, <1>5, <2>2
    <3> QED BY <3>1
  <2> QED BY <1>1, <1>2, <1>5, <2>1, <2>2
<1>7. \A i \in DOMAIN queue : i # 1 => i - 1 \in DOMAIN queue' /\ queue'[i - 1] = queue[i]
  BY <1>1, <1>2, <1>4, <1>5
<1>8. \A k \in DOMAIN q : Len(t) + k \in DOMAIN queue' /\ queue'[Len(t) + k] = q[k]
  BY <1>1, <1>2, <1>4, <1>5
<1>9. \A k \in DOMAIN q : \E i \in DOMAIN queue' : queue'[i] = q[k]
  BY <1>8
<1> QED BY <1>1, <1>4, <1>6, <1>7, <1>9

\* One turn of the loop over the queue, in the terms the proofs use.
LEMMA VisitFacts ==
    ASSUME SearchTypes, SearchOrder, Visit
    PROVE  LET top == queue[1]
               new == Near(basis, top) \ visited
           IN  /\ top \in visited /\ top \in Box /\ new \subseteq Box /\ visited \subseteq visited'
               /\ visited' = visited \union new /\ visited' \subseteq Box
               /\ \A d \in new : parents'[d] = top
               /\ \A d \in Box \ new : parents'[d] = parents[d]
               /\ parents' \in [Box -> Box \union {NoRoot}]
               /\ Mapped' = Mapped \union new /\ Mapped \intersect new = {}
               /\ UNCHANGED <<cable, rootDevice, counted, basis>> /\ Roots(basis)' = Roots(basis)
               /\ \E q \in Seq(Box) : /\ queue' = Tail(queue) \o q
                                      /\ \A k \in DOMAIN q : q[k] \in new
                                      /\ \A x \in new : \E k \in DOMAIN q : q[k] = x
<1> DEFINE top == queue[1]
<1> DEFINE new == Near(basis, top) \ visited
<1>1. /\ queue # <<>> /\ Head(queue) = top
      /\ parents' = [d \in Box |-> IF d \in new THEN top ELSE parents[d]]
      /\ visited' = visited \union new
      /\ \E q \in ByName(new) : queue' = Tail(queue) \o q
      /\ UNCHANGED <<cable, rootDevice, counted, graphs, basis>>
  BY DEF Visit, SearchTypes
<1>2. top \in Box /\ top \in visited /\ new \subseteq Box
  BY <1>1 DEF SearchTypes, SearchOrder, Near
<1>3. PICK q \in Orders(new) : queue' = Tail(queue) \o q
  BY <1>1 DEF ByName
<1>4. q \in Seq(Box) /\ (\A k \in DOMAIN q : q[k] \in new) /\ \A x \in new : \E k \in DOMAIN q : q[k] = x
  BY <1>2, <1>3, OrdersFacts
<1>5. (\A d \in new : parents'[d] = top) /\ \A d \in Box \ new : parents'[d] = parents[d]
  BY <1>1, <1>2
<1>6. Mapped \intersect new = {}
  BY DEF SearchOrder
<1>7. Mapped' = Mapped \union new
  <2>1. top # NoRoot
    BY <1>2, BoxBounds
  <2> HIDE DEF top, new
  <2> QED BY <1>2, <1>5, <2>1 DEF Mapped
<1>8. Roots(basis)' = Roots(basis)
  BY <1>1 DEF Roots, Best, Near
<1>9. parents' \in [Box -> Box \union {NoRoot}]
  BY <1>1, <1>2 DEF SearchTypes
<1>10. visited' \subseteq Box
  BY <1>1, <1>2 DEF SearchTypes
<1> QED BY <1>1, <1>2, <1>3, <1>4, <1>5, <1>6, <1>7, <1>8, <1>9, <1>10

LEMMA VisitOrder ==
    ASSUME SearchTypes, SearchOrder, Visit
    PROVE  SearchTypes' /\ SearchOrder'
<1> DEFINE top == queue[1]
<1> DEFINE new == Near(basis, top) \ visited
<1>1. /\ top \in visited /\ top \in Box /\ new \subseteq Box
      /\ visited' = visited \union new /\ visited' \subseteq Box
      /\ \A d \in new : parents'[d] = top
      /\ \A d \in Box \ new : parents'[d] = parents[d]
      /\ parents' \in [Box -> Box \union {NoRoot}]
      /\ Mapped' = Mapped \union new /\ Mapped \intersect new = {}
      /\ UNCHANGED <<cable, rootDevice, counted, basis>> /\ Roots(basis)' = Roots(basis)
  BY VisitFacts
<1>2. PICK q \in Seq(Box) : /\ queue' = Tail(queue) \o q
                            /\ \A k \in DOMAIN q : q[k] \in new
                            /\ \A x \in new : \E k \in DOMAIN q : q[k] = x
  BY VisitFacts
<1>3. queue \in Seq(Box) /\ queue # <<>>
  BY DEF SearchTypes, Visit
<1>4. /\ queue' \in Seq(Box)
      /\ \A i \in DOMAIN queue' : \/ i + 1 \in DOMAIN queue /\ queue'[i] = queue[i + 1]
                                  \/ \E k \in DOMAIN q : i = Len(queue) - 1 + k /\ queue'[i] = q[k]
      /\ \A i \in DOMAIN queue : i # 1 => i - 1 \in DOMAIN queue' /\ queue'[i - 1] = queue[i]
      /\ \A k \in DOMAIN q : \E i \in DOMAIN queue' : queue'[i] = q[k]
  BY <1>2, <1>3, QueueAfter
<1>5. SearchTypes'
  BY <1>1, <1>4 DEF SearchTypes
<1>6. \A i \in DOMAIN queue' : queue'[i] \in visited'
  BY <1>1, <1>2, <1>4 DEF SearchOrder
<1>7. Roots(basis)' \subseteq visited' /\ visited' \subseteq Roots(basis)' \union Mapped'
  BY <1>1 DEF SearchOrder
<1>8. \A d \in Mapped' : d \in visited' /\ parents'[d] \in visited' /\ {d, parents'[d]} \in basis'
  <2> SUFFICES ASSUME NEW d \in Mapped'
               PROVE  d \in visited' /\ parents'[d] \in visited' /\ {d, parents'[d]} \in basis
    BY <1>1
  <2>1. CASE d \in new
    <3>1. {top, d} \in basis /\ {top, d} = {d, top}
      BY <2>1 DEF Near
    <3> QED BY <1>1, <2>1, <3>1
  <2>2. CASE d \in Mapped
    <3>1. d \in Box \ new
      BY <1>1, <2>2 DEF Mapped
    <3> QED BY <1>1, <2>2, <3>1 DEF SearchOrder
  <2> QED BY <1>1, <2>1, <2>2
<1>9. \A d \in visited' : Near(basis', d) \subseteq visited' \/ \E i \in DOMAIN queue' : queue'[i] = d
  <2> SUFFICES ASSUME NEW d \in visited'
               PROVE  Near(basis, d) \subseteq visited' \/ \E i \in DOMAIN queue' : queue'[i] = d
    BY <1>1
  <2>1. CASE d \in new
    BY <1>2, <1>4, <2>1
  <2>2. CASE d = top
    BY <1>1, <2>2
  <2>3. CASE d \in visited /\ Near(basis, d) \subseteq visited
    BY <1>1, <2>3
  <2>4. CASE d # top /\ \E i \in DOMAIN queue : queue[i] = d
    BY <1>4, <2>4
  <2>5. d \in visited => Near(basis, d) \subseteq visited \/ \E i \in DOMAIN queue : queue[i] = d
    BY DEF SearchOrder
  <2> HIDE DEF new
  <2> QED BY <1>1, <2>1, <2>2, <2>3, <2>4, <2>5
<1> QED BY <1>5, <1>6, <1>7, <1>8, <1>9 DEF SearchOrder

\* A turn of the loop keeps the levels of those visited; the others are one further than
\* the new head.
LEMMA VisitLevels ==
    ASSUME SearchTypes, SearchOrder, Levelled, Visit
    PROVE  Levelled'
<1> DEFINE top == queue[1]
<1> DEFINE new == Near(basis, top) \ visited
<1>1. /\ top \in visited /\ top \in Box /\ new \subseteq Box
      /\ visited' = visited \union new /\ visited' \subseteq Box
      /\ \A d \in new : parents'[d] = top
      /\ \A d \in Box \ new : parents'[d] = parents[d]
      /\ Mapped' = Mapped \union new /\ Mapped \intersect new = {}
      /\ UNCHANGED <<cable, rootDevice, counted, basis>> /\ Roots(basis)' = Roots(basis)
  BY VisitFacts
<1>2. PICK q \in Seq(Box) : /\ queue' = Tail(queue) \o q
                            /\ \A k \in DOMAIN q : q[k] \in new
                            /\ \A x \in new : \E k \in DOMAIN q : q[k] = x
  BY VisitFacts
<1>3. queue \in Seq(Box) /\ queue # <<>>
  BY DEF SearchTypes, Visit
<1>4. /\ queue' \in Seq(Box)
      /\ \A i \in DOMAIN queue' : \/ i + 1 \in DOMAIN queue /\ queue'[i] = queue[i + 1]
                                  \/ \E k \in DOMAIN q : i = Len(queue) - 1 + k /\ queue'[i] = q[k]
      /\ \A i \in DOMAIN queue : i # 1 => i - 1 \in DOMAIN queue' /\ queue'[i - 1] = queue[i]
      /\ \A k \in DOMAIN q : \E i \in DOMAIN queue' : queue'[i] = q[k]
  BY <1>2, <1>3, QueueAfter
<1>5. PICK h \in LevelFn : Levels(h, Roots(basis)) /\ QueueLevels(h)
  BY DEF Levelled
<1> PICK l : l = h[top]
  OBVIOUS
<1>6. l \in Nat /\ (\A d \in Box : h[d] \in Nat) /\ \A u \in Box \ visited : h[u] = l + 1
  BY <1>1, <1>3, <1>5, BoxBounds DEF LevelFn, QueueLevels
<1>7. /\ \A i \in DOMAIN queue : queue[i] \in Box /\ h[queue[i]] \in {l, l + 1}
      /\ \A i, j \in DOMAIN queue : i <= j => h[queue[i]] <= h[queue[j]]
  <2>1. \A i \in DOMAIN queue : queue[i] \in Box /\ 1 \in DOMAIN queue /\ 1 <= i
    BY <1>3
  <2>2. \A i, j \in DOMAIN queue : i <= j => h[queue[i]] <= h[queue[j]]
    BY <1>5 DEF QueueLevels
  <2>3. \A i \in DOMAIN queue : h[queue[i]] <= l + 1 /\ l <= h[queue[i]]
    BY <1>5, <2>1, <2>2 DEF QueueLevels
  <2> QED BY <1>6, <2>1, <2>2, <2>3
<1>8. \A x \in new : h[x] = l + 1
  BY <1>1, <1>6
<1> HIDE DEF new
<1>9. /\ \A i \in DOMAIN queue' : queue'[i] \in Box /\ h[queue'[i]] \in {l, l + 1}
      /\ \A i, j \in DOMAIN queue' : i <= j => h[queue'[i]] <= h[queue'[j]]
  <2>0. \A k \in DOMAIN q : q[k] \in Box /\ h[q[k]] \in {l, l + 1}
    BY <1>1, <1>2, <1>8
  <2>1. \A i \in DOMAIN queue' : queue'[i] \in Box /\ h[queue'[i]] \in {l, l + 1}
    BY <1>4, <1>7, <2>0
  <2>2. ASSUME NEW i \in DOMAIN queue', NEW j \in DOMAIN queue', i <= j
        PROVE  h[queue'[i]] <= h[queue'[j]]
    <3>0. i \in Nat /\ j \in Nat /\ Len(queue) \in Nat /\ DOMAIN queue = 1 .. Len(queue) /\ DOMAIN q = 1 .. Len(q)
      BY <1>2, <1>3, <1>4
    <3>1. CASE \E k \in DOMAIN q : queue'[j] = q[k]
      <4>1. h[queue'[j]] = l + 1
        BY <1>2, <1>8, <3>1
      <4> QED BY <1>6, <2>1, <4>1
    <3>2. CASE i + 1 \in DOMAIN queue /\ queue'[i] = queue[i + 1] /\ j + 1 \in DOMAIN queue /\ queue'[j] = queue[j + 1]
      <4>1. i + 1 <= j + 1
        BY <2>2, <3>0
      <4> QED BY <1>7, <3>2, <4>1
    <3>3. CASE /\ \E k \in DOMAIN q : i = Len(queue) - 1 + k /\ queue'[i] = q[k]
               /\ j + 1 \in DOMAIN queue
      <4>1. j <= Len(queue) - 1 /\ i >= Len(queue)
        BY <3>0, <3>3
      <4> QED BY <2>2, <3>0, <4>1
    <3> QED BY <1>4, <3>1, <3>2, <3>3
  <2> QED BY <2>1, <2>2
<1>10. \A d \in visited' : h[d] < Cardinality(visited')
  <2> SUFFICES ASSUME NEW d \in visited' PROVE h[d] < Cardinality(visited')
    OBVIOUS
  <2>1. /\ visited \in SUBSET Box /\ visited' \in SUBSET Box
        /\ Cardinality(visited) \in Nat /\ Cardinality(visited') \in Nat /\ IsFiniteSet(visited') /\ d \in Box
    BY <1>1, BoxBounds DEF SearchTypes
  <2>2. Cardinality(visited) <= Cardinality(visited') /\ (Cardinality(visited) = Cardinality(visited') => visited = visited')
    BY <1>1, <2>1, FS_Subset
  <2>3. CASE d \in visited
    <3>1. h[d] < Cardinality(visited)
      BY <1>5, <2>3 DEF QueueLevels
    <3> QED BY <1>6, <2>1, <2>2, <3>1
  <2>4. CASE d \notin visited
    <3>1. h[d] = l + 1 /\ l < Cardinality(visited) /\ Cardinality(visited) < Cardinality(visited')
      BY <1>1, <1>5, <1>6, <2>1, <2>2, <2>4 DEF QueueLevels
    <3> QED BY <1>6, <2>1, <3>1
  <2> QED BY <2>3, <2>4
<1>11. \A w \in basis : \A d, e \in w : h[e] <= h[d] + 1
  BY <1>5 DEF Levels
<1>12. \A d \in Mapped' : d \in visited' /\ parents'[d] \in visited' /\ h[d] = h[parents'[d]] + 1
  <2> SUFFICES ASSUME NEW d \in Mapped' PROVE d \in visited' /\ parents'[d] \in visited' /\ h[d] = h[parents'[d]] + 1
    OBVIOUS
  <2>1. CASE d \in new
    BY <1>1, <1>8, <2>1
  <2>2. CASE d \in Mapped
    <3>1. d \in Box \ new
      BY <1>1, <2>2 DEF Mapped
    <3> QED BY <1>1, <1>5, <2>2, <3>1 DEF Levels, SearchOrder
  <2> QED BY <1>1, <2>1, <2>2
<1>13. \A r \in Roots(basis) : r \in visited' /\ h[r] = 0
  BY <1>1, <1>5 DEF Levels, SearchOrder
<1>14. CASE queue' = <<>> \/ h[queue'[1]] = l
  <2>1. Levels(h, Roots(basis))'
    BY <1>1, <1>11, <1>12, <1>13 DEF Levels
  <2>2. QueueLevels(h)'
    <3>1. \A i \in DOMAIN queue' : h[queue'[i]] <= h[queue'[1]] + 1
      <4> SUFFICES ASSUME NEW i \in DOMAIN queue' PROVE h[queue'[i]] <= h[queue'[1]] + 1
        OBVIOUS
      <4>1. queue' # <<>>
        BY <1>4
      <4> QED BY <1>6, <1>9, <1>14, <4>1
    <3>2. queue' # <<>> => \A u \in Box \ visited' : h[u] = h[queue'[1]] + 1
      BY <1>1, <1>6, <1>14
    <3> QED BY <1>9, <1>10, <3>1, <3>2 DEF QueueLevels
  <2> QED BY <2>1, <2>2 DEF Levelled, LevelFn
<1>15. CASE queue' # <<>> /\ h[queue'[1]] # l
  <2> PICK g : g = [u \in Box |-> IF u \in visited' THEN h[u] ELSE l + 2]
    OBVIOUS
  <2>1. /\ 1 \in DOMAIN queue' /\ queue'[1] \in visited' /\ h[queue'[1]] = l + 1
        /\ \A i \in DOMAIN queue' : queue'[i] \in visited' /\ h[queue'[i]] = l + 1
    <3>1. 1 \in DOMAIN queue' /\ \A i \in DOMAIN queue' : i \in Nat /\ 1 <= i
      BY <1>4, <1>15
    <3>2. SearchOrder'
      BY VisitOrder
    <3>3. h[queue'[1]] = l + 1
      BY <1>9, <1>15, <3>1
    <3>4. \A i \in DOMAIN queue' : h[queue'[i]] = l + 1
      BY <1>6, <1>9, <3>1, <3>3
    <3> QED BY <3>1, <3>2, <3>3, <3>4 DEF SearchOrder
  <2>2. (\A u \in visited' : g[u] = h[u]) /\ \A u \in Box \ visited' : g[u] = l + 2
    BY <1>1
  <2>3. g \in LevelFn
    <3> SUFFICES ASSUME NEW u \in Box, u \notin visited' PROVE l + 2 \in 0 .. Cardinality(Box) - 1
      BY <1>5 DEF LevelFn
    <3>1. l + 1 < Cardinality(visited')
      BY <1>10, <2>1
    <3>2. visited' \in SUBSET Box
      BY <1>1
    <3>3. /\ Cardinality(visited') \in Nat /\ Cardinality(Box) \in Nat
          /\ Cardinality(visited') < Cardinality(Box)
      BY <3>2, BoxBounds
    <3> QED BY <1>6, <3>1, <3>3
  <2>4. \A w \in basis' : \A d, e \in w : g[e] <= g[d] + 1
    <3> SUFFICES ASSUME NEW w \in basis, NEW d \in w, NEW e \in w PROVE g[e] <= g[d] + 1
      BY <1>1
    <3>0. d \in Box /\ e \in Box /\ h[e] <= h[d] + 1
      BY <1>11 DEF SearchTypes, Wire
    <3>1. CASE d \in visited' /\ e \in visited'
      BY <2>2, <3>0, <3>1
    <3>2. CASE d \notin visited' /\ e \notin visited'
      BY <1>6, <2>2, <3>0, <3>2
    <3>3. ASSUME NEW x \in w, NEW y \in w, x \in visited', y \notin visited' PROVE g[x] = l + 1 /\ g[y] = l + 2
      <4>1. w \in Wire /\ x # y
        BY <3>3 DEF SearchTypes
      <4>2. x \in Box /\ y \in Box /\ w = {x, y}
        BY <4>1, WireEnds
      <4>3. y \in Near(basis, x)
        BY <4>2 DEF Near
      <4>4. \E i \in DOMAIN queue' : queue'[i] = x
        <5>1. SearchOrder'
          BY VisitOrder
        <5>2. Near(basis', x) \subseteq visited' \/ \E i \in DOMAIN queue' : queue'[i] = x
          BY <3>3, <5>1 DEF SearchOrder
        <5> QED BY <1>1, <3>3, <4>3, <5>2
      <4> QED BY <2>1, <2>2, <3>3, <4>2, <4>4
    <3>4. l + 1 \in Nat /\ l + 2 <= (l + 1) + 1 /\ l + 1 <= (l + 2) + 1
      BY <1>6
    <3>5. CASE d \in visited' /\ e \notin visited'
      BY <3>3, <3>4, <3>5
    <3>6. CASE d \notin visited' /\ e \in visited'
      BY <3>3, <3>4, <3>6
    <3> QED BY <3>1, <3>2, <3>5, <3>6
  <2>5. Levels(g, Roots(basis))'
    <3>1. \A d \in Mapped' : g[d] = g[parents'[d]] + 1
      BY <1>12, <2>2
    <3>2. \A r \in Roots(basis)' : g[r] = 0
      BY <1>1, <1>13, <2>2
    <3> QED BY <2>4, <3>1, <3>2 DEF Levels
  <2>6. QueueLevels(g)'
    <3>1. \A d \in visited' : g[d] < Cardinality(visited')
      BY <1>10, <2>2
    <3>2. \A i \in DOMAIN queue' : g[queue'[i]] = l + 1 /\ g[queue'[1]] = l + 1
      BY <2>1, <2>2
    <3>3. l + 1 \in Nat /\ l + 1 <= (l + 1) + 1 /\ l + 2 = (l + 1) + 1
      BY <1>6
    <3>4. \A u \in Box \ visited' : g[u] = g[queue'[1]] + 1
      BY <2>1, <2>2, <3>3
    <3>5. \A i, j \in DOMAIN queue' : i <= j => g[queue'[i]] <= g[queue'[j]]
      <4> SUFFICES ASSUME NEW i \in DOMAIN queue', NEW j \in DOMAIN queue' PROVE g[queue'[i]] <= g[queue'[j]]
        OBVIOUS
      <4>1. g[queue'[i]] = l + 1 /\ g[queue'[j]] = l + 1
        BY <3>2
      <4> QED BY <3>3, <4>1
    <3>6. \A i \in DOMAIN queue' : g[queue'[i]] <= g[queue'[1]] + 1
      BY <3>2, <3>3
    <3> QED BY <3>1, <3>4, <3>5, <3>6 DEF QueueLevels
  <2> QED BY <2>3, <2>5, <2>6 DEF Levelled
<1> QED BY <1>14, <1>15

\* A new map: nobody has a parent, the roots are at level 0 and in the queue.
LEMMA ComputeKeeps ==
    ASSUME ParentInv, Compute
    PROVE  ParentInv'
<1> DEFINE R == Roots(cable)
<1>1. /\ counted = Nothing /\ basis' = cable /\ queue' \in Orders(R) /\ visited' = R
      /\ parents' = [d \in Box |-> NoRoot] /\ UNCHANGED <<cable, rootDevice, counted>>
  BY DEF Compute
<1>2. R \subseteq Box
  BY RootsAreBoxes DEF ParentInv, SearchTypes
<1> HIDE DEF R
<1>3. /\ queue' \in Seq(Box) /\ (\A i \in DOMAIN queue' : queue'[i] \in R)
      /\ \A x \in R : \E i \in DOMAIN queue' : queue'[i] = x
  BY <1>1, <1>2, OrdersFacts
<1>4. Roots(basis)' = R /\ Mapped' = {}
  <2>1. Roots(basis)' = R
    BY <1>1 DEF R, Roots, Best, Near
  <2> QED BY <1>1, <2>1 DEF Mapped
<1>5. SearchTypes'
  BY <1>1, <1>2, <1>3 DEF ParentInv, SearchTypes
<1>6. SearchOrder'
  BY <1>1, <1>3, <1>4 DEF SearchOrder
<1>7. Levelled'
  <2> PICK h : h = [d \in Box |-> IF d \in R \/ R = {} THEN 0 ELSE 1]
    OBVIOUS
  <2>1. h \in LevelFn
    <3> SUFFICES ASSUME NEW d \in Box PROVE h[d] \in 0 .. Cardinality(Box) - 1
      BY DEF LevelFn
    <3>1. Cardinality(Box) \in Nat /\ Cardinality(Box) >= 1
      BY BoxBounds
    <3>2. CASE d \in R \/ R = {}
      BY <3>1, <3>2
    <3>3. CASE d \notin R /\ R # {}
      <4>1. R \in SUBSET Box
        BY <1>2
      <4>2. Cardinality(R) \in Nat /\ Cardinality(R) >= 1 /\ Cardinality(R) < Cardinality(Box)
        BY <3>3, <4>1, BoxBounds
      <4> QED BY <3>1, <3>3, <4>2
    <3> QED BY <3>2, <3>3
  <2>2. (\A d \in R : h[d] = 0) /\ (\A d \in Box : h[d] \in {0, 1}) /\ (R # {} => \A d \in Box \ R : h[d] = 1)
    BY <1>2
  <2>3. Levels(h, Roots(basis))'
    <3>1. \A w \in basis' : \A d, e \in w : h[e] <= h[d] + 1
      <4> SUFFICES ASSUME NEW w \in cable, NEW d \in w, NEW e \in w PROVE h[e] <= h[d] + 1
        BY <1>1
      <4>1. h[d] \in {0, 1} /\ h[e] \in {0, 1}
        BY <2>2 DEF ParentInv, SearchTypes, Wire
      <4> QED BY <4>1
    <3> QED BY <1>4, <2>2, <3>1 DEF Levels
  <2>4. QueueLevels(h)'
    <3>1. \A d \in visited' : h[d] < Cardinality(visited')
      <4> SUFFICES ASSUME NEW d \in R PROVE h[d] < Cardinality(R)
        BY <1>1
      <4>1. R \in SUBSET Box
        BY <1>2
      <4>2. Cardinality(R) \in Nat /\ Cardinality(R) >= 1
        BY <4>1, BoxBounds
      <4> QED BY <2>2, <4>2
    <3>2. \A i \in DOMAIN queue' : h[queue'[i]] = 0
      BY <1>3, <2>2
    <3>3. queue' # <<>> => h[queue'[1]] = 0 /\ R # {}
      BY <1>3, <3>2
    <3>4. \A i \in DOMAIN queue' : queue' # <<>> /\ h[queue'[i]] <= h[queue'[1]] + 1
      <4> SUFFICES ASSUME NEW i \in DOMAIN queue' PROVE queue' # <<>> /\ h[queue'[i]] <= h[queue'[1]] + 1
        OBVIOUS
      <4>1. queue' # <<>>
        BY <1>3
      <4> QED BY <3>2, <3>3, <4>1
    <3>5. \A i, j \in DOMAIN queue' : i <= j => h[queue'[i]] <= h[queue'[j]]
      BY <3>2
    <3>6. queue' # <<>> => \A u \in Box \ visited' : h[u] = h[queue'[1]] + 1
      BY <1>1, <2>2, <3>3
    <3> QED BY <3>1, <3>4, <3>5, <3>6 DEF QueueLevels
  <2> QED BY <2>1, <2>3, <2>4 DEF Levelled
<1>8. ImpactInv'
  BY <1>1 DEF ImpactInv, Nothing
<1> QED BY <1>5, <1>6, <1>7, <1>8 DEF ParentInv

\* Where every device has a parent, somebody is his own ancestor, which levels rule out.
LEMMA NoLoop ==
    ASSUME ParentInv, NEW S, S \subseteq Box, S # {}, \A x \in S : parents[x] \in S
    PROVE  FALSE
<1>1. PICK h \in LevelFn : Levels(h, Roots(basis))
  BY DEF ParentInv, Levelled
<1>2. \A x \in Box : h[x] \in Nat
  BY <1>1, BoxBounds DEF LevelFn
<1>3. \A x \in S : h[x] = h[parents[x]] + 1
  BY <1>1, BoxBounds DEF Levels, Mapped
<1> DEFINE T == {h[x] : x \in S}
<1>4. T \subseteq Nat /\ T # {}
  BY <1>2
<1>5. PICK k \in T : \A y \in T : k <= y
  BY <1>4, LeastThere
<1>6. PICK x \in S : h[x] = k
  OBVIOUS
<1>7. h[parents[x]] \in T /\ h[parents[x]] \in Nat /\ k = h[parents[x]] + 1
  BY <1>2, <1>3, <1>6
<1> QED BY <1>5, <1>7

\* What impactOf and the links' changes leave of the invariant.
LEMMA SearchKept ==
    ASSUME ParentInv, UNCHANGED <<rootDevice, queue, visited, parents, basis>>, cable' \subseteq Wire, ImpactInv'
    PROVE  ParentInv'
<1>1. Roots(basis)' = Roots(basis) /\ Mapped' = Mapped
  BY DEF Roots, Best, Near, Mapped
<1>2. SearchTypes'
  BY DEF ParentInv, SearchTypes
<1>3. SearchOrder'
  BY <1>1 DEF ParentInv, SearchOrder, Near
<1>4. PICK h \in LevelFn : Levels(h, Roots(basis)) /\ QueueLevels(h)
  BY DEF ParentInv, Levelled
<1>5. Levels(h, Roots(basis))' /\ QueueLevels(h)'
  BY <1>1, <1>4 DEF Levels, QueueLevels
<1>6. Levelled'
  BY <1>4, <1>5 DEF Levelled, LevelFn
<1> QED BY <1>2, <1>3, <1>6 DEF ParentInv

\* The stack after a turn of impactOf's loop: what was under its top, then the children.
Topped(s, q, s2, m) ==
    /\ s2 \in Seq(Box) /\ m \in Nat /\ m + 1 \in DOMAIN s /\ Last(s) = s[m + 1] /\ Last(s) \in Box
    /\ \A i \in DOMAIN s2 : i \in Nat /\ IF i <= m THEN i \in DOMAIN s /\ i # m + 1 /\ s2[i] = s[i]
                                        ELSE i - m \in DOMAIN q /\ s2[i] = q[i - m]
    /\ \A i \in DOMAIN s : i # m + 1 => i \in DOMAIN s2 /\ s2[i] = s[i]
    /\ \A k \in DOMAIN q : m + k \in DOMAIN s2 /\ s2[m + k] = q[k]

LEMMA StackAfter ==
    ASSUME NEW s \in Seq(Box), s # <<>>, NEW q \in Seq(Box)
    PROVE  Topped(s, q, Front(s) \o q, Len(s) - 1)
<1> PICK m : m = Len(s) - 1
  OBVIOUS
<1> PICK s2 : s2 = Front(s) \o q
  OBVIOUS
<1>1. Len(s) \in Nat /\ m \in Nat /\ m + 1 = Len(s) /\ Len(q) \in Nat
  OBVIOUS
<1>2. DOMAIN s = 1 .. m + 1 /\ m + 1 \in DOMAIN s /\ Last(s) = s[m + 1] /\ Last(s) \in Box
  BY <1>1 DEF Last
<1> DEFINE f == Front(s)
<1>3. f \in Seq(Box) /\ Len(f) = m /\ \A i \in 1 .. m : f[i] = s[i]
  <2>1. f = SubSeq(s, 1, m)
    BY <1>1 DEF Front
  <2>2. 1 \in Int /\ m \in Int /\ m - 1 + 1 = m /\ (\A i \in 1 .. m : s[i] \in Box) /\ \A i \in 1 .. m : 1 + i - 1 = i
    BY <1>1, <1>2
  <2>3. /\ SubSeq(s, 1, m) \in Seq(Box) /\ Len(SubSeq(s, 1, m)) = IF 1 <= m THEN m - 1 + 1 ELSE 0
        /\ \A i \in 1 .. m - 1 + 1 : SubSeq(s, 1, m)[i] = s[1 + i - 1]
    BY <2>2, SubSeqProperties
  <2> QED BY <1>1, <2>1, <2>2, <2>3
<1> HIDE DEF f
<1>4. s2 = f \o q
  BY DEF f
<1>5. /\ s2 \in Seq(Box) /\ Len(s2) = m + Len(q) /\ DOMAIN s2 = 1 .. m + Len(q) /\ DOMAIN q = 1 .. Len(q)
      /\ \A i \in 1 .. m + Len(q) : s2[i] = IF i <= m THEN f[i] ELSE q[i - m]
  <2>1. f \in Seq(Box) /\ Len(f) = m
    BY <1>3
  <2>2. s2 \in Seq(Box) /\ Len(s2) = Len(f) + Len(q)
    BY <1>4, <2>1, ConcatProperties
  <2>3. \A i \in 1 .. Len(f) + Len(q) : s2[i] = IF i <= Len(f) THEN f[i] ELSE q[i - Len(f)]
    BY <1>4, <2>1, ConcatProperties
  <2>4. DOMAIN s2 = 1 .. Len(s2) /\ DOMAIN q = 1 .. Len(q)
    BY <2>2
  <2> QED BY <2>1, <2>2, <2>3, <2>4
<1>6. \A i \in DOMAIN s2 : i \in Nat /\ IF i <= m THEN i \in DOMAIN s /\ i # m + 1 /\ s2[i] = s[i]
                                        ELSE i - m \in DOMAIN q /\ s2[i] = q[i - m]
  <2> SUFFICES ASSUME NEW i \in DOMAIN s2
               PROVE  i \in Nat /\ IF i <= m THEN i \in DOMAIN s /\ i # m + 1 /\ s2[i] = s[i]
                                   ELSE i - m \in DOMAIN q /\ s2[i] = q[i - m]
    OBVIOUS
  <2>1. i \in Nat /\ i >= 1 /\ i <= m + Len(q)
    BY <1>1, <1>5
  <2>2. CASE i <= m
    <3>1. i \in 1 .. m /\ i \in DOMAIN s /\ i # m + 1 /\ i \in 1 .. m + Len(q)
      BY <1>1, <1>2, <2>1, <2>2
    <3> QED BY <1>3, <1>5, <2>1, <2>2, <3>1
  <2>3. CASE ~(i <= m)
    <3>1. i - m \in DOMAIN q /\ i \in 1 .. m + Len(q)
      BY <1>1, <1>5, <2>1, <2>3
    <3> QED BY <1>5, <2>1, <2>3, <3>1
  <2> QED BY <2>2, <2>3
<1>7. \A i \in DOMAIN s : i # m + 1 => i \in DOMAIN s2 /\ s2[i] = s[i]
  <2> SUFFICES ASSUME NEW i \in DOMAIN s, i # m + 1 PROVE i \in DOMAIN s2 /\ s2[i] = s[i]
    OBVIOUS
  <2>1. i \in 1 .. m /\ i <= m /\ i \in 1 .. m + Len(q)
    BY <1>1, <1>2
  <2> QED BY <1>3, <1>5, <2>1
<1>8. \A k \in DOMAIN q : m + k \in DOMAIN s2 /\ s2[m + k] = q[k]
  BY <1>1, <1>5
<1>9. Topped(s, q, s2, m)
  BY <1>1, <1>2, <1>5, <1>6, <1>7, <1>8 DEF Topped
<1> QED BY <1>9

\* Devices beneath the one on top of the stack are new, so each is counted once.
LEMMA ImpactStepKeeps ==
    ASSUME ParentInv, ImpactStep
    PROVE  ParentInv'
<1>a. PICK stack : stack = counted.stack
  OBVIOUS
<1>b. PICK m : m = Len(stack) - 1
  OBVIOUS
<1>c. PICK top : top = Last(stack)
  OBVIOUS
<1>1. counted # Nothing /\ stack # <<>>
  BY <1>a DEF ImpactStep, Nothing
<1>2. /\ queue = <<>> /\ stack \in Seq(Box) /\ counted.n \in Nat
      /\ counted = [dev |-> counted.dev, n |-> counted.n, stack |-> stack]
  BY <1>a, <1>1 DEF ParentInv, ImpactInv
<1>3. PICK done \in SUBSET Box : Found(done, counted, parents)
  BY <1>1 DEF ParentInv, ImpactInv
<1>d. PICK cs : cs = Children(top)
  OBVIOUS
<1>4. PICK q \in Orders(cs) : counted' = [counted EXCEPT !.n = @ + Cardinality(cs), !.stack = Front(@) \o q]
  BY <1>a, <1>c, <1>d DEF ImpactStep
<1>5. UNCHANGED <<cable, rootDevice, queue, visited, parents, basis>>
  BY DEF ImpactStep
<1>6. cs \in SUBSET Box /\ \A x \in cs : parents[x] = top
  BY <1>d DEF Children
<1>7. /\ q \in Seq(Box) /\ Len(q) = Cardinality(cs) /\ (\A i \in DOMAIN q : q[i] \in cs)
      /\ (\A x \in cs : \E i \in DOMAIN q : q[i] = x) /\ \A i, j \in DOMAIN q : q[i] = q[j] => i = j
  BY <1>6, OrdersFacts
<1>e. PICK s2 : s2 = Front(stack) \o q
  OBVIOUS
<1>8. /\ counted'.dev = counted.dev /\ counted'.n = counted.n + Cardinality(cs) /\ counted'.stack = s2
      /\ counted' = [dev |-> counted'.dev, n |-> counted'.n, stack |-> counted'.stack]
  BY <1>a, <1>2, <1>4, <1>e
<1>9. /\ s2 \in Seq(Box) /\ m \in Nat /\ m + 1 \in DOMAIN stack /\ top = stack[m + 1] /\ top \in Box
      /\ \A i \in DOMAIN s2 : i \in Nat /\ IF i <= m THEN i \in DOMAIN stack /\ i # m + 1 /\ s2[i] = stack[i]
                                          ELSE i - m \in DOMAIN q /\ s2[i] = q[i - m]
      /\ \A i \in DOMAIN stack : i # m + 1 => i \in DOMAIN s2 /\ s2[i] = stack[i]
      /\ \A k \in DOMAIN q : m + k \in DOMAIN s2 /\ s2[m + k] = q[k]
  <2>1. stack \in Seq(Box) /\ stack # <<>> /\ q \in Seq(Box)
    BY <1>1, <1>2, <1>7
  <2>2. Topped(stack, q, Front(stack) \o q, Len(stack) - 1)
    BY <2>1, StackAfter
  <2>3. Topped(stack, q, s2, m)
    BY <1>b, <1>e, <2>2
  <2> QED BY <1>c, <2>3 DEF Topped
<1>f. PICK S : S = done \union {stack[i] : i \in DOMAIN stack}
  OBVIOUS
<1>10. /\ \A i, j \in DOMAIN stack : stack[i] = stack[j] => i = j
       /\ \A i \in DOMAIN stack : stack[i] \notin done /\ stack[i] \in S
       /\ counted.dev \in S /\ Cardinality(S) = counted.n + 1
       /\ \A x \in S \ {counted.dev} : parents[x] \in done
  BY <1>a, <1>3, <1>f DEF Found, Reached
<1>11. S \in SUBSET Box /\ top \in S /\ top \notin done /\ done \subseteq S
  BY <1>f, <1>2, <1>9, <1>10
<1>12. cs \intersect S = {}
  <2> SUFFICES ASSUME NEW c \in cs, c \in S PROVE FALSE
    OBVIOUS
  <2>1. parents[c] = top
    BY <1>6
  <2>2. c = counted.dev
    BY <1>10, <1>11, <2>1
  <2>3. \A x \in S : parents[x] \in S
    BY <1>10, <1>11, <2>1, <2>2
  <2> QED BY <1>11, <2>3, NoLoop
<1>g. PICK done2 : done2 = done \union {top}
  OBVIOUS
<1>h. PICK S2 : S2 = done2 \union {s2[i] : i \in DOMAIN s2}
  OBVIOUS
<1>13. S2 = S \union cs
  <2>1. ASSUME NEW x \in S2 PROVE x \in S \union cs
    <3>1. CASE x \in done2
      BY <1>g, <1>11, <3>1
    <3>2. ASSUME NEW i \in DOMAIN s2, x = s2[i] PROVE x \in S \union cs
      <4>1. CASE i <= m
        BY <1>9, <1>10, <3>2, <4>1
      <4>2. CASE ~(i <= m)
        BY <1>7, <1>9, <3>2, <4>2
      <4> QED BY <4>1, <4>2
    <3> QED BY <1>h, <2>1, <3>1, <3>2
  <2>2. ASSUME NEW x \in S PROVE x \in S2
    <3>1. ASSUME NEW i \in DOMAIN stack, x = stack[i] PROVE x \in S2
      BY <1>g, <1>h, <1>9, <3>1
    <3> QED BY <1>f, <1>g, <1>h, <2>2, <3>1
  <2>3. ASSUME NEW x \in cs PROVE x \in S2
    <3>1. PICK k \in DOMAIN q : q[k] = x
      BY <1>7
    <3>2. m + k \in DOMAIN s2 /\ s2[m + k] = x
      BY <1>9, <3>1
    <3> QED BY <1>h, <3>2
  <2> QED BY <2>1, <2>2, <2>3
<1>14. Cardinality(S2) = counted'.n + 1
  <2>1. IsFiniteSet(S) /\ IsFiniteSet(cs) /\ Cardinality(S) \in Nat /\ Cardinality(cs) \in Nat
    BY <1>6, <1>11, BoxBounds
  <2>2. S \intersect cs = {} /\ Cardinality({}) = 0
    BY <1>12, FS_EmptySet
  <2>3. Cardinality(S \union cs) = Cardinality(S) + Cardinality(cs) - Cardinality(S \intersect cs)
    BY <2>1, FS_Union
  <2>4. Cardinality(S \intersect cs) = 0
    BY <2>2
  <2>5. Cardinality(S2) = Cardinality(S) + Cardinality(cs)
    BY <1>13, <2>1, <2>3, <2>4
  <2>6. counted.n \in Nat /\ counted'.n = counted.n + Cardinality(cs) /\ Cardinality(S) = counted.n + 1
    BY <1>2, <1>8, <1>10
  <2> QED BY <2>1, <2>5, <2>6
<1>15. \A k \in DOMAIN s2 : IF k <= m THEN s2[k] \in S /\ s2[k] \notin done2 ELSE s2[k] \in cs /\ s2[k] \notin done2
  <2> SUFFICES ASSUME NEW k \in DOMAIN s2
               PROVE  IF k <= m THEN s2[k] \in S /\ s2[k] \notin done2 ELSE s2[k] \in cs /\ s2[k] \notin done2
    OBVIOUS
  <2>1. CASE k <= m
    <3>1. k \in DOMAIN stack /\ k # m + 1 /\ s2[k] = stack[k] /\ m + 1 \in DOMAIN stack
      BY <1>9, <2>1
    <3>2. stack[k] # top
      BY <1>9, <1>10, <3>1
    <3> QED BY <1>g, <1>10, <2>1, <3>1, <3>2
  <2>2. CASE ~(k <= m)
    <3>1. k - m \in DOMAIN q /\ s2[k] = q[k - m]
      BY <1>9, <2>2
    <3>2. s2[k] \in cs
      BY <1>7, <3>1
    <3> QED BY <1>g, <1>11, <1>12, <2>2, <3>2
  <2> QED BY <2>1, <2>2
<1>16. \A i, j \in DOMAIN s2 : s2[i] = s2[j] => i = j
  <2> SUFFICES ASSUME NEW i \in DOMAIN s2, NEW j \in DOMAIN s2, s2[i] = s2[j] PROVE i = j
    OBVIOUS
  <2>1. (i <= m) <=> (j <= m)
    BY <1>12, <1>15
  <2>2. CASE i <= m
    BY <1>9, <1>10, <2>1, <2>2
  <2>3. CASE ~(i <= m)
    <3>1. i \in Nat /\ j \in Nat /\ i - m \in DOMAIN q /\ j - m \in DOMAIN q /\ q[i - m] = q[j - m]
      BY <1>9, <2>1, <2>3
    <3>2. i - m = j - m
      BY <1>7, <3>1
    <3> QED BY <1>9, <3>1, <3>2
  <2> QED BY <2>2, <2>3
<1>17. \A x \in S2 \ {counted.dev} : parents[x] \in done2
  BY <1>g, <1>6, <1>10, <1>13
<1>18. Found(done2, counted', parents')
  <2>1. counted'.dev \in S2
    BY <1>8, <1>10, <1>13
  <2>2. \A x \in S2 \ {counted'.dev} : parents'[x] \in done2
    BY <1>5, <1>8, <1>17
  <2>3. \A i \in DOMAIN s2 : s2[i] \notin done2
    BY <1>15
  <2>4. Reached(done2, counted'.stack) = S2
    BY <1>h, <1>8 DEF Reached
  <2> QED BY <1>8, <1>14, <1>16, <2>1, <2>2, <2>3, <2>4 DEF Found
<1>19. ImpactInv'
  <2>1. counted'.n \in Nat /\ done2 \in SUBSET Box
    BY <1>g, <1>2, <1>6, <1>8, <1>9, BoxBounds
  <2> QED BY <1>2, <1>5, <1>8, <1>9, <1>18, <2>1 DEF ImpactInv
<1>20. cable' \subseteq Wire
  BY <1>5 DEF ParentInv, SearchTypes
<1> QED BY <1>5, <1>19, <1>20, SearchKept

LEMMA ParentInitInv == ParentInit => ParentInv
<1> SUFFICES ASSUME ParentInit PROVE ParentInv
  OBVIOUS
<1>1. SearchTypes
  BY DEF ParentInit, SearchTypes
<1>2. SearchOrder /\ Mapped = {}
  BY DEF ParentInit, SearchOrder, Mapped
<1>3. Levelled
  <2> PICK h : h = [d \in Box |-> IF d \in Roots(basis) THEN 0 ELSE 0]
    OBVIOUS
  <2>1. h \in LevelFn
    <3> SUFFICES ASSUME NEW d \in Box PROVE 0 \in 0 .. Cardinality(Box) - 1
      BY DEF LevelFn
    <3>1. Cardinality(Box) \in Nat /\ Cardinality(Box) >= 1
      BY BoxBounds
    <3> QED BY <3>1
  <2>2. \A r \in Roots(basis) : r \in Box
    BY <1>1, RootsAreBoxes DEF SearchTypes
  <2>3. Levels(h, Roots(basis))
    BY <1>2, <2>2 DEF Levels, ParentInit
  <2>4. QueueLevels(h)
    BY DEF QueueLevels, ParentInit
  <2> QED BY <2>1, <2>3, <2>4 DEF Levelled
<1>4. ImpactInv
  BY DEF ParentInit, ImpactInv
<1> QED BY <1>1, <1>2, <1>3, <1>4 DEF ParentInv

LEMMA ParentStepInv == ParentInv /\ [ParentNext]_parentVars => ParentInv'
<1> SUFFICES ASSUME ParentInv, [ParentNext]_parentVars PROVE ParentInv'
  OBVIOUS
<1>1. CASE Compute
  BY <1>1, ComputeKeeps
<1>2. CASE Visit
  <2>1. SearchTypes' /\ SearchOrder' /\ Levelled'
    BY <1>2, VisitOrder, VisitLevels DEF ParentInv
  <2>2. ImpactInv'
    BY <1>2 DEF Visit, ParentInv, ImpactInv
  <2> QED BY <2>1, <2>2 DEF ParentInv
<1>3. CASE ImpactStep
  BY <1>3, ImpactStepKeeps
<1>4. CASE ImpactEnd
  <2>1. ImpactInv'
    BY <1>4 DEF ImpactEnd, ImpactInv, Nothing
  <2>2. cable' \subseteq Wire
    BY <1>4 DEF ImpactEnd, ParentInv, SearchTypes
  <2> QED BY <1>4, <2>1, <2>2, SearchKept DEF ImpactEnd
<1>5. ASSUME NEW w \in Wire, Recable(w) PROVE ParentInv'
  <2>1. ImpactInv'
    BY <1>5 DEF Recable, ParentInv, ImpactInv
  <2>2. cable' \subseteq Wire
    BY <1>5 DEF Recable, ParentInv, SearchTypes
  <2> QED BY <1>5, <2>1, <2>2, SearchKept DEF Recable
<1>6. ASSUME NEW d \in Box, ImpactOf(d) PROVE ParentInv'
  <2>1. /\ queue' = <<>> /\ counted' = [dev |-> d, n |-> 0, stack |-> <<d>>]
        /\ parents' = parents
    BY <1>6 DEF ImpactOf
  <2>2. <<d>> \in Seq(Box) /\ DOMAIN <<d>> = {1} /\ <<d>>[1] = d
    OBVIOUS
  <2>3. Cardinality({d}) = 1
    BY FS_Singleton
  <2> PICK c : c = [dev |-> d, n |-> 0, stack |-> <<d>>]
    OBVIOUS
  <2>7. c.dev = d /\ c.n = 0 /\ c.stack = <<d>>
    OBVIOUS
  <2>8. Reached({}, c.stack) = {d}
    BY <2>2, <2>7 DEF Reached
  <2>4. Found({}, counted', parents')
    <3>1. \A i, j \in DOMAIN c.stack : c.stack[i] = c.stack[j] => i = j
      BY <2>2, <2>7
    <3>2. Found({}, c, parents)
      BY <2>3, <2>7, <2>8, <3>1 DEF Found
    <3> QED BY <2>1, <3>2
  <2>5. ImpactInv'
    BY <2>1, <2>2, <2>4 DEF ImpactInv
  <2>6. cable' \subseteq Wire
    BY <1>6 DEF ImpactOf, ParentInv, SearchTypes
  <2> QED BY <1>6, <2>5, <2>6, SearchKept DEF ImpactOf
<1>7. CASE UNCHANGED parentVars
  <2>1. ImpactInv'
    BY <1>7 DEF parentVars, ParentInv, ImpactInv
  <2>2. cable' \subseteq Wire
    BY <1>7 DEF parentVars, ParentInv, SearchTypes
  <2> QED BY <1>7, <2>1, <2>2, SearchKept DEF parentVars
<1> QED BY <1>1, <1>2, <1>3, <1>4, <1>5, <1>6, <1>7 DEF ParentNext

LEMMA ParentInvMeans == ParentInv => ParentsLeadToRoot
<1> SUFFICES ASSUME ParentInv PROVE ParentsLeadToRoot
  OBVIOUS
<1>1. \A d \in Mapped : {d, parents[d]} \in basis /\ parents[d] \in Roots(basis) \union Mapped
  BY DEF ParentInv, SearchOrder
<1>2. \E h \in [Box -> 0 .. Cardinality(Box) - 1] : Levels(h, Roots(basis))
  BY DEF ParentInv, Levelled, LevelFn
<1>3. counted # Nothing => counted.n < Cardinality(Box)
  <2> SUFFICES ASSUME counted # Nothing PROVE counted.n < Cardinality(Box)
    OBVIOUS
  <2>1. counted.stack \in Seq(Box) /\ counted.n \in Nat
    BY DEF ParentInv, ImpactInv
  <2>2. PICK done \in SUBSET Box : Found(done, counted, parents)
    BY DEF ParentInv, ImpactInv
  <2> PICK S : S = done \union {counted.stack[i] : i \in DOMAIN counted.stack}
    OBVIOUS
  <2>3. S \in SUBSET Box /\ Cardinality(S) = counted.n + 1
    BY <2>1, <2>2 DEF Found, Reached
  <2>4. Cardinality(S) <= Cardinality(Box) /\ Cardinality(Box) \in Nat
    BY <2>3, BoxBounds
  <2> QED BY <2>1, <2>3, <2>4
<1> QED BY <1>1, <1>2, <1>3 DEF ParentsLeadToRoot

\* However the links change and at every moment of the search, each device of the parent
\* map reaches a root along links the map was made on and on a shortest way, so no device
\* is its own ancestor; and impactOf, which walks the map without remembering whom it
\* visited, counts each device once at most (computeParents, impactOf).
THEOREM ParentsAreRight == ParentSpec => []ParentsLeadToRoot
<1>1. ParentInit => ParentInv
  BY ParentInitInv
<1>2. ParentInv /\ [ParentNext]_parentVars => ParentInv'
  BY ParentStepInv
<1>3. ParentInv => ParentsLeadToRoot
  BY ParentInvMeans
<1> QED BY <1>1, <1>2, <1>3, PTL DEF ParentSpec

-----------------------------------------------------------------------------
(* Flow.                                                                   *)

\* The times a summary may still be made at: the open minute's, or without one a datagram's.
Times == {minute} \cup (IF cur # <<>> THEN {cur[1].ts} ELSE {p[2] : p \in feeds})

\* The summaries kept in memory, in the journal's buffer and in the files.
InFiles == UNION {Range(dayFile[d]) : d \in DOMAIN dayFile}
InPacks == UNION {Range(gz[d]) : d \in DOMAIN gz}
Stored == Range(fives) \cup Range(buffer) \cup InFiles \cup InPacks

\* The days a compressOld has or had to pack.
Packed == DOMAIN gz \cup UNION {z.left : z \in zips}

Apart(s, t) == s.flows \cap t.flows = {}

FlowTypes ==
    /\ minute \in Minute /\ exported \in 0 .. MaxFlows /\ feeds \subseteq Records \X Minute
    /\ DOMAIN addedAt \subseteq Records /\ \A f \in DOMAIN addedAt : addedAt[f] \in Minute
    /\ cur \in {<<>>} \cup {<<s>> : s \in Summaries(1)}
    /\ minutes \in Seq(Summaries(1)) /\ Len(minutes) <= MinuteRing
    /\ fives \in Seq(Summaries(SlotMinutes)) /\ Len(fives) <= FiveRing
    /\ DOMAIN dayFile \subseteq FlowDay /\ DOMAIN gz \subseteq FlowDay
    /\ \A d \in DOMAIN dayFile : dayFile[d] \in Seq(Summaries(SlotMinutes))
    /\ \A d \in DOMAIN gz : gz[d] \in Seq(Summaries(SlotMinutes))
    /\ openDay \in FlowDay \cup {NoDay} /\ buffer \in Seq(Summaries(SlotMinutes))
    /\ zips \subseteq [left : SUBSET FlowDay, renamed : FlowDay \cup {NoDay}]
    /\ flowUp \in BOOLEAN /\ turned \in BOOLEAN

\* What is down has nothing in memory.
DownIsEmpty ==
    /\ ~flowUp => feeds = {} /\ cur = <<>> /\ zips = {}
    /\ cur = <<>> => minutes = <<>> /\ DOMAIN addedAt = {}

\* The records sent, those waiting, and those that are counted somewhere.
RecordsOnce ==
    /\ \A p, q \in feeds : p[1] = q[1] => p = q
    /\ \A p \in feeds :
          /\ p[1] <= exported /\ p[2] <= minute /\ p[1] \notin DOMAIN addedAt
          /\ \A i \in DOMAIN cur : p[1] \notin cur[i].flows
          /\ \A i \in DOMAIN minutes : p[1] \notin minutes[i].flows
          /\ \A s \in Stored : p[1] \notin s.flows
    /\ \A i \in DOMAIN cur : \A f \in cur[i].flows : f <= exported
    /\ \A i \in DOMAIN minutes : \A f \in minutes[i].flows : f <= exported
    /\ \A s \in Stored : \A f \in s.flows : f <= exported
    /\ \A f \in DOMAIN addedAt : f <= exported

\* The ring is in order, one minute after another, and no two of its minutes share a record.
RingInOrder ==
    /\ \A i, j \in DOMAIN minutes : i < j => minutes[i].ts + (j - i) <= minutes[j].ts
    /\ cur # <<>> => cur[1].ts <= minute /\ \A i \in DOMAIN minutes :
                        minutes[i].ts + (Len(minutes) - i) + 1 <= cur[1].ts /\ Apart(minutes[i], cur[1])
    /\ \A i, j \in DOMAIN minutes : i # j => Apart(minutes[i], minutes[j])

\* A record is in the minute it was added under until the ring drops that minute.
AddedStays ==
    \A f \in DOMAIN addedAt :
        \/ f \in cur[1].flows /\ cur[1].ts = addedAt[f]
        \/ \E i \in DOMAIN minutes : f \in minutes[i].flows /\ minutes[i].ts = addedAt[f]
        \/ addedAt[f] + MinuteRing <= cur[1].ts

\* A slot is stored when it is over, and a record it shares with the ring is in a minute of that slot.
SlotsOver ==
    /\ \A s \in Stored : \A t \in Times : s.ts + SlotMinutes <= t
    /\ \A s \in Stored : /\ \A i \in DOMAIN minutes : ~Apart(s, minutes[i]) => Slot(minutes[i].ts) = s.ts
                         /\ cur # <<>> => Apart(s, cur[1])

\* The days on disk are not to come; a packed one is over.
DaysOver ==
    /\ \A t \in Times : /\ \A d \in DOMAIN dayFile : d <= DayAt(Slot(t))
                        /\ \A d \in Packed : d < DayAt(Slot(t))
    /\ openDay # NoDay => \A d \in Packed : d < openDay

\* No two summaries of a sequence, or of two, share a record.
OnceIn(seq) == \A i, j \in DOMAIN seq : i # j => Apart(seq[i], seq[j])
OnceBetween(seq, seq2) == \A s \in Range(seq), t \in Range(seq2) : Apart(s, t)

StoredOnce ==
    /\ OnceIn(fives) /\ OnceIn(buffer)
    /\ \A d \in DOMAIN dayFile : OnceIn(dayFile[d]) /\ OnceBetween(buffer, dayFile[d])
    /\ \A d \in DOMAIN gz : OnceIn(gz[d]) /\ OnceBetween(buffer, gz[d])
    /\ \A d, e \in DOMAIN dayFile : d # e => OnceBetween(dayFile[d], dayFile[e])
    /\ \A d, e \in DOMAIN gz : d # e => OnceBetween(gz[d], gz[e])
    /\ \A d \in DOMAIN dayFile, e \in DOMAIN gz : d # e => OnceBetween(dayFile[d], gz[e])

\* A day is in both forms only while its packer is between the rename and the removal.
TwoForms == \A d \in DOMAIN dayFile \cap DOMAIN gz : \E z \in zips : z.renamed = d

FlowSound == RecordsOnce /\ RingInOrder /\ AddedStays /\ SlotsOver /\ DaysOver /\ StoredOnce /\ TwoForms

FlowInv == FlowTypes /\ DownIsEmpty /\ (turned \/ FlowSound)

\* What a slot and a day are of a minute.
LEMMA SlotFacts ==
    ASSUME NEW m \in Nat
    PROVE  Slot(m) \in Nat /\ Slot(m) <= m /\ m < Slot(m) + SlotMinutes
<1>1. SlotMinutes \in Nat \ {0}
  BY FlowAssumption
<1>2. m % SlotMinutes \in 0 .. SlotMinutes - 1 /\ (\E q \in Nat, r \in 0 .. SlotMinutes - 1 : m = SlotMinutes * q + r /\ m % SlotMinutes = r)
  BY <1>1, ModFacts
<1>3. PICK q \in Nat, r \in 0 .. SlotMinutes - 1 : m = SlotMinutes * q + r /\ m % SlotMinutes = r
  BY <1>2
<1>4. SlotMinutes * q \in Nat
  BY <1>1
<1>5. Slot(m) = SlotMinutes * q
  BY <1>1, <1>3, <1>4 DEF Slot
<1> QED BY <1>1, <1>3, <1>4, <1>5

LEMMA SlotIsMultiple ==
    ASSUME NEW m \in Nat
    PROVE  \E q \in Nat : Slot(m) = SlotMinutes * q
<1>1. SlotMinutes \in Nat \ {0}
  BY FlowAssumption
<1>3. PICK q \in Nat, r \in 0 .. SlotMinutes - 1 : m = SlotMinutes * q + r /\ m % SlotMinutes = r
  BY <1>1, ModFacts
<1>4. SlotMinutes * q \in Nat
  BY <1>1
<1> QED BY <1>1, <1>3, <1>4 DEF Slot

LEMMA SlotsRise ==
    ASSUME NEW m \in Nat, NEW n \in Nat, m <= n
    PROVE  Slot(m) <= Slot(n)
<1>1. SlotMinutes \in Nat \ {0}
  BY FlowAssumption
<1>2. PICK p \in Nat : Slot(m) = SlotMinutes * p
  BY SlotIsMultiple
<1>3. PICK q \in Nat : Slot(n) = SlotMinutes * q
  BY SlotIsMultiple
<1>4. Slot(m) <= m /\ n < Slot(n) + SlotMinutes
  BY SlotFacts
<1>5. CASE p <= q
  BY <1>1, <1>2, <1>3, <1>5
<1>6. CASE p >= q + 1
  <2>1. SlotMinutes * p >= SlotMinutes * (q + 1)
    BY <1>1, <1>6
  <2>2. SlotMinutes * (q + 1) = SlotMinutes * q + SlotMinutes
    BY <1>1
  <2>3. SlotMinutes * q \in Nat /\ SlotMinutes * p \in Nat
    BY <1>1
  <2> QED BY <1>1, <1>2, <1>3, <1>4, <2>1, <2>2, <2>3
<1> QED BY <1>5, <1>6

LEMMA DayFacts ==
    ASSUME NEW m \in Nat
    PROVE  /\ DayAt(m) \in Nat /\ DayAt(m) <= m
           /\ \A n \in Nat : m <= n => DayAt(m) <= DayAt(n)
<1>1. DayMinutes \in Nat \ {0}
  BY FlowAssumption
<1>2. DayAt(m) \in Nat /\ DayAt(m) <= m
  <2>1. PICK k : k = m \div DayMinutes
    OBVIOUS
  <2>2. k \in Nat /\ DayMinutes * k <= m
    BY <1>1, <2>1
  <2>3. k <= DayMinutes * k
    BY <1>1, <2>2
  <2> QED BY <1>1, <2>1, <2>2, <2>3 DEF DayAt
<1>3. ASSUME NEW n \in Nat, m <= n PROVE DayAt(m) <= DayAt(n)
  <2>1. PICK j : j = m \div DayMinutes
    OBVIOUS
  <2>2. PICK k : k = n \div DayMinutes
    OBVIOUS
  <2>3. j \in Nat /\ DayMinutes * j <= m
    BY <1>1, <2>1
  <2>4. k \in Nat /\ n < DayMinutes * (k + 1)
    BY <1>1, <2>2
  <2>5. DayMinutes * j < DayMinutes * (k + 1)
    BY <1>1, <1>3, <2>3, <2>4
  <2>6. ~(j >= k + 1)
    BY <1>1, <2>3, <2>4, <2>5
  <2> QED BY <2>1, <2>2, <2>3, <2>4, <2>6 DEF DayAt
<1> QED BY <1>2, <1>3

LEMMA MinuteFacts ==
    ASSUME NEW m \in Minute
    PROVE  m \in Nat /\ Slot(m) \in Minute /\ DayAt(m) \in FlowDay /\ DayAt(Slot(m)) \in FlowDay /\ NoDay \notin FlowDay
<1>1. MaxMinute \in Nat /\ m \in Nat /\ m <= MaxMinute
  BY FlowAssumption DEF Minute
<1>2. Slot(m) \in Nat /\ Slot(m) <= m
  BY <1>1, SlotFacts
<1>3. DayAt(MaxMinute) \in Nat /\ DayAt(MaxMinute) <= MaxMinute
  BY <1>1, DayFacts
<1>4. DayAt(m) \in Nat /\ DayAt(m) <= DayAt(MaxMinute)
  BY <1>1, DayFacts
<1>5. DayAt(Slot(m)) \in Nat /\ DayAt(Slot(m)) <= DayAt(MaxMinute)
  BY <1>1, <1>2, DayFacts
<1>6. FlowDay = 0 .. DayAt(MaxMinute)
  BY DEF FlowDay, DayAt
<1> QED BY <1>1, <1>2, <1>3, <1>4, <1>5, <1>6 DEF Minute, NoDay

\* The end of a sequence that is not longer than n.
LEMMA NewestFacts ==
    ASSUME NEW S, NEW seq \in Seq(S), NEW n \in Nat \ {0}
    PROVE  /\ Newest(seq, n) \in Seq(S)
           /\ Len(Newest(seq, n)) = (IF Len(seq) > n THEN n ELSE Len(seq))
           /\ \A i \in 1 .. Len(Newest(seq, n)) : Newest(seq, n)[i] = seq[(Len(seq) - Len(Newest(seq, n))) + i]
<1>1. Len(seq) \in Nat /\ DOMAIN seq = 1 .. Len(seq)
  BY LenProperties
<1>2. PICK from : from = IF Len(seq) > n THEN Len(seq) - n + 1 ELSE 1
  OBVIOUS
<1>0. from \in Nat \ {0} /\ Len(seq) - from + 1 \in Nat /\ (from <= Len(seq) \/ Len(seq) - from + 1 = 0)
  BY <1>1, <1>2
<1>3. Newest(seq, n) = SubSeq(seq, from, Len(seq))
  BY <1>2 DEF Newest
<1>4. PICK sub : sub = SubSeq(seq, from, Len(seq))
  OBVIOUS
<1>5. \A i \in from .. Len(seq) : seq[i] \in S
  <2>1. \A i \in 1 .. Len(seq) : seq[i] \in S
    BY ElementOfSeq
  <2>2. \A i \in from .. Len(seq) : i \in 1 .. Len(seq)
    BY <1>0, <1>1
  <2> QED BY <2>1, <2>2
<1>6. from \in Int /\ Len(seq) \in Int
  BY <1>0, <1>1
<1>7. /\ SubSeq(seq, from, Len(seq)) \in Seq(S)
      /\ Len(SubSeq(seq, from, Len(seq))) = IF from <= Len(seq) THEN Len(seq) - from + 1 ELSE 0
      /\ \A i \in 1 .. Len(seq) - from + 1 : SubSeq(seq, from, Len(seq))[i] = seq[from + i - 1]
  BY <1>5, <1>6, SubSeqProperties
<1>8. sub \in Seq(S) /\ Len(sub) = Len(seq) - from + 1 /\ Len(sub) = (IF Len(seq) > n THEN n ELSE Len(seq))
  <2>1. sub \in Seq(S) /\ Len(sub) = IF from <= Len(seq) THEN Len(seq) - from + 1 ELSE 0
    BY <1>4, <1>7, Zenon
  <2>2. Len(sub) = Len(seq) - from + 1
    BY <1>0, <2>1
  <2>3. CASE Len(seq) > n
    <3>1. from = Len(seq) - n + 1
      BY <1>2, <2>3
    <3> QED BY <1>1, <2>1, <2>2, <2>3, <3>1
  <2>4. CASE ~(Len(seq) > n)
    <3>1. from = 1
      BY <1>2, <2>4
    <3> QED BY <1>1, <2>1, <2>2, <2>4, <3>1
  <2> QED BY <2>3, <2>4
<1>9. \A i \in 1 .. Len(sub) : sub[i] = seq[(Len(seq) - Len(sub)) + i]
  <2>1. \A i \in 1 .. Len(sub) : sub[i] = seq[from + i - 1]
    BY <1>0, <1>4, <1>7, <1>8
  <2>2. \A i \in 1 .. Len(sub) : from + i - 1 = (Len(seq) - Len(sub)) + i
    BY <1>0, <1>1, <1>2, <1>8
  <2> QED BY <2>1, <2>2
<1> QED BY <1>3, <1>4, <1>8, <1>9

LEMMA AppendFacts ==
    ASSUME NEW S, NEW seq \in Seq(S), NEW s \in S
    PROVE  /\ Append(seq, s) \in Seq(S) /\ Len(Append(seq, s)) = Len(seq) + 1
           /\ \A i \in 1 .. Len(seq) : Append(seq, s)[i] = seq[i]
           /\ Append(seq, s)[Len(seq) + 1] = s
OBVIOUS

LEMMA RangeOf ==
    ASSUME NEW S, NEW seq \in Seq(S)
    PROVE  Range(seq) \subseteq S /\ \A x : x \in Range(seq) <=> \E i \in 1 .. Len(seq) : x = seq[i]
<1>1. DOMAIN seq = 1 .. Len(seq)
  BY LenProperties
<1>2. \A i \in 1 .. Len(seq) : seq[i] \in S
  BY ElementOfSeq
<1> QED BY <1>1, <1>2 DEF Range

LEMMA NewestOnce ==
    ASSUME NEW S, NEW seq \in Seq(S), NEW n \in Nat \ {0}
    PROVE  /\ Range(Newest(seq, n)) \subseteq Range(seq)
           /\ OnceIn(seq) => OnceIn(Newest(seq, n))
<1> DEFINE r == Newest(seq, n)
<1>1. /\ r \in Seq(S) /\ Len(r) = (IF Len(seq) > n THEN n ELSE Len(seq))
      /\ \A i \in 1 .. Len(r) : r[i] = seq[(Len(seq) - Len(r)) + i]
  BY NewestFacts
<1> HIDE DEF r
<1>2. DOMAIN r = 1 .. Len(r) /\ DOMAIN seq = 1 .. Len(seq) /\ Len(r) \in Nat /\ Len(seq) \in Nat /\ Len(r) <= Len(seq)
  BY <1>1, LenProperties
<1>3. Range(r) \subseteq Range(seq)
  <2>1. \A i \in 1 .. Len(r) : (Len(seq) - Len(r)) + i \in 1 .. Len(seq)
    BY <1>2
  <2> QED BY <1>1, <1>2, <2>1 DEF Range
<1>4. ASSUME OnceIn(seq) PROVE OnceIn(r)
  <2> SUFFICES ASSUME NEW i \in 1 .. Len(r), NEW j \in 1 .. Len(r), i # j PROVE Apart(r[i], r[j])
    BY <1>2 DEF OnceIn
  <2>1. PICK k, l : k = (Len(seq) - Len(r)) + i /\ l = (Len(seq) - Len(r)) + j
    OBVIOUS
  <2>2. k \in 1 .. Len(seq) /\ l \in 1 .. Len(seq) /\ k # l
    BY <1>2, <2>1
  <2>3. r[i] = seq[k] /\ r[j] = seq[l]
    BY <1>1, <2>1
  <2> QED BY <1>2, <1>4, <2>2, <2>3 DEF OnceIn
<1> QED BY <1>3, <1>4 DEF r

LEMMA AppendOnce ==
    ASSUME NEW S, NEW seq \in Seq(S), NEW s \in S
    PROVE  /\ Range(Append(seq, s)) = Range(seq) \cup {s}
           /\ OnceIn(seq) /\ (\A t \in Range(seq) : Apart(t, s)) => OnceIn(Append(seq, s))
<1> DEFINE r == Append(seq, s)
<1>1. r \in Seq(S) /\ Len(r) = Len(seq) + 1 /\ (\A i \in 1 .. Len(seq) : r[i] = seq[i]) /\ r[Len(seq) + 1] = s
  BY AppendFacts
<1> HIDE DEF r
<1>2. DOMAIN r = 1 .. Len(seq) + 1 /\ DOMAIN seq = 1 .. Len(seq) /\ Len(seq) \in Nat
  BY <1>1, LenProperties
<1>3. Range(r) = Range(seq) \cup {s}
  <2>1. 1 .. Len(seq) + 1 = (1 .. Len(seq)) \cup {Len(seq) + 1}
    BY <1>2
  <2> QED BY <1>1, <1>2, <2>1 DEF Range
<1>4. ASSUME OnceIn(seq), \A t \in Range(seq) : Apart(t, s) PROVE OnceIn(r)
  <2> SUFFICES ASSUME NEW i \in DOMAIN r, NEW j \in DOMAIN r, i # j PROVE Apart(r[i], r[j])
    BY DEF OnceIn
  <2>1. \A k \in 1 .. Len(seq) : Apart(seq[k], s)
    BY <1>2, <1>4 DEF Range
  <2>2. CASE i \in 1 .. Len(seq) /\ j \in 1 .. Len(seq)
    BY <1>1, <1>2, <1>4, <2>2 DEF OnceIn
  <2>3. CASE i = Len(seq) + 1
    <3>1. j \in 1 .. Len(seq)
      BY <1>2, <2>3
    <3> QED BY <1>1, <2>1, <2>3, <3>1 DEF Apart
  <2>4. CASE j = Len(seq) + 1
    <3>1. i \in 1 .. Len(seq)
      BY <1>2, <2>4
    <3> QED BY <1>1, <2>1, <2>4, <3>1
  <2> QED BY <1>2, <2>2, <2>3, <2>4
<1> QED BY <1>3, <1>4 DEF r

LEMMA ConcatOnce ==
    ASSUME NEW S, NEW a \in Seq(S), NEW b \in Seq(S)
    PROVE  /\ a \o b \in Seq(S) /\ Range(a \o b) = Range(a) \cup Range(b)
           /\ OnceIn(a) /\ OnceIn(b) /\ OnceBetween(a, b) => OnceIn(a \o b)
<1>1. PICK r : r = a \o b
  OBVIOUS
<1>2. /\ r \in Seq(S) /\ Len(r) = Len(a) + Len(b)
      /\ \A i \in 1 .. Len(a) + Len(b) : r[i] = IF i <= Len(a) THEN a[i] ELSE b[i - Len(a)]
  BY <1>1, ConcatProperties, Zenon
<1>3. /\ DOMAIN r = 1 .. Len(a) + Len(b) /\ DOMAIN a = 1 .. Len(a) /\ DOMAIN b = 1 .. Len(b)
      /\ Len(a) \in Nat /\ Len(b) \in Nat
  BY <1>2, LenProperties
<1>4. /\ \A i \in 1 .. Len(a) : i \in DOMAIN r /\ r[i] = a[i]
      /\ \A i \in 1 .. Len(b) : i + Len(a) \in DOMAIN r /\ r[i + Len(a)] = b[i]
      /\ \A i \in DOMAIN r : i \in 1 .. Len(a) \/ \E j \in 1 .. Len(b) : i = j + Len(a)
  <2>1. \A i \in 1 .. Len(a) : i \in DOMAIN r /\ r[i] = a[i]
    BY <1>2, <1>3
  <2>2. ASSUME NEW i \in 1 .. Len(b) PROVE i + Len(a) \in DOMAIN r /\ r[i + Len(a)] = b[i]
    <3>1. i + Len(a) \in 1 .. Len(a) + Len(b) /\ ~(i + Len(a) <= Len(a)) /\ (i + Len(a)) - Len(a) = i
      BY <1>3
    <3> QED BY <1>2, <1>3, <3>1
  <2>3. ASSUME NEW i \in DOMAIN r, i \notin 1 .. Len(a) PROVE \E j \in 1 .. Len(b) : i = j + Len(a)
    <3>1. i - Len(a) \in 1 .. Len(b) /\ i = (i - Len(a)) + Len(a)
      BY <1>3, <2>3
    <3> QED BY <3>1
  <2> QED BY <2>1, <2>2, <2>3
<1>5. Range(r) = Range(a) \cup Range(b)
  <2>1. ASSUME NEW x \in Range(r) PROVE x \in Range(a) \cup Range(b)
    <3>1. PICK i \in DOMAIN r : x = r[i]
      BY DEF Range
    <3>2. CASE i \in 1 .. Len(a)
      BY <1>3, <1>4, <3>1, <3>2 DEF Range
    <3>3. CASE i \notin 1 .. Len(a)
      <4>1. PICK j \in 1 .. Len(b) : i = j + Len(a)
        BY <1>4, <3>3
      <4> QED BY <1>3, <1>4, <3>1, <4>1 DEF Range
    <3> QED BY <3>2, <3>3
  <2>2. \A i \in DOMAIN a : a[i] \in Range(r)
    BY <1>3, <1>4 DEF Range
  <2>3. \A i \in DOMAIN b : b[i] \in Range(r)
    BY <1>3, <1>4 DEF Range
  <2> QED BY <2>1, <2>2, <2>3 DEF Range
<1>6. ASSUME OnceIn(a), OnceIn(b), OnceBetween(a, b) PROVE OnceIn(r)
  <2> SUFFICES ASSUME NEW i \in DOMAIN r, NEW j \in DOMAIN r, i # j PROVE Apart(r[i], r[j])
    BY DEF OnceIn
  <2>1. CASE i \in 1 .. Len(a) /\ j \in 1 .. Len(a)
    BY <1>3, <1>4, <1>6, <2>1 DEF OnceIn
  <2>2. CASE i \in 1 .. Len(a) /\ j \notin 1 .. Len(a)
    <3>1. PICK l \in 1 .. Len(b) : j = l + Len(a)
      BY <1>4, <2>2
    <3> QED BY <1>3, <1>4, <1>6, <2>2, <3>1, SMTT(30) DEF OnceBetween, Range
  <2>3. CASE i \notin 1 .. Len(a) /\ j \in 1 .. Len(a)
    <3>1. PICK l \in 1 .. Len(b) : i = l + Len(a)
      BY <1>4, <2>3
    <3>2. Apart(r[j], r[i])
      BY <1>3, <1>4, <1>6, <2>3, <3>1, ZenonT(30) DEF OnceBetween, Range
    <3> QED BY <3>2 DEF Apart
  <2>4. CASE i \notin 1 .. Len(a) /\ j \notin 1 .. Len(a)
    <3>1. PICK k \in 1 .. Len(b) : i = k + Len(a)
      BY <1>4, <2>4
    <3>2. PICK l \in 1 .. Len(b) : j = l + Len(a)
      BY <1>4, <2>4
    <3> QED BY <1>3, <1>4, <1>6, <3>1, <3>2 DEF OnceIn
  <2> QED BY <2>1, <2>2, <2>3, <2>4
<1> QED BY <1>1, <1>2, <1>5, <1>6

LEMMA OpenFacts ==
    ASSUME FlowTypes, cur # <<>>
    PROVE  /\ cur = <<cur[1]>> /\ DOMAIN cur = {1} /\ cur[1] \in Summaries(1) /\ All(cur) = cur[1].flows
           /\ cur[1].ts \in Minute /\ cur[1].ts \in Nat /\ cur[1].flows \subseteq Records
<1>1. PICK s \in Summaries(1) : cur = <<s>>
  BY DEF FlowTypes
<1>2. cur = <<cur[1]>> /\ cur[1] = s /\ DOMAIN cur = {1}
  BY <1>1
<1>3. All(cur) = cur[1].flows
  BY <1>2 DEF All
<1> QED BY <1>1, <1>2, <1>3 DEF Summaries, Minute

\* The ring after the open minute has joined it: k minutes have left it.
LEMMA RolledFacts ==
    ASSUME FlowTypes, cur # <<>>
    PROVE  /\ Rolled1 \in Seq(Summaries(1)) /\ Len(Rolled1) <= MinuteRing
           /\ \E k \in {0, 1} :
                 /\ Len(Rolled1) = Len(minutes) + 1 - k /\ (k = 1 => Len(minutes) = MinuteRing)
                 /\ \A i \in 1 .. Len(minutes) - k : Rolled1[i] = minutes[i + k]
                 /\ Rolled1[Len(minutes) + 1 - k] = cur[1]
<1>1. MinuteRing \in Nat \ {0} /\ minutes \in Seq(Summaries(1)) /\ cur[1] \in Summaries(1) /\ Len(minutes) <= MinuteRing
  BY OpenFacts, FlowAssumption DEF FlowTypes
<1>2. PICK a : a = Append(minutes, cur[1])
  OBVIOUS
<1>3. /\ a \in Seq(Summaries(1)) /\ Len(a) = Len(minutes) + 1
      /\ (\A i \in 1 .. Len(minutes) : a[i] = minutes[i]) /\ a[Len(minutes) + 1] = cur[1]
  BY <1>1, <1>2, AppendFacts
<1>4. PICK r : r = Newest(a, MinuteRing)
  OBVIOUS
<1>5. /\ r \in Seq(Summaries(1)) /\ Len(r) = (IF Len(a) > MinuteRing THEN MinuteRing ELSE Len(a))
      /\ \A i \in 1 .. Len(r) : r[i] = a[(Len(a) - Len(r)) + i]
  <2>1. PICK S : S = Summaries(1)
    OBVIOUS
  <2>2. a \in Seq(S) /\ MinuteRing \in Nat \ {0}
    BY <1>1, <1>3, <2>1
  <2>3. /\ Newest(a, MinuteRing) \in Seq(S)
        /\ Len(Newest(a, MinuteRing)) = (IF Len(a) > MinuteRing THEN MinuteRing ELSE Len(a))
        /\ \A i \in 1 .. Len(Newest(a, MinuteRing)) :
              Newest(a, MinuteRing)[i] = a[(Len(a) - Len(Newest(a, MinuteRing))) + i]
    BY <2>2, NewestFacts
  <2> QED BY <1>4, <2>1, <2>3, Zenon
<1>6. Len(minutes) \in Nat
  BY <1>1, LenProperties
<1>7. PICK k : k = IF Len(minutes) = MinuteRing THEN 1 ELSE 0
  OBVIOUS
<1>8. k \in {0, 1} /\ Len(r) = Len(minutes) + 1 - k /\ Len(a) - Len(r) = k /\ (k = 1 => Len(minutes) = MinuteRing)
      /\ Len(r) <= MinuteRing
  <2>1. CASE Len(minutes) = MinuteRing
    <3>1. k = 1 /\ Len(a) > MinuteRing
      BY <1>1, <1>3, <1>7, <2>1
    <3>2. Len(r) = MinuteRing
      BY <1>5, <3>1
    <3> QED BY <1>1, <1>3, <1>6, <2>1, <3>1, <3>2
  <2>2. CASE Len(minutes) # MinuteRing
    <3>1. k = 0 /\ ~(Len(a) > MinuteRing)
      BY <1>1, <1>3, <1>6, <1>7, <2>2
    <3>2. Len(r) = Len(a)
      BY <1>5, <3>1
    <3> QED BY <1>1, <1>3, <1>6, <2>2, <3>1, <3>2
  <2> QED BY <2>1, <2>2
<1>9. \A i \in 1 .. Len(minutes) - k : r[i] = minutes[i + k]
  <2> SUFFICES ASSUME NEW i \in 1 .. Len(minutes) - k PROVE r[i] = minutes[i + k]
    OBVIOUS
  <2>1. i \in 1 .. Len(r) /\ i + k \in 1 .. Len(minutes) /\ (Len(a) - Len(r)) + i = i + k
    BY <1>6, <1>8
  <2> QED BY <1>3, <1>5, <2>1
<1>10. r[Len(minutes) + 1 - k] = cur[1]
  <2>1. Len(minutes) + 1 - k \in 1 .. Len(r)
    BY <1>1, <1>6, <1>8
  <2>2. r[Len(minutes) + 1 - k] = a[(Len(a) - Len(r)) + (Len(minutes) + 1 - k)]
    BY <1>5, <2>1
  <2>3. (Len(a) - Len(r)) + (Len(minutes) + 1 - k) = Len(minutes) + 1
    BY <1>6, <1>8
  <2> QED BY <1>3, <2>2, <2>3
<1>11. Rolled1 = r
  BY <1>2, <1>4 DEF Rolled1
<1> QED BY <1>5, <1>8, <1>9, <1>10, <1>11

\* What the ring holds after a roll was in it or is the minute that was open.
LEMMA RolledHolds ==
    ASSUME FlowTypes, cur # <<>>
    PROVE  \A i \in DOMAIN Rolled1 : Rolled1[i] = cur[1] \/ \E j \in DOMAIN minutes : Rolled1[i] = minutes[j]
<1>1. Rolled1 \in Seq(Summaries(1)) /\ minutes \in Seq(Summaries(1))
  BY RolledFacts DEF FlowTypes
<1>2. PICK k \in {0, 1} :
          /\ Len(Rolled1) = Len(minutes) + 1 - k
          /\ \A i \in 1 .. Len(minutes) - k : Rolled1[i] = minutes[i + k]
          /\ Rolled1[Len(minutes) + 1 - k] = cur[1]
  BY RolledFacts
<1>3. DOMAIN Rolled1 = 1 .. Len(Rolled1) /\ DOMAIN minutes = 1 .. Len(minutes) /\ Len(minutes) \in Nat
  BY <1>1, LenProperties
<1> SUFFICES ASSUME NEW i \in DOMAIN Rolled1, Rolled1[i] # cur[1] PROVE \E j \in DOMAIN minutes : Rolled1[i] = minutes[j]
  OBVIOUS
<1>4. i \in 1 .. Len(minutes) - k /\ i + k \in DOMAIN minutes
  BY <1>2, <1>3
<1> QED BY <1>2, <1>4

LEMMA FoldedFacts ==
    ASSUME FlowTypes, cur # <<>>
    PROVE  /\ Folded(cur[1].ts) \in Summaries(SlotMinutes) /\ Folded(cur[1].ts).ts = Slot(cur[1].ts)
           /\ \A f \in Folded(cur[1].ts).flows :
                 f \in cur[1].flows \/ \E j \in DOMAIN minutes : f \in minutes[j].flows /\ Slot(minutes[j].ts) = Slot(cur[1].ts)
           /\ \A i \in DOMAIN Rolled1 : \A f \in Records :
                 f \in Rolled1[i].flows /\ Slot(Rolled1[i].ts) = Slot(cur[1].ts) => f \in Folded(cur[1].ts).flows
<1>1. PICK ts : ts = cur[1].ts
  OBVIOUS
<1>2. Slot(ts) \in Minute /\ Rolled1 \in Seq(Summaries(1))
  BY <1>1, OpenFacts, MinuteFacts, RolledFacts
<1>3. PICK same : same = {j \in DOMAIN Rolled1 : Slot(Rolled1[j].ts) = Slot(ts)}
  OBVIOUS
<1>4. PICK fs : fs = UNION {Rolled1[i].flows : i \in same}
  OBVIOUS
<1>5. Folded(ts) = [ts |-> Slot(ts), span |-> SlotMinutes, flows |-> fs]
  BY <1>3, <1>4 DEF Folded, Summary
<1>6. \A i \in DOMAIN Rolled1 : Rolled1[i].flows \subseteq Records
  <2>1. \A i \in DOMAIN Rolled1 : Rolled1[i] \in Summaries(1)
    BY <1>2, LenProperties, ElementOfSeq
  <2> QED BY <2>1 DEF Summaries
<1>7. fs \subseteq Records
  BY <1>3, <1>4, <1>6
<1>8. Folded(ts) \in Summaries(SlotMinutes) /\ Folded(ts).ts = Slot(ts) /\ Folded(ts).flows = fs
  BY <1>2, <1>5, <1>7 DEF Summaries
<1>9. ASSUME NEW f \in fs PROVE f \in cur[1].flows \/ \E j \in DOMAIN minutes : f \in minutes[j].flows /\ Slot(minutes[j].ts) = Slot(ts)
  <2>1. PICK i \in same : f \in Rolled1[i].flows
    BY <1>4
  <2>2. i \in DOMAIN Rolled1 /\ Slot(Rolled1[i].ts) = Slot(ts)
    BY <1>3
  <2>3. Rolled1[i] = cur[1] \/ \E j \in DOMAIN minutes : Rolled1[i] = minutes[j]
    BY <2>2, RolledHolds
  <2> QED BY <2>1, <2>2, <2>3
<1>10. \A i \in DOMAIN Rolled1 : \A f \in Records : f \in Rolled1[i].flows /\ Slot(Rolled1[i].ts) = Slot(ts) => f \in fs
  BY <1>3, <1>4
<1> QED BY <1>1, <1>8, <1>9, <1>10

\* The files with the buffered lines: nothing but what was stored, and each day as much apart as it was.
LEMMA WrittenFacts ==
    ASSUME FlowTypes
    PROVE  /\ DOMAIN WrittenOut = DOMAIN dayFile
           /\ \A d \in DOMAIN dayFile :
                 /\ WrittenOut[d] \in Seq(Summaries(SlotMinutes))
                 /\ Range(WrittenOut[d]) \subseteq Range(dayFile[d]) \cup (IF d = openDay THEN Range(buffer) ELSE {})
                 /\ OnceIn(dayFile[d]) /\ OnceIn(buffer) /\ OnceBetween(buffer, dayFile[d]) => OnceIn(WrittenOut[d])
<1>1. PICK S : S = Summaries(SlotMinutes)
  OBVIOUS
<1>2. buffer \in Seq(S) /\ \A d \in DOMAIN dayFile : dayFile[d] \in Seq(S)
  BY <1>1 DEF FlowTypes
<1>3. DOMAIN WrittenOut = DOMAIN dayFile
  BY DEF WrittenOut
<1>4. ASSUME NEW d \in DOMAIN dayFile
      PROVE  /\ WrittenOut[d] \in Seq(S)
             /\ Range(WrittenOut[d]) \subseteq Range(dayFile[d]) \cup (IF d = openDay THEN Range(buffer) ELSE {})
             /\ OnceIn(dayFile[d]) /\ OnceIn(buffer) /\ OnceBetween(buffer, dayFile[d]) => OnceIn(WrittenOut[d])
  <2>1. CASE d = openDay
    <3>1. WrittenOut[d] = dayFile[d] \o buffer
      BY <2>1 DEF WrittenOut
    <3>2. PICK a : a = dayFile[d]
      OBVIOUS
    <3>3. a \in Seq(S)
      BY <1>2, <3>2
    <3>4. /\ a \o buffer \in Seq(S) /\ Range(a \o buffer) = Range(a) \cup Range(buffer)
          /\ OnceIn(a) /\ OnceIn(buffer) /\ OnceBetween(a, buffer) => OnceIn(a \o buffer)
      BY <1>2, <3>3, ConcatOnce
    <3>5. OnceBetween(buffer, a) => OnceBetween(a, buffer)
      BY DEF OnceBetween, Apart
    <3> QED BY <2>1, <3>1, <3>2, <3>4, <3>5
  <2>2. CASE d # openDay
    <3>1. WrittenOut[d] = dayFile[d] \o <<>>
      BY <2>2 DEF WrittenOut
    <3>2. WrittenOut[d] = dayFile[d]
      BY <1>2, <3>1, ConcatEmptySeq
    <3> QED BY <1>2, <3>2
  <2> QED BY <2>1, <2>2
<1> QED BY <1>1, <1>3, <1>4

\* A roll of the open minute, by the records of another one or by the tick.
LEMMA PersistTypes ==
    ASSUME FlowTypes, NEW s \in Summaries(SlotMinutes), PersistLocked(s)
    PROVE  /\ DOMAIN dayFile' \subseteq FlowDay /\ \A d \in DOMAIN dayFile' : dayFile'[d] \in Seq(Summaries(SlotMinutes))
           /\ openDay' \in FlowDay \cup {NoDay} /\ buffer' \in Seq(Summaries(SlotMinutes))
           /\ zips' \subseteq [left : SUBSET FlowDay, renamed : FlowDay \cup {NoDay}]
<1>1. PICK S : S = Summaries(SlotMinutes)
  OBVIOUS
<1>2. /\ buffer \in Seq(S) /\ DOMAIN dayFile \subseteq FlowDay /\ (\A d \in DOMAIN dayFile : dayFile[d] \in Seq(S))
      /\ openDay \in FlowDay \cup {NoDay} /\ zips \subseteq [left : SUBSET FlowDay, renamed : FlowDay \cup {NoDay}] /\ s \in S
  BY <1>1 DEF FlowTypes
<1>3. DayAt(s.ts) \in FlowDay
  BY MinuteFacts DEF Summaries
<1>4. CASE openDay = DayAt(s.ts)
  <2>1. buffer' = Append(buffer, s) /\ UNCHANGED <<dayFile, openDay, zips>>
    BY <1>4 DEF PersistLocked
  <2>2. buffer' \in Seq(S)
    BY <1>2, <2>1, AppendFacts
  <2> QED BY <1>1, <1>2, <2>1, <2>2
<1>5. CASE openDay # DayAt(s.ts)
  <2>1. PICK d : d = DayAt(s.ts)
    OBVIOUS
  <2>2. /\ dayFile' = [x \in DOMAIN dayFile \cup {d} |-> IF x \in DOMAIN dayFile THEN WrittenOut[x] ELSE <<>>]
        /\ buffer' = <<s>> /\ openDay' = d /\ zips' = zips \cup {[left |-> DOMAIN dayFile \ {d}, renamed |-> NoDay]}
    BY <1>5, <2>1 DEF PersistLocked
  <2>3. \A x \in DOMAIN dayFile : WrittenOut[x] \in Seq(S)
    BY <1>1, WrittenFacts
  <2>4. <<>> \in Seq(S) /\ <<s>> \in Seq(S)
    BY <1>2
  <2>5. DOMAIN dayFile' = DOMAIN dayFile \cup {d} /\ \A x \in DOMAIN dayFile' : dayFile'[x] \in Seq(S)
    BY <2>2, <2>3, <2>4
  <2>6. [left |-> DOMAIN dayFile \ {d}, renamed |-> NoDay] \in [left : SUBSET FlowDay, renamed : FlowDay \cup {NoDay}]
    BY <1>2
  <2> QED BY <1>1, <1>2, <1>3, <2>1, <2>2, <2>4, <2>5, <2>6
<1> QED BY <1>4, <1>5

LEMMA RollTypes ==
    ASSUME FlowTypes, cur # <<>>, NEW next \in Minute, NEW flows \in SUBSET Records, RollLocked(next, flows)
    PROVE  /\ cur' \in {<<>>} \cup {<<s>> : s \in Summaries(1)}
           /\ minutes' \in Seq(Summaries(1)) /\ Len(minutes') <= MinuteRing
           /\ fives' \in Seq(Summaries(SlotMinutes)) /\ Len(fives') <= FiveRing
           /\ DOMAIN dayFile' \subseteq FlowDay /\ \A d \in DOMAIN dayFile' : dayFile'[d] \in Seq(Summaries(SlotMinutes))
           /\ openDay' \in FlowDay \cup {NoDay} /\ buffer' \in Seq(Summaries(SlotMinutes))
           /\ zips' \subseteq [left : SUBSET FlowDay, renamed : FlowDay \cup {NoDay}]
<1>1. PICK s : s = Folded(cur[1].ts)
  OBVIOUS
<1>2. s \in Summaries(SlotMinutes)
  BY <1>1, FoldedFacts
<1>3. minutes' = Rolled1 /\ cur' = <<Summary(next, 1, flows)>>
  BY DEF RollLocked
<1>4. minutes' \in Seq(Summaries(1)) /\ Len(minutes') <= MinuteRing
  BY <1>3, RolledFacts
<1>5. Summary(next, 1, flows) \in Summaries(1)
  BY DEF Summary, Summaries
<1>6. CASE SlotOver(cur[1].ts, next)
  <2>1. fives' = Newest(Append(fives, s), FiveRing) /\ PersistLocked(s)
    BY <1>1, <1>6 DEF RollLocked
  <2>2. PICK S : S = Summaries(SlotMinutes)
    OBVIOUS
  <2>3. fives \in Seq(S) /\ s \in S /\ FiveRing \in Nat \ {0}
    BY <1>2, <2>2, FlowAssumption DEF FlowTypes
  <2>4. Append(fives, s) \in Seq(S)
    BY <2>3, AppendFacts
  <2>5. PICK a : a = Append(fives, s)
    OBVIOUS
  <2>6. a \in Seq(S)
    BY <2>4, <2>5
  <2>7. Newest(a, FiveRing) \in Seq(S) /\ Len(Newest(a, FiveRing)) = (IF Len(a) > FiveRing THEN FiveRing ELSE Len(a))
    BY <2>3, <2>6, NewestFacts
  <2>8. fives' \in Seq(S) /\ Len(fives') <= FiveRing
    <3>1. Len(a) \in Nat
      BY <2>6, LenProperties
    <3>2. fives' = Newest(a, FiveRing)
      BY <2>1, <2>5
    <3> QED BY <2>3, <2>7, <3>1, <3>2
  <2> QED BY <1>2, <1>3, <1>4, <1>5, <2>1, <2>2, <2>8, PersistTypes
<1>7. CASE ~SlotOver(cur[1].ts, next)
  <2>1. UNCHANGED <<fives, dayFile, buffer, openDay, zips>>
    BY <1>7 DEF RollLocked
  <2> QED BY <1>3, <1>4, <1>5, <2>1 DEF FlowTypes
<1> QED BY <1>6, <1>7

\* The lines of a day's files; a day in one form only has each record once.
LEMMA LinesFacts ==
    ASSUME FlowTypes, NEW d
    PROVE  /\ Lines(d) \in Seq(Summaries(SlotMinutes))
           /\ Range(Lines(d)) = (IF d \in DOMAIN dayFile THEN Range(dayFile[d]) ELSE {})
                                    \cup (IF d \in DOMAIN gz THEN Range(gz[d]) ELSE {})
           /\ StoredOnce /\ (d \notin DOMAIN dayFile \/ d \notin DOMAIN gz) => OnceIn(Lines(d))
<1>1. PICK S : S = Summaries(SlotMinutes)
  OBVIOUS
<1>2. PICK a : a = IF d \in DOMAIN dayFile THEN dayFile[d] ELSE <<>>
  OBVIOUS
<1>3. PICK b : b = IF d \in DOMAIN gz THEN gz[d] ELSE <<>>
  OBVIOUS
<1>4. <<>> \in Seq(S) /\ Range(<<>>) = {} /\ OnceIn(<<>>)
  BY DEF Range, OnceIn
<1>5. a \in Seq(S) /\ b \in Seq(S)
  BY <1>1, <1>2, <1>3, <1>4 DEF FlowTypes
<1>6. Lines(d) = a \o b
  BY <1>2, <1>3 DEF Lines
<1>7. /\ a \o b \in Seq(S) /\ Range(a \o b) = Range(a) \cup Range(b)
      /\ OnceIn(a) /\ OnceIn(b) /\ OnceBetween(a, b) => OnceIn(a \o b)
  BY <1>5, ConcatOnce
<1>8. /\ Range(a) = (IF d \in DOMAIN dayFile THEN Range(dayFile[d]) ELSE {})
      /\ Range(b) = (IF d \in DOMAIN gz THEN Range(gz[d]) ELSE {})
  BY <1>2, <1>3, <1>4
<1>9. ASSUME StoredOnce, d \notin DOMAIN dayFile \/ d \notin DOMAIN gz PROVE OnceIn(Lines(d))
  <2>1. OnceIn(a) /\ OnceIn(b)
    BY <1>2, <1>3, <1>4, <1>9 DEF StoredOnce
  <2>2. Range(a) = {} \/ Range(b) = {}
    BY <1>8, <1>9
  <2>3. OnceBetween(a, b)
    BY <2>2 DEF OnceBetween
  <2> QED BY <1>6, <1>7, <2>1, <2>3
<1> QED BY <1>1, <1>6, <1>7, <1>8, <1>9

LEMMA StoredHolds ==
    /\ \A s : s \in InFiles <=> \E d \in DOMAIN dayFile : s \in Range(dayFile[d])
    /\ \A s : s \in InPacks <=> \E d \in DOMAIN gz : s \in Range(gz[d])
    /\ \A s : s \in Stored <=> (s \in Range(fives) \/ s \in Range(buffer) \/ s \in InFiles \/ s \in InPacks)
<1>1. \A s : s \in InFiles <=> \E d \in DOMAIN dayFile : s \in Range(dayFile[d])
  BY DEF InFiles
<1>2. \A s : s \in InPacks <=> \E d \in DOMAIN gz : s \in Range(gz[d])
  BY DEF InPacks
<1>3. \A s : s \in Stored <=> (s \in Range(fives) \/ s \in Range(buffer) \/ s \in InFiles \/ s \in InPacks)
  BY DEF Stored
<1> QED BY <1>1, <1>2, <1>3

LEMMA OnDiskFacts ==
    ASSUME FlowTypes
    PROVE  /\ OnDisk \in Seq(Summaries(SlotMinutes))
           /\ Range(OnDisk) \subseteq InFiles \cup InPacks
           /\ StoredOnce /\ DOMAIN dayFile \cap DOMAIN gz = {} => OnceIn(OnDisk)
<1>1. PICK S : S = Summaries(SlotMinutes)
  OBVIOUS
<1>2. PICK e : e = DayAt(minute)
  OBVIOUS
<1>3. PICK a : a = IF e > 0 THEN Lines(e - 1) ELSE <<>>
  OBVIOUS
<1>4. PICK b : b = Lines(e)
  OBVIOUS
<1>5. <<>> \in Seq(S) /\ Range(<<>>) = {} /\ OnceIn(<<>>)
  BY DEF Range, OnceIn
<1>6. a \in Seq(S) /\ b \in Seq(S)
  BY <1>1, <1>3, <1>4, <1>5, LinesFacts
<1>7. OnDisk = a \o b
  BY <1>2, <1>3, <1>4 DEF OnDisk
<1>8. /\ a \o b \in Seq(S) /\ Range(a \o b) = Range(a) \cup Range(b)
      /\ OnceIn(a) /\ OnceIn(b) /\ OnceBetween(a, b) => OnceIn(a \o b)
  BY <1>6, ConcatOnce
<1>9. PICK disk : disk = InFiles \cup InPacks
  OBVIOUS
<1>10. \A d : Range(Lines(d)) \subseteq disk
  <2> SUFFICES ASSUME NEW d PROVE Range(Lines(d)) \subseteq disk
    OBVIOUS
  <2>1. Range(Lines(d)) = (IF d \in DOMAIN dayFile THEN Range(dayFile[d]) ELSE {}) \cup (IF d \in DOMAIN gz THEN Range(gz[d]) ELSE {})
    BY LinesFacts
  <2> QED BY <1>9, <2>1, StoredHolds
<1>11. Range(a) \subseteq disk /\ Range(b) \subseteq disk
  BY <1>3, <1>4, <1>5, <1>10
<1>12. ASSUME StoredOnce, DOMAIN dayFile \cap DOMAIN gz = {} PROVE OnceIn(OnDisk)
  <2>1. OnceIn(a) /\ OnceIn(b)
    BY <1>3, <1>4, <1>5, <1>12, LinesFacts
  <2>2. OnceBetween(a, b)
    <3>1. CASE e > 0
      <4>1. PICK c : c = e - 1
        OBVIOUS
      <4>2. e \in Nat /\ c # e
        <5>1. minute \in Minute
          BY DEF FlowTypes
        <5>2. minute \in Nat
          BY <5>1, MinuteFacts
        <5>3. DayAt(minute) \in Nat
          BY <5>2, DayFacts
        <5> QED BY <1>2, <4>1, <5>3
      <4>3. SUFFICES ASSUME NEW s \in Range(a), NEW t \in Range(b) PROVE Apart(s, t)
        BY DEF OnceBetween
      <4>4. \/ c \in DOMAIN dayFile /\ s \in Range(dayFile[c])
            \/ c \in DOMAIN gz /\ s \in Range(gz[c])
        <5>1. Range(Lines(c)) = (IF c \in DOMAIN dayFile THEN Range(dayFile[c]) ELSE {}) \cup (IF c \in DOMAIN gz THEN Range(gz[c]) ELSE {})
          BY LinesFacts
        <5> QED BY <1>3, <3>1, <4>1, <4>3, <5>1
      <4>5. \/ e \in DOMAIN dayFile /\ t \in Range(dayFile[e])
            \/ e \in DOMAIN gz /\ t \in Range(gz[e])
        <5>1. Range(Lines(e)) = (IF e \in DOMAIN dayFile THEN Range(dayFile[e]) ELSE {}) \cup (IF e \in DOMAIN gz THEN Range(gz[e]) ELSE {})
          BY LinesFacts
        <5> QED BY <1>4, <4>3, <5>1
      <4>6. /\ \A x, y \in DOMAIN dayFile : x # y => OnceBetween(dayFile[x], dayFile[y])
            /\ \A x, y \in DOMAIN gz : x # y => OnceBetween(gz[x], gz[y])
            /\ \A x \in DOMAIN dayFile, y \in DOMAIN gz : x # y => OnceBetween(dayFile[x], gz[y])
        BY <1>12 DEF StoredOnce
      <4>7. Apart(s, t) \/ Apart(t, s)
        BY <4>2, <4>4, <4>5, <4>6 DEF OnceBetween
      <4> QED BY <4>7 DEF Apart
    <3>2. CASE ~(e > 0)
      BY <1>3, <1>5, <3>2 DEF OnceBetween
    <3> QED BY <3>1, <3>2
  <2> QED BY <1>7, <1>8, <2>1, <2>2
<1> QED BY <1>1, <1>7, <1>8, <1>9, <1>11, <1>12

\* What the next process keeps of the two days' files.
LEMMA ReloadFacts ==
    ASSUME FlowTypes, Reload
    PROVE  /\ fives' \in Seq(Summaries(SlotMinutes)) /\ Len(fives') <= FiveRing
           /\ Range(fives') \subseteq Range(OnDisk) /\ (OnceIn(OnDisk) => OnceIn(fives'))
<1>1. PICK S : S = Summaries(SlotMinutes)
  OBVIOUS
<1>2. PICK q : q = OnDisk
  OBVIOUS
<1>3. q \in Seq(S) /\ DOMAIN q = 1 .. Len(q) /\ Len(q) \in Nat
  BY <1>1, <1>2, OnDiskFacts, LenProperties
<1>4. PICK places : places = Since(q, minute - DayMinutes)
  OBVIOUS
<1>5. PICK n : n = Cardinality(places)
  OBVIOUS
<1>6. n \in Nat
  <2>1. places \subseteq 1 .. Len(q)
    BY <1>3, <1>4 DEF Since
  <2>2. IsFiniteSet(1 .. Len(q))
    BY <1>3, FS_Interval
  <2> QED BY <1>5, <2>1, <2>2, FS_Subset, FS_CardinalityType
<1>7. PICK order \in [1 .. n -> DOMAIN q] :
          InOrder(order, places) /\ fives' = Newest([i \in DOMAIN order |-> q[order[i]]], FiveRing)
  BY <1>2, <1>4, <1>5 DEF Reload
<1>8. PICK r : r = [i \in DOMAIN order |-> q[order[i]]]
  OBVIOUS
<1>9. DOMAIN order = 1 .. n /\ \A i \in 1 .. n : order[i] \in DOMAIN q /\ q[order[i]] \in S
  <2>1. \A i \in DOMAIN q : q[i] \in S
    BY <1>3, ElementOfSeq
  <2> QED BY <2>1
<1>10. r \in Seq(S) /\ DOMAIN r = 1 .. n /\ \A i \in 1 .. n : r[i] = q[order[i]]
  BY <1>6, <1>8, <1>9
<1>11. Range(r) \subseteq Range(q)
  BY <1>9, <1>10 DEF Range
<1>12. ASSUME OnceIn(q) PROVE OnceIn(r)
  <2> SUFFICES ASSUME NEW i \in 1 .. n, NEW j \in 1 .. n, i # j PROVE Apart(r[i], r[j])
    BY <1>10 DEF OnceIn
  <2>0. \A k, l \in 1 .. n : k < l => order[k] < order[l]
    BY <1>7, <1>9 DEF InOrder
  <2>1. order[i] # order[j]
    <3>1. order[i] \in Nat /\ order[j] \in Nat
      BY <1>3, <1>9
    <3>2. CASE i < j
      <4>1. order[i] < order[j]
        BY <2>0, <3>2
      <4> QED BY <3>1, <4>1
    <3>3. CASE j < i
      <4>1. order[j] < order[i]
        BY <2>0, <3>3
      <4> QED BY <3>1, <4>1
    <3> QED BY <3>2, <3>3
  <2> QED BY <1>9, <1>10, <1>12, <2>1 DEF OnceIn
<1>13. FiveRing \in Nat \ {0} /\ fives' = Newest(r, FiveRing)
  BY <1>7, <1>8, FlowAssumption
<1>14. /\ Newest(r, FiveRing) \in Seq(S) /\ Len(Newest(r, FiveRing)) = (IF Len(r) > FiveRing THEN FiveRing ELSE Len(r))
       /\ Range(Newest(r, FiveRing)) \subseteq Range(r) /\ (OnceIn(r) => OnceIn(Newest(r, FiveRing)))
  <2>1. Newest(r, FiveRing) \in Seq(S) /\ Len(Newest(r, FiveRing)) = (IF Len(r) > FiveRing THEN FiveRing ELSE Len(r))
    BY <1>10, <1>13, NewestFacts
  <2>2. Range(Newest(r, FiveRing)) \subseteq Range(r) /\ (OnceIn(r) => OnceIn(Newest(r, FiveRing)))
    BY <1>10, <1>13, NewestOnce
  <2> QED BY <2>1, <2>2
<1>15. Len(fives') <= FiveRing
  <2>1. Len(r) \in Nat
    BY <1>10, LenProperties
  <2> QED BY <1>13, <1>14, <2>1
<1> QED BY <1>1, <1>2, <1>11, <1>12, <1>13, <1>14, <1>15

LEMMA FlowInitTypes == FlowInit => FlowTypes /\ DownIsEmpty
<1> SUFFICES ASSUME FlowInit PROVE FlowTypes /\ DownIsEmpty
  OBVIOUS
<1>1. {MaxMinute, FiveRing, MinuteRing} \subseteq Nat /\ MaxFlows \in Nat
  BY FlowAssumption
<1>2. minutes \in Seq(Summaries(1)) /\ fives \in Seq(Summaries(SlotMinutes)) /\ buffer \in Seq(Summaries(SlotMinutes))
      /\ Len(minutes) = 0 /\ Len(fives) = 0
  BY DEF FlowInit
<1>3. 0 \in Minute /\ 0 \in 0 .. MaxFlows /\ 0 <= MinuteRing /\ 0 <= FiveRing
  BY <1>1 DEF Minute
<1>4. DOMAIN addedAt = {} /\ DOMAIN dayFile = {} /\ DOMAIN gz = {}
  BY DEF FlowInit
<1>5. FlowTypes
  BY <1>2, <1>3, <1>4 DEF FlowInit, FlowTypes
<1>6. DownIsEmpty
  BY <1>4 DEF FlowInit, DownIsEmpty
<1> QED BY <1>5, <1>6

LEMMA FlowTypesStep == FlowTypes /\ [FlowNext]_flowVars => FlowTypes'
<1> SUFFICES ASSUME FlowTypes, [FlowNext]_flowVars PROVE FlowTypes'
  OBVIOUS
<1>1. ASSUME NEW f \in Records, Feed(f) PROVE FlowTypes'
  <2>1. f = exported + 1 /\ exported' = f /\ feeds' = feeds \cup {<<f, minute>>}
        /\ UNCHANGED <<minute, addedAt, cur, minutes, fives, dayFile, buffer, openDay, gz, zips, flowUp, turned>>
    BY <1>1 DEF Feed
  <2>2. exported' \in 0 .. MaxFlows /\ feeds' \subseteq Records \X Minute
    BY <2>1, FlowAssumption DEF FlowTypes, Records
  <2> QED BY <2>1, <2>2 DEF FlowTypes
<1>2. ASSUME NEW f \in Records, NEW at \in Minute, AddRecords(f, at) PROVE FlowTypes'
  <2>1. /\ feeds' = feeds \ {<<f, at>>} /\ addedAt' = [g \in DOMAIN addedAt \cup {f} |-> IF g = f THEN at ELSE addedAt[g]]
        /\ turned' = (turned \/ (cur # <<>> /\ at < cur[1].ts)) /\ UNCHANGED <<minute, exported, gz, flowUp>>
    BY <1>2 DEF AddRecords
  <2>2. feeds' \subseteq Records \X Minute /\ turned' \in BOOLEAN
    BY <2>1 DEF FlowTypes
  <2>3. DOMAIN addedAt' \subseteq Records /\ \A g \in DOMAIN addedAt' : addedAt'[g] \in Minute
    BY <2>1 DEF FlowTypes
  <2>4. CASE cur # <<>> /\ cur[1].ts # at
    <3>1. RollLocked(at, {f})
      BY <1>2, <2>4 DEF AddRecords
    <3>2. {f} \in SUBSET Records
      OBVIOUS
    <3> QED BY <2>1, <2>2, <2>3, <2>4, <3>1, <3>2, RollTypes DEF FlowTypes
  <2>5. CASE ~(cur # <<>> /\ cur[1].ts # at)
    <3>1. cur' = <<Summary(at, 1, {f} \cup All(cur))>> /\ UNCHANGED <<minutes, fives, dayFile, buffer, openDay, zips>>
      BY <1>2, <2>5 DEF AddRecords
    <3>2. All(cur) \subseteq Records
      <4>1. CASE cur = <<>>
        BY <4>1 DEF All
      <4>2. CASE cur # <<>>
        BY <4>2, OpenFacts
      <4> QED BY <4>1, <4>2
    <3>3. Summary(at, 1, {f} \cup All(cur)) \in Summaries(1)
      BY <3>2 DEF Summary, Summaries
    <3>4. cur' \in {<<>>} \cup {<<s>> : s \in Summaries(1)}
      BY <3>1, <3>3
    <3> QED BY <2>1, <2>2, <2>3, <3>1, <3>4 DEF FlowTypes
  <2> QED BY <2>4, <2>5
<1>3. CASE TickRolls
  <2>1. cur # <<>> /\ RollLocked(minute, {}) /\ UNCHANGED <<minute, exported, feeds, addedAt, gz, flowUp, turned>>
    BY <1>3 DEF TickRolls
  <2>2. minute \in Minute /\ {} \in SUBSET Records
    BY DEF FlowTypes
  <2> QED BY <2>1, <2>2, RollTypes DEF FlowTypes
<1>4. CASE TickFlushes
  <2>1. /\ dayFile' = WrittenOut /\ buffer' = <<>>
        /\ UNCHANGED <<minute, exported, feeds, addedAt, cur, minutes, fives, openDay, gz, zips, flowUp, turned>>
    BY <1>4 DEF TickFlushes
  <2>2. DOMAIN dayFile' = DOMAIN dayFile /\ \A d \in DOMAIN dayFile' : dayFile'[d] \in Seq(Summaries(SlotMinutes))
    BY <2>1, WrittenFacts
  <2>3. buffer' \in Seq(Summaries(SlotMinutes))
    BY <2>1
  <2> QED BY <2>1, <2>2, <2>3 DEF FlowTypes
<1>5. CASE MinutePasses
  <2>1. /\ minute < MaxMinute /\ minute' = minute + 1
        /\ UNCHANGED <<exported, feeds, addedAt, cur, minutes, fives, dayFile, buffer, openDay, gz, zips, flowUp, turned>>
    BY <1>5 DEF MinutePasses
  <2>2. minute' \in Minute
    BY <2>1, FlowAssumption DEF FlowTypes, Minute
  <2> QED BY <2>1, <2>2 DEF FlowTypes
<1>6. ASSUME NEW z \in zips, NEW d \in FlowDay, ZipRename(z, d) PROVE FlowTypes'
  <2>1. /\ d \in DOMAIN dayFile /\ gz' = [x \in DOMAIN gz \cup {d} |-> IF x = d THEN dayFile[d] ELSE gz[x]]
        /\ zips' = (zips \ {z}) \cup {[z EXCEPT !.renamed = d]}
        /\ UNCHANGED <<minute, exported, feeds, addedAt, cur, minutes, fives, dayFile, buffer, openDay, flowUp, turned>>
    BY <1>6 DEF ZipRename
  <2>2. DOMAIN gz' \subseteq FlowDay /\ \A x \in DOMAIN gz' : gz'[x] \in Seq(Summaries(SlotMinutes))
    BY <2>1 DEF FlowTypes
  <2>3. zips' \subseteq [left : SUBSET FlowDay, renamed : FlowDay \cup {NoDay}]
    BY <2>1 DEF FlowTypes
  <2> QED BY <2>1, <2>2, <2>3 DEF FlowTypes
<1>7. ASSUME NEW z \in zips, ZipRemove(z) PROVE FlowTypes'
  <2>1. /\ dayFile' = [x \in DOMAIN dayFile \ {z.renamed} |-> dayFile[x]]
        /\ zips' = (zips \ {z}) \cup {[left |-> z.left \ {z.renamed}, renamed |-> NoDay]}
        /\ UNCHANGED <<minute, exported, feeds, addedAt, cur, minutes, fives, buffer, openDay, gz, flowUp, turned>>
    BY <1>7 DEF ZipRemove
  <2>2. DOMAIN dayFile' \subseteq FlowDay /\ \A x \in DOMAIN dayFile' : dayFile'[x] \in Seq(Summaries(SlotMinutes))
    BY <2>1 DEF FlowTypes
  <2>3. zips' \subseteq [left : SUBSET FlowDay, renamed : FlowDay \cup {NoDay}]
    BY <2>1 DEF FlowTypes
  <2> QED BY <2>1, <2>2, <2>3 DEF FlowTypes
<1>8. ASSUME NEW z \in zips, ZipEnds(z) PROVE FlowTypes'
  <2>1. zips' = zips \ {z} /\ UNCHANGED <<minute, exported, feeds, addedAt, cur, minutes, fives, dayFile, buffer, openDay, gz, flowUp, turned>>
    BY <1>8 DEF ZipEnds
  <2> QED BY <2>1 DEF FlowTypes
<1>9. ASSUME NEW d \in FlowDay, PruneFlows(d) PROVE FlowTypes'
  <2>1. /\ dayFile' = [x \in {y \in DOMAIN dayFile : y > d} |-> dayFile[x]]
        /\ gz' = [x \in {y \in DOMAIN gz : y > d} |-> gz[x]]
        /\ UNCHANGED <<minute, exported, feeds, addedAt, cur, minutes, fives, buffer, openDay, zips, flowUp, turned>>
    BY <1>9 DEF PruneFlows
  <2>2. DOMAIN dayFile' \subseteq FlowDay /\ \A x \in DOMAIN dayFile' : dayFile'[x] \in Seq(Summaries(SlotMinutes))
    BY <2>1 DEF FlowTypes
  <2>3. DOMAIN gz' \subseteq FlowDay /\ \A x \in DOMAIN gz' : gz'[x] \in Seq(Summaries(SlotMinutes))
    BY <2>1 DEF FlowTypes
  <2> QED BY <2>1, <2>2, <2>3 DEF FlowTypes
<1>10. ASSUME NEW disk, disk \in {dayFile, WrittenOut}, Stops(disk) PROVE FlowTypes'
  <2>1. /\ flowUp' = FALSE /\ dayFile' = disk /\ turned' = (turned \/ \E z \in zips : z.renamed # NoDay)
        /\ feeds' = {} /\ addedAt' = [f \in {} |-> 0] /\ cur' = <<>> /\ minutes' = <<>> /\ fives' = <<>>
        /\ buffer' = <<>> /\ openDay' = NoDay /\ zips' = {} /\ UNCHANGED <<minute, exported, gz>>
    BY <1>10 DEF Stops
  <2>2. DOMAIN dayFile' = DOMAIN dayFile /\ \A x \in DOMAIN dayFile' : dayFile'[x] \in Seq(Summaries(SlotMinutes))
    BY <1>10, <2>1, WrittenFacts DEF FlowTypes
  <2>3. /\ minutes' \in Seq(Summaries(1)) /\ fives' \in Seq(Summaries(SlotMinutes)) /\ buffer' \in Seq(Summaries(SlotMinutes))
        /\ Len(minutes') = 0 /\ Len(fives') = 0 /\ 0 <= MinuteRing /\ 0 <= FiveRing
    BY <2>1, FlowAssumption
  <2>4. turned' \in BOOLEAN
    BY <2>1 DEF FlowTypes
  <2> QED BY <2>1, <2>2, <2>3, <2>4 DEF FlowTypes
<1>11. CASE Reload
  <2>1. flowUp' = TRUE /\ UNCHANGED <<minute, exported, feeds, addedAt, cur, minutes, dayFile, buffer, openDay, gz, zips, turned>>
    BY <1>11 DEF Reload
  <2> QED BY <1>11, <2>1, ReloadFacts DEF FlowTypes
<1>12. CASE UNCHANGED flowVars
  BY <1>12 DEF flowVars, FlowTypes
<1> QED BY <1>1, <1>2, <1>3, <1>4, <1>5, <1>6, <1>7, <1>8, <1>9, <1>10, <1>11, <1>12 DEF FlowNext, FlowCrash, FlowClose

LEMMA DownStep == FlowTypes /\ DownIsEmpty /\ [FlowNext]_flowVars => DownIsEmpty'
<1> SUFFICES ASSUME FlowTypes, DownIsEmpty, [FlowNext]_flowVars PROVE DownIsEmpty'
  OBVIOUS
<1>1. ASSUME NEW f \in Records, Feed(f) PROVE DownIsEmpty'
  BY <1>1 DEF Feed, DownIsEmpty
<1>2. ASSUME NEW f \in Records, NEW at \in Minute, AddRecords(f, at) PROVE DownIsEmpty'
  <2>1. flowUp /\ UNCHANGED flowUp
    BY <1>2 DEF AddRecords
  <2>2. cur' # <<>>
    BY <1>2 DEF AddRecords, RollLocked
  <2> QED BY <2>1, <2>2 DEF DownIsEmpty
<1>3. CASE TickRolls
  <2>1. flowUp /\ UNCHANGED flowUp /\ cur' # <<>>
    BY <1>3 DEF TickRolls, RollLocked
  <2> QED BY <2>1 DEF DownIsEmpty
<1>4. ASSUME NEW z \in zips, (\E d \in FlowDay : ZipRename(z, d)) \/ ZipRemove(z) \/ ZipEnds(z) PROVE DownIsEmpty'
  <2>1. UNCHANGED <<flowUp, feeds, cur, minutes, addedAt>>
    BY <1>4 DEF ZipRename, ZipRemove, ZipEnds
  <2> QED BY <2>1 DEF DownIsEmpty
<1>5. ASSUME NEW disk, Stops(disk) PROVE DownIsEmpty'
  <2>1. feeds' = {} /\ cur' = <<>> /\ zips' = {} /\ minutes' = <<>> /\ DOMAIN addedAt' = {}
    BY <1>5 DEF Stops
  <2> QED BY <2>1 DEF DownIsEmpty
<1>6. CASE Reload
  BY <1>6 DEF Reload, DownIsEmpty
<1>7. CASE TickFlushes \/ MinutePasses \/ (\E d \in FlowDay : PruneFlows(d)) \/ UNCHANGED flowVars
  <2>1. UNCHANGED <<flowUp, feeds, cur, zips, minutes, addedAt>>
    BY <1>7 DEF TickFlushes, MinutePasses, PruneFlows, flowVars
  <2> QED BY <2>1 DEF DownIsEmpty
<1> QED BY <1>1, <1>2, <1>3, <1>4, <1>5, <1>6, <1>7 DEF FlowNext, FlowCrash, FlowClose

\* A step that stores nothing new and leaves the minutes alone.
LEMMA StoredShrinks ==
    ASSUME FlowSound, Stored' \subseteq Stored, UNCHANGED <<minute, exported, feeds, addedAt, cur, minutes>>
    PROVE  RecordsOnce' /\ RingInOrder' /\ AddedStays' /\ SlotsOver' /\ Times' = Times
<1>0. RecordsOnce /\ RingInOrder /\ AddedStays /\ SlotsOver
  BY DEF FlowSound
<1>1. Times' = Times
  BY DEF Times
<1>2. RecordsOnce'
  BY <1>0 DEF RecordsOnce
<1>3. RingInOrder'
  BY <1>0 DEF RingInOrder
<1>4. AddedStays'
  BY <1>0 DEF AddedStays
<1>5. SlotsOver'
  BY <1>0, <1>1 DEF SlotsOver
<1> QED BY <1>1, <1>2, <1>3, <1>4, <1>5

\* The files with the buffered lines hold each record once, as the files alone do.
LEMMA WrittenApart ==
    ASSUME FlowTypes, StoredOnce
    PROVE  /\ \A d \in DOMAIN dayFile : OnceIn(WrittenOut[d])
           /\ \A d, e \in DOMAIN dayFile : d # e => OnceBetween(WrittenOut[d], WrittenOut[e])
           /\ \A d \in DOMAIN dayFile, e \in DOMAIN gz : d # e => OnceBetween(WrittenOut[d], gz[e])
<1>1. /\ OnceIn(buffer)
      /\ \A d \in DOMAIN dayFile : OnceIn(dayFile[d]) /\ OnceBetween(buffer, dayFile[d])
      /\ \A d \in DOMAIN gz : OnceBetween(buffer, gz[d])
      /\ \A d, e \in DOMAIN dayFile : d # e => OnceBetween(dayFile[d], dayFile[e])
      /\ \A d \in DOMAIN dayFile, e \in DOMAIN gz : d # e => OnceBetween(dayFile[d], gz[e])
  BY DEF StoredOnce
<1>2. \A d \in DOMAIN dayFile : /\ OnceIn(WrittenOut[d])
                              /\ \A s \in Range(WrittenOut[d]) : s \in Range(dayFile[d]) \/ (d = openDay /\ s \in Range(buffer))
  <2> SUFFICES ASSUME NEW d \in DOMAIN dayFile
               PROVE  /\ OnceIn(WrittenOut[d])
                      /\ \A s \in Range(WrittenOut[d]) : s \in Range(dayFile[d]) \/ (d = openDay /\ s \in Range(buffer))
    OBVIOUS
  <2>1. Range(WrittenOut[d]) \subseteq Range(dayFile[d]) \cup (IF d = openDay THEN Range(buffer) ELSE {})
    BY WrittenFacts
  <2>2. OnceIn(WrittenOut[d])
    BY <1>1, WrittenFacts
  <2> QED BY <2>1, <2>2
<1>3. ASSUME NEW d \in DOMAIN dayFile, NEW e \in DOMAIN dayFile, d # e PROVE OnceBetween(WrittenOut[d], WrittenOut[e])
  <2> SUFFICES ASSUME NEW s \in Range(WrittenOut[d]), NEW t \in Range(WrittenOut[e]) PROVE Apart(s, t)
    BY DEF OnceBetween
  <2>1. CASE s \in Range(dayFile[d]) /\ t \in Range(dayFile[e])
    BY <1>1, <1>3, <2>1 DEF OnceBetween
  <2>2. CASE s \in Range(buffer) /\ t \in Range(dayFile[e])
    BY <1>1, <2>2 DEF OnceBetween
  <2>3. CASE s \in Range(dayFile[d]) /\ t \in Range(buffer)
    <3>1. Apart(t, s)
      BY <1>1, <2>3 DEF OnceBetween
    <3> QED BY <3>1 DEF Apart
  <2> QED BY <1>2, <1>3, <2>1, <2>2, <2>3
<1>4. ASSUME NEW d \in DOMAIN dayFile, NEW e \in DOMAIN gz, d # e PROVE OnceBetween(WrittenOut[d], gz[e])
  <2> SUFFICES ASSUME NEW s \in Range(WrittenOut[d]), NEW t \in Range(gz[e]) PROVE Apart(s, t)
    BY DEF OnceBetween
  <2>1. CASE s \in Range(dayFile[d])
    BY <1>1, <1>4, <2>1 DEF OnceBetween
  <2>2. CASE s \in Range(buffer)
    BY <1>1, <2>2 DEF OnceBetween
  <2> QED BY <1>2, <2>1, <2>2
<1> QED BY <1>2, <1>3, <1>4

LEMMA WrittenStored ==
    ASSUME FlowTypes, dayFile' = WrittenOut, Range(buffer') = {}, Range(fives') \subseteq Range(fives), UNCHANGED gz
    PROVE  Stored' \subseteq Stored
<1> SUFFICES ASSUME NEW s \in Stored' PROVE s \in Stored
  OBVIOUS
<1>1. /\ s \in InFiles' <=> \E d \in DOMAIN dayFile' : s \in Range(dayFile'[d])
      /\ s \in InPacks' <=> s \in InPacks
      /\ s \in Range(fives') \/ s \in Range(buffer') \/ s \in InFiles' \/ s \in InPacks'
  BY DEF InFiles, InPacks, Stored
<1>2. CASE s \in InFiles'
  <2>1. PICK d \in DOMAIN dayFile : s \in Range(WrittenOut[d])
    BY <1>1, <1>2, WrittenFacts
  <2>2. s \in Range(dayFile[d]) \cup (IF d = openDay THEN Range(buffer) ELSE {})
    BY <2>1, WrittenFacts
  <2>3. s \in Range(dayFile[d]) \/ s \in Range(buffer)
    BY <2>2
  <2> QED BY <2>3, StoredHolds
<1> QED BY <1>1, <1>2, StoredHolds

LEMMA FlushKeeps ==
    ASSUME FlowTypes, FlowSound, TickFlushes
    PROVE  FlowSound'
<1>0. DaysOver /\ StoredOnce /\ TwoForms
  BY DEF FlowSound
<1>1. /\ dayFile' = WrittenOut /\ buffer' = <<>>
      /\ UNCHANGED <<minute, exported, feeds, addedAt, cur, minutes, fives, openDay, gz, zips, flowUp, turned>>
  BY DEF TickFlushes
<1>2. Range(buffer') = {} /\ OnceIn(buffer')
  BY <1>1 DEF Range, OnceIn
<1>3. Stored' \subseteq Stored
  BY <1>1, <1>2, WrittenStored
<1>4. RecordsOnce' /\ RingInOrder' /\ AddedStays' /\ SlotsOver' /\ Times' = Times
  BY <1>1, <1>3, StoredShrinks
<1>5. DOMAIN dayFile' = DOMAIN dayFile /\ \A d \in DOMAIN dayFile : dayFile'[d] = WrittenOut[d]
  BY <1>1, WrittenFacts
<1>6. Packed' = Packed
  BY <1>1 DEF Packed
<1>7. DaysOver'
  BY <1>0, <1>1, <1>4, <1>5, <1>6 DEF DaysOver
<1>8. StoredOnce'
  <2>1. OnceIn(fives') /\ \A d \in DOMAIN gz' : OnceIn(gz'[d])
    BY <1>0, <1>1 DEF StoredOnce
  <2>2. \A s : OnceBetween(buffer', s)
    BY <1>2 DEF OnceBetween
  <2>3. \A d, e \in DOMAIN gz' : d # e => OnceBetween(gz'[d], gz'[e])
    BY <1>0, <1>1 DEF StoredOnce
  <2>4. /\ \A d \in DOMAIN dayFile' : OnceIn(dayFile'[d])
        /\ \A d, e \in DOMAIN dayFile' : d # e => OnceBetween(dayFile'[d], dayFile'[e])
        /\ \A d \in DOMAIN dayFile', e \in DOMAIN gz' : d # e => OnceBetween(dayFile'[d], gz'[e])
    BY <1>0, <1>1, <1>5, WrittenApart
  <2> QED BY <1>2, <2>1, <2>2, <2>3, <2>4 DEF StoredOnce
<1>9. TwoForms'
  BY <1>0, <1>1, <1>5 DEF TwoForms
<1> QED BY <1>4, <1>7, <1>8, <1>9 DEF FlowSound

LEMMA ZipRenameKeeps ==
    ASSUME FlowTypes, FlowSound, NEW z \in zips, NEW d \in FlowDay, ZipRename(z, d)
    PROVE  FlowSound'
<1>0. DaysOver /\ StoredOnce /\ TwoForms
  BY DEF FlowSound
<1>1. /\ d \in z.left /\ d \in DOMAIN dayFile /\ z.renamed = NoDay
      /\ gz' = [x \in DOMAIN gz \cup {d} |-> IF x = d THEN dayFile[d] ELSE gz[x]]
      /\ zips' = (zips \ {z}) \cup {[z EXCEPT !.renamed = d]}
      /\ UNCHANGED <<minute, exported, feeds, addedAt, cur, minutes, fives, dayFile, buffer, openDay, flowUp, turned>>
  BY DEF ZipRename
<1>2. DOMAIN gz' = DOMAIN gz \cup {d} /\ gz'[d] = dayFile[d] /\ \A x \in DOMAIN gz : x # d => gz'[x] = gz[x]
  BY <1>1
<1>3. Stored' \subseteq Stored
  <2> SUFFICES ASSUME NEW s \in Stored' PROVE s \in Stored
    OBVIOUS
  <2>1. /\ s \in InPacks' <=> \E x \in DOMAIN gz' : s \in Range(gz'[x])
        /\ s \in InFiles' <=> s \in InFiles
        /\ s \in Range(fives) \/ s \in Range(buffer) \/ s \in InFiles' \/ s \in InPacks'
    BY <1>1, ZenonT(30) DEF InFiles, InPacks, Stored
  <2>2. CASE s \in InPacks'
    <3>1. PICK x \in DOMAIN gz' : s \in Range(gz'[x])
      BY <2>1, <2>2
    <3> QED BY <1>1, <1>2, <3>1, StoredHolds
  <2> QED BY <2>1, <2>2, StoredHolds
<1>4. RecordsOnce' /\ RingInOrder' /\ AddedStays' /\ SlotsOver' /\ Times' = Times
  BY <1>1, <1>3, StoredShrinks
<1>5. z \in [left : SUBSET FlowDay, renamed : FlowDay \cup {NoDay}]
  BY DEF FlowTypes
<1>6. \A y \in zips' : \E u \in zips : y.left = u.left
  BY <1>1, <1>5
<1>7. Packed' \subseteq Packed
  <2> SUFFICES ASSUME NEW x \in Packed' PROVE x \in Packed
    OBVIOUS
  <2>1. x \in DOMAIN gz' \/ \E y \in zips' : x \in y.left
    BY DEF Packed
  <2>2. x \in DOMAIN gz \/ \E u \in zips : x \in u.left
    BY <1>1, <1>2, <1>6, <2>1
  <2> QED BY <2>2 DEF Packed
<1>8. DaysOver'
  BY <1>0, <1>1, <1>4, <1>7 DEF DaysOver
<1>9. StoredOnce'
  <2>1. OnceIn(fives') /\ OnceIn(buffer') /\ (\A x \in DOMAIN dayFile' : OnceIn(dayFile'[x]) /\ OnceBetween(buffer', dayFile'[x]))
        /\ (\A x, e \in DOMAIN dayFile' : x # e => OnceBetween(dayFile'[x], dayFile'[e]))
    BY <1>0, <1>1 DEF StoredOnce
  <2>2. \A x \in DOMAIN gz' : OnceIn(gz'[x]) /\ OnceBetween(buffer', gz'[x])
    BY <1>0, <1>1, <1>2 DEF StoredOnce
  <2>3. ASSUME NEW x \in DOMAIN gz', NEW e \in DOMAIN gz', x # e PROVE OnceBetween(gz'[x], gz'[e])
    <3>1. CASE x # d /\ e # d
      BY <1>0, <1>1, <1>2, <2>3, <3>1 DEF StoredOnce
    <3>2. CASE x = d
      <4>1. OnceBetween(dayFile[d], gz[e])
        BY <1>0, <1>1, <1>2, <2>3, <3>2 DEF StoredOnce
      <4> QED BY <1>1, <1>2, <2>3, <3>2, <4>1
    <3>3. CASE e = d
      <4>1. OnceBetween(dayFile[d], gz[x])
        BY <1>0, <1>1, <1>2, <2>3, <3>3 DEF StoredOnce
      <4>2. OnceBetween(gz[x], dayFile[d])
        BY <4>1 DEF OnceBetween, Apart
      <4> QED BY <1>1, <1>2, <2>3, <3>3, <4>2
    <3> QED BY <3>1, <3>2, <3>3
  <2>4. ASSUME NEW x \in DOMAIN dayFile', NEW e \in DOMAIN gz', x # e PROVE OnceBetween(dayFile'[x], gz'[e])
    <3>1. CASE e # d
      BY <1>0, <1>1, <1>2, <2>4, <3>1 DEF StoredOnce
    <3>2. CASE e = d
      BY <1>0, <1>1, <1>2, <2>4, <3>2 DEF StoredOnce
    <3> QED BY <3>1, <3>2
  <2> QED BY <2>1, <2>2, <2>3, <2>4 DEF StoredOnce
<1>10. TwoForms'
  <2> SUFFICES ASSUME NEW x \in DOMAIN dayFile', x \in DOMAIN gz' PROVE \E u \in zips' : u.renamed = x
    BY DEF TwoForms
  <2>1. CASE x = d
    <3>1. [z EXCEPT !.renamed = d].renamed = d
      BY <1>5
    <3> QED BY <1>1, <2>1, <3>1
  <2>2. CASE x # d
    <3>1. PICK u \in zips : u.renamed = x
      BY <1>0, <1>1, <1>2, <2>2 DEF TwoForms
    <3>2. x # NoDay
      <4>1. x \in FlowDay /\ minute \in Minute
        BY <1>1 DEF FlowTypes
      <4> QED BY <4>1, MinuteFacts
    <3> QED BY <1>1, <3>1, <3>2
  <2> QED BY <2>1, <2>2
<1> QED BY <1>4, <1>8, <1>9, <1>10 DEF FlowSound

LEMMA FilesLeave ==
    ASSUME FlowTypes, FlowSound, DOMAIN dayFile' \subseteq DOMAIN dayFile, DOMAIN gz' \subseteq DOMAIN gz,
           \A x \in DOMAIN dayFile' : dayFile'[x] = dayFile[x], \A x \in DOMAIN gz' : gz'[x] = gz[x],
           \A y \in zips' : \E u \in zips : y.left \subseteq u.left,
           UNCHANGED <<minute, exported, feeds, addedAt, cur, minutes, fives, buffer, openDay>>, TwoForms'
    PROVE  FlowSound'
<1>0. DaysOver /\ StoredOnce
  BY DEF FlowSound
<1>1. Stored' \subseteq Stored
  <2> SUFFICES ASSUME NEW s \in Stored' PROVE s \in Stored
    OBVIOUS
  <2>1. /\ s \in InPacks' <=> \E x \in DOMAIN gz' : s \in Range(gz'[x])
        /\ s \in InFiles' <=> \E x \in DOMAIN dayFile' : s \in Range(dayFile'[x])
        /\ s \in Range(fives') \/ s \in Range(buffer') \/ s \in InFiles' \/ s \in InPacks'
    BY DEF InFiles, InPacks, Stored
  <2>2. s \in Range(fives) \/ s \in Range(buffer) \/ s \in InFiles \/ s \in InPacks
    BY <2>1, StoredHolds
  <2> QED BY <2>2, StoredHolds
<1>2. RecordsOnce' /\ RingInOrder' /\ AddedStays' /\ SlotsOver' /\ Times' = Times
  BY <1>1, StoredShrinks
<1>3. Packed' \subseteq Packed
  <2> SUFFICES ASSUME NEW x \in Packed' PROVE x \in Packed
    OBVIOUS
  <2>1. x \in DOMAIN gz' \/ \E y \in zips' : x \in y.left
    BY DEF Packed
  <2>2. x \in DOMAIN gz \/ \E u \in zips : x \in u.left
    BY <2>1
  <2> QED BY <2>2 DEF Packed
<1>4. DaysOver'
  BY <1>0, <1>2, <1>3 DEF DaysOver
<1>5. StoredOnce'
  BY <1>0 DEF StoredOnce
<1> QED BY <1>2, <1>4, <1>5 DEF FlowSound

LEMMA ZipsAndPruneKeep ==
    ASSUME FlowTypes, FlowSound,
           \/ \E z \in zips : ZipRemove(z) \/ ZipEnds(z)
           \/ \E d \in FlowDay : PruneFlows(d)
    PROVE  FlowSound'
<1>0. TwoForms
  BY DEF FlowSound
<1>1. ASSUME NEW z \in zips, ZipRemove(z) PROVE FlowSound'
  <2>1. /\ dayFile' = [x \in DOMAIN dayFile \ {z.renamed} |-> dayFile[x]]
        /\ zips' = (zips \ {z}) \cup {[left |-> z.left \ {z.renamed}, renamed |-> NoDay]}
        /\ UNCHANGED <<minute, exported, feeds, addedAt, cur, minutes, fives, buffer, openDay, gz, flowUp, turned>>
    BY <1>1 DEF ZipRemove
  <2>2. TwoForms'
    <3> SUFFICES ASSUME NEW x \in DOMAIN dayFile', x \in DOMAIN gz' PROVE \E u \in zips' : u.renamed = x
      BY DEF TwoForms
    <3>1. PICK u \in zips : u.renamed = x
      BY <1>0, <2>1 DEF TwoForms
    <3>2. u # z
      BY <2>1, <3>1
    <3> QED BY <2>1, <3>1, <3>2
  <2>3. \A y \in zips' : \E u \in zips : y.left \subseteq u.left
    BY <2>1
  <2>4. DOMAIN dayFile' \subseteq DOMAIN dayFile /\ \A x \in DOMAIN dayFile' : dayFile'[x] = dayFile[x]
    BY <2>1
  <2> QED BY <2>1, <2>2, <2>3, <2>4, FilesLeave
<1>2. ASSUME NEW z \in zips, ZipEnds(z) PROVE FlowSound'
  <2>1. /\ z.renamed = NoDay /\ zips' = zips \ {z}
        /\ UNCHANGED <<minute, exported, feeds, addedAt, cur, minutes, fives, dayFile, buffer, openDay, gz, flowUp, turned>>
    BY <1>2 DEF ZipEnds
  <2>2. TwoForms'
    <3> SUFFICES ASSUME NEW x \in DOMAIN dayFile', x \in DOMAIN gz' PROVE \E u \in zips' : u.renamed = x
      BY DEF TwoForms
    <3>1. PICK u \in zips : u.renamed = x
      BY <1>0, <2>1 DEF TwoForms
    <3>2. x \in FlowDay /\ minute \in Minute
      BY <2>1 DEF FlowTypes
    <3>3. x # NoDay
      BY <3>2, MinuteFacts
    <3> QED BY <2>1, <3>1, <3>3
  <2> QED BY <2>1, <2>2, FilesLeave
<1>3. ASSUME NEW d \in FlowDay, PruneFlows(d) PROVE FlowSound'
  <2>1. /\ dayFile' = [x \in {y \in DOMAIN dayFile : y > d} |-> dayFile[x]]
        /\ gz' = [x \in {y \in DOMAIN gz : y > d} |-> gz[x]]
        /\ UNCHANGED <<minute, exported, feeds, addedAt, cur, minutes, fives, buffer, openDay, zips, flowUp, turned>>
    BY <1>3 DEF PruneFlows
  <2>2. /\ DOMAIN dayFile' \subseteq DOMAIN dayFile /\ \A x \in DOMAIN dayFile' : dayFile'[x] = dayFile[x]
        /\ DOMAIN gz' \subseteq DOMAIN gz /\ \A x \in DOMAIN gz' : gz'[x] = gz[x]
    BY <2>1
  <2>3. TwoForms'
    BY <1>0, <2>1, <2>2 DEF TwoForms
  <2> QED BY <2>1, <2>2, <2>3, FilesLeave
<1> QED BY <1>1, <1>2, <1>3

LEMMA ReloadKeeps ==
    ASSUME FlowTypes, DownIsEmpty, FlowSound, Reload
    PROVE  FlowSound'
<1>0. DaysOver /\ StoredOnce /\ TwoForms
  BY DEF FlowSound
<1>1. /\ ~flowUp /\ zips = {}
      /\ UNCHANGED <<minute, exported, feeds, addedAt, cur, minutes, dayFile, buffer, openDay, gz, zips, turned>>
  BY DEF Reload, DownIsEmpty
<1>2. DOMAIN dayFile \cap DOMAIN gz = {}
  BY <1>0, <1>1 DEF TwoForms
<1>3. Range(fives') \subseteq InFiles \cup InPacks /\ OnceIn(fives')
  BY <1>0, <1>2, OnDiskFacts, ReloadFacts
<1>4. Stored' \subseteq Stored
  <2>1. InFiles' = InFiles /\ InPacks' = InPacks
    BY <1>1 DEF InFiles, InPacks
  <2> QED BY <1>1, <1>3, <2>1 DEF Stored
<1>5. RecordsOnce' /\ RingInOrder' /\ AddedStays' /\ SlotsOver' /\ Times' = Times
  BY <1>1, <1>4, StoredShrinks
<1>6. DaysOver'
  BY <1>0, <1>1, <1>5 DEF DaysOver, Packed
<1>7. StoredOnce' /\ TwoForms'
  BY <1>0, <1>1, <1>3 DEF StoredOnce, TwoForms
<1> QED BY <1>5, <1>6, <1>7 DEF FlowSound

LEMMA StopsKeep ==
    ASSUME FlowTypes, FlowSound, NEW disk \in {dayFile, WrittenOut}, Stops(disk), ~turned'
    PROVE  FlowSound'
<1>0. RecordsOnce /\ SlotsOver /\ DaysOver /\ StoredOnce /\ TwoForms
  BY DEF FlowSound
<1>1. /\ dayFile' = disk /\ turned' = (turned \/ \E z \in zips : z.renamed # NoDay)
      /\ feeds' = {} /\ addedAt' = [f \in {} |-> 0] /\ cur' = <<>> /\ minutes' = <<>> /\ fives' = <<>>
      /\ buffer' = <<>> /\ openDay' = NoDay /\ zips' = {} /\ UNCHANGED <<minute, exported, gz>>
  BY DEF Stops
<1>2. /\ Range(fives') = {} /\ Range(buffer') = {} /\ OnceIn(fives') /\ OnceIn(buffer')
      /\ DOMAIN cur' = {} /\ DOMAIN minutes' = {} /\ DOMAIN addedAt' = {}
  BY <1>1 DEF Range, OnceIn
<1>3. Stored' \subseteq Stored
  <2>1. CASE disk = WrittenOut
    BY <1>1, <1>2, <2>1, WrittenStored
  <2>2. CASE disk = dayFile
    <3>1. InFiles' = InFiles /\ InPacks' = InPacks
      BY <1>1, <2>2 DEF InFiles, InPacks
    <3> QED BY <1>2, <3>1 DEF Stored
  <2> QED BY <2>1, <2>2
<1>4. Times' \subseteq Times
  BY <1>1 DEF Times
<1>5. RecordsOnce'
  BY <1>0, <1>1, <1>2, <1>3 DEF RecordsOnce
<1>6. RingInOrder' /\ AddedStays'
  BY <1>1, <1>2 DEF RingInOrder, AddedStays
<1>7. SlotsOver'
  BY <1>0, <1>1, <1>2, <1>3, <1>4 DEF SlotsOver
<1>8. DOMAIN dayFile' = DOMAIN dayFile /\ Packed' \subseteq Packed
  BY <1>1, WrittenFacts DEF Packed
<1>9. DaysOver'
  BY <1>0, <1>1, <1>4, <1>8 DEF DaysOver
<1>10. StoredOnce'
  <2>1. /\ \A d \in DOMAIN dayFile' : OnceIn(dayFile'[d])
        /\ \A d, e \in DOMAIN dayFile' : d # e => OnceBetween(dayFile'[d], dayFile'[e])
        /\ \A d \in DOMAIN dayFile', e \in DOMAIN gz' : d # e => OnceBetween(dayFile'[d], gz'[e])
    <3>1. CASE disk = WrittenOut
      BY <1>0, <1>1, <1>8, <3>1, WrittenApart
    <3>2. CASE disk = dayFile
      BY <1>0, <1>1, <3>2 DEF StoredOnce
    <3> QED BY <3>1, <3>2
  <2>2. \A s : OnceBetween(buffer', s)
    BY <1>2 DEF OnceBetween
  <2>3. /\ \A d \in DOMAIN gz' : OnceIn(gz'[d])
        /\ \A d, e \in DOMAIN gz' : d # e => OnceBetween(gz'[d], gz'[e])
    BY <1>0, <1>1 DEF StoredOnce
  <2> QED BY <1>2, <2>1, <2>2, <2>3 DEF StoredOnce
<1>11. TwoForms'
  <2>1. \A z \in zips : z.renamed = NoDay
    BY <1>1
  <2>2. \A d \in DOMAIN gz : d # NoDay
    <3>1. minute \in Minute /\ DOMAIN gz \subseteq FlowDay
      BY DEF FlowTypes
    <3> QED BY <3>1, MinuteFacts
  <2>3. DOMAIN dayFile \cap DOMAIN gz = {}
    BY <1>0, <2>1, <2>2 DEF TwoForms
  <2> QED BY <1>1, <1>8, <2>3 DEF TwoForms
<1> QED BY <1>5, <1>6, <1>7, <1>9, <1>10, <1>11 DEF FlowSound

LEMMA StoredTyped == ASSUME FlowTypes PROVE Stored \subseteq Summaries(SlotMinutes)
<1> SUFFICES ASSUME NEW s \in Stored PROVE s \in Summaries(SlotMinutes)
  OBVIOUS
<1>1. s \in Range(fives) \/ s \in Range(buffer) \/ (\E d \in DOMAIN dayFile : s \in Range(dayFile[d])) \/ (\E d \in DOMAIN gz : s \in Range(gz[d]))
  BY StoredHolds
<1>2. PICK S : S = Summaries(SlotMinutes)
  OBVIOUS
<1>3. fives \in Seq(S) /\ buffer \in Seq(S) /\ (\A d \in DOMAIN dayFile : dayFile[d] \in Seq(S)) /\ (\A d \in DOMAIN gz : gz[d] \in Seq(S))
  BY <1>2 DEF FlowTypes
<1>4. \A q \in Seq(S) : Range(q) \subseteq S
  BY RangeOf
<1> QED BY <1>1, <1>2, <1>3, <1>4

LEMMA FeedKeeps ==
    ASSUME FlowTypes, FlowSound, NEW f \in Records, Feed(f)
    PROVE  FlowSound'
<1>0. RecordsOnce /\ RingInOrder /\ AddedStays /\ SlotsOver /\ DaysOver /\ StoredOnce /\ TwoForms
  BY DEF FlowSound
<1>1. /\ f = exported + 1 /\ exported' = f /\ feeds' = feeds \cup {<<f, minute>>}
      /\ UNCHANGED <<minute, addedAt, cur, minutes, fives, dayFile, buffer, openDay, gz, zips, flowUp, turned>>
  BY DEF Feed
<1>2. Stored' = Stored
  BY <1>1 DEF Stored, InFiles, InPacks
<1>3. Times' = Times
  BY <1>1 DEF Times
<1>4. exported \in Nat /\ minute \in Nat
  BY FlowAssumption DEF FlowTypes, Minute
<1>5. RecordsOnce'
  <2>1. /\ \A p \in feeds : p[1] <= exported
        /\ \A i \in DOMAIN cur : \A g \in cur[i].flows : g <= exported
        /\ \A i \in DOMAIN minutes : \A g \in minutes[i].flows : g <= exported
        /\ \A s \in Stored : \A g \in s.flows : g <= exported
        /\ \A g \in DOMAIN addedAt : g <= exported
    BY <1>0 DEF RecordsOnce
  <2>2. \A n : n <= exported => n # exported + 1
    BY <1>4
  <2>3. /\ \A p \in feeds : p[1] \in Nat
        /\ \A i \in DOMAIN cur : \A g \in cur[i].flows : g \in Nat
        /\ \A i \in DOMAIN minutes : \A g \in minutes[i].flows : g \in Nat
        /\ \A s \in Stored : \A g \in s.flows : g \in Nat
        /\ \A g \in DOMAIN addedAt : g \in Nat
    <3>0. Records \subseteq Nat
      BY DEF Records
    <3>1. \A s \in Summaries(1) : s.flows \subseteq Nat
      BY <3>0 DEF Summaries
    <3>2. \A s \in Summaries(SlotMinutes) : s.flows \subseteq Nat
      BY <3>0 DEF Summaries
    <3>3. Stored \subseteq Summaries(SlotMinutes)
      BY StoredTyped
    <3>4. \A i \in DOMAIN minutes : minutes[i] \in Summaries(1)
      BY ElementOfSeq, LenProperties DEF FlowTypes
    <3>5. \A i \in DOMAIN cur : cur[i] \in Summaries(1)
      BY DEF FlowTypes
    <3>6. feeds \subseteq Records \X Minute /\ DOMAIN addedAt \subseteq Records
      BY DEF FlowTypes
    <3> QED BY <3>0, <3>1, <3>2, <3>3, <3>4, <3>5, <3>6
  <2>4. /\ f \notin DOMAIN addedAt /\ \A p \in feeds : p[1] # f
        /\ \A i \in DOMAIN cur : f \notin cur[i].flows
        /\ \A i \in DOMAIN minutes : f \notin minutes[i].flows
        /\ \A s \in Stored : f \notin s.flows
    BY <1>1, <2>1, <2>2
  <2>5. /\ \A i \in DOMAIN cur' : \A g \in cur'[i].flows : g <= exported'
        /\ \A i \in DOMAIN minutes' : \A g \in minutes'[i].flows : g <= exported'
        /\ \A s \in Stored' : \A g \in s.flows : g <= exported'
        /\ \A g \in DOMAIN addedAt' : g <= exported'
    <3>1. \A g \in Nat : g <= exported => g <= exported + 1
      BY <1>4
    <3> QED BY <1>1, <1>2, <2>1, <2>3, <3>1
  <2>6. ASSUME NEW p \in feeds', NEW q \in feeds', p[1] = q[1] PROVE p = q
    BY <1>0, <1>1, <2>4, <2>6 DEF RecordsOnce
  <2>7. ASSUME NEW p \in feeds'
        PROVE  /\ p[1] <= exported' /\ p[2] <= minute' /\ p[1] \notin DOMAIN addedAt'
               /\ \A i \in DOMAIN cur' : p[1] \notin cur'[i].flows
               /\ \A i \in DOMAIN minutes' : p[1] \notin minutes'[i].flows
               /\ \A s \in Stored' : p[1] \notin s.flows
    <3>1. CASE p \in feeds
      <4>1. /\ p[1] <= exported /\ p[2] <= minute /\ p[1] \notin DOMAIN addedAt
            /\ \A i \in DOMAIN cur : p[1] \notin cur[i].flows
            /\ \A i \in DOMAIN minutes : p[1] \notin minutes[i].flows
            /\ \A s \in Stored : p[1] \notin s.flows
        BY <1>0, <3>1 DEF RecordsOnce
      <4>2. p[1] <= exported'
        BY <1>1, <1>4, <2>3, <3>1, <4>1
      <4> QED BY <1>1, <1>2, <4>1, <4>2
    <3>2. CASE p = <<f, minute>>
      <4>1. p[1] = f /\ p[2] = minute
        BY <3>2
      <4> QED BY <1>1, <1>2, <1>4, <2>4, <4>1
    <3> QED BY <1>1, <3>1, <3>2
  <2> QED BY <2>5, <2>6, <2>7 DEF RecordsOnce
<1>6. RingInOrder' /\ AddedStays'
  BY <1>0, <1>1 DEF RingInOrder, AddedStays
<1>7. SlotsOver'
  BY <1>0, <1>1, <1>2, <1>3 DEF SlotsOver
<1>8. DaysOver' /\ StoredOnce' /\ TwoForms'
  BY <1>0, <1>1, <1>3 DEF DaysOver, Packed, StoredOnce, TwoForms
<1> QED BY <1>5, <1>6, <1>7, <1>8 DEF FlowSound

\* What is over at a time is over later.
LEMMA OverStaysOver ==
    ASSUME FlowTypes, NEW t \in Minute, NEW u \in Nat, t <= u
    PROVE  /\ \A s \in Stored : s.ts + SlotMinutes <= t => s.ts + SlotMinutes <= u
           /\ \A d \in FlowDay : (d <= DayAt(Slot(t)) => d <= DayAt(Slot(u))) /\ (d < DayAt(Slot(t)) => d < DayAt(Slot(u)))
<1>1. t \in Nat
  BY MinuteFacts
<1>2. Slot(t) \in Nat /\ Slot(u) \in Nat /\ Slot(t) <= Slot(u)
  BY <1>1, SlotFacts, SlotsRise
<1>3. DayAt(Slot(t)) \in Nat /\ DayAt(Slot(u)) \in Nat /\ DayAt(Slot(t)) <= DayAt(Slot(u))
  BY <1>2, DayFacts
<1>4. \A s \in Stored : s.ts \in Nat
  <2>1. \A s \in Summaries(SlotMinutes) : s.ts \in Nat
    BY MinuteFacts DEF Summaries
  <2> QED BY <2>1, StoredTyped
<1>5. SlotMinutes \in Nat /\ FlowDay \subseteq Int
  BY FlowAssumption DEF FlowDay
<1> QED BY <1>1, <1>3, <1>4, <1>5

LEMMA MinuteKeeps ==
    ASSUME FlowTypes, FlowSound, MinutePasses
    PROVE  FlowSound'
<1>0. RecordsOnce /\ RingInOrder /\ AddedStays /\ SlotsOver /\ DaysOver /\ StoredOnce /\ TwoForms
  BY DEF FlowSound
<1>1. /\ minute' = minute + 1
      /\ UNCHANGED <<exported, feeds, addedAt, cur, minutes, fives, dayFile, buffer, openDay, gz, zips, flowUp, turned>>
  BY DEF MinutePasses
<1>2. minute \in Minute /\ minute \in Nat /\ minute' \in Nat /\ minute <= minute'
  <2>1. minute \in Minute
    BY DEF FlowTypes
  <2>2. minute \in Nat
    BY <2>1, MinuteFacts
  <2> QED BY <1>1, <2>1, <2>2
<1>3. Stored' = Stored /\ Packed' = Packed
  BY <1>1 DEF Stored, InFiles, InPacks, Packed
<1>4. Times' \subseteq (Times \ {minute}) \cup {minute, minute'} /\ minute \in Times
  BY <1>1 DEF Times
<1>5. RecordsOnce'
  <2>1. \A p \in feeds : p[2] \in Nat
    BY MinuteFacts DEF FlowTypes
  <2>2. \A p \in feeds : p[2] <= minute => p[2] <= minute'
    BY <1>1, <1>2, <2>1
  <2> QED BY <1>0, <1>1, <1>3, <2>2 DEF RecordsOnce
<1>6. RingInOrder' /\ AddedStays'
  <2>1. cur # <<>> => cur[1].ts <= minute'
    BY <1>0, <1>1, <1>2, OpenFacts DEF RingInOrder
  <2> QED BY <1>0, <1>1, <2>1 DEF RingInOrder, AddedStays
<1>7. SlotsOver'
  <2>1. \A s \in Stored, t \in Times : s.ts + SlotMinutes <= t
    BY <1>0 DEF SlotsOver
  <2>2. \A s \in Stored : s.ts + SlotMinutes <= minute'
    BY <1>2, <1>4, <2>1, OverStaysOver
  <2>3. \A s \in Stored', t \in Times' : s.ts + SlotMinutes <= t
    BY <1>3, <1>4, <2>1, <2>2
  <2> QED BY <1>0, <1>1, <1>3, <2>3 DEF SlotsOver
<1>8. DaysOver'
  <2>1. DOMAIN dayFile \subseteq FlowDay /\ Packed \subseteq FlowDay
    BY DEF FlowTypes, Packed
  <2>2. \A t \in Times : (\A d \in DOMAIN dayFile : d <= DayAt(Slot(t))) /\ \A d \in Packed : d < DayAt(Slot(t))
    BY <1>0 DEF DaysOver
  <2>3. (\A d \in DOMAIN dayFile : d <= DayAt(Slot(minute'))) /\ \A d \in Packed : d < DayAt(Slot(minute'))
    BY <1>2, <1>4, <2>1, <2>2, OverStaysOver
  <2>4. \A t \in Times' : (\A d \in DOMAIN dayFile' : d <= DayAt(Slot(t))) /\ \A d \in Packed' : d < DayAt(Slot(t))
    BY <1>1, <1>3, <1>4, <2>2, <2>3
  <2> QED BY <1>0, <1>1, <1>3, <2>4 DEF DaysOver
<1>9. StoredOnce' /\ TwoForms'
  BY <1>0, <1>1 DEF StoredOnce, TwoForms
<1> QED BY <1>5, <1>6, <1>7, <1>8, <1>9 DEF FlowSound

\* A datagram of the open minute, or the first one of the process.
LEMMA AddKeeps ==
    ASSUME FlowTypes, DownIsEmpty, FlowSound, NEW f \in Records, NEW at \in Minute, AddRecords(f, at),
           cur = <<>> \/ cur[1].ts = at
    PROVE  FlowSound'
<1>0. RecordsOnce /\ RingInOrder /\ AddedStays /\ SlotsOver /\ DaysOver /\ StoredOnce /\ TwoForms
  BY DEF FlowSound
<1>1. /\ <<f, at>> \in feeds /\ feeds' = feeds \ {<<f, at>>}
      /\ addedAt' = [g \in DOMAIN addedAt \cup {f} |-> IF g = f THEN at ELSE addedAt[g]]
      /\ cur' = <<Summary(at, 1, {f} \cup All(cur))>>
      /\ UNCHANGED <<minutes, fives, dayFile, buffer, openDay, zips, minute, exported, gz, flowUp>>
  BY DEF AddRecords
<1>2. Stored' = Stored /\ Packed' = Packed
  BY <1>1 DEF Stored, InFiles, InPacks, Packed
<1>3. PICK fs : fs = All(cur)
  OBVIOUS
<1>4. cur' = <<[ts |-> at, span |-> 1, flows |-> {f} \cup fs]>> /\ cur' # <<>> /\ DOMAIN cur' = {1} /\ cur'[1].ts = at /\ cur'[1].flows = {f} \cup fs
  BY <1>1, <1>3 DEF Summary
<1>5. (cur = <<>> /\ fs = {} /\ minutes = <<>> /\ DOMAIN addedAt = {}) \/ (cur # <<>> /\ DOMAIN cur = {1} /\ cur[1].ts = at /\ cur[1].flows = fs)
  BY <1>3, OpenFacts DEF All, DownIsEmpty
<1>6. Times' \subseteq Times
  BY <1>1, <1>4, <1>5 DEF Times
<1>7. /\ f <= exported /\ at <= minute /\ f \notin DOMAIN addedAt /\ f \notin fs
      /\ \A i \in DOMAIN minutes : f \notin minutes[i].flows
      /\ \A s \in Stored : f \notin s.flows
  <2>1. PICK p \in feeds : p = <<f, at>>
    BY <1>1
  <2>2. /\ p[1] <= exported /\ p[2] <= minute /\ p[1] \notin DOMAIN addedAt
        /\ \A i \in DOMAIN cur : p[1] \notin cur[i].flows
        /\ \A i \in DOMAIN minutes : p[1] \notin minutes[i].flows
        /\ \A s \in Stored : p[1] \notin s.flows
    BY <1>0 DEF RecordsOnce
  <2>3. p[1] = f /\ p[2] = at
    BY <2>1
  <2> QED BY <1>5, <2>2, <2>3
<1>8. RecordsOnce'
  <2>1. ASSUME NEW p \in feeds' PROVE p \in feeds /\ p[1] # f
    <3>1. p \in feeds /\ p # <<f, at>>
      BY <1>1
    <3>2. <<f, at>>[1] = f
      OBVIOUS
    <3> QED BY <1>0, <1>1, <3>1, <3>2 DEF RecordsOnce
  <2>2. ASSUME NEW p \in feeds'
        PROVE  /\ p[1] <= exported' /\ p[2] <= minute' /\ p[1] \notin DOMAIN addedAt'
               /\ \A i \in DOMAIN cur' : p[1] \notin cur'[i].flows
               /\ \A i \in DOMAIN minutes' : p[1] \notin minutes'[i].flows
               /\ \A s \in Stored' : p[1] \notin s.flows
    <3>1. p \in feeds /\ p[1] # f
      BY <2>1
    <3>2. /\ p[1] <= exported /\ p[2] <= minute /\ p[1] \notin DOMAIN addedAt
          /\ \A i \in DOMAIN cur : p[1] \notin cur[i].flows
          /\ \A i \in DOMAIN minutes : p[1] \notin minutes[i].flows
          /\ \A s \in Stored : p[1] \notin s.flows
      BY <1>0, <3>1 DEF RecordsOnce
    <3>3. p[1] \notin fs
      BY <1>5, <3>2
    <3>4. p[1] \notin DOMAIN addedAt'
      BY <1>1, <3>1, <3>2
    <3> QED BY <1>1, <1>2, <1>4, <3>1, <3>2, <3>3, <3>4
  <2>3. \A p, q \in feeds' : p[1] = q[1] => p = q
    BY <1>0, <2>1 DEF RecordsOnce
  <2>4. \A g \in fs : g <= exported
    BY <1>0, <1>5 DEF RecordsOnce
  <2>5. /\ \A i \in DOMAIN cur' : \A g \in cur'[i].flows : g <= exported'
        /\ \A g \in DOMAIN addedAt' : g <= exported'
    BY <1>0, <1>1, <1>4, <1>7, <2>4 DEF RecordsOnce
  <2>6. /\ \A i \in DOMAIN minutes' : \A g \in minutes'[i].flows : g <= exported'
        /\ \A s \in Stored' : \A g \in s.flows : g <= exported'
    BY <1>0, <1>1, <1>2 DEF RecordsOnce
  <2> QED BY <2>2, <2>3, <2>5, <2>6 DEF RecordsOnce
<1>9. RingInOrder'
  <2>1. /\ \A i, j \in DOMAIN minutes' : i < j => minutes'[i].ts + (j - i) <= minutes'[j].ts
        /\ \A i, j \in DOMAIN minutes' : i # j => Apart(minutes'[i], minutes'[j])
    BY <1>0, <1>1 DEF RingInOrder
  <2>2. ASSUME NEW i \in DOMAIN minutes'
        PROVE  minutes'[i].ts + (Len(minutes') - i) + 1 <= cur'[1].ts /\ Apart(minutes'[i], cur'[1])
    <3>1. i \in DOMAIN minutes /\ cur # <<>> /\ cur[1].ts = at /\ cur[1].flows = fs
      BY <1>1, <1>5
    <3>2. minutes[i].ts + (Len(minutes) - i) + 1 <= at /\ Apart(minutes[i], cur[1])
      BY <1>0, <3>1 DEF RingInOrder
    <3>3. Apart(minutes[i], cur'[1])
      BY <1>4, <1>7, <3>1, <3>2 DEF Apart
    <3> QED BY <1>1, <1>4, <3>2, <3>3
  <2>3. cur'[1].ts <= minute'
    BY <1>1, <1>4, <1>7
  <2> QED BY <2>1, <2>2, <2>3 DEF RingInOrder
<1>10. AddedStays'
  <2> SUFFICES ASSUME NEW g \in DOMAIN addedAt'
               PROVE  \/ g \in cur'[1].flows /\ cur'[1].ts = addedAt'[g]
                      \/ \E i \in DOMAIN minutes' : g \in minutes'[i].flows /\ minutes'[i].ts = addedAt'[g]
                      \/ addedAt'[g] + MinuteRing <= cur'[1].ts
    BY DEF AddedStays
  <2>1. CASE g = f
    BY <1>1, <1>4, <2>1
  <2>2. CASE g # f
    <3>1. g \in DOMAIN addedAt /\ addedAt'[g] = addedAt[g] /\ cur # <<>> /\ cur[1].ts = at /\ cur[1].flows = fs
      BY <1>1, <1>5, <2>2
    <3>2. \/ g \in cur[1].flows /\ cur[1].ts = addedAt[g]
          \/ \E i \in DOMAIN minutes : g \in minutes[i].flows /\ minutes[i].ts = addedAt[g]
          \/ addedAt[g] + MinuteRing <= cur[1].ts
      BY <1>0, <3>1 DEF AddedStays
    <3> QED BY <1>1, <1>4, <3>1, <3>2
  <2> QED BY <2>1, <2>2
<1>11. SlotsOver'
  <2>1. \A s \in Stored', t \in Times' : s.ts + SlotMinutes <= t
    BY <1>0, <1>2, <1>6 DEF SlotsOver
  <2>2. ASSUME NEW s \in Stored' PROVE (\A i \in DOMAIN minutes' : ~Apart(s, minutes'[i]) => Slot(minutes'[i].ts) = s.ts) /\ Apart(s, cur'[1])
    <3>1. s \in Stored /\ f \notin s.flows
      BY <1>2, <1>7
    <3>2. s.flows \cap fs = {}
      BY <1>0, <1>5, <3>1 DEF SlotsOver, Apart
    <3> QED BY <1>0, <1>1, <1>4, <3>1, <3>2 DEF SlotsOver, Apart
  <2> QED BY <2>1, <2>2 DEF SlotsOver
<1>12. DaysOver' /\ StoredOnce' /\ TwoForms'
  BY <1>0, <1>1, <1>2, <1>6 DEF DaysOver, StoredOnce, TwoForms
<1> QED BY <1>8, <1>9, <1>10, <1>11, <1>12 DEF FlowSound

\* A summary that shares no record with what is stored, added to the list and to its day's journal.
LEMMA PersistKeeps ==
    ASSUME FlowTypes, StoredOnce, TwoForms, NEW s \in Summaries(SlotMinutes), PersistLocked(s),
           fives' = Newest(Append(fives, s), FiveRing), UNCHANGED gz,
           \A t \in Stored : Apart(t, s), DayAt(s.ts) \notin DOMAIN gz
    PROVE  /\ Stored' \subseteq Stored \cup {s} /\ StoredOnce' /\ TwoForms'
           /\ DOMAIN dayFile' \subseteq DOMAIN dayFile \cup {DayAt(s.ts)} /\ openDay' = DayAt(s.ts)
           /\ Packed' \subseteq Packed \cup (DOMAIN dayFile \ {DayAt(s.ts)})
<1>1. PICK S : S = Summaries(SlotMinutes)
  OBVIOUS
<1>2. PICK d : d = DayAt(s.ts)
  OBVIOUS
<1>3. /\ s \in S /\ fives \in Seq(S) /\ buffer \in Seq(S) /\ FiveRing \in Nat \ {0}
      /\ \A x \in DOMAIN dayFile : dayFile[x] \in Seq(S)
  BY <1>1, FlowAssumption DEF FlowTypes
<1>4. /\ \A t \in Range(fives) : Apart(t, s)
      /\ \A t \in Range(buffer) : Apart(t, s)
      /\ \A x \in DOMAIN dayFile : \A t \in Range(dayFile[x]) : Apart(t, s)
      /\ \A x \in DOMAIN gz : \A t \in Range(gz[x]) : Apart(t, s)
  BY StoredHolds
<1>5. Range(fives') \subseteq Range(fives) \cup {s} /\ OnceIn(fives')
  <2>1. PICK a : a = Append(fives, s)
    OBVIOUS
  <2>2. a \in Seq(S) /\ Range(a) = Range(fives) \cup {s} /\ (OnceIn(fives) => OnceIn(a))
    BY <1>3, <1>4, <2>1, AppendFacts, AppendOnce
  <2>3. Range(Newest(a, FiveRing)) \subseteq Range(a) /\ (OnceIn(a) => OnceIn(Newest(a, FiveRing)))
    BY <1>3, <2>2, NewestOnce
  <2> QED BY <2>1, <2>2, <2>3 DEF StoredOnce
<1>6. /\ OnceIn(buffer)
      /\ \A x \in DOMAIN dayFile : OnceIn(dayFile[x]) /\ OnceBetween(buffer, dayFile[x])
      /\ \A x \in DOMAIN gz : OnceIn(gz[x]) /\ OnceBetween(buffer, gz[x])
      /\ \A x, e \in DOMAIN dayFile : x # e => OnceBetween(dayFile[x], dayFile[e])
      /\ \A x, e \in DOMAIN gz : x # e => OnceBetween(gz[x], gz[e])
      /\ \A x \in DOMAIN dayFile, e \in DOMAIN gz : x # e => OnceBetween(dayFile[x], gz[e])
  BY DEF StoredOnce
<1>7. CASE openDay = d
  <2>1. buffer' = Append(buffer, s) /\ UNCHANGED <<dayFile, openDay, zips>>
    BY <1>2, <1>7 DEF PersistLocked
  <2>2. Range(buffer') = Range(buffer) \cup {s} /\ OnceIn(buffer')
    BY <1>3, <1>4, <1>6, <2>1, AppendOnce
  <2>3. InFiles' = InFiles /\ InPacks' = InPacks
    BY <2>1 DEF InFiles, InPacks
  <2>4. Stored' \subseteq Stored \cup {s}
    BY <1>5, <2>2, <2>3 DEF Stored
  <2>5. \A x \in DOMAIN dayFile : OnceBetween(buffer', dayFile[x])
    <3> SUFFICES ASSUME NEW x \in DOMAIN dayFile, NEW b \in Range(buffer'), NEW t \in Range(dayFile[x]) PROVE Apart(b, t)
      BY DEF OnceBetween
    <3>1. CASE b \in Range(buffer)
      BY <1>6, <3>1 DEF OnceBetween
    <3>2. CASE b = s
      BY <1>4, <3>2 DEF Apart
    <3> QED BY <2>2, <3>1, <3>2
  <2>6. \A x \in DOMAIN gz : OnceBetween(buffer', gz[x])
    <3> SUFFICES ASSUME NEW x \in DOMAIN gz, NEW b \in Range(buffer'), NEW t \in Range(gz[x]) PROVE Apart(b, t)
      BY DEF OnceBetween
    <3>1. CASE b \in Range(buffer)
      BY <1>6, <3>1 DEF OnceBetween
    <3>2. CASE b = s
      BY <1>4, <3>2 DEF Apart
    <3> QED BY <2>2, <3>1, <3>2
  <2>7. StoredOnce'
    BY <1>5, <1>6, <2>1, <2>2, <2>5, <2>6 DEF StoredOnce
  <2>8. TwoForms' /\ Packed' = Packed
    BY <2>1 DEF TwoForms, Packed
  <2> QED BY <1>2, <1>7, <2>1, <2>4, <2>7, <2>8
<1>8. CASE openDay # d
  <2>1. /\ dayFile' = [x \in DOMAIN dayFile \cup {d} |-> IF x \in DOMAIN dayFile THEN WrittenOut[x] ELSE <<>>]
        /\ buffer' = <<s>> /\ openDay' = d /\ zips' = zips \cup {[left |-> DOMAIN dayFile \ {d}, renamed |-> NoDay]}
    BY <1>2, <1>8 DEF PersistLocked
  <2>2. DOMAIN dayFile' = DOMAIN dayFile \cup {d}
    BY <2>1
  <2>3. \A x \in DOMAIN dayFile' : (x \in DOMAIN dayFile /\ dayFile'[x] = WrittenOut[x]) \/ (x = d /\ dayFile'[x] = <<>>)
    BY <2>1
  <2>4. Range(<<>>) = {} /\ OnceIn(<<>>) /\ Range(buffer') = {s} /\ OnceIn(buffer')
    <3>1. DOMAIN buffer' = {1} /\ buffer'[1] = s
      BY <2>1
    <3> QED BY <3>1 DEF Range, OnceIn
  <2>5. \A x \in DOMAIN dayFile' : \A t \in Range(dayFile'[x]) :
            t \in Range(buffer) \/ (x \in DOMAIN dayFile /\ t \in Range(dayFile[x]))
    <3> SUFFICES ASSUME NEW x \in DOMAIN dayFile', NEW t \in Range(dayFile'[x])
                 PROVE  t \in Range(buffer) \/ (x \in DOMAIN dayFile /\ t \in Range(dayFile[x]))
      OBVIOUS
    <3>1. x \in DOMAIN dayFile /\ t \in Range(WrittenOut[x])
      BY <2>3, <2>4
    <3>2. t \in Range(dayFile[x]) \cup (IF x = openDay THEN Range(buffer) ELSE {})
      BY <3>1, WrittenFacts
    <3> QED BY <3>1, <3>2
  <2>6. Stored' \subseteq Stored \cup {s}
    <3> SUFFICES ASSUME NEW t \in Stored', t # s PROVE t \in Stored
      OBVIOUS
    <3>1. t \in InFiles' <=> \E x \in DOMAIN dayFile' : t \in Range(dayFile'[x])
      BY DEF InFiles
    <3>2. t \in Range(fives') \/ t \in Range(buffer') \/ t \in InFiles' \/ t \in InPacks
      BY DEF Stored, InPacks
    <3>3. t \in Range(fives) \/ t \in Range(buffer) \/ (\E x \in DOMAIN dayFile : t \in Range(dayFile[x])) \/ t \in InPacks
      BY <1>5, <2>4, <2>5, <3>1, <3>2
    <3> QED BY <3>3, StoredHolds
  <2>7. \A x \in DOMAIN dayFile' : OnceBetween(buffer', dayFile'[x])
    <3> SUFFICES ASSUME NEW x \in DOMAIN dayFile', NEW t \in Range(dayFile'[x]) PROVE Apart(s, t)
      BY <2>4 DEF OnceBetween
    <3>1. Apart(t, s)
      BY <1>4, <2>5
    <3> QED BY <3>1 DEF Apart
  <2>8. \A x \in DOMAIN gz' : OnceIn(gz'[x]) /\ OnceBetween(buffer', gz'[x])
    <3>1. \A x \in DOMAIN gz : \A t \in Range(gz[x]) : Apart(s, t)
      BY <1>4 DEF Apart
    <3> QED BY <1>6, <2>4, <3>1 DEF OnceBetween
  <2>9. \A x \in DOMAIN dayFile' : OnceIn(dayFile'[x])
    BY <2>3, <2>4, WrittenApart
  <2>10. \A x, e \in DOMAIN dayFile' : x # e => OnceBetween(dayFile'[x], dayFile'[e])
    <3> SUFFICES ASSUME NEW x \in DOMAIN dayFile', NEW e \in DOMAIN dayFile', x # e PROVE OnceBetween(dayFile'[x], dayFile'[e])
      OBVIOUS
    <3>1. CASE dayFile'[x] = <<>> \/ dayFile'[e] = <<>>
      BY <2>4, <3>1 DEF OnceBetween
    <3>2. CASE dayFile'[x] # <<>> /\ dayFile'[e] # <<>>
      <4>1. x \in DOMAIN dayFile /\ e \in DOMAIN dayFile /\ dayFile'[x] = WrittenOut[x] /\ dayFile'[e] = WrittenOut[e]
        BY <2>3, <3>2
      <4>2. OnceBetween(WrittenOut[x], WrittenOut[e])
        BY <4>1, WrittenApart
      <4> QED BY <4>1, <4>2
    <3> QED BY <3>1, <3>2
  <2>11. \A x \in DOMAIN dayFile', e \in DOMAIN gz' : x # e => OnceBetween(dayFile'[x], gz'[e])
    <3> SUFFICES ASSUME NEW x \in DOMAIN dayFile', NEW e \in DOMAIN gz, x # e PROVE OnceBetween(dayFile'[x], gz[e])
      OBVIOUS
    <3>1. CASE dayFile'[x] = <<>>
      BY <2>4, <3>1 DEF OnceBetween
    <3>2. CASE dayFile'[x] # <<>>
      <4>1. x \in DOMAIN dayFile /\ dayFile'[x] = WrittenOut[x]
        BY <2>3, <3>2
      <4>2. OnceBetween(WrittenOut[x], gz[e])
        BY <4>1, WrittenApart
      <4> QED BY <4>1, <4>2
    <3> QED BY <3>1, <3>2
  <2>12. StoredOnce'
    BY <1>5, <1>6, <2>4, <2>7, <2>8, <2>9, <2>10, <2>11 DEF StoredOnce
  <2>13. TwoForms'
    <3> SUFFICES ASSUME NEW x \in DOMAIN dayFile', x \in DOMAIN gz PROVE \E u \in zips' : u.renamed = x
      BY DEF TwoForms
    <3>1. x \in DOMAIN dayFile
      BY <1>2, <2>2
    <3>2. PICK u \in zips : u.renamed = x
      BY <3>1 DEF TwoForms
    <3> QED BY <2>1, <3>2
  <2>14. Packed' \subseteq Packed \cup (DOMAIN dayFile \ {d})
    <3> SUFFICES ASSUME NEW x \in Packed', x \notin Packed PROVE x \in DOMAIN dayFile \ {d}
      OBVIOUS
    <3>1. x \in DOMAIN gz \/ \E y \in zips' : x \in y.left
      BY DEF Packed
    <3>2. \A y \in zips' : y \in zips \/ y.left = DOMAIN dayFile \ {d}
      BY <2>1
    <3>3. x \notin DOMAIN gz /\ \A y \in zips : x \notin y.left
      BY DEF Packed
    <3> QED BY <3>1, <3>2, <3>3
  <2> QED BY <1>2, <2>1, <2>2, <2>6, <2>12, <2>13, <2>14
<1> QED BY <1>7, <1>8

\* A record of the ring, the open minute or a summary.
Recorded(f) ==
    \/ f \in cur[1].flows
    \/ \E i \in DOMAIN minutes : f \in minutes[i].flows
    \/ \E s \in Stored : f \in s.flows

\* The open minute, now finished, in the ring, and a later one opened.
LEMMA RollRing ==
    ASSUME FlowTypes, FlowSound, cur # <<>>, NEW next \in Minute, NEW flows \in SUBSET Records, RollLocked(next, flows),
           cur[1].ts < next, next <= minute, UNCHANGED minute, \A f \in flows : ~Recorded(f)
    PROVE  /\ RingInOrder' /\ cur' # <<>> /\ DOMAIN cur' = {1} /\ cur'[1].ts = next /\ cur'[1].flows = flows
           /\ \A i \in DOMAIN minutes' : minutes'[i] = cur[1] \/ \E j \in DOMAIN minutes : minutes'[i] = minutes[j]
           /\ \A j \in DOMAIN minutes :
                  (\E i \in DOMAIN minutes' : minutes'[i] = minutes[j]) \/ minutes[j].ts + MinuteRing <= next
           /\ \E i \in DOMAIN minutes' : minutes'[i] = cur[1]
<1>0. RingInOrder
  BY DEF FlowSound
<1>1. minutes' = Rolled1 /\ cur' = <<Summary(next, 1, flows)>>
  BY DEF RollLocked
<1>2. cur' # <<>> /\ DOMAIN cur' = {1} /\ cur'[1].ts = next /\ cur'[1].flows = flows
  BY <1>1 DEF Summary
<1>3. PICK r : r = Rolled1
  OBVIOUS
<1>4. r \in Seq(Summaries(1)) /\ minutes \in Seq(Summaries(1))
  BY <1>3, RolledFacts DEF FlowTypes
<1>5. PICK k \in {0, 1} :
          /\ Len(r) = Len(minutes) + 1 - k /\ (k = 1 => Len(minutes) = MinuteRing)
          /\ \A i \in 1 .. Len(minutes) - k : r[i] = minutes[i + k]
          /\ r[Len(minutes) + 1 - k] = cur[1]
  BY <1>3, RolledFacts
<1>6. PICK n : n = Len(minutes)
  OBVIOUS
<1>7. n \in Nat /\ DOMAIN minutes = 1 .. n /\ DOMAIN r = 1 .. n + 1 - k /\ Len(r) = n + 1 - k /\ MinuteRing \in Nat \ {0}
  BY <1>4, <1>5, <1>6, LenProperties, FlowAssumption
<1>8. PICK ts : ts = cur[1].ts
  OBVIOUS
<1>9. ts \in Nat /\ next \in Nat /\ ts + 1 <= next
  <2>1. cur[1].ts \in Nat
    BY OpenFacts
  <2>2. next \in Nat
    BY MinuteFacts
  <2> QED BY <1>8, <2>1, <2>2
<1>10. \A i \in DOMAIN r : (i \in 1 .. n - k /\ i + k \in DOMAIN minutes /\ r[i] = minutes[i + k]) \/ (i = n + 1 - k /\ r[i] = cur[1])
  BY <1>5, <1>6, <1>7
<1>11. \A i \in DOMAIN minutes : minutes[i].ts \in Nat /\ minutes[i].ts + (n - i) + 1 <= ts /\ Apart(minutes[i], cur[1])
  <2>1. \A i \in DOMAIN minutes : minutes[i] \in Summaries(1)
    BY <1>4, ElementOfSeq, LenProperties
  <2>2. \A s \in Summaries(1) : s.ts \in Nat
    BY MinuteFacts DEF Summaries
  <2> QED BY <1>0, <1>6, <1>8, <2>1, <2>2 DEF RingInOrder
<1>12. ASSUME NEW i \in DOMAIN r, NEW j \in DOMAIN r, i < j PROVE r[i].ts + (j - i) <= r[j].ts
  <2>1. i \in 1 .. n - k /\ i + k \in DOMAIN minutes /\ r[i] = minutes[i + k]
    BY <1>7, <1>10, <1>12
  <2>2. CASE j \in 1 .. n - k
    <3>1. j + k \in DOMAIN minutes /\ r[j] = minutes[j + k] /\ i + k < j + k /\ (j + k) - (i + k) = j - i
      BY <1>7, <1>10, <1>12, <2>2
    <3>2. minutes[i + k].ts + ((j + k) - (i + k)) <= minutes[j + k].ts
      BY <1>0, <2>1, <3>1 DEF RingInOrder
    <3> QED BY <2>1, <3>1, <3>2
  <2>3. CASE j = n + 1 - k
    <3>1. r[j] = cur[1] /\ (n - (i + k)) + 1 = j - i
      BY <1>5, <1>6, <1>7, <2>3
    <3>2. minutes[i + k].ts \in Nat /\ minutes[i + k].ts + (n - (i + k)) + 1 <= ts
      BY <1>11, <2>1
    <3>3. minutes[i + k].ts + (j - i) <= ts
      <4>1. PICK m, l : m = minutes[i + k].ts /\ l = n - (i + k)
        OBVIOUS
      <4>2. m \in Nat /\ l \in Int /\ m + l + 1 <= ts /\ l + 1 = j - i
        BY <1>7, <3>1, <3>2, <4>1
      <4>3. m + (l + 1) <= ts
        BY <1>9, <4>2
      <4> QED BY <4>1, <4>2, <4>3
    <3> QED BY <1>8, <2>1, <3>1, <3>3
  <2> QED BY <1>7, <1>10, <2>2, <2>3
<1>13. ASSUME NEW i \in DOMAIN r PROVE r[i].ts + (Len(r) - i) + 1 <= next /\ Apart(r[i], cur'[1])
  <2>1. Apart(r[i], cur'[1])
    <3>1. \A f \in flows : f \notin r[i].flows
      BY <1>10 DEF Recorded
    <3> QED BY <1>2, <3>1 DEF Apart
  <2>2. CASE i \in 1 .. n - k
    <3>1. i + k \in DOMAIN minutes /\ r[i] = minutes[i + k]
      BY <1>7, <1>10, <2>2
    <3>2. minutes[i + k].ts \in Nat /\ minutes[i + k].ts + (n - (i + k)) + 1 <= ts
      BY <1>11, <3>1
    <3>3. minutes[i + k].ts + (Len(r) - i) + 1 <= next
      <4>1. PICK m, l : m = minutes[i + k].ts /\ l = n - (i + k)
        OBVIOUS
      <4>2. m \in Nat /\ l \in Int /\ m + l + 1 <= ts /\ l + 1 = Len(r) - i
        <5>1. l \in Int /\ l + 1 = Len(r) - i
          BY <1>5, <1>7, <2>2, <4>1
        <5> QED BY <3>2, <4>1, <5>1
      <4>3. m + (l + 1) + 1 <= next
        BY <1>9, <4>2
      <4> QED BY <4>1, <4>2, <4>3
    <3> QED BY <2>1, <3>1, <3>3
  <2>3. CASE i = n + 1 - k
    BY <1>5, <1>6, <1>7, <1>8, <1>9, <2>1, <2>3
  <2> QED BY <1>7, <1>10, <2>2, <2>3
<1>14. ASSUME NEW i \in DOMAIN r, NEW j \in DOMAIN r, i # j PROVE Apart(r[i], r[j])
  <2>1. CASE i \in 1 .. n - k /\ j \in 1 .. n - k
    <3>1. i + k \in DOMAIN minutes /\ j + k \in DOMAIN minutes /\ i + k # j + k /\ r[i] = minutes[i + k] /\ r[j] = minutes[j + k]
      BY <1>7, <1>10, <1>14, <2>1
    <3> QED BY <1>0, <3>1 DEF RingInOrder
  <2>2. CASE i = n + 1 - k
    <3>1. r[i] = cur[1] /\ j + k \in DOMAIN minutes /\ r[j] = minutes[j + k]
      BY <1>5, <1>6, <1>7, <1>10, <1>14, <2>2
    <3>2. Apart(r[j], r[i])
      BY <1>11, <3>1
    <3> QED BY <3>2 DEF Apart
  <2>3. CASE j = n + 1 - k
    <3>1. r[j] = cur[1] /\ i + k \in DOMAIN minutes /\ r[i] = minutes[i + k]
      BY <1>5, <1>6, <1>7, <1>10, <1>14, <2>3
    <3> QED BY <1>11, <3>1
  <2> QED BY <1>7, <1>10, <2>1, <2>2, <2>3
<1>15. RingInOrder'
  BY <1>1, <1>2, <1>3, <1>12, <1>13, <1>14 DEF RingInOrder
<1>16. \A i \in DOMAIN r : r[i] = cur[1] \/ \E j \in DOMAIN minutes : r[i] = minutes[j]
  BY <1>10
<1>17. ASSUME NEW j \in DOMAIN minutes PROVE (\E i \in DOMAIN r : r[i] = minutes[j]) \/ minutes[j].ts + MinuteRing <= next
  <2>1. CASE j > k
    <3>1. j - k \in 1 .. n - k /\ j - k \in DOMAIN r /\ (j - k) + k = j
      BY <1>7, <2>1
    <3>2. r[j - k] = minutes[j]
      BY <1>5, <1>6, <3>1
    <3> QED BY <3>1, <3>2
  <2>2. CASE ~(j > k)
    <3>1. j = 1 /\ k = 1 /\ n = MinuteRing
      BY <1>5, <1>6, <1>7, <2>2
    <3>2. minutes[j].ts \in Nat /\ minutes[j].ts + (n - j) + 1 <= ts
      BY <1>11
    <3> QED BY <1>7, <1>9, <3>1, <3>2
  <2> QED BY <2>1, <2>2
<1>18. \E i \in DOMAIN r : r[i] = cur[1]
  <2>1. n + 1 - k \in DOMAIN r
    BY <1>5, <1>6, <1>7
  <2> QED BY <1>5, <1>6, <2>1
<1> QED BY <1>1, <1>2, <1>3, <1>15, <1>16, <1>17, <1>18

LEMMA RollKeeps ==
    ASSUME FlowTypes, FlowSound, cur # <<>>, NEW next \in Minute, NEW flows \in SUBSET Records, RollLocked(next, flows),
           cur[1].ts < next, next <= minute, UNCHANGED <<minute, gz>>, \A f \in flows : ~Recorded(f)
    PROVE  /\ RingInOrder' /\ SlotsOver' /\ DaysOver' /\ StoredOnce' /\ TwoForms'
           /\ \A s \in Stored' : \A f \in s.flows : Recorded(f)
<1>0. RingInOrder /\ SlotsOver /\ DaysOver /\ StoredOnce /\ TwoForms
  BY DEF FlowSound
<1>1. PICK ts : ts = cur[1].ts
  OBVIOUS
<1>2. PICK s : s = Folded(ts)
  OBVIOUS
<1>3. /\ ts \in Minute /\ ts \in Nat /\ next \in Nat /\ minute \in Nat /\ SlotMinutes \in Nat
      /\ minute \in Minute
  <2>1. minute \in Minute
    BY DEF FlowTypes
  <2> QED BY <1>1, <2>1, OpenFacts, MinuteFacts, FlowAssumption
<1>4. /\ s \in Summaries(SlotMinutes) /\ s.ts = Slot(ts)
      /\ \A f \in s.flows : f \in cur[1].flows \/ \E j \in DOMAIN minutes : f \in minutes[j].flows /\ Slot(minutes[j].ts) = Slot(ts)
  BY <1>1, <1>2, FoldedFacts
<1>5. /\ RingInOrder' /\ cur' # <<>> /\ DOMAIN cur' = {1} /\ cur'[1].ts = next /\ cur'[1].flows = flows
      /\ \A i \in DOMAIN minutes' : minutes'[i] = cur[1] \/ \E j \in DOMAIN minutes : minutes'[i] = minutes[j]
  BY RollRing
<1>6. Slot(ts) \in Nat /\ Slot(ts) <= ts /\ ts < Slot(ts) + SlotMinutes
  BY <1>3, SlotFacts
<1>7. ts \in Times /\ minute \in Times /\ Times' = {minute, next}
  BY <1>1, <1>5 DEF Times
<1>8. \A t \in Stored : t.ts \in Nat /\ t.ts + SlotMinutes <= ts /\ t.ts + SlotMinutes <= minute
  <2>1. \A t \in Summaries(SlotMinutes) : t.ts \in Nat
    BY MinuteFacts DEF Summaries
  <2> QED BY <1>0, <1>7, <2>1, StoredTyped DEF SlotsOver
<1>9. \A t \in Stored : Apart(t, cur[1]) /\ \A i \in DOMAIN minutes : ~Apart(t, minutes[i]) => Slot(minutes[i].ts) = t.ts
  BY <1>0 DEF SlotsOver
<1>10. ASSUME NEW t \in Stored PROVE Apart(t, s)
  <2> SUFFICES ASSUME NEW f, f \in t.flows, f \in s.flows PROVE FALSE
    BY DEF Apart
  <2>1. f \notin cur[1].flows
    BY <1>9 DEF Apart
  <2>2. PICK j \in DOMAIN minutes : f \in minutes[j].flows /\ Slot(minutes[j].ts) = Slot(ts)
    BY <1>4, <2>1
  <2>3. t.ts = Slot(ts)
    BY <1>9, <2>2 DEF Apart
  <2> QED BY <1>3, <1>6, <1>8, <2>3
<1>11. PICK D : D = DayAt(Slot(ts))
  OBVIOUS
<1>12. D \in FlowDay /\ D <= DayAt(Slot(next)) /\ D <= DayAt(Slot(minute))
  <2>1. Slot(ts) <= Slot(next) /\ Slot(ts) <= Slot(minute) /\ Slot(next) \in Nat /\ Slot(minute) \in Nat
    <3>1. ts <= next /\ ts <= minute
      BY <1>1, <1>3
    <3> QED BY <1>3, <3>1, SlotsRise, SlotFacts
  <2> QED BY <1>3, <1>6, <1>11, <2>1, DayFacts, MinuteFacts
<1>13. /\ \A d \in DOMAIN dayFile : d \in FlowDay /\ d <= D
       /\ \A d \in Packed : d \in FlowDay /\ d < D
  BY <1>0, <1>7, <1>11 DEF DaysOver, FlowTypes, Packed
<1>14. FlowDay \subseteq Nat /\ DayAt(Slot(next)) \in Nat /\ DayAt(Slot(minute)) \in Nat
  <2>1. Slot(next) \in Nat /\ Slot(minute) \in Nat
    BY <1>3, SlotFacts
  <2>2. FlowDay \subseteq Nat
    BY DEF FlowDay
  <2> QED BY <2>1, <2>2, DayFacts
<1>15. D \notin DOMAIN gz
  BY <1>12, <1>13, <1>14 DEF Packed
<1>16. \A f \in s.flows : f \notin flows
  BY <1>4 DEF Recorded
<1>17. /\ Stored' \subseteq Stored \cup {s} /\ (Stored' \subseteq Stored \/ Slot(ts) + SlotMinutes <= next)
       /\ StoredOnce' /\ TwoForms'
       /\ DOMAIN dayFile' \subseteq DOMAIN dayFile \cup {D} /\ Packed' \subseteq Packed \cup (DOMAIN dayFile \ {D})
       /\ (openDay' = D \/ (openDay' = openDay /\ Packed' = Packed))
  <2>1. CASE SlotOver(ts, next)
    <3>1. fives' = Newest(Append(fives, s), FiveRing) /\ PersistLocked(s)
      BY <1>1, <1>2, <2>1 DEF RollLocked
    <3>2. DayAt(s.ts) = D
      BY <1>4, <1>11
    <3>3. Slot(ts) + SlotMinutes <= next
      BY <1>3, <1>6, <2>1 DEF SlotOver
    <3>4. /\ Stored' \subseteq Stored \cup {s} /\ StoredOnce' /\ TwoForms'
          /\ DOMAIN dayFile' \subseteq DOMAIN dayFile \cup {DayAt(s.ts)} /\ openDay' = DayAt(s.ts)
          /\ Packed' \subseteq Packed \cup (DOMAIN dayFile \ {DayAt(s.ts)})
      BY <1>0, <1>4, <1>10, <1>15, <3>1, <3>2, PersistKeeps
    <3> QED BY <3>2, <3>3, <3>4
  <2>2. CASE ~SlotOver(ts, next)
    <3>1. UNCHANGED <<fives, dayFile, buffer, openDay, zips>>
      BY <1>1, <2>2 DEF RollLocked
    <3>2. Stored' = Stored /\ Packed' = Packed
      BY <3>1 DEF Stored, InFiles, InPacks, Packed
    <3> QED BY <1>0, <3>1, <3>2 DEF StoredOnce, TwoForms
  <2> QED BY <2>1, <2>2
<1>18. \A t \in Stored' : \A f \in t.flows : Recorded(f)
  BY <1>4, <1>17 DEF Recorded
<1>19. SlotsOver'
  <2>1. ASSUME NEW t \in Stored', NEW u \in Times' PROVE t.ts + SlotMinutes <= u
    <3>1. CASE t \in Stored
      BY <1>1, <1>3, <1>7, <1>8, <3>1
    <3>2. CASE t \notin Stored
      <4>1. t = s /\ Slot(ts) + SlotMinutes <= next
        BY <1>17, <3>2
      <4> QED BY <1>3, <1>4, <1>6, <1>7, <4>1
    <3> QED BY <3>1, <3>2
  <2>2. ASSUME NEW t \in Stored' PROVE Apart(t, cur'[1])
    <3>1. CASE t \in Stored
      BY <1>5, <3>1 DEF Recorded, Apart
    <3>2. CASE t = s
      BY <1>5, <1>16, <3>2 DEF Apart
    <3> QED BY <1>17, <3>1, <3>2
  <2>3. ASSUME NEW t \in Stored', NEW i \in DOMAIN minutes', ~Apart(t, minutes'[i]) PROVE Slot(minutes'[i].ts) = t.ts
    <3>1. CASE t \in Stored
      <4>1. minutes'[i] # cur[1]
        BY <1>9, <2>3, <3>1
      <4>2. PICK j \in DOMAIN minutes : minutes'[i] = minutes[j]
        BY <1>5, <4>1
      <4> QED BY <1>9, <2>3, <3>1, <4>2
    <3>2. CASE t = s
      <4>1. CASE minutes'[i] = cur[1]
        BY <1>1, <1>4, <3>2, <4>1
      <4>2. CASE minutes'[i] # cur[1]
        <5>1. PICK j \in DOMAIN minutes : minutes'[i] = minutes[j]
          BY <1>5, <4>2
        <5>2. PICK f : f \in s.flows /\ f \in minutes[j].flows
          BY <2>3, <3>2, <5>1 DEF Apart
        <5>3. f \notin cur[1].flows
          BY <1>0, <5>2 DEF RingInOrder, Apart
        <5>4. PICK l \in DOMAIN minutes : f \in minutes[l].flows /\ Slot(minutes[l].ts) = Slot(ts)
          BY <1>4, <5>2, <5>3
        <5>5. l = j
          BY <1>0, <5>2, <5>4 DEF RingInOrder, Apart
        <5> QED BY <1>4, <3>2, <5>1, <5>4, <5>5
      <4> QED BY <4>1, <4>2
    <3> QED BY <1>17, <3>1, <3>2
  <2> QED BY <2>1, <2>2, <2>3 DEF SlotsOver
<1>20. DaysOver'
  <2>1. ASSUME NEW d \in DOMAIN dayFile' PROVE d <= DayAt(Slot(next)) /\ d <= DayAt(Slot(minute))
    <3>1. d \in Nat /\ d <= D /\ D \in Nat
      BY <1>12, <1>13, <1>14, <1>17
    <3> QED BY <1>12, <1>14, <3>1
  <2>2. ASSUME NEW d \in Packed' PROVE d \in Nat /\ d < D
    <3>1. CASE d \in Packed
      BY <1>13, <1>14, <3>1
    <3>2. CASE d \in DOMAIN dayFile \ {D}
      BY <1>12, <1>13, <1>14, <3>2
    <3> QED BY <1>17, <3>1, <3>2
  <2>3. ASSUME NEW d \in Packed' PROVE d < DayAt(Slot(next)) /\ d < DayAt(Slot(minute))
    <3>1. d \in Nat /\ d < D /\ D \in Nat
      BY <1>12, <1>14, <2>2
    <3> QED BY <1>12, <1>14, <3>1
  <2>4. ASSUME openDay' # NoDay, NEW d \in Packed' PROVE d < openDay'
    BY <1>0, <1>17, <2>2, <2>4 DEF DaysOver
  <2> QED BY <1>7, <2>1, <2>3, <2>4 DEF DaysOver
<1> QED BY <1>5, <1>17, <1>18, <1>19, <1>20

\* A roll with what it does to the records: those of the new minute come from the feeds.
LEMMA RollSound ==
    ASSUME FlowTypes, FlowSound, cur # <<>>, NEW next \in Minute, NEW flows \in SUBSET Records, RollLocked(next, flows),
           cur[1].ts < next, next <= minute, UNCHANGED <<minute, exported, gz>>, feeds' \subseteq feeds,
           \A f \in flows : ~Recorded(f) /\ f <= exported, \A p \in feeds' : p[1] \notin flows,
           DOMAIN addedAt' = DOMAIN addedAt \cup flows, \A g \in flows : addedAt'[g] = next,
           \A g \in DOMAIN addedAt \ flows : addedAt'[g] = addedAt[g]
    PROVE  FlowSound'
<1>0. RecordsOnce /\ AddedStays
  BY DEF FlowSound
<1>1. /\ RingInOrder' /\ SlotsOver' /\ DaysOver' /\ StoredOnce' /\ TwoForms'
      /\ \A s \in Stored' : \A f \in s.flows : Recorded(f)
  BY RollKeeps
<1>2. /\ cur' # <<>> /\ DOMAIN cur' = {1} /\ cur'[1].ts = next /\ cur'[1].flows = flows
      /\ \A i \in DOMAIN minutes' : minutes'[i] = cur[1] \/ \E j \in DOMAIN minutes : minutes'[i] = minutes[j]
      /\ \A j \in DOMAIN minutes :
             (\E i \in DOMAIN minutes' : minutes'[i] = minutes[j]) \/ minutes[j].ts + MinuteRing <= next
      /\ \E i \in DOMAIN minutes' : minutes'[i] = cur[1]
  BY RollRing
<1>3. DOMAIN cur = {1}
  BY OpenFacts
<1>4. \A f : Recorded(f) => f <= exported /\ \A p \in feeds : p[1] # f
  <2>1. \A f \in cur[1].flows : f <= exported /\ \A p \in feeds : p[1] # f
    BY <1>0, <1>3 DEF RecordsOnce
  <2>2. \A i \in DOMAIN minutes : \A f \in minutes[i].flows : f <= exported /\ \A p \in feeds : p[1] # f
    BY <1>0 DEF RecordsOnce
  <2>3. \A s \in Stored : \A f \in s.flows : f <= exported /\ \A p \in feeds : p[1] # f
    BY <1>0 DEF RecordsOnce
  <2> QED BY <2>1, <2>2, <2>3 DEF Recorded
<1>5. \A i \in DOMAIN minutes' : \A f \in minutes'[i].flows : Recorded(f)
  BY <1>2 DEF Recorded
<1>6. RecordsOnce'
  <2>1. \A p, q \in feeds' : p[1] = q[1] => p = q
    BY <1>0 DEF RecordsOnce
  <2>2. ASSUME NEW p \in feeds'
        PROVE  /\ p[1] <= exported' /\ p[2] <= minute' /\ p[1] \notin DOMAIN addedAt'
               /\ \A i \in DOMAIN cur' : p[1] \notin cur'[i].flows
               /\ \A i \in DOMAIN minutes' : p[1] \notin minutes'[i].flows
               /\ \A s \in Stored' : p[1] \notin s.flows
    <3>1. p \in feeds /\ p[1] \notin flows /\ ~Recorded(p[1])
      BY <1>4
    <3>2. p[1] <= exported /\ p[2] <= minute /\ p[1] \notin DOMAIN addedAt
      BY <1>0, <3>1 DEF RecordsOnce
    <3> QED BY <1>1, <1>2, <1>5, <3>1, <3>2
  <2>3. /\ \A i \in DOMAIN cur' : \A g \in cur'[i].flows : g <= exported'
        /\ \A i \in DOMAIN minutes' : \A g \in minutes'[i].flows : g <= exported'
        /\ \A s \in Stored' : \A g \in s.flows : g <= exported'
    BY <1>1, <1>2, <1>4, <1>5
  <2>4. \A g \in DOMAIN addedAt' : g <= exported'
    BY <1>0 DEF RecordsOnce
  <2> QED BY <2>1, <2>2, <2>3, <2>4 DEF RecordsOnce
<1>7. AddedStays'
  <2> SUFFICES ASSUME NEW g \in DOMAIN addedAt'
               PROVE  \/ g \in cur'[1].flows /\ cur'[1].ts = addedAt'[g]
                      \/ \E i \in DOMAIN minutes' : g \in minutes'[i].flows /\ minutes'[i].ts = addedAt'[g]
                      \/ addedAt'[g] + MinuteRing <= cur'[1].ts
    BY DEF AddedStays
  <2>1. CASE g \in flows
    BY <1>2, <2>1
  <2>2. CASE g \notin flows
    <3>1. g \in DOMAIN addedAt /\ addedAt'[g] = addedAt[g]
      BY <2>2
    <3>2. CASE g \in cur[1].flows /\ cur[1].ts = addedAt[g]
      BY <1>2, <3>1, <3>2
    <3>3. CASE \E i \in DOMAIN minutes : g \in minutes[i].flows /\ minutes[i].ts = addedAt[g]
      <4>1. PICK j \in DOMAIN minutes : g \in minutes[j].flows /\ minutes[j].ts = addedAt[g]
        BY <3>3
      <4>2. CASE \E i \in DOMAIN minutes' : minutes'[i] = minutes[j]
        BY <3>1, <4>1, <4>2
      <4>3. CASE minutes[j].ts + MinuteRing <= next
        BY <1>2, <3>1, <4>1, <4>3
      <4> QED BY <1>2, <4>2, <4>3
    <3>4. CASE addedAt[g] + MinuteRing <= cur[1].ts
      <4>1. addedAt[g] \in Minute /\ cur[1].ts \in Nat
        BY <3>1, OpenFacts DEF FlowTypes
      <4>2. addedAt[g] \in Nat /\ next \in Nat /\ MinuteRing \in Nat
        BY <4>1, MinuteFacts, FlowAssumption
      <4>3. addedAt[g] + MinuteRing <= next
        BY <3>4, <4>1, <4>2
      <4> QED BY <1>2, <3>1, <4>3
    <3> QED BY <1>0, <3>1, <3>2, <3>3, <3>4 DEF AddedStays
  <2> QED BY <2>1, <2>2
<1> QED BY <1>1, <1>6, <1>7 DEF FlowSound

LEMMA FlowStep == FlowInv /\ [FlowNext]_flowVars => FlowInv'
<1> SUFFICES ASSUME FlowInv, [FlowNext]_flowVars PROVE FlowInv'
  OBVIOUS
<1>0. FlowTypes /\ DownIsEmpty /\ (turned \/ FlowSound)
  BY DEF FlowInv
<1>1. FlowTypes' /\ DownIsEmpty'
  BY <1>0, FlowTypesStep, DownStep
<1> SUFFICES ASSUME ~turned' PROVE FlowSound'
  BY <1>1 DEF FlowInv
<1>2. ~turned
  <2>1. turned => turned' \/ UNCHANGED turned
    <3>1. CASE UNCHANGED flowVars
      BY <3>1 DEF flowVars
    <3>2. CASE FlowNext
      BY <3>2 DEF FlowNext, Feed, AddRecords, TickRolls, TickFlushes, MinutePasses, ZipRename, ZipRemove, ZipEnds,
                  PruneFlows, FlowCrash, FlowClose, Stops, Reload
    <3> QED BY <3>1, <3>2
  <2> QED BY <2>1
<1>3. FlowSound
  BY <1>0, <1>2
<1>4. RecordsOnce /\ RingInOrder
  BY <1>3 DEF FlowSound
<1>5. ASSUME NEW f \in Records, NEW at \in Minute, AddRecords(f, at) PROVE FlowSound'
  <2>1. CASE cur = <<>> \/ cur[1].ts = at
    BY <1>0, <1>3, <1>5, <2>1, AddKeeps
  <2>2. CASE cur # <<>> /\ cur[1].ts # at
    <3>1. /\ <<f, at>> \in feeds /\ feeds' = feeds \ {<<f, at>>} /\ RollLocked(at, {f})
          /\ addedAt' = [g \in DOMAIN addedAt \cup {f} |-> IF g = f THEN at ELSE addedAt[g]]
          /\ turned' = (turned \/ (cur # <<>> /\ at < cur[1].ts)) /\ UNCHANGED <<minute, exported, gz, flowUp>>
      BY <1>5, <2>2 DEF AddRecords
    <3>2. cur[1].ts < at
      <4>1. cur[1].ts \in Nat /\ at \in Nat
        BY <1>0, <2>2, OpenFacts, MinuteFacts
      <4>2. ~(at < cur[1].ts)
        BY <2>2, <3>1
      <4> QED BY <2>2, <4>1, <4>2
    <3>3. f <= exported /\ at <= minute /\ ~Recorded(f) /\ \A p \in feeds' : p[1] # f
      <4>1. PICK p \in feeds : p = <<f, at>>
        BY <3>1
      <4>2. p[1] = f /\ p[2] = at
        BY <4>1
      <4>3. /\ p[1] <= exported /\ p[2] <= minute
            /\ \A i \in DOMAIN cur : p[1] \notin cur[i].flows
            /\ \A i \in DOMAIN minutes : p[1] \notin minutes[i].flows
            /\ \A s \in Stored : p[1] \notin s.flows
        BY <1>4 DEF RecordsOnce
      <4>4. DOMAIN cur = {1}
        BY <1>0, <2>2, OpenFacts
      <4>5. ~Recorded(f)
        BY <4>2, <4>3, <4>4 DEF Recorded
      <4>6. \A q \in feeds' : q[1] # f
        BY <1>4, <3>1, <4>1, <4>2 DEF RecordsOnce
      <4> QED BY <4>2, <4>3, <4>5, <4>6
    <3>4. /\ DOMAIN addedAt' = DOMAIN addedAt \cup {f} /\ \A g \in {f} : addedAt'[g] = at
          /\ \A g \in DOMAIN addedAt \ {f} : addedAt'[g] = addedAt[g]
      BY <3>1
    <3>5. {f} \in SUBSET Records /\ (\A g \in {f} : ~Recorded(g) /\ g <= exported) /\ (\A p \in feeds' : p[1] \notin {f}) /\ feeds' \subseteq feeds
      BY <3>1, <3>3
    <3> QED BY <1>0, <1>3, <2>2, <3>1, <3>2, <3>3, <3>4, <3>5, RollSound
  <2> QED BY <2>1, <2>2
<1>6. CASE TickRolls
  <2>1. /\ cur # <<>> /\ cur[1].ts # minute /\ RollLocked(minute, {})
        /\ UNCHANGED <<minute, exported, feeds, addedAt, gz, flowUp, turned>>
    BY <1>6 DEF TickRolls
  <2>2. minute \in Minute /\ minute \in Nat /\ cur[1].ts \in Nat /\ cur[1].ts <= minute
    <3>1. minute \in Minute
      BY <1>0 DEF FlowTypes
    <3> QED BY <1>0, <1>4, <2>1, <3>1, OpenFacts, MinuteFacts DEF RingInOrder
  <2>3. cur[1].ts < minute /\ minute <= minute
    BY <2>1, <2>2
  <2>4. {} \in SUBSET Records /\ DOMAIN addedAt' = DOMAIN addedAt \cup {}
    BY <2>1
  <2> QED BY <1>0, <1>3, <2>1, <2>2, <2>3, <2>4, RollSound
<1>7. ASSUME NEW f \in Records, Feed(f) PROVE FlowSound'
  BY <1>0, <1>3, <1>7, FeedKeeps
<1>8. CASE TickFlushes
  BY <1>0, <1>3, <1>8, FlushKeeps
<1>9. CASE MinutePasses
  BY <1>0, <1>3, <1>9, MinuteKeeps
<1>10. ASSUME NEW z \in zips, NEW d \in FlowDay, ZipRename(z, d) PROVE FlowSound'
  BY <1>0, <1>3, <1>10, ZipRenameKeeps
<1>11. CASE (\E z \in zips : ZipRemove(z) \/ ZipEnds(z)) \/ \E d \in FlowDay : PruneFlows(d)
  BY <1>0, <1>3, <1>11, ZipsAndPruneKeep
<1>12. CASE FlowCrash \/ FlowClose
  BY <1>0, <1>3, <1>12, StopsKeep DEF FlowCrash, FlowClose
<1>13. CASE Reload
  BY <1>0, <1>3, <1>13, ReloadKeeps
<1>14. CASE UNCHANGED flowVars
  <2>1. UNCHANGED <<minute, exported, feeds, addedAt, cur, minutes, fives, dayFile, buffer, openDay, gz, zips>>
    BY <1>14 DEF flowVars
  <2>2. Stored' = Stored
    BY <2>1 DEF Stored, InFiles, InPacks
  <2>3. RecordsOnce' /\ RingInOrder' /\ AddedStays' /\ SlotsOver' /\ Times' = Times
    BY <1>3, <2>1, <2>2, StoredShrinks
  <2> QED BY <1>3, <2>1, <2>3 DEF FlowSound, DaysOver, Packed, StoredOnce, TwoForms
<1> QED BY <1>5, <1>6, <1>7, <1>8, <1>9, <1>10, <1>11, <1>12, <1>13, <1>14 DEF FlowNext

LEMMA FlowInitInv == FlowInit => FlowInv
<1> SUFFICES ASSUME FlowInit PROVE FlowInv
  OBVIOUS
<1>1. /\ feeds = {} /\ cur = <<>> /\ minutes = <<>> /\ zips = {} /\ openDay = NoDay
      /\ DOMAIN cur = {} /\ DOMAIN minutes = {} /\ DOMAIN addedAt = {} /\ DOMAIN dayFile = {} /\ DOMAIN gz = {}
      /\ Range(fives) = {} /\ Range(buffer) = {} /\ OnceIn(fives) /\ OnceIn(buffer)
  BY DEF FlowInit, Range, OnceIn
<1>2. Stored = {} /\ Packed = {}
  BY <1>1 DEF Stored, InFiles, InPacks, Packed
<1>3. RecordsOnce /\ RingInOrder /\ AddedStays /\ SlotsOver
  BY <1>1, <1>2 DEF RecordsOnce, RingInOrder, AddedStays, SlotsOver
<1>4. DaysOver /\ StoredOnce /\ TwoForms
  BY <1>1, <1>2 DEF DaysOver, StoredOnce, TwoForms
<1> QED BY <1>3, <1>4, FlowInitTypes DEF FlowInv, FlowSound

LEMMA AtMostOne ==
    ASSUME NEW P, \A p, q \in P : p = q
    PROVE  Cardinality(P) \in {0, 1} /\ (P # {} => Cardinality(P) = 1)
<1>1. CASE P = {}
  BY <1>1, FS_EmptySet
<1>2. CASE P # {}
  <2>1. PICK p \in P : P = {p}
    BY <1>2
  <2>2. Cardinality({p}) = 1
    BY FS_Singleton
  <2> QED BY <2>1, <2>2
<1> QED BY <1>1, <1>2

\* The first minute a window takes is not after any other it takes.
LEMMA FirstFacts ==
    ASSUME FlowTypes, NEW since, NEW i \in Since(minutes, since)
    PROVE  First(since) # NoFirst /\ First(since) \in Nat /\ First(since) <= minutes[i].ts
<1>1. PICK taken : taken = {minutes[j].ts : j \in Since(minutes, since)}
  OBVIOUS
<1>2. taken \subseteq Minute /\ minutes[i].ts \in taken
  <2>1. \A j \in DOMAIN minutes : minutes[j] \in Summaries(1)
    BY ElementOfSeq, LenProperties DEF FlowTypes
  <2>2. \A j \in DOMAIN minutes : minutes[j].ts \in Minute
    BY <2>1 DEF Summaries
  <2>3. Since(minutes, since) \subseteq DOMAIN minutes
    BY DEF Since
  <2> QED BY <1>1, <2>2, <2>3
<1>3. taken \subseteq Nat
  BY <1>2, MinuteFacts
<1>4. \E m \in taken : \A n \in taken : m <= n
  BY <1>2, <1>3, LeastThere
<1>5. PICK m : m = CHOOSE k \in taken : \A n \in taken : k <= n
  OBVIOUS
<1>6. m \in taken /\ \A n \in taken : m <= n
  BY <1>4, <1>5, Zenon
<1>7. First(since) = m
  BY <1>1, <1>2, <1>5 DEF First
<1>8. m # NoFirst
  BY <1>2, <1>6, FlowAssumption DEF Minute, NoFirst
<1> QED BY <1>2, <1>3, <1>6, <1>7, <1>8

\* A place a window reads is of the ring, of the open minute or of the summaries before both.
LEMMA PlacesFacts ==
    ASSUME FlowTypes, NEW since, NEW p, p \in Pick(since, TRUE) \cup Pick(since, FALSE)
    PROVE  \/ p[1] = "minutes" /\ p = <<"minutes", p[2]>> /\ p[2] \in Since(minutes, since) /\ p[2] \in DOMAIN minutes /\ Picked(p) = minutes[p[2]]
           \/ p[1] = "cur" /\ p = <<"cur", p[2]>> /\ p[2] = 1 /\ cur # <<>> /\ Picked(p) = cur[1]
           \/ p[1] = "fives" /\ p = <<"fives", p[2]>> /\ p[2] \in DOMAIN fives /\ Picked(p) = fives[p[2]]
<1>1. \/ p \in {"minutes"} \X Since(minutes, since)
      \/ p \in {"cur"} \X Open1
      \/ p \in {"fives"} \X Since(fives, since)
  BY DEF Pick
<1>2. CASE p \in {"minutes"} \X Since(minutes, since)
  BY <1>2 DEF Since, Picked
<1>3. CASE p \in {"cur"} \X Open1
  BY <1>3 DEF Open1, Picked
<1>4. CASE p \in {"fives"} \X Since(fives, since)
  BY <1>4 DEF Since, Picked
<1> QED BY <1>1, <1>2, <1>3, <1>4

\* With a window's minutes, only summaries of earlier slots are taken.
LEMMA FivesBefore ==
    ASSUME FlowTypes, SlotsOver, NEW since, NEW p \in Pick(since, TRUE), p[1] = "fives",
           NEW i \in Since(minutes, since)
    PROVE  Apart(Picked(p), minutes[i])
<1>1. p \in {"fives"} \X (Since(fives, since) \cap Preceding(First(since)))
  <2>1. \/ p \in {"minutes"} \X Since(minutes, since)
        \/ p \in {"cur"} \X Open1
        \/ p \in {"fives"} \X (Since(fives, since) \cap Preceding(First(since)))
    BY DEF Pick
  <2> QED BY <2>1
<1>2. PICK l : l = p[2]
  OBVIOUS
<1>3. l \in DOMAIN fives /\ l \in Preceding(First(since)) /\ Picked(p) = fives[l]
  BY <1>1, <1>2 DEF Since, Picked
<1>4. fives[l] \in Summaries(SlotMinutes)
  BY <1>3, ElementOfSeq, LenProperties DEF FlowTypes
<1>5. fives[l].ts \in Nat /\ fives[l].span = SlotMinutes
  BY <1>4, MinuteFacts DEF Summaries
<1>6. First(since) # NoFirst /\ First(since) \in Nat /\ First(since) <= minutes[i].ts
  BY FirstFacts
<1>7. fives[l].ts + SlotMinutes <= First(since)
  BY <1>3, <1>5, <1>6 DEF Preceding
<1>8. i \in DOMAIN minutes /\ fives[l] \in Stored
  <2>1. fives[l] \in Range(fives)
    BY <1>3 DEF Range
  <2> QED BY <2>1, StoredHolds DEF Since
<1>9. minutes[i].ts \in Nat /\ SlotMinutes \in Nat
  <2>1. minutes[i] \in Summaries(1)
    BY <1>8, ElementOfSeq, LenProperties DEF FlowTypes
  <2>2. minutes[i].ts \in Minute
    BY <2>1 DEF Summaries
  <2> QED BY <2>2, MinuteFacts, FlowAssumption
<1>10. minutes[i].ts < Slot(minutes[i].ts) + SlotMinutes /\ Slot(minutes[i].ts) \in Nat
  BY <1>9, SlotFacts
<1>11. ~Apart(fives[l], minutes[i]) => Slot(minutes[i].ts) = fives[l].ts
  BY <1>8 DEF SlotsOver
<1> QED BY <1>3, <1>5, <1>6, <1>7, <1>9, <1>10, <1>11

LEMMA WindowApart ==
    ASSUME FlowTypes, FlowSound, NEW since, NEW short \in BOOLEAN,
           NEW p \in Pick(since, short), NEW q \in Pick(since, short), NEW f, f \in Picked(p).flows, f \in Picked(q).flows
    PROVE  p = q
<1>0. RingInOrder /\ SlotsOver /\ StoredOnce
  BY DEF FlowSound
<1>1. p \in Pick(since, TRUE) \cup Pick(since, FALSE) /\ q \in Pick(since, TRUE) \cup Pick(since, FALSE)
  OBVIOUS
<1>2. \/ p[1] = "minutes" /\ p = <<"minutes", p[2]>> /\ p[2] \in Since(minutes, since) /\ p[2] \in DOMAIN minutes /\ Picked(p) = minutes[p[2]]
      \/ p[1] = "cur" /\ p = <<"cur", p[2]>> /\ p[2] = 1 /\ cur # <<>> /\ Picked(p) = cur[1]
      \/ p[1] = "fives" /\ p = <<"fives", p[2]>> /\ p[2] \in DOMAIN fives /\ Picked(p) = fives[p[2]]
  BY <1>1, PlacesFacts
<1>3. \/ q[1] = "minutes" /\ q = <<"minutes", q[2]>> /\ q[2] \in Since(minutes, since) /\ q[2] \in DOMAIN minutes /\ Picked(q) = minutes[q[2]]
      \/ q[1] = "cur" /\ q = <<"cur", q[2]>> /\ q[2] = 1 /\ cur # <<>> /\ Picked(q) = cur[1]
      \/ q[1] = "fives" /\ q = <<"fives", q[2]>> /\ q[2] \in DOMAIN fives /\ Picked(q) = fives[q[2]]
  BY <1>1, PlacesFacts
<1>4. ASSUME NEW i \in DOMAIN minutes, NEW j \in DOMAIN minutes, f \in minutes[i].flows, f \in minutes[j].flows PROVE i = j
  BY <1>0, <1>4 DEF RingInOrder, Apart
<1>5. ASSUME NEW i \in DOMAIN fives, NEW j \in DOMAIN fives, f \in fives[i].flows, f \in fives[j].flows PROVE i = j
  BY <1>0, <1>5 DEF StoredOnce, OnceIn, Apart
<1>6. ASSUME NEW i \in DOMAIN minutes, f \in minutes[i].flows, cur # <<>> PROVE f \notin cur[1].flows
  BY <1>0, <1>6 DEF RingInOrder, Apart
<1>7. ASSUME NEW i \in DOMAIN fives, f \in fives[i].flows, cur # <<>> PROVE f \notin cur[1].flows
  <2>1. fives[i] \in Stored
    <3>1. fives[i] \in Range(fives)
      BY DEF Range
    <3> QED BY <3>1, StoredHolds
  <2> QED BY <1>0, <1>7, <2>1 DEF SlotsOver, Apart
<1>8. ASSUME NEW u \in Pick(since, short), u[1] = "fives", NEW i \in Since(minutes, since), f \in Picked(u).flows, short
      PROVE  f \notin minutes[i].flows
  <2>1. u \in Pick(since, TRUE)
    BY <1>8
  <2>2. Apart(Picked(u), minutes[i])
    BY <1>0, <1>8, <2>1, FivesBefore
  <2> QED BY <1>8, <2>2 DEF Apart
<1>9. ~short => p[1] = "fives" /\ q[1] = "fives"
  BY DEF Pick
<1> QED BY <1>2, <1>3, <1>4, <1>5, <1>6, <1>7, <1>8, <1>9

LEMMA FlowInvMeans == FlowInv => WindowCountsOnce
<1> SUFFICES ASSUME FlowInv, ~turned, NEW since \in Minute
             PROVE  /\ \A f \in Records, short \in BOOLEAN : Counted(Pick(since, short), f) <= 1
                    /\ since > minute - ShortWindow =>
                           \A f \in DOMAIN addedAt : addedAt[f] >= since => Counted(Pick(since, TRUE), f) = 1
  BY DEF WindowCountsOnce
<1>0. FlowTypes /\ DownIsEmpty /\ FlowSound
  BY DEF FlowInv
<1>1. ASSUME NEW f, NEW short \in BOOLEAN
      PROVE  /\ Counted(Pick(since, short), f) \in {0, 1}
             /\ \A p \in Pick(since, short) : f \in Picked(p).flows => Counted(Pick(since, short), f) = 1
  <2>1. PICK P : P = {p \in Pick(since, short) : f \in Picked(p).flows}
    OBVIOUS
  <2>2. \A p, q \in P : p = q
    BY <1>0, <2>1, WindowApart
  <2>3. Cardinality(P) \in {0, 1} /\ (P # {} => Cardinality(P) = 1)
    BY <2>2, AtMostOne
  <2>4. Counted(Pick(since, short), f) = Cardinality(P)
    BY <2>1 DEF Counted
  <2> QED BY <2>1, <2>3, <2>4
<1>2. ASSUME since > minute - ShortWindow, NEW f \in DOMAIN addedAt, addedAt[f] >= since
      PROVE  \E p \in Pick(since, TRUE) : f \in Picked(p).flows
  <2>1. cur # <<>> /\ AddedStays /\ RingInOrder
    BY <1>0 DEF DownIsEmpty, FlowSound
  <2>2. CASE f \in cur[1].flows /\ cur[1].ts = addedAt[f]
    <3>1. Open1 = {1}
      BY <2>1, <2>2 DEF Open1
    <3>2. <<"cur", 1>> \in Pick(since, TRUE) /\ Picked(<<"cur", 1>>) = cur[1]
      BY <3>1 DEF Pick, Picked
    <3> QED BY <2>2, <3>2
  <2>3. CASE \E i \in DOMAIN minutes : f \in minutes[i].flows /\ minutes[i].ts = addedAt[f]
    <3>1. PICK i \in DOMAIN minutes : f \in minutes[i].flows /\ minutes[i].ts = addedAt[f]
      BY <2>3
    <3>2. i \in Since(minutes, since)
      BY <1>2, <3>1 DEF Since
    <3>3. <<"minutes", i>> \in Pick(since, TRUE) /\ Picked(<<"minutes", i>>) = minutes[i]
      BY <3>2 DEF Pick, Picked
    <3> QED BY <3>1, <3>3
  <2>4. CASE addedAt[f] + MinuteRing <= cur[1].ts
    <3>1. addedAt[f] \in Minute /\ minute \in Minute /\ cur[1].ts \in Nat /\ cur[1].ts <= minute
      BY <1>0, <2>1, OpenFacts DEF FlowTypes, RingInOrder
    <3>2. addedAt[f] \in Nat /\ minute \in Nat /\ since \in Nat
      BY <3>1, MinuteFacts
    <3>3. MinuteRing \in Nat /\ ShortWindow \in Nat /\ ShortWindow <= MinuteRing
      BY FlowAssumption
    <3> QED BY <1>2, <2>4, <3>1, <3>2, <3>3
  <2> QED BY <2>1, <2>2, <2>3, <2>4 DEF AddedStays
<1>3. \A f \in Records, short \in BOOLEAN : Counted(Pick(since, short), f) <= 1
  BY <1>1
<1>4. since > minute - ShortWindow => \A f \in DOMAIN addedAt : addedAt[f] >= since => Counted(Pick(since, TRUE), f) = 1
  BY <1>1, <1>2
<1> QED BY <1>3, <1>4

\* What the rings, the buffer, the day files and the archives hold of the flows added, as
\* Add, roll, flush and the compressor leave it: each flow in one summary of each kind, a
\* summary in one form (agg.go).
THEOREM FlowInvariant == FlowSpec => []FlowInv
<1>1. FlowInit => FlowInv
  BY FlowInitInv
<1>2. FlowInv /\ [FlowNext]_flowVars => FlowInv'
  BY FlowStep
<1> QED BY <1>1, <1>2, PTL DEF FlowSpec

\* A question about a time window counts no flow twice, and one about the last minutes
\* counts every flow added since (pick).
THEOREM WindowsCountOnce == FlowSpec => []WindowCountsOnce
BY FlowInvariant, FlowInvMeans, PTL

-----------------------------------------------------------------------------
(* Types.                                                                  *)

LEMMA RangeIn == ASSUME NEW T, NEW s \in Seq(T) PROVE Range(s) \subseteq T
<1>1. s \in [1 .. Len(s) -> T]
  BY LenProperties
<1> QED BY <1>1 DEF Range

LEMMA FlowInvTypes == FlowInv => FlowTypeOK
<1> SUFFICES ASSUME FlowTypes PROVE FlowTypeOK
  BY DEF FlowInv
<1>1. Range(minutes) \subseteq Summaries(1) /\ Range(fives) \subseteq Summaries(SlotMinutes) /\ Range(buffer) \subseteq Summaries(SlotMinutes)
  BY RangeIn DEF FlowTypes
<1>2. \A d \in DOMAIN dayFile : Range(dayFile[d]) \subseteq Summaries(SlotMinutes)
  BY RangeIn DEF FlowTypes
<1> QED BY <1>1, <1>2 DEF FlowTypes, FlowTypeOK

LEMMA ParentInvTypes == ParentInv => ParentTypeOK
BY DEF ParentInv, SearchTypes, ParentTypeOK

LEMMA EngineInvTypes == EngineInv => TypeOK
BY DEF EngineInv

\* A reading and a rate are less than a round of the widest counter.
LEMMA ReadingTypes ==
    ASSUME CountersTypeOK, NEW wide \in BOOLEAN, NEW narrow \in BOOLEAN
    PROVE  Reading(wide, narrow) \in [octets : 0 .. Wide - 1, hc : BOOLEAN, uptime : 0 .. MaxUp]
<1>1. agent.octets \in Nat /\ agent.hc \in BOOLEAN /\ agent.uptime \in 0 .. MaxUp
  BY CountersAssumption DEF CountersTypeOK
<1>2. Wide \in Nat \ {0} /\ Narrow \in Nat \ {0} /\ Narrow < Wide
  BY CountersAssumption
<1>3. agent.octets % Wide \in 0 .. Wide - 1 /\ agent.octets % Narrow \in 0 .. Narrow - 1
  BY <1>1, <1>2, ModFacts
<1>4. agent.octets % Narrow \in 0 .. Wide - 1 /\ 0 \in 0 .. Wide - 1
  BY <1>2, <1>3
<1> QED BY <1>1, <1>3, <1>4 DEF Reading

LEMMA RateTypes ==
    ASSUME NEW p \in 0 .. Wide - 1, NEW c \in 0 .. Wide - 1, NEW hc \in BOOLEAN
    PROVE  Rate(p, c, hc) \in 0 .. Wide - 1
<1>1. Wide \in Nat \ {0} /\ Narrow \in Nat \ {0} /\ Narrow < Wide
  BY CountersAssumption
<1>2. (Narrow - p + c) % Wide \in 0 .. Wide - 1
  BY <1>1
<1>3. c >= p => c - p \in 0 .. Wide - 1
  BY <1>1
<1> QED BY <1>1, <1>2, <1>3 DEF Rate

LEMMA CountersTyped ==
    /\ CountersInit => CountersTypeOK
    /\ CountersTypeOK /\ [CountersNext]_counterVars => CountersTypeOK'
<1>0. {Wide, Narrow, MaxOctets, MaxUp} \subseteq Nat \ {0} /\ HasHC \subseteq BOOLEAN
  BY CountersAssumption
<1>1. CountersInit => CountersTypeOK
  BY <1>0 DEF CountersInit, CountersTypeOK, NoRate
<1>2. ASSUME CountersTypeOK, [CountersNext]_counterVars PROVE CountersTypeOK'
  <2>1. CASE UNCHANGED counterVars
    BY <1>2, <2>1 DEF counterVars, CountersTypeOK
  <2>2. CASE \E n \in 1 .. Narrow : Send(n)
    BY <1>0, <1>2, <2>2 DEF Send, CountersTypeOK
  <2>3. CASE UpSecond \/ DeviceRestart
    <3>1. PICK o, u, h : agent = [octets |-> o, uptime |-> u, hc |-> h] /\ o \in 0 .. MaxOctets /\ u \in 0 .. MaxUp /\ h \in BOOLEAN
      BY <1>2 DEF CountersTypeOK
    <3>2. PICK now : now = agent'
      OBVIOUS
    <3>3. (now = [octets |-> o, uptime |-> u + 1, hc |-> h] /\ u < MaxUp) \/ now = [octets |-> 0, uptime |-> 0, hc |-> h]
      BY <2>3, <3>1, <3>2 DEF UpSecond, DeviceRestart
    <3>4. now \in [octets : 0 .. MaxOctets, uptime : 0 .. MaxUp, hc : BOOLEAN]
      BY <1>0, <3>1, <3>3
    <3>5. spoilt' \subseteq {"walk", "restart"} /\ UNCHANGED <<lastRead, seen, shown, sinceRead, between>>
      BY <1>2, <2>3 DEF UpSecond, DeviceRestart, CountersTypeOK
    <3> QED BY <1>2, <3>2, <3>4, <3>5 DEF CountersTypeOK
  <2>4. CASE \E wide, narrow \in BOOLEAN : PollInterfaces(wide, narrow)
    <3>1. PICK wide, narrow \in BOOLEAN : PollInterfaces(wide, narrow)
      BY <2>4
    <3>2. PICK r : r = Reading(wide, narrow)
      OBVIOUS
    <3>3. r \in [octets : 0 .. Wide - 1, hc : BOOLEAN, uptime : 0 .. MaxUp]
      BY <1>2, <3>2, ReadingTypes
    <3>4. /\ shown' = (IF Comparable(r) /\ r.uptime # lastRead.uptime THEN Rate(lastRead.octets, r.octets, r.hc) ELSE NoRate)
          /\ lastRead' = r /\ seen' = r.uptime /\ sinceRead' = 0 /\ agent' = agent
          /\ spoilt' = (IF r.hc = agent.hc /\ (r.hc \/ narrow) THEN {} ELSE {"walk"})
          /\ between' = [octets |-> sinceRead, spoilt |-> "walk" \in spoilt \cup spoilt' \/ Hidden(r)]
      BY <3>1, <3>2 DEF PollInterfaces
    <3>5. Comparable(r) => Rate(lastRead.octets, r.octets, r.hc) \in 0 .. Wide - 1
      <4>1. Comparable(r) => lastRead \in [octets : 0 .. Wide - 1, hc : BOOLEAN, uptime : 0 .. MaxUp]
        BY <1>2 DEF Comparable, CountersTypeOK
      <4> QED BY <3>3, <4>1, RateTypes
    <3>6. shown' \in NoRate .. Wide - 1
      BY <1>0, <3>4, <3>5 DEF NoRate
    <3>7. between' \in [octets : Nat, spoilt : BOOLEAN]
      <4>1. ("walk" \in spoilt \cup spoilt' \/ Hidden(r)) \in BOOLEAN
        OBVIOUS
      <4> QED BY <1>2, <3>4, <4>1 DEF CountersTypeOK
    <3>8. spoilt' \subseteq {"walk", "restart"}
      BY <3>4
    <3> QED BY <1>0, <1>2, <3>3, <3>4, <3>6, <3>7, <3>8 DEF CountersTypeOK
  <2> QED BY <1>2, <2>1, <2>2, <2>3, <2>4 DEF CountersNext
<1> QED BY <1>1, <1>2

\* What the cap leaves fits the table.
LEMMA CappedFits ==
    ASSUME NEW es, DOMAIN es \subseteq Mac, NEW drop \in SUBSET DOMAIN es, Capped(es, drop)
    PROVE  DOMAIN Without(es, drop) = DOMAIN es \ drop /\ Cardinality(DOMAIN Without(es, drop)) <= MaxMACs
<1>1. PICK S : S = DOMAIN es
  OBVIOUS
<1>2. IsFiniteSet(Mac) /\ MaxMACs \in Nat
  BY EndpointsAssumption
<1>3. PICK T : T = S \ drop
  OBVIOUS
<1>4. IsFiniteSet(S) /\ IsFiniteSet(drop) /\ IsFiniteSet(T)
  BY <1>1, <1>2, <1>3, FS_Subset
<1>5. Cardinality(S) \in Nat /\ Cardinality(drop) \in Nat /\ Cardinality(T) \in Nat
  BY <1>4, FS_CardinalityType
<1>6. Cardinality(T) + Cardinality(drop) = Cardinality(S)
  <2>1. T \cup drop = S /\ T \cap drop = {}
    BY <1>1, <1>3
  <2>2. Cardinality(T \cap drop) = 0
    BY <2>1, FS_EmptySet
  <2>3. Cardinality(T \cup drop) = Cardinality(T) + Cardinality(drop) - Cardinality(T \cap drop)
    BY <1>4, FS_Union
  <2>4. Cardinality(S) = Cardinality(T) + Cardinality(drop) - 0
    BY <2>1, <2>2, <2>3
  <2> QED BY <1>5, <2>4
<1>7. Cardinality(drop) = (IF Cardinality(S) > MaxMACs THEN Cardinality(S) - MaxMACs ELSE 0)
  BY <1>1 DEF Capped
<1>8. Cardinality(T) <= MaxMACs
  BY <1>2, <1>5, <1>6, <1>7
<1> QED BY <1>1, <1>3, <1>8 DEF Without

\* An endpoint of the table, and the sightings of one.
EpOK(e) == IsEp(e) /\ Place(e) \in Placement /\ e.silent \in 0 .. 2
SeenBySwitches(st) == \A m \in DOMAIN st : DOMAIN st[m] \subseteq Switch

LEMMA HeardIn == ASSUME NEW S, NEW m, m \in S \/ eps[m].silent \in 0 .. 2 PROVE Heard(S, m) \in 0 .. 2
<1>1. CASE m \in S
  BY <1>1 DEF Heard
<1>2. CASE m \notin S
  <2>1. PICK T : T = {eps[m].silent, 1}
    OBVIOUS
  <2>2. T \subseteq 0 .. 100 /\ T # {} /\ T \subseteq 0 .. 2
    BY <1>2, <2>1
  <2>3. Max(T) \in T
    BY <2>2, LargestThere
  <2>4. Heard(S, m) = Max(T)
    BY <1>2, <2>1 DEF Heard
  <2> QED BY <2>2, <2>3, <2>4
<1> QED BY <1>1, <1>2

\* What is left after a table or a lease has its types when what it was cut from has.
LEMMA CutTyped ==
    ASSUME NEW es, NEW st, NEW drop \in SUBSET DOMAIN es, Capped(es, drop),
           DOMAIN es \subseteq Mac, DOMAIN st \subseteq DOMAIN es, \A m \in DOMAIN es : EpOK(es[m]), SeenBySwitches(st),
           eps' = Without(es, drop), sight' = Without(st, drop)
    PROVE  EndpointsTypeOK'
<1>1. DOMAIN eps' = DOMAIN es \ drop /\ Cardinality(DOMAIN eps') <= MaxMACs
  BY CappedFits
<1>2. \A m \in DOMAIN eps' : eps'[m] = es[m]
  BY DEF Without
<1>3. DOMAIN sight' = DOMAIN st \ drop /\ \A m \in DOMAIN sight' : sight'[m] = st[m]
  BY DEF Without
<1> QED BY <1>1, <1>2, <1>3 DEF EndpointsTypeOK, EpOK, SeenBySwitches

LEMMA ObserveFDBTyped ==
    ASSUME EpInv, EndpointsTypeOK, NEW d \in Switch, NEW table \in Tables, NEW up, ObserveFDB(d, table, up)
    PROVE  EndpointsTypeOK'
<1>0. (\A m \in DOMAIN eps : EpOK(eps[m])) /\ SightOK(sight) /\ DOMAIN eps \subseteq Mac /\ DOMAIN sight \subseteq DOMAIN eps /\ SeenBySwitches(sight)
  BY DEF EpInv, EndpointsTypeOK, EpOK, SeenBySwitches
<1>1. PICK st : st = Sighted(d, table, up)
  OBVIOUS
<1>2. PICK now : now = Touched(table, up)
  OBVIOUS
<1>3. PICK es : es = [m \in DOMAIN eps \cup now |->
                  LET p == IF m \in now THEN Placed(st, m, d) ELSE Place(eps[m])
                  IN  [dev |-> p.dev, port |-> p.port, silent |-> Heard(now, m)]]
  OBVIOUS
<1>4. PICK drop \in SUBSET DOMAIN es : Capped(es, drop) /\ eps' = Without(es, drop) /\ sight' = Without(st, drop)
  BY <1>1, <1>2, <1>3 DEF ObserveFDB
<1>5. /\ DOMAIN st = {x \in Mac : (DOMAIN SightsOf(sight, x) \ {d}) \cup (IF x \in now THEN {d} ELSE {}) # {}}
      /\ \A m \in DOMAIN st : DOMAIN st[m] = (DOMAIN SightsOf(sight, m) \ {d}) \cup (IF m \in now THEN {d} ELSE {})
      /\ \A m \in DOMAIN st : DOMAIN st[m] # {}
  BY <1>1, <1>2 DEF Sighted
<1>6. now \subseteq Mac /\ DOMAIN es = DOMAIN eps \cup now
  BY <1>2, <1>3 DEF Touched
<1>7. \A m : DOMAIN SightsOf(sight, m) # {} => m \in DOMAIN sight /\ SightsOf(sight, m) = sight[m]
  BY DEF SightsOf, Known
<1>8. DOMAIN st \subseteq DOMAIN es
  BY <1>0, <1>5, <1>6, <1>7
<1>9. SeenBySwitches(st)
  <2> SUFFICES ASSUME NEW m \in DOMAIN st, NEW x \in DOMAIN st[m], x # d PROVE x \in Switch
    BY DEF SeenBySwitches
  <2>1. x \in DOMAIN SightsOf(sight, m)
    BY <1>5
  <2> QED BY <1>0, <1>7, <2>1 DEF SeenBySwitches
<1>10. SightOK(st)
  <2>1. SightsTaken(Sighted(d, table, up), Touched(table, up), d)
    BY <1>0, SightedFacts
  <2> QED BY <1>1, <1>2, <2>1 DEF SightsTaken
<1>11. ASSUME NEW m \in DOMAIN es PROVE EpOK(es[m])
  <2>1. PICK h : h = Heard(now, m)
    OBVIOUS
  <2>2. h \in 0 .. 2
    BY <1>0, <1>6, <2>1, HeardIn DEF EpOK
  <2>3. CASE m \in now
    <3>1. m \in DOMAIN st
      BY <1>5, <1>6, <2>3
    <3>2. PICK b, p : b = BestSight(st, m, d) /\ p = st[m][b].port
      OBVIOUS
    <3>3. b \in DOMAIN st[m]
      BY <1>5, <1>10, <3>1, <3>2, BestSightFacts
    <3>4. b \in Switch /\ p \in Port
      BY <1>9, <1>10, <3>1, <3>2, <3>3 DEF SeenBySwitches, SightOK
    <3>5. Placed(st, m, d) = [dev |-> b, port |-> p]
      BY <3>2 DEF Placed
    <3>6. es[m] = [dev |-> b, port |-> p, silent |-> h]
      BY <1>3, <2>1, <2>3, <3>5
    <3> QED BY <2>2, <3>4, <3>6 DEF EpOK, IsEp, Place, Placement
  <2>4. CASE m \notin now
    <3>1. m \in DOMAIN eps
      BY <1>6, <2>4
    <3>2. es[m] = [dev |-> eps[m].dev, port |-> eps[m].port, silent |-> h]
      BY <1>3, <2>1, <2>4 DEF Place
    <3> QED BY <1>0, <2>2, <3>1, <3>2 DEF EpOK, IsEp, Place
  <2> QED BY <2>3, <2>4
<1> QED BY <1>0, <1>4, <1>6, <1>8, <1>9, <1>11, CutTyped

LEMMA ObserveARPTyped ==
    ASSUME EpInv, EndpointsTypeOK, NEW r, NEW S \in SUBSET Mac, ObserveARP(r, S)
    PROVE  EndpointsTypeOK'
<1>0. (\A m \in DOMAIN eps : EpOK(eps[m])) /\ DOMAIN eps \subseteq Mac /\ DOMAIN sight \subseteq DOMAIN eps /\ SeenBySwitches(sight)
  BY DEF EpInv, EndpointsTypeOK, EpOK, SeenBySwitches
<1>1. PICK es : es = [m \in DOMAIN eps \cup S |->
                  IF Known(eps, m) THEN [eps[m] EXCEPT !.silent = Heard(S, m)]
                                   ELSE [dev |-> NoDevice, port |-> 0, silent |-> 0]]
  OBVIOUS
<1>2. PICK drop \in SUBSET DOMAIN es : Capped(es, drop) /\ eps' = Without(es, drop) /\ sight' = Without(sight, drop)
  BY <1>1 DEF ObserveARP
<1>3. DOMAIN es = DOMAIN eps \cup S
  BY <1>1
<1>4. ASSUME NEW m \in DOMAIN es PROVE EpOK(es[m])
  <2>1. CASE m \in DOMAIN eps
    <3>1. PICK x, y, z, h : eps[m] = [dev |-> x, port |-> y, silent |-> z] /\ h = Heard(S, m)
      BY <1>0, <2>1 DEF EpOK, IsEp
    <3>2. PICK e : e = eps[m]
      OBVIOUS
    <3>3. es[m] = [e EXCEPT !.silent = h]
      BY <1>1, <1>3, <2>1, <3>1, <3>2 DEF Known
    <3>4. es[m] = [dev |-> x, port |-> y, silent |-> h] /\ e = [dev |-> x, port |-> y, silent |-> z]
      BY <3>1, <3>2, <3>3
    <3>5. h \in 0 .. 2
      BY <1>0, <2>1, <3>1, HeardIn DEF EpOK
    <3>6. [dev |-> x, port |-> y] \in Placement
      <4>1. e.dev = x /\ e.port = y
        BY <3>4
      <4> QED BY <1>0, <2>1, <3>2, <4>1 DEF EpOK, Place
    <3> QED BY <3>4, <3>5, <3>6 DEF EpOK, IsEp, Place
  <2>2. CASE m \notin DOMAIN eps
    <3>1. es[m] = [dev |-> NoDevice, port |-> 0, silent |-> 0]
      BY <1>1, <1>3, <2>2 DEF Known
    <3> QED BY <3>1 DEF EpOK, IsEp, Place, Placement, Nowhere
  <2> QED BY <2>1, <2>2
<1> QED BY <1>0, <1>2, <1>3, <1>4, CutTyped

LEMMA EndpointsTyped ==
    /\ EndpointsInit => EndpointsTypeOK
    /\ EpInv /\ EndpointsTypeOK /\ [EndpointsNext]_epVars => EndpointsTypeOK'
<1>1. EndpointsInit => EndpointsTypeOK
  BY EndpointsAssumption, FS_EmptySet DEF EndpointsInit, EndpointsTypeOK
<1> SUFFICES ASSUME EpInv, EndpointsTypeOK, [EndpointsNext]_epVars PROVE EndpointsTypeOK'
  BY <1>1
<1>2. (\A m \in DOMAIN eps : EpOK(eps[m])) /\ DOMAIN eps \subseteq Mac /\ DOMAIN sight \subseteq DOMAIN eps /\ SeenBySwitches(sight)
  BY DEF EpInv, EndpointsTypeOK, EpOK, SeenBySwitches
<1>3. Cardinality(DOMAIN eps) <= MaxMACs /\ IsFiniteSet(DOMAIN eps)
  BY EndpointsAssumption, FS_Subset DEF EndpointsTypeOK
<1>4. CASE \E d \in Switch, table \in Tables, up \in SUBSET Trunk : ObserveFDB(d, table, up)
  BY <1>4, ObserveFDBTyped
<1>5. CASE \E r \in Router, S \in SUBSET Mac : ObserveARP(r, S)
  BY <1>5, ObserveARPTyped
<1>6. CASE DayPasses
  <2>1. DOMAIN eps' = DOMAIN eps /\ sight' = sight
    BY <1>6 DEF DayPasses
  <2>2. ASSUME NEW m \in DOMAIN eps PROVE Place(eps'[m]) \in Placement /\ eps'[m].silent \in 0 .. 2
    <3>1. PICK e, x, y, z : e = eps[m] /\ e = [dev |-> x, port |-> y, silent |-> z]
      BY <1>2 DEF EpOK, IsEp
    <3>2. eps'[m] = [e EXCEPT !.silent = 2]
      BY <1>6, <3>1 DEF DayPasses
    <3>3. eps'[m] = [dev |-> x, port |-> y, silent |-> 2]
      BY <3>1, <3>2
    <3>4. Place(eps'[m]) = Place(e)
      BY <3>1, <3>3 DEF Place
    <3>5. EpOK(e)
      BY <1>2, <3>1
    <3>6. Place(e) \in Placement /\ eps'[m].silent = 2
      BY <3>3, <3>5 DEF EpOK
    <3> QED BY <3>4, <3>6
  <2> QED BY <1>2, <1>3, <2>1, <2>2 DEF EndpointsTypeOK, SeenBySwitches
<1>7. CASE \E drop \in SUBSET DOMAIN eps : PruneEndpoints(drop)
  <2>1. PICK drop : eps' = Without(eps, drop) /\ sight' = Without(sight, drop)
    BY <1>7 DEF PruneEndpoints
  <2>2. DOMAIN eps' = DOMAIN eps \ drop /\ DOMAIN sight' = DOMAIN sight \ drop
    BY <2>1 DEF Without
  <2>3. (\A m \in DOMAIN eps' : eps'[m] = eps[m]) /\ \A m \in DOMAIN sight' : sight'[m] = sight[m]
    BY <2>1 DEF Without
  <2>4. Cardinality(DOMAIN eps') <= Cardinality(DOMAIN eps) /\ Cardinality(DOMAIN eps') \in Nat /\ Cardinality(DOMAIN eps) \in Nat
    <3>1. DOMAIN eps' \in SUBSET DOMAIN eps
      BY <2>2
    <3> QED BY <1>3, <3>1, FS_Subset, FS_CardinalityType
  <2>5. Cardinality(DOMAIN eps') <= MaxMACs
    BY <1>3, <2>4, EndpointsAssumption
  <2> QED BY <1>2, <2>2, <2>3, <2>5 DEF EndpointsTypeOK, SeenBySwitches, EpOK
<1>8. CASE \E d \in Switch : ForgetSwitch(d)
  <2>1. PICK d : ForgetSwitch(d)
    BY <1>8
  <2>2. /\ DOMAIN sight' \subseteq DOMAIN sight
        /\ \A m \in DOMAIN sight' : DOMAIN sight'[m] \subseteq DOMAIN sight[m]
    BY <2>1 DEF ForgetSwitch
  <2>3. DOMAIN eps' = DOMAIN eps
    BY <2>1 DEF ForgetSwitch
  <2>4. ASSUME NEW m \in DOMAIN eps PROVE Place(eps'[m]) \in Placement /\ eps'[m].silent \in 0 .. 2
    <3>1. PICK e, x, y, z : e = eps[m] /\ e = [dev |-> x, port |-> y, silent |-> z]
      BY <1>2 DEF EpOK, IsEp
    <3>2. PICK f : f = [e EXCEPT !.dev = NoDevice, !.port = 0]
      OBVIOUS
    <3>3. eps'[m] = f \/ eps'[m] = e
      BY <2>1, <3>1, <3>2 DEF ForgetSwitch
    <3>4. f = [dev |-> NoDevice, port |-> 0, silent |-> z]
      <4>1. e = [dev |-> x, port |-> y, silent |-> z]
        BY <3>1
      <4> QED BY <3>2, <4>1
    <3>5. EpOK(e)
      BY <1>2, <3>1
    <3>6. Place(e) \in Placement /\ e.silent \in 0 .. 2 /\ f.silent = e.silent
      BY <3>1, <3>4, <3>5 DEF EpOK
    <3>7. Place(f) = Nowhere
      BY <3>4 DEF Place, Nowhere
    <3>8. Nowhere \in Placement
      BY DEF Placement
    <3> QED BY <3>3, <3>6, <3>7, <3>8
  <2> QED BY <1>2, <1>3, <2>2, <2>3, <2>4 DEF EndpointsTypeOK, SeenBySwitches
<1>9. CASE EndpointsReopened
  <2>1. PICK S, p : /\ S \in SUBSET Mac /\ p \in [S -> Placement]
                    /\ Cardinality(S) <= MaxMACs /\ DOMAIN sight' = {}
                    /\ eps' = [m \in S |-> [dev |-> p[m].dev, port |-> p[m].port, silent |-> 1]]
    BY <1>9 DEF EndpointsReopened
  <2>2. \A q \in Placement : q = [dev |-> q.dev, port |-> q.port]
    BY DEF Placement, Nowhere
  <2>3. DOMAIN eps' = S /\ \A m \in S : Place(eps'[m]) = p[m] /\ eps'[m].silent = 1
    BY <2>1, <2>2 DEF Place
  <2> QED BY <2>1, <2>3 DEF EndpointsTypeOK
<1>10. CASE UNCHANGED epVars
  BY <1>10 DEF epVars, EndpointsTypeOK
<1> QED BY <1>4, <1>5, <1>6, <1>7, <1>8, <1>9, <1>10 DEF EndpointsNext

\* Only a version 3 client discovers and is sent reports, and a report tells a life the
\* agent has had.
WireMessage(m) ==
    /\ m.to = "agent" /\ m.kind = "discover" => IsV3
    /\ m.to = "client" => m.boots \in 1 .. MaxBoots /\ (m.kind = "report" => IsV3)

Outcomes == {"", "nil", "err"}
LEMMA OutcomesAre == /\ "" \in Outcomes /\ "nil" \in Outcomes /\ "err" \in Outcomes
                     /\ SnmpInit => ended \in Outcomes
                     /\ \A m : Refused(m) \/ Responded(m) => ended' \in Outcomes
<1>1. "" \in Outcomes /\ "nil" \in Outcomes /\ "err" \in Outcomes
  BY Zenon DEF Outcomes
<1>2. SnmpInit => ended \in Outcomes
  BY <1>1, Zenon DEF SnmpInit
<1>3. \A m : Refused(m) \/ Responded(m) => ended' \in Outcomes
  BY <1>1, Zenon DEF Refused, Responded, WalkFails
<1> QED BY <1>1, <1>2, <1>3

Phases == {"idle", "send"} \cup (IF IsV3 THEN {"discover", "resend"} ELSE {})

\* What WalkInv leaves to say of the types.
ExchangeTypes ==
    /\ boots \in 1 .. MaxBoots /\ engine \in 0 .. MaxBoots
    /\ IsFiniteSet(wire) /\ Cardinality(wire) <= MaxWire /\ \A m \in wire : WireMessage(m)
    /\ phase \in Phases /\ ended \in Outcomes
    /\ attempt \in 0 .. Retries /\ alters \in 0 .. MaxAlters

LEMMA WireGrows ==
    ASSUME NEW rest, IsFiniteSet(rest), Cardinality(rest) < MaxWire, \A m \in rest : WireMessage(m),
           NEW n, WireMessage(n), wire' = rest \cup {n}
    PROVE  IsFiniteSet(wire') /\ Cardinality(wire') <= MaxWire /\ \A m \in wire' : WireMessage(m)
<1>1. Cardinality(rest) \in Nat /\ MaxWire \in Nat
  BY FS_CardinalityType, SnmpAssumption
<1>2. IsFiniteSet(wire') /\ (Cardinality(wire') = Cardinality(rest) \/ Cardinality(wire') = Cardinality(rest) + 1)
  BY FS_AddElement
<1> QED BY <1>1, <1>2

LEMMA WireShrinks ==
    ASSUME ExchangeTypes, NEW m \in wire
    PROVE  IsFiniteSet(wire \ {m}) /\ Cardinality(wire \ {m}) < MaxWire
<1>1. IsFiniteSet(wire) /\ Cardinality(wire) <= MaxWire
  BY DEF ExchangeTypes
<1>2. Cardinality(wire) \in Nat /\ MaxWire \in Nat
  BY <1>1, FS_CardinalityType, SnmpAssumption
<1>3. IsFiniteSet(wire \ {m}) /\ Cardinality(wire \ {m}) = Cardinality(wire) - 1
  BY <1>1, FS_RemoveElement
<1> QED BY <1>1, <1>2, <1>3

LEMMA SendsTyped ==
    ASSUME ExchangeTypes, NEW ph \in Phases \ {"idle"}, NEW eng, NEW rest \in SUBSET wire,
           IsFiniteSet(rest), Cardinality(rest) < MaxWire, Sends(ph, eng, rest)
    PROVE  /\ phase' \in Phases
           /\ IsFiniteSet(wire') /\ Cardinality(wire') <= MaxWire /\ \A m \in wire' : WireMessage(m)
<1>1. PICK q, a, i : q = Question(ph, reqID + 1) /\ q = [to |-> "agent", kind |-> ph, id |-> i, after |-> a, boots |-> engine]
  BY DEF Question
<1>2. PICK n : n = [q EXCEPT !.boots = eng]
  OBVIOUS
<1>3. n = [to |-> "agent", kind |-> ph, id |-> i, after |-> a, boots |-> eng]
  <2>1. q = [to |-> "agent", kind |-> ph, id |-> i, after |-> a, boots |-> engine]
    BY <1>1
  <2> QED BY <1>2, <2>1
<1>4. wire' = rest \cup {n} /\ phase' = ph
  BY <1>1, <1>2 DEF Sends
<1>5. WireMessage(n)
  <2>1. n.to = "agent" /\ n.kind = ph
    BY <1>3
  <2>2. ph = "discover" => IsV3
    BY DEF Phases
  <2> QED BY <2>1, <2>2 DEF WireMessage
<1>6. \A m \in rest : WireMessage(m)
  BY DEF ExchangeTypes
<1> QED BY <1>4, <1>5, <1>6, WireGrows

LEMMA AttemptFailsTyped ==
    ASSUME ExchangeTypes, NEW eng, NEW rest \in SUBSET wire,
           IsFiniteSet(rest), Cardinality(rest) < MaxWire, AttemptFails(eng, rest)
    PROVE  /\ phase' \in Phases /\ ended' \in Outcomes /\ attempt' \in 0 .. Retries
           /\ IsFiniteSet(wire') /\ Cardinality(wire') <= MaxWire /\ \A m \in wire' : WireMessage(m)
<1>1. Retries \in Nat /\ MaxWire \in Nat /\ attempt \in 0 .. Retries /\ ended \in Outcomes /\ Cardinality(rest) \in Nat
  BY SnmpAssumption, FS_CardinalityType DEF ExchangeTypes
<1>2. CASE attempt < Retries
  <2>1. attempt' = attempt + 1 /\ Attempt(eng, rest) /\ ended' = ended
    BY <1>2 DEF AttemptFails
  <2>2. PICK ph : ph = (IF IsV3 /\ eng = 0 THEN "discover" ELSE "send")
    OBVIOUS
  <2>3. ph \in Phases \ {"idle"} /\ Sends(ph, eng, rest)
    BY <2>1, <2>2 DEF Attempt, Phases
  <2>4. /\ phase' \in Phases
        /\ IsFiniteSet(wire') /\ Cardinality(wire') <= MaxWire /\ \A m \in wire' : WireMessage(m)
    BY <2>3, SendsTyped
  <2>5. attempt' \in 0 .. Retries /\ ended' \in Outcomes
    BY <1>1, <1>2, <2>1
  <2> QED BY <2>4, <2>5
<1>3. CASE ~(attempt < Retries)
  <2>1. phase' = "idle" /\ ended' = "err" /\ wire' = rest /\ attempt' = attempt
    BY <1>3 DEF AttemptFails, WalkFails
  <2>2. phase' \in Phases /\ ended' \in Outcomes
    BY <2>1, OutcomesAre DEF Phases
  <2>3. Cardinality(wire') <= MaxWire /\ attempt' \in 0 .. Retries
    BY <1>1, <2>1
  <2>4. \A m \in wire' : WireMessage(m)
    BY <2>1 DEF ExchangeTypes
  <2> QED BY <2>1, <2>2, <2>3, <2>4
<1> QED BY <1>2, <1>3

LEMMA AgentTyped ==
    ASSUME ExchangeTypes, (\E m \in wire : Lost(m) \/ AgentAnswers(m)) \/ AgentRestarts \/ \E r \in Row : RowComesOrGoes(r)
    PROVE  ExchangeTypes'
<1>0. MaxWire \in Nat /\ MaxBoots \in Nat /\ MaxAlters \in Nat
  BY SnmpAssumption
<1>1. CASE \E m \in wire : Lost(m)
  <2>1. PICK m \in wire : Lost(m)
    BY <1>1
  <2>2. wire' = wire \ {m} /\ UNCHANGED <<boots, engine, phase, ended, attempt, alters>>
    BY <2>1 DEF Lost
  <2>3. IsFiniteSet(wire \ {m}) /\ Cardinality(wire \ {m}) < MaxWire /\ Cardinality(wire \ {m}) \in Nat
    BY WireShrinks, FS_CardinalityType
  <2>4. Cardinality(wire') <= MaxWire /\ IsFiniteSet(wire') /\ \A n \in wire' : WireMessage(n)
    BY <1>0, <2>2, <2>3 DEF ExchangeTypes
  <2> QED BY <2>2, <2>4 DEF ExchangeTypes, Phases
<1>2. CASE \E q \in wire : AgentAnswers(q)
  <2>1. PICK q \in wire : AgentAnswers(q)
    BY <1>2
  <2>2. PICK kind, vbs : /\ kind = "report" <=> q.kind = "discover" \/ (IsV3 /\ q.boots # boots)
                         /\ wire' = wire \cup {Answer(q, kind, vbs)}
    BY <2>1 DEF AgentAnswers
  <2>3. PICK n : n = Answer(q, kind, vbs)
    OBVIOUS
  <2>4. n.to = "client" /\ n.kind = kind /\ n.boots = boots
    BY <2>3 DEF Answer
  <2>5. WireMessage(n)
    <3>1. kind = "report" => IsV3
      BY <2>1, <2>2 DEF AgentAnswers, ExchangeTypes, WireMessage
    <3> QED BY <2>4, <3>1 DEF WireMessage, ExchangeTypes
  <2>6. Cardinality(wire) < MaxWire /\ UNCHANGED <<boots, engine, phase, ended, attempt, alters>>
    BY <2>1 DEF AgentAnswers
  <2>7. IsFiniteSet(wire') /\ Cardinality(wire') <= MaxWire /\ \A m \in wire' : WireMessage(m)
    BY <2>2, <2>3, <2>5, <2>6, WireGrows DEF ExchangeTypes
  <2> QED BY <2>6, <2>7 DEF ExchangeTypes, Phases
<1>3. CASE AgentRestarts
  <2>1. boots' \in 1 .. MaxBoots /\ UNCHANGED <<wire, engine, phase, ended, attempt, alters>>
    BY <1>0, <1>3 DEF AgentRestarts, ExchangeTypes
  <2> QED BY <2>1 DEF ExchangeTypes, Phases
<1>4. CASE \E r \in Row : RowComesOrGoes(r)
  <2>1. alters' \in 0 .. MaxAlters /\ UNCHANGED <<wire, boots, engine, phase, ended, attempt>>
    BY <1>0, <1>4 DEF RowComesOrGoes, ExchangeTypes
  <2> QED BY <2>1 DEF ExchangeTypes, Phases
<1> QED BY <1>1, <1>2, <1>3, <1>4

LEMMA ClientTyped ==
    ASSUME ExchangeTypes,
           GetBulk \/ TimesOut \/ \E m \in wire : Resynchronise(m) \/ SecondReport(m) \/ Refused(m) \/ Responded(m)
    PROVE  ExchangeTypes'
<1>0. MaxWire \in Nat /\ MaxBoots \in Nat /\ Retries \in Nat /\ IsFiniteSet(wire) /\ wire \in SUBSET wire
  BY SnmpAssumption DEF ExchangeTypes
<1>1. CASE GetBulk
  <2>1. PICK ph : ph = (IF IsV3 /\ engine = 0 THEN "discover" ELSE "send")
    OBVIOUS
  <2>2. ph \in Phases \ {"idle"} /\ Sends(ph, engine, wire) /\ Cardinality(wire) < MaxWire
    BY <1>1, <2>1 DEF GetBulk, Attempt, Phases
  <2>3. /\ phase' \in Phases
        /\ IsFiniteSet(wire') /\ Cardinality(wire') <= MaxWire /\ \A m \in wire' : WireMessage(m)
    BY <1>0, <2>2, SendsTyped
  <2>4. attempt' = 0 /\ UNCHANGED <<boots, engine, ended, alters>>
    BY <1>1 DEF GetBulk
  <2> QED BY <1>0, <2>3, <2>4 DEF ExchangeTypes, Phases
<1>2. CASE TimesOut
  <2>1. Cardinality(wire) < MaxWire /\ AttemptFails(engine, wire) /\ UNCHANGED <<boots, engine, alters>>
    BY <1>2 DEF TimesOut
  <2>2. /\ phase' \in Phases /\ ended' \in Outcomes /\ attempt' \in 0 .. Retries
        /\ IsFiniteSet(wire') /\ Cardinality(wire') <= MaxWire /\ \A m \in wire' : WireMessage(m)
    BY <1>0, <2>1, AttemptFailsTyped
  <2> QED BY <2>1, <2>2 DEF ExchangeTypes, Phases
<1>3. ASSUME NEW m \in wire, Resynchronise(m) \/ SecondReport(m) \/ Refused(m) \/ Responded(m) PROVE ExchangeTypes'
  <2>0. IsFiniteSet(wire \ {m}) /\ Cardinality(wire \ {m}) < MaxWire /\ Cardinality(wire \ {m}) \in Nat /\ wire \ {m} \in SUBSET wire
    BY WireShrinks, FS_CardinalityType
  <2>1. m.to = "client" /\ m.boots \in 1 .. MaxBoots /\ (m.kind = "report" => IsV3)
    BY <1>3 DEF Resynchronise, SecondReport, Refused, Responded, Matches, ExchangeTypes, WireMessage
  <2>2. CASE Resynchronise(m)
    <3>1. PICK ph : ph = (IF phase = "discover" THEN "send" ELSE "resend")
      OBVIOUS
    <3>2. ph \in Phases \ {"idle"} /\ Sends(ph, m.boots, wire \ {m})
      BY <2>1, <2>2, <3>1 DEF Resynchronise, Phases
    <3>3. /\ phase' \in Phases
          /\ IsFiniteSet(wire') /\ Cardinality(wire') <= MaxWire /\ \A n \in wire' : WireMessage(n)
      BY <2>0, <3>2, SendsTyped
    <3>4. engine' \in 0 .. MaxBoots /\ UNCHANGED <<boots, attempt, ended, alters>>
      BY <1>0, <2>1, <2>2 DEF Resynchronise
    <3> QED BY <3>3, <3>4 DEF ExchangeTypes, Phases
  <2>3. CASE SecondReport(m)
    <3>1. AttemptFails(m.boots, wire \ {m}) /\ UNCHANGED <<boots, alters>> /\ engine' \in 0 .. MaxBoots
      BY <1>0, <2>1, <2>3 DEF SecondReport
    <3>2. /\ phase' \in Phases /\ ended' \in Outcomes /\ attempt' \in 0 .. Retries
          /\ IsFiniteSet(wire') /\ Cardinality(wire') <= MaxWire /\ \A n \in wire' : WireMessage(n)
      BY <2>0, <3>1, AttemptFailsTyped
    <3> QED BY <3>1, <3>2 DEF ExchangeTypes, Phases
  <2>4. CASE Refused(m) \/ Responded(m)
    <3>1. /\ phase' = "idle" /\ ended' \in Outcomes /\ wire' = wire \ {m}
          /\ UNCHANGED <<boots, engine, attempt, alters>>
      BY <2>4, OutcomesAre, Zenon DEF Refused, Responded, WalkFails
    <3>2. Cardinality(wire') <= MaxWire /\ IsFiniteSet(wire') /\ \A n \in wire' : WireMessage(n)
      BY <1>0, <2>0, <3>1 DEF ExchangeTypes
    <3> QED BY <3>1, <3>2 DEF ExchangeTypes, Phases
  <2> QED BY <1>3, <2>2, <2>3, <2>4
<1> QED BY <1>1, <1>2, <1>3

LEMMA SnmpTyped ==
    /\ SnmpInit => ExchangeTypes
    /\ ExchangeTypes /\ [SnmpNext]_snmpVars => ExchangeTypes'
    /\ WalkInv /\ ExchangeTypes => SnmpTypeOK
<1>1. SnmpInit => ExchangeTypes
  <2>1. MaxWire \in Nat \ {0} /\ MaxBoots \in Nat \ {0} /\ Retries \in Nat /\ MaxAlters \in Nat
    BY SnmpAssumption
  <2>2. IsFiniteSet({}) /\ Cardinality({}) = 0
    BY FS_EmptySet
  <2>3. SnmpInit => ended \in Outcomes /\ boots = 1 /\ wire = {} /\ phase = "idle" /\ attempt = 0 /\ engine \in {0, 1} /\ alters = 0
    BY OutcomesAre, Zenon DEF SnmpInit
  <2> QED BY <2>1, <2>2, <2>3 DEF ExchangeTypes, Phases
<1>2. ASSUME ExchangeTypes, [SnmpNext]_snmpVars PROVE ExchangeTypes'
  <2>1. CASE UNCHANGED snmpVars
    BY <1>2, <2>1 DEF snmpVars, ExchangeTypes, Phases
  <2>2. CASE SnmpNext
    BY <1>2, <2>2, AgentTyped, ClientTyped DEF SnmpNext
  <2> QED BY <1>2, <2>1, <2>2
<1>3. ASSUME WalkInv, ExchangeTypes PROVE SnmpTypeOK
  <2>1. Range(out) \subseteq Row
    BY <1>3, RangeIn DEF WalkInv, WalkTypes
  <2>2. /\ rows \subseteq Row /\ steady \subseteq rows /\ rows \subseteq ever /\ ever \subseteq Row /\ reqID \in Nat
        /\ boots \in 1 .. MaxBoots /\ engine \in 0 .. MaxBoots /\ Cardinality(wire) <= MaxWire
        /\ phase \in Phases /\ attempt \in 0 .. Retries /\ alters \in 0 .. MaxAlters /\ ended \in Outcomes
    BY <1>3 DEF WalkInv, WalkTypes, ExchangeTypes
  <2> QED BY <2>1, <2>2, Zenon DEF SnmpTypeOK, Phases, Outcomes
<1> QED BY <1>1, <1>2, <1>3

\* The role a device has, by its profile, by inference or by hand.
RoleOf == {"none", "router", "access", "dist", "core"} \cup LockRole

SeesUnits(table) == \A o \in table : o.rem \in Unit
EndsIn(l) == l.a \in Unit /\ l.b \in Unit

\* What TopoInv leaves to say of the types, of the tables a Rebuild has read too.
DrawingTypes ==
    /\ known \subseteq Unit /\ locked \subseteq Unit /\ placed \subseteq Unit /\ collecting \subseteq Unit /\ ghosts \subseteq Unit
    /\ role \in [Unit -> RoleOf]
    /\ \A l \in links : EndsIn(l)
    /\ \A d \in Unit : SeesUnits(sights[d])
    /\ \A b \in Builder : (\A d \in Unit : SeesUnits(build[b].sights[d])) /\ \A l \in build[b].old : EndsIn(l)

LEMMA NewLinksTyped ==
    ASSUME NEW r, DOMAIN r.sights = Unit, \A d \in Unit : SeesUnits(r.sights[d]), \A l \in r.old : IsLink(l) /\ EndsIn(l)
    PROVE  \A l \in NewLinks(r) : EndsIn(l)
<1>1. ASSUME NEW k \in LinkKeys(r) PROVE k[1] \in Unit /\ k[3] \in Unit
  <2>1. PICK s \in Observed(r) : k = LinkKey(r, s[1], s[2])
    BY DEF LinkKeys
  <2>2. s[1] \in Unit /\ s[2] \in r.sights[s[1]]
    BY DEF Observed
  <2>3. s[2].rem \in Unit
    BY <2>2 DEF SeesUnits
  <2> QED BY <2>1, <2>2, <2>3 DEF LinkKey
<1>2. \A l \in Fresh(r) : EndsIn(l)
  <2> SUFFICES ASSUME NEW l \in Fresh(r) PROVE EndsIn(l)
    OBVIOUS
  <2>1. PICK k, mine : k \in LinkKeys(r) /\ l = [a |-> k[1], aIf |-> k[2], b |-> k[3], bIf |-> k[4], ext |-> k[5], manual |-> FALSE,
          conf |-> Confidence(k, mine), stale |-> FALSE, aged |-> FALSE]
    BY DEF Fresh
  <2> QED BY <1>1, <2>1 DEF EndsIn
<1>3. \A l \in Stale(r) : EndsIn(l)
  <2> SUFFICES ASSUME NEW l \in Stale(r) PROVE EndsIn(l)
    OBVIOUS
  <2>1. PICK o \in r.old : l = [o EXCEPT !.stale = TRUE]
    BY DEF Stale
  <2>2. PICK a, aIf, b, bIf, ext, manual, conf, stale, aged :
            o = [a |-> a, aIf |-> aIf, b |-> b, bIf |-> bIf, ext |-> ext, manual |-> manual,
                 conf |-> conf, stale |-> stale, aged |-> aged]
    BY DEF IsLink
  <2>3. l.a = o.a /\ l.b = o.b
    BY <2>1, <2>2
  <2> QED BY <2>3 DEF EndsIn
<1>4. NewLinks(r) \subseteq Fresh(r) \union Kept(r) \union Stale(r) /\ Kept(r) \subseteq r.old
  BY DEF NewLinks, OnePeer, Kept
<1> QED BY <1>2, <1>3, <1>4

\* Only the roles known to the program are inferred.
LEMMA InferRolesTyped ==
    ASSUME role \in [Unit -> RoleOf], NEW r, NEW ls
    PROVE  InferRoles(r, ls) \in [Unit -> RoleOf]
<1>1. \A d : InferRole(r, ls, d) \in {"core", "dist", "access"}
  <2> TAKE d
  <2>1. PICK x, y : InferRole(r, ls, d) = IF x THEN "core" ELSE IF y THEN "dist" ELSE "access"
    BY Zenon DEF InferRole
  <2> QED BY <2>1
<1>2. {"core", "dist", "access"} \subseteq RoleOf
  BY DEF RoleOf
<1> QED BY <1>1, <1>2 DEF InferRoles

LEMMA BuildsTyped ==
    ASSUME TopoInv, TopoInv', DrawingTypes, NEW b \in Builder, NEW now,
           build' = [build EXCEPT ![b] = now],
           \A d \in Unit : SeesUnits(now.sights[d]), \A l \in now.old : EndsIn(l)
    PROVE  \A c \in Builder : (\A d \in Unit : SeesUnits(build'[c].sights[d])) /\ \A l \in build'[c].old : EndsIn(l)
<1>1. build = [c \in Builder |-> build[c]]
  BY DEF TopoInv, TopoTypes
<1>2. build'[b] = now /\ \A c \in Builder : c # b => build'[c] = build[c]
  BY <1>1
<1> QED BY <1>2 DEF DrawingTypes

LEMMA EditsTyped ==
    ASSUME TopoInv, DrawingTypes,
           \/ \E d \in Unit : PutDevice(d) \/ PutInterfaces(d) \/ \E r \in LockRole : SetRole(d, r)
           \/ \E m \in ManualLink : AddLink(m) \/ PutLink(m)
           \/ (\E l \in links : DeleteLink(l)) \/ WeekPasses
    PROVE  DrawingTypes'
<1>0. units \subseteq Unit
  BY DEF TopoInv, TopoTypes
<1>1. CASE \E d \in Unit : PutDevice(d) \/ PutInterfaces(d) \/ \E r \in LockRole : SetRole(d, r)
  <2>1. PICK d \in Unit : PutDevice(d) \/ PutInterfaces(d) \/ \E r \in LockRole : SetRole(d, r)
    BY <1>1
  <2>2. UNCHANGED <<sights, links, placed, collecting, build, ghosts>>
    BY <2>1 DEF PutDevice, PutInterfaces, SetRole
  <2>3. known' \subseteq Unit /\ locked' \subseteq Unit
    BY <2>1 DEF PutDevice, PutInterfaces, SetRole, DrawingTypes
  <2>4. role' \in [Unit -> RoleOf]
    BY <2>1 DEF PutDevice, PutInterfaces, SetRole, DrawingTypes, RoleOf
  <2> QED BY <2>2, <2>3, <2>4 DEF DrawingTypes, SeesUnits
<1>2. CASE \E m \in ManualLink : AddLink(m) \/ PutLink(m)
  <2>1. PICK m \in ManualLink : AddLink(m) \/ PutLink(m)
    BY <1>2
  <2>2. UNCHANGED <<known, role, locked, sights, collecting, build, ghosts>>
    BY <2>1 DEF AddLink, PutLink
  <2>3. placed' \subseteq Unit
    BY <1>0, <2>1 DEF AddLink, PutLink, DrawingTypes
  <2>4. \A l \in links' : EndsIn(l)
    <3>1. CASE AddLink(m)
      BY <3>1 DEF AddLink, DrawingTypes
    <3>2. CASE PutLink(m)
      <4>1. m[1] \in Unit /\ m[3] \in Unit
        BY <1>0, <3>2 DEF PutLink, TopoInv, NowJoined, DrawingTypes
      <4>2. PICK new : new = [a |-> m[1], aIf |-> m[2], b |-> m[3], bIf |-> m[4], ext |-> FALSE,
                              manual |-> TRUE, conf |-> 100, stale |-> FALSE, aged |-> FALSE]
        OBVIOUS
      <4>3. links' = links \union {new} /\ EndsIn(new)
        BY <3>2, <4>1, <4>2 DEF PutLink, EndsIn
      <4> QED BY <4>3 DEF DrawingTypes
    <3> QED BY <2>1, <3>1, <3>2
  <2> QED BY <2>2, <2>3, <2>4 DEF DrawingTypes, SeesUnits
<1>3. CASE (\E l \in links : DeleteLink(l)) \/ WeekPasses
  <2>1. UNCHANGED <<known, role, locked, sights, placed, collecting, build, ghosts>>
    BY <1>3 DEF DeleteLink, WeekPasses
  <2>2. \A n \in links' : \E l \in links : n = l \/ n = [l EXCEPT !.aged = l.stale]
    BY <1>3 DEF DeleteLink, WeekPasses
  <2>3. ASSUME NEW n \in links' PROVE EndsIn(n)
    <3>1. PICK l \in links : n = l \/ n = [l EXCEPT !.aged = l.stale]
      BY <2>2
    <3>2. IsLink(l) /\ EndsIn(l)
      BY DEF TopoInv, NowJoined, DrawingTypes
    <3>3. PICK f, g : g = l.stale /\ f = [l EXCEPT !.aged = g]
      OBVIOUS
    <3>4. f.a = l.a /\ f.b = l.b
      BY <3>2, <3>3 DEF IsLink
    <3> QED BY <3>1, <3>2, <3>3, <3>4 DEF EndsIn
  <2> QED BY <2>1, <2>3 DEF DrawingTypes, SeesUnits
<1> QED BY <1>1, <1>2, <1>3

LEMMA WalksTyped ==
    ASSUME TopoInv, TopoInv', DrawingTypes,
           Collect \/ \E d \in Unit : \E table \in Sight[d], expired \in BOOLEAN : CollectDevice(d, table, expired)
    PROVE  DrawingTypes'
<1>0. units \subseteq Unit /\ DOMAIN sights = Unit /\ "collect" \in Builder /\ \A b \in Builder : IsBuild(build[b])
  BY DEF TopoInv, TopoTypes, Builder
<1>1. UNCHANGED <<known, role, locked, placed, links, ghosts>>
  BY DEF Collect, CollectDevice
<1>2. CASE Collect
  <2>1. collecting' \subseteq Unit /\ sights' = sights /\ build' = [build EXCEPT !["collect"].at = "walk"]
    BY <1>0, <1>2 DEF Collect
  <2>2. PICK r, now : r = build["collect"] /\ now = [r EXCEPT !.at = "walk"]
    OBVIOUS
  <2>3. build' = [build EXCEPT !["collect"] = now]
    BY <2>1, <2>2
  <2>4. r = [at |-> r.at, devs |-> r.devs, role |-> r.role, locked |-> r.locked, known |-> r.known,
             sights |-> r.sights, old |-> r.old]
    BY <1>0, <2>2 DEF IsBuild
  <2>5. now.sights = r.sights /\ now.old = r.old
    BY <2>2, <2>4
  <2>6. (\A d \in Unit : SeesUnits(now.sights[d])) /\ \A l \in now.old : EndsIn(l)
    BY <1>0, <2>2, <2>5 DEF DrawingTypes
  <2>7. \A c \in Builder : (\A d \in Unit : SeesUnits(build'[c].sights[d])) /\ \A l \in build'[c].old : EndsIn(l)
    BY <1>0, <2>3, <2>6, BuildsTyped
  <2> QED BY <1>1, <2>1, <2>7 DEF DrawingTypes, SeesUnits
<1>3. CASE \E d \in Unit : \E table \in Sight[d], expired \in BOOLEAN : CollectDevice(d, table, expired)
  <2>1. PICK d, table, expired : d \in Unit /\ table \in Sight[d] /\ CollectDevice(d, table, expired)
    BY <1>3
  <2>2. /\ sights' = sights \/ sights' = [sights EXCEPT ![d] = table]
        /\ collecting' \subseteq collecting /\ build' = build
    BY <2>1 DEF CollectDevice
  <2>3. SeesUnits(table)
    BY <2>1, TopoAssumption DEF SeesUnits
  <2>4. \A e \in Unit : SeesUnits(sights'[e])
    BY <1>0, <2>2, <2>3 DEF DrawingTypes
  <2> QED BY <1>1, <2>2, <2>4 DEF DrawingTypes, SeesUnits
<1> QED BY <1>2, <1>3

LEMMA RebuildTyped ==
    ASSUME TopoInv, TopoInv', DrawingTypes, NEW b \in Builder,
           Index \/ ReadNeighbors(b) \/ ReadLinks(b) \/ ReplaceLinks(b) \/ FinishRebuild(b)
    PROVE  DrawingTypes'
<1>0. units \subseteq Unit /\ DOMAIN sights = Unit /\ "collect" \in Builder /\ \A c \in Builder : IsBuild(build[c]) /\ ReadsJoined(c)
  BY DEF TopoInv, TopoTypes, Builder
<1>1. UNCHANGED <<known, locked, collecting, ghosts, sights>>
  BY DEF Index, ReadNeighbors, ReadLinks, ReplaceLinks, FinishRebuild
<1>2. PICK r : r = build[b] /\ r = [at |-> r.at, devs |-> r.devs, role |-> r.role, locked |-> r.locked, known |-> r.known,
                                   sights |-> r.sights, old |-> r.old]
  BY <1>0 DEF IsBuild
<1>3. (\A d \in Unit : SeesUnits(r.sights[d])) /\ (\A l \in r.old : EndsIn(l) /\ IsLink(l)) /\ DOMAIN r.sights = Unit
  BY <1>0, <1>2 DEF DrawingTypes, ReadsJoined
<1>4. BeginRebuild("collect").sights = [d \in Unit |-> {}] /\ BeginRebuild("collect").old = {}
      /\ NotBuilding.sights = [d \in Unit |-> {}] /\ NotBuilding.old = {}
  BY BeginFacts
<1>5. CASE Index
  <2>1. build' = [build EXCEPT !["collect"] = BeginRebuild("collect")] /\ UNCHANGED <<role, links, placed>>
    BY <1>5 DEF Index
  <2>2. PICK now : now = BeginRebuild("collect")
    OBVIOUS
  <2>3. (\A d \in Unit : SeesUnits(now.sights[d])) /\ \A l \in now.old : EndsIn(l)
    BY <1>4, <2>2 DEF SeesUnits
  <2>4. \A c \in Builder : (\A d \in Unit : SeesUnits(build'[c].sights[d])) /\ \A l \in build'[c].old : EndsIn(l)
    BY <1>0, <2>1, <2>2, <2>3, BuildsTyped
  <2> QED BY <1>1, <2>1, <2>4 DEF DrawingTypes, SeesUnits
<1>6. CASE ReadNeighbors(b)
  <2>1. build' = [build EXCEPT ![b].at = "sighted", ![b].sights = sights] /\ UNCHANGED <<role, links, placed>>
    BY <1>6 DEF ReadNeighbors
  <2>2. PICK now : now = [r EXCEPT !.at = "sighted", !.sights = sights]
    OBVIOUS
  <2>3. build' = [build EXCEPT ![b] = now]
    BY <1>2, <2>1, <2>2 DEF TopoInv, TopoTypes
  <2>4. now.sights = sights /\ now.old = r.old
    BY <1>2, <2>2
  <2>5. (\A d \in Unit : SeesUnits(now.sights[d])) /\ \A l \in now.old : EndsIn(l)
    BY <1>3, <2>4 DEF DrawingTypes
  <2>6. \A c \in Builder : (\A d \in Unit : SeesUnits(build'[c].sights[d])) /\ \A l \in build'[c].old : EndsIn(l)
    BY <2>3, <2>5, BuildsTyped
  <2> QED BY <1>1, <2>1, <2>6 DEF DrawingTypes, SeesUnits
<1>7. CASE ReadLinks(b)
  <2>1. build' = [build EXCEPT ![b].at = "ready", ![b].old = links] /\ UNCHANGED <<role, links, placed>>
    BY <1>7 DEF ReadLinks
  <2>2. PICK now : now = [r EXCEPT !.at = "ready", !.old = links]
    OBVIOUS
  <2>3. build' = [build EXCEPT ![b] = now]
    BY <1>2, <2>1, <2>2 DEF TopoInv, TopoTypes
  <2>4. now.sights = r.sights /\ now.old = links
    BY <1>2, <2>2
  <2>5. (\A d \in Unit : SeesUnits(now.sights[d])) /\ \A l \in now.old : EndsIn(l)
    BY <1>3, <2>4 DEF DrawingTypes
  <2>6. \A c \in Builder : (\A d \in Unit : SeesUnits(build'[c].sights[d])) /\ \A l \in build'[c].old : EndsIn(l)
    BY <2>3, <2>5, BuildsTyped
  <2> QED BY <1>1, <2>1, <2>6 DEF DrawingTypes, SeesUnits
<1>8. CASE ReplaceLinks(b)
  <2>1. PICK new : new = NewLinks(r)
    OBVIOUS
  <2>2. /\ links' = new \union {l \in links : l.manual}
        /\ build' = [build EXCEPT ![b].at = "linked", ![b].old = new] /\ UNCHANGED <<role, placed>>
    BY <1>2, <1>8, <2>1 DEF ReplaceLinks
  <2>3. \A l \in new : EndsIn(l)
    BY <1>3, <2>1, NewLinksTyped
  <2>4. PICK now : now = [r EXCEPT !.at = "linked", !.old = new]
    OBVIOUS
  <2>5. build' = [build EXCEPT ![b] = now]
    BY <1>2, <2>2, <2>4 DEF TopoInv, TopoTypes
  <2>6. now.sights = r.sights /\ now.old = new
    BY <1>2, <2>4
  <2>7. (\A d \in Unit : SeesUnits(now.sights[d])) /\ \A l \in now.old : EndsIn(l)
    BY <1>3, <2>3, <2>6
  <2>8. \A c \in Builder : (\A d \in Unit : SeesUnits(build'[c].sights[d])) /\ \A l \in build'[c].old : EndsIn(l)
    BY <2>5, <2>7, BuildsTyped
  <2>9. \A l \in links' : EndsIn(l)
    BY <2>2, <2>3 DEF DrawingTypes
  <2> QED BY <1>1, <2>2, <2>8, <2>9 DEF DrawingTypes, SeesUnits
<1>9. CASE FinishRebuild(b)
  <2>1. build' = [build EXCEPT ![b] = NotBuilding] /\ links' = links /\ placed' = units /\ role' = InferRoles(r, r.old)
    BY <1>2, <1>9 DEF FinishRebuild
  <2>2. PICK now : now = NotBuilding
    OBVIOUS
  <2>3. (\A d \in Unit : SeesUnits(now.sights[d])) /\ \A l \in now.old : EndsIn(l)
    BY <1>4, <2>2 DEF SeesUnits
  <2>4. \A c \in Builder : (\A d \in Unit : SeesUnits(build'[c].sights[d])) /\ \A l \in build'[c].old : EndsIn(l)
    BY <2>1, <2>2, <2>3, BuildsTyped
  <2>5. role' \in [Unit -> RoleOf]
    BY <2>1, InferRolesTyped DEF DrawingTypes
  <2> QED BY <1>0, <1>1, <2>1, <2>4, <2>5 DEF DrawingTypes, SeesUnits
<1> QED BY <1>5, <1>6, <1>7, <1>8, <1>9

LEMMA DeleteDeviceTyped ==
    ASSUME TopoInv, TopoInv', DrawingTypes, NEW d \in Unit, DeleteDevice(d)
    PROVE  DrawingTypes'
<1>1. /\ sights' = [sights EXCEPT ![d] = {}] /\ links' \subseteq links
      /\ known' \subseteq known /\ locked' \subseteq locked /\ placed' \subseteq placed
      /\ ghosts' \subseteq ghosts \union {d} /\ collecting' = collecting
      /\ role' = [role EXCEPT ![d] = "none"]
  BY DEF DeleteDevice
<1>2. PICK begun : begun = BeginRebuild("console")
  OBVIOUS
<1>3. PICK now : now = [begun EXCEPT !.devs = units', !.known = known', !.role = role']
  OBVIOUS
<1>4. IsBuild(begun) /\ begun.sights = [e \in Unit |-> {}] /\ begun.old = {}
  BY <1>2, BeginFacts
<1>5. begun = [at |-> begun.at, devs |-> begun.devs, role |-> begun.role, locked |-> begun.locked,
               known |-> begun.known, sights |-> begun.sights, old |-> begun.old]
  BY <1>4 DEF IsBuild
<1>6. now.sights = begun.sights /\ now.old = begun.old
  BY <1>3, <1>5
<1>7. build' = [build EXCEPT !["console"] = now] /\ "console" \in Builder
  BY <1>2, <1>3 DEF DeleteDevice, Builder
<1>8. (\A e \in Unit : SeesUnits(now.sights[e])) /\ \A l \in now.old : EndsIn(l)
  BY <1>4, <1>6 DEF SeesUnits
<1>9. \A c \in Builder : (\A e \in Unit : SeesUnits(build'[c].sights[e])) /\ \A l \in build'[c].old : EndsIn(l)
  BY <1>7, <1>8, BuildsTyped
<1>10. \A e \in Unit : SeesUnits(sights'[e])
  BY <1>1 DEF TopoInv, TopoTypes, DrawingTypes, SeesUnits
<1>11. role' \in [Unit -> RoleOf]
  BY <1>1 DEF DrawingTypes, RoleOf
<1> QED BY <1>1, <1>9, <1>10, <1>11 DEF DrawingTypes

LEMMA TopoTyped ==
    /\ TopoInit => DrawingTypes
    /\ TopoInv /\ DrawingTypes /\ [TopoNext]_topoVars => DrawingTypes'
    /\ TopoInv /\ DrawingTypes => TopoTypeOK
<1>1. ASSUME TopoInit PROVE DrawingTypes
  <2>1. /\ known = {} /\ locked = {} /\ placed = {} /\ collecting = {} /\ ghosts = {} /\ links = {}
        /\ role = [d \in Unit |-> IF d \in Edge THEN "router" ELSE "access"]
        /\ sights = [d \in Unit |-> {}] /\ build = [b \in Builder |-> NotBuilding]
    BY <1>1 DEF TopoInit
  <2>2. role \in [Unit -> RoleOf]
    BY <2>1 DEF RoleOf
  <2>3. \A b \in Builder : build[b].sights = [d \in Unit |-> {}] /\ build[b].old = {}
    BY <2>1, BeginFacts
  <2> QED BY <2>1, <2>2, <2>3 DEF DrawingTypes, SeesUnits
<1>2. ASSUME TopoInv, DrawingTypes, [TopoNext]_topoVars PROVE DrawingTypes'
  <2>0. TopoInv'
    BY <1>2, TopoStep
  <2>1. CASE UNCHANGED topoVars
    BY <1>2, <2>1 DEF topoVars, DrawingTypes, SeesUnits
  <2>2. CASE Collect \/ \E d \in Unit : \E table \in Sight[d], expired \in BOOLEAN : CollectDevice(d, table, expired)
    BY <1>2, <2>0, <2>2, WalksTyped
  <2>3. CASE Index
    <3>1. "collect" \in Builder
      BY DEF Builder
    <3> QED BY <1>2, <2>0, <2>3, <3>1, RebuildTyped
  <2>4. CASE \E b \in Builder : ReadNeighbors(b) \/ ReadLinks(b) \/ ReplaceLinks(b) \/ FinishRebuild(b)
    BY <1>2, <2>0, <2>4, RebuildTyped
  <2>5. CASE \E d \in Unit : DeleteDevice(d)
    BY <1>2, <2>0, <2>5, DeleteDeviceTyped
  <2>6. CASE \/ \E d \in Unit : PutDevice(d) \/ PutInterfaces(d) \/ \E r \in LockRole : SetRole(d, r)
             \/ \E m \in ManualLink : AddLink(m) \/ PutLink(m)
             \/ (\E l \in links : DeleteLink(l)) \/ WeekPasses
    BY <1>2, <2>6, EditsTyped
  <2> QED BY <1>2, <2>1, <2>2, <2>3, <2>4, <2>5, <2>6 DEF TopoNext
<1>3. ASSUME TopoInv, DrawingTypes PROVE TopoTypeOK
  <2>1. units \subseteq Unit /\ \A l \in links : l.conf \in 60 .. 100
    BY <1>3 DEF TopoInv, TopoTypes, NowJoined, IsLink
  <2> QED BY <1>3, <2>1 DEF DrawingTypes, TopoTypeOK, RoleOf, EndsIn
<1> QED BY <1>1, <1>2, <1>3

-----------------------------------------------------------------------------
(* The seven components in one.                                            *)

\* MCMeasure explores seven components side by side (one moves, the others stand); each
\* of them is then a behaviour of its own specification, so that what is proved of a
\* component holds in the composed run.
LEMMA OneMoves ==
    ASSUME [MeasureNext]_measureVars
    PROVE  /\ [Next]_vars /\ [SnmpNext]_snmpVars /\ [CountersNext]_counterVars /\ [EndpointsNext]_epVars
           /\ [FlowNext]_flowVars /\ [TopoNext]_topoVars /\ [ParentNext]_parentVars
           /\ part' = part
BY DEF MeasureNext, measureVars

THEOREM PartsBehave ==
    MeasureSpec => /\ Spec /\ SnmpSpec /\ CountersSpec /\ EndpointsSpec
                   /\ FlowSpec /\ TopoSpec /\ ParentSpec
<1>1. MeasureInit => /\ Init /\ SnmpInit /\ CountersInit /\ EndpointsInit
                     /\ FlowInit /\ TopoInit /\ ParentInit
  BY DEF MeasureInit
<1>2. [MeasureNext]_measureVars =>
         /\ [Next]_vars /\ [SnmpNext]_snmpVars /\ [CountersNext]_counterVars /\ [EndpointsNext]_epVars
         /\ [FlowNext]_flowVars /\ [TopoNext]_topoVars /\ [ParentNext]_parentVars
  BY OneMoves
<1> QED BY <1>1, <1>2, PTL DEF MeasureSpec, Spec, SnmpSpec, CountersSpec, EndpointsSpec,
             FlowSpec, TopoSpec, ParentSpec

\* Every component's variables keep their types.
THEOREM MeasureTypes == MeasureSpec => []MeasureTypeOK
<1> DEFINE Name == part \in {"engine", "snmp", "counters", "endpoints", "flow", "topology", "parents"}
<1>1. MeasureInit => Name
  BY DEF MeasureInit
<1>2. Name /\ [MeasureNext]_measureVars => Name'
  BY OneMoves
<1>3. CountersSpec => []CountersTypeOK
  BY CountersTyped, PTL DEF CountersSpec
<1>4. SnmpSpec => []SnmpTypeOK
  BY WalkInitInv, WalkStep, SnmpTyped, PTL DEF SnmpSpec
<1>5. EndpointsSpec => []EndpointsTypeOK
  <2>1. EndpointsInit => EpInv
    BY DEF EndpointsInit, EpInv, SightOK, LeastIn
  <2> QED BY <2>1, EndpointsStep, EndpointsTyped, PTL DEF EndpointsSpec
<1>6. TopoSpec => []TopoTypeOK
  BY TopoInitInv, TopoStep, TopoTyped, PTL DEF TopoSpec
<1>7. ParentSpec => []ParentTypeOK
  BY ParentInitInv, ParentStepInv, ParentInvTypes, PTL DEF ParentSpec
<1>8. FlowSpec => []FlowTypeOK
  BY FlowInvariant, FlowInvTypes, PTL
<1>9. Spec => []TypeOK
  BY EngineInvariant, EngineInvTypes, PTL
<1>10. /\ Name /\ TypeOK /\ SnmpTypeOK /\ CountersTypeOK /\ EndpointsTypeOK
       /\ FlowTypeOK /\ TopoTypeOK /\ ParentTypeOK
       => MeasureTypeOK
  BY Zenon DEF MeasureTypeOK
<1> HIDE DEF Name
<1> QED BY <1>1, <1>2, <1>3, <1>4, <1>5, <1>6, <1>7, <1>8, <1>9, <1>10, PartsBehave, PTL DEF MeasureSpec
=============================================================================
