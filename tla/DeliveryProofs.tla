--------------------------- MODULE DeliveryProofs ---------------------------
(***************************************************************************)
(* Proofs about the components that pass work on: the poller's schedule,   *)
(* the SIEM export and the notification dispatcher.                        *)
(***************************************************************************)
EXTENDS Poller, Siem, Notify, SequenceTheorems, FiniteSetTheorems, TLAPS

-----------------------------------------------------------------------------
(* The poller.                                                             *)

LEMMA PollerBounds == 
    /\ Workers \in Nat /\ PollEvery \in Nat /\ InvEvery \in Nat /\ SampleCap \in Nat
    /\ PollEvery >= 1 /\ InvEvery >= 1 /\ SampleCap >= 1
<1>1. {Workers, PollEvery, InvEvery, SampleCap} \subseteq Nat \ {0}
  BY PollerAssumption
<1> QED BY <1>1

\* Looking at a device of this node leaves a time in its interval.
LEMMA PollIfDueNext ==
    ASSUME PollerTypeOK, NEW d \in Target, PollIfDue(d)
    PROVE  next' \in [Target -> 0 .. Unset]
<1>1. PICK nx \in IF next[d] = Unset THEN 0 .. PollEvery - 1 ELSE {next[d]} :
            next' = [next EXCEPT ![d] = nx]
  BY DEF PollIfDue
<1>2. nx \in 0 .. Unset
  BY <1>1, PollerBounds DEF PollerTypeOK, Unset
<1> QED BY <1>1, <1>2 DEF PollerTypeOK

LEMMA CountsDown ==
    ASSUME NEW m \in Nat, NEW n \in 0 .. m
    PROVE  Down(n) \in 0 .. m
BY DEF Down

LEMMA PollerStepType ==
    ASSUME PollerTypeOK, [PollerNext]_pollerVars
    PROVE  PollerTypeOK'
<1>0. \A d \in Target, kind \in Kind : NewJob(d, kind) \in Job
  BY DEF NewJob, Job
<1>1. CASE Pass
  BY <1>1 DEF Pass, PollerTypeOK
<1>2. ASSUME NEW d \in Target, WalkElsewhere(d)
      PROVE  PollerTypeOK'
  <2>1. NewJob(d, "inventory") \in Job /\ InvEvery \in 0 .. InvEvery
    BY <1>0, PollerBounds DEF Kind
  <2> QED BY <1>2, <2>1 DEF WalkElsewhere, Considered, PollerTypeOK
<1>3. ASSUME NEW d \in Target, PollIfDue(d)
      PROVE  PollerTypeOK'
  <2>1. NewJob(d, "poll") \in Job
    BY <1>0 DEF Kind
  <2>2. sem' \subseteq Job /\ inflight' \subseteq Target
    BY <1>3, <2>1 DEF PollIfDue, PollerTypeOK
  <2> QED BY <1>3, <2>2, PollIfDueNext DEF PollIfDue, Considered, PollerTypeOK
<1>4. CASE Acquire
  BY <1>4 DEF Acquire, PollerTypeOK
<1>5. ASSUME NEW j \in polls, NEW answers \in BOOLEAN, PollDevice(j, answers)
      PROVE  PollerTypeOK'
  <2>1. j \in Job /\ j.dev \in Target /\ [j EXCEPT !.read = TRUE] \in Job
    BY DEF PollerTypeOK, Job
  <2>2. queued' \in 0 .. SampleCap /\ InvEvery \in 0 .. InvEvery
    BY <1>5, PollerBounds DEF PollDevice, PollerTypeOK
  <2>3. invDue' \in [Target -> 0 .. InvEvery]
    BY <1>5, <2>2 DEF PollDevice, PollerTypeOK
  <2>4. polls' \subseteq Job
    BY <1>5, <2>1 DEF PollDevice, PollerTypeOK
  <2> QED BY <1>5, <2>2, <2>3, <2>4 DEF PollDevice, PollerTypeOK
<1>6. ASSUME NEW j \in polls, PollDone(j) \/ InventoryOnly(j)
      PROVE  PollerTypeOK'
  <2>1. PollEvery \in 0 .. Unset
    BY PollerBounds DEF Unset
  <2> QED BY <1>6, <2>1 DEF PollDone, InventoryOnly, PollerTypeOK
<1>7. ASSUME NEW d \in Target, PollNow(d) \/ Forget(d)
      PROVE  PollerTypeOK'
  <2>1. 0 \in 0 .. Unset /\ Unset \in 0 .. Unset /\ 0 \in 0 .. InvEvery
    BY PollerBounds DEF Unset
  <2> QED BY <1>7, <2>1 DEF PollNow, Forget, PollerTypeOK
<1>8. ASSUME NEW ids \in SUBSET Target, SetAssigned(ids)
      PROVE  PollerTypeOK'
  BY <1>8 DEF SetAssigned, PollerTypeOK
<1>9. CASE EngineTakes
  <2>1. queued' \in 0 .. SampleCap
    BY <1>9, PollerBounds DEF EngineTakes, PollerTypeOK
  <2> QED BY <1>9, <2>1 DEF EngineTakes, PollerTypeOK
<1>10. CASE Second
  <2>1. \A d \in Target : Down(invDue[d]) \in 0 .. InvEvery
    BY CountsDown, PollerBounds DEF PollerTypeOK
  <2>2. \A d \in Target : (IF next[d] = Unset THEN Unset ELSE Down(next[d])) \in 0 .. Unset
    BY CountsDown, PollerBounds DEF PollerTypeOK, Unset
  <2> QED BY <1>10, <2>1, <2>2 DEF Second, PollerTypeOK
<1>11. CASE UNCHANGED pollerVars
  BY <1>11 DEF pollerVars, PollerTypeOK
<1> QED
  BY <1>1, <1>2, <1>3, <1>4, <1>5, <1>6, <1>7, <1>8, <1>9, <1>10, <1>11
  DEF PollerNext, RunLoop, Goroutine

\* The schedule's maps, queues and goroutines keep their types (poller.go, Run).
THEOREM PollerTypeCorrect == PollerSpec => []PollerTypeOK
<1>1. PollerInit => PollerTypeOK
  BY PollerBounds DEF PollerInit, PollerTypeOK, Unset, Everything
<1> QED BY <1>1, PollerStepType, PTL DEF PollerSpec

\* A device somebody visits, or is about to, is marked as in flight, and what waits
\* for a slot has none.
VisitInv ==
    /\ OneVisitAtATime
    /\ \A j \in polls \cup sem : j.dev \in inflight
    /\ polls \cap sem = {}

\* A device is taken up only if no visit of it is under way.
LEMMA TakenUpOnce ==
    ASSUME VisitInv, sem = {}, polls' = polls, NEW d \in Target, NEW kind \in Kind,
           NEW due \in BOOLEAN,
           due => d \notin inflight,
           sem' = IF due THEN {NewJob(d, kind)} ELSE {},
           inflight' = IF due THEN inflight \cup {d} ELSE inflight
    PROVE  VisitInv'
<1>1. NewJob(d, kind).dev = d
  BY DEF NewJob
<1>2. CASE due
  <2>1. sem' = {NewJob(d, kind)} /\ inflight' = inflight \cup {d} /\ d \notin inflight
    BY <1>2
  <2>2. \A j \in polls : j.dev # d
    BY <2>1 DEF VisitInv
  <2> HIDE DEF NewJob
  <2> QED BY <1>1, <2>1, <2>2 DEF VisitInv, OneVisitAtATime
<1>3. CASE ~due
  BY <1>3 DEF VisitInv, OneVisitAtATime
<1> QED BY <1>2, <1>3

\* A visit that ends takes its own mark away and no other.
LEMMA VisitEnds ==
    ASSUME VisitInv, NEW j \in polls, polls' = polls \ {j}, inflight' = inflight \ {j.dev}, sem' = sem
    PROVE  VisitInv'
BY DEF VisitInv, OneVisitAtATime

LEMMA PollerStepVisit ==
    ASSUME PollerTypeOK, VisitInv, [PollerNext]_pollerVars
    PROVE  VisitInv'
<1>1. CASE Pass
  BY <1>1 DEF Pass, VisitInv, OneVisitAtATime
<1>2. ASSUME NEW d \in Target, WalkElsewhere(d)
      PROVE  VisitInv'
  BY <1>2, TakenUpOnce DEF WalkElsewhere, Considered, Kind
<1>3. ASSUME NEW d \in Target, PollIfDue(d)
      PROVE  VisitInv'
  BY <1>3, TakenUpOnce DEF PollIfDue, Considered, Kind
<1>4. CASE Acquire
  BY <1>4 DEF Acquire, VisitInv, OneVisitAtATime
<1>5. ASSUME NEW j \in polls, NEW answers \in BOOLEAN, PollDevice(j, answers)
      PROVE  VisitInv'
  <2>1. j \in Job /\ [j EXCEPT !.read = TRUE].dev = j.dev
    BY DEF PollerTypeOK, Job
  <2>2. PICK r : r = [j EXCEPT !.read = TRUE]
    OBVIOUS
  <2>3. r.dev = j.dev /\ polls' = (polls \ {j}) \cup {r} /\ sem' = sem /\ inflight' = inflight
    BY <1>5, <2>1, <2>2 DEF PollDevice
  <2>4. \A k \in (polls \ {j}) \cup sem : k.dev # j.dev
    BY DEF VisitInv, OneVisitAtATime
  <2> QED BY <2>3, <2>4 DEF VisitInv, OneVisitAtATime
<1>6. ASSUME NEW j \in polls, PollDone(j) \/ InventoryOnly(j)
      PROVE  VisitInv'
  BY <1>6, VisitEnds DEF PollDone, InventoryOnly
<1>7. CASE UNCHANGED <<inflight, sem, polls>>
  BY <1>7 DEF VisitInv, OneVisitAtATime
<1> QED
  BY <1>1, <1>2, <1>3, <1>4, <1>5, <1>6, <1>7
  DEF PollerNext, RunLoop, Goroutine, PollNow, Forget, SetAssigned, EngineTakes, Second, pollerVars

\* A device is never visited by two goroutines of a node, whatever the number of
\* workers: the mark in inflight is set before the wait for a slot and outlives
\* Forget and SetAssigned (poller.go, Run).
THEOREM OneVisitAlways == PollerSpec => []OneVisitAtATime
<1>1. PollerInit => VisitInv
  BY DEF PollerInit, VisitInv, OneVisitAtATime
<1>2. VisitInv => OneVisitAtATime
  BY DEF VisitInv
<1> QED BY <1>1, <1>2, PollerStepVisit, PollerTypeCorrect, PTL DEF PollerSpec

-----------------------------------------------------------------------------
(* Sequences as queues: what they hold, and whether it increases.          *)

Increasing(q) == \A i, j \in DOMAIN q : i < j => q[i] < q[j]
Below(X, Y) == \A x \in X, y \in Y : x < y

LEMMA AppendRange ==
    ASSUME NEW S, NEW q \in Seq(S), NEW e \in S
    PROVE  Append(q, e) \in Seq(S) /\ Range(Append(q, e)) = Range(q) \cup {e}
<1>1. /\ Append(q, e) \in Seq(S) /\ Len(q) \in Nat /\ Len(Append(q, e)) = Len(q) + 1
      /\ \A i \in 1 .. Len(q) : Append(q, e)[i] = q[i]
      /\ Append(q, e)[Len(q) + 1] = e
  OBVIOUS
<1>2. DOMAIN Append(q, e) = 1 .. (Len(q) + 1) /\ DOMAIN q = 1 .. Len(q)
  BY <1>1
<1> QED BY <1>1, <1>2 DEF Range

LEMMA TailRange ==
    ASSUME NEW S, NEW q \in Seq(S), q # <<>>
    PROVE  Head(q) \in S /\ Tail(q) \in Seq(S) /\ Range(q) = {Head(q)} \cup Range(Tail(q))
<1>1. /\ Tail(q) \in Seq(S) /\ Len(q) \in Nat /\ Len(q) >= 1 /\ Len(Tail(q)) = Len(q) - 1
      /\ \A i \in 1 .. (Len(q) - 1) : Tail(q)[i] = q[i + 1]
      /\ Head(q) = q[1] /\ Head(q) \in S
  OBVIOUS
<1>2. DOMAIN Tail(q) = 1 .. (Len(q) - 1) /\ DOMAIN q = 1 .. Len(q)
  BY <1>1
<1>3. \A i \in 1 .. Len(q) : q[i] \in {Head(q)} \cup Range(Tail(q))
  <2> TAKE i \in 1 .. Len(q)
  <2>1. CASE i = 1
    BY <1>1, <2>1
  <2>2. CASE i # 1
    <3>1. i - 1 \in 1 .. (Len(q) - 1) /\ Tail(q)[i - 1] = q[i]
      BY <1>1, <2>2
    <3> QED BY <1>2, <3>1 DEF Range
  <2> QED BY <2>1, <2>2
<1>4. \A i \in 1 .. (Len(q) - 1) : Tail(q)[i] \in Range(q)
  BY <1>1, <1>2 DEF Range
<1>5. Head(q) \in Range(q)
  BY <1>1, <1>2 DEF Range
<1> QED BY <1>1, <1>2, <1>3, <1>4, <1>5 DEF Range

LEMMA AppendIncreases ==
    ASSUME NEW q \in Seq(Nat), NEW e \in Nat, Increasing(q), Below(Range(q), {e})
    PROVE  Increasing(Append(q, e))
<1>1. /\ Len(q) \in Nat /\ Append(q, e) \in Seq(Nat) /\ Len(Append(q, e)) = Len(q) + 1
      /\ \A i \in 1 .. Len(q) : Append(q, e)[i] = q[i] /\ q[i] \in Nat
      /\ Append(q, e)[Len(q) + 1] = e
  OBVIOUS
<1>2. DOMAIN Append(q, e) = 1 .. (Len(q) + 1) /\ DOMAIN q = 1 .. Len(q)
  BY <1>1
<1>3. \A i \in 1 .. Len(q) : q[i] < e
  BY <1>2 DEF Below, Range
<1> QED BY <1>1, <1>2, <1>3 DEF Increasing

LEMMA TailIncreases ==
    ASSUME NEW q \in Seq(Nat), q # <<>>, Increasing(q)
    PROVE  Increasing(Tail(q)) /\ Below({Head(q)}, Range(Tail(q)))
<1>1. /\ Tail(q) \in Seq(Nat) /\ Len(q) \in Nat /\ Len(q) >= 1 /\ Len(Tail(q)) = Len(q) - 1
      /\ \A i \in 1 .. (Len(q) - 1) : Tail(q)[i] = q[i + 1]
      /\ Head(q) = q[1]
  OBVIOUS
<1>2. DOMAIN Tail(q) = 1 .. (Len(q) - 1) /\ DOMAIN q = 1 .. Len(q)
  BY <1>1
<1>3. \A i, j \in 1 .. Len(q) : i < j => q[i] < q[j]
  BY <1>2 DEF Increasing
<1>4. Increasing(Tail(q))
  BY <1>1, <1>2, <1>3 DEF Increasing
<1>5. \A i \in 1 .. (Len(q) - 1) : Head(q) < Tail(q)[i]
  BY <1>1, <1>3
<1> QED BY <1>2, <1>4, <1>5 DEF Below, Range

LEMMA ConcatIncreases ==
    ASSUME NEW p \in Seq(Nat), NEW q \in Seq(Nat), Increasing(p), Increasing(q), Below(Range(p), Range(q))
    PROVE  Increasing(p \o q)
<1>1. /\ Len(p) \in Nat /\ Len(q) \in Nat /\ p \o q \in Seq(Nat) /\ Len(p \o q) = Len(p) + Len(q)
      /\ \A i \in 1 .. Len(p) : (p \o q)[i] = p[i]
      /\ \A i \in (Len(p) + 1) .. (Len(p) + Len(q)) : (p \o q)[i] = q[i - Len(p)]
  OBVIOUS
<1>2. /\ DOMAIN (p \o q) = 1 .. (Len(p) + Len(q))
      /\ DOMAIN p = 1 .. Len(p) /\ DOMAIN q = 1 .. Len(q)
  BY <1>1
<1>3. \A i, j \in 1 .. Len(p) : i < j => p[i] < p[j]
  BY <1>2 DEF Increasing
<1>4. \A i, j \in 1 .. Len(q) : i < j => q[i] < q[j]
  BY <1>2 DEF Increasing
<1>5. \A i \in 1 .. Len(p), j \in 1 .. Len(q) : p[i] < q[j]
  BY <1>2 DEF Below, Range
<1>6. ASSUME NEW i \in 1 .. (Len(p) + Len(q)), NEW j \in 1 .. (Len(p) + Len(q)), i < j
      PROVE  (p \o q)[i] < (p \o q)[j]
  <2>1. CASE j <= Len(p)
    BY <1>1, <1>3, <1>6, <2>1
  <2>2. CASE i <= Len(p) /\ j > Len(p)
    <3>1. i \in 1 .. Len(p) /\ j - Len(p) \in 1 .. Len(q) /\ j \in (Len(p) + 1) .. (Len(p) + Len(q))
      BY <1>1, <2>2
    <3> QED BY <1>1, <1>5, <3>1
  <2>3. CASE i > Len(p)
    <3>1. /\ i - Len(p) \in 1 .. Len(q) /\ i \in (Len(p) + 1) .. (Len(p) + Len(q))
          /\ j - Len(p) \in 1 .. Len(q) /\ j \in (Len(p) + 1) .. (Len(p) + Len(q))
          /\ i - Len(p) < j - Len(p)
      BY <1>1, <1>6, <2>3
    <3>2. (p \o q)[i] = q[i - Len(p)] /\ (p \o q)[j] = q[j - Len(p)]
      BY <1>1, <3>1
    <3> QED BY <1>4, <3>1, <3>2
  <2> QED BY <1>1, <2>1, <2>2, <2>3
<1> QED BY <1>2, <1>6 DEF Increasing

-----------------------------------------------------------------------------
(* The SIEM export.                                                        *)

SiemTypes ==
    /\ alertsRaised \in Nat
    /\ teeIn \in Seq(Nat) /\ teeOut \in Seq(Nat) /\ notified \in Seq(Nat)
    /\ exportQ \in Seq(Nat) /\ batch \in Seq(Nat)
    /\ hand \in [at : {"take", "out", "queue", "gone"}, alert : Nat]
    /\ sendingTo \subseteq Sink
    /\ exported \in [Sink -> Seq(Nat)] /\ missed \in [Sink -> SUBSET Nat]
    /\ stopped \in {"no", "yes", "done"}

InHand == IF hand.at \in {"out", "queue"} THEN {hand.alert} ELSE {}

\* The way of an alert: the engine's channel, Tee's hand, the queue, the batch.  Who
\* is further on was raised earlier.
LineOrdered ==
    /\ Increasing(teeIn) /\ Increasing(exportQ) /\ Increasing(batch)
    /\ Below(Range(batch), Range(exportQ)) /\ Below(Range(batch), InHand) /\ Below(Range(batch), Range(teeIn))
    /\ Below(Range(exportQ), InHand) /\ Below(Range(exportQ), Range(teeIn))
    /\ Below(InHand, Range(teeIn))
    /\ Range(batch) \cup Range(exportQ) \cup InHand \cup Range(teeIn) \subseteq 0 .. alertsRaised

\* What the sink s has still to be sent of the batch.
Awaited(s) == IF sendingTo = {} \/ s \in sendingTo THEN Range(batch) ELSE {}

SinkOrdered(s) ==
    /\ Increasing(exported[s])
    /\ Below(Range(exported[s]), Awaited(s)) /\ Below(Range(exported[s]), Range(exportQ))
    /\ Below(Range(exported[s]), InHand) /\ Below(Range(exported[s]), Range(teeIn))
    /\ Range(exported[s]) \subseteq 0 .. alertsRaised

\* A sink that is done with the batch has it or missed it, and whatever Tee has passed
\* on is somewhere.
Accounted(s) ==
    /\ s \notin sendingTo /\ sendingTo # {} => Range(batch) \subseteq Range(exported[s]) \cup missed[s]
    /\ stopped # "done" => Range(notified) \cup Range(teeOut) \subseteq
           Range(exported[s]) \cup Range(batch) \cup Range(exportQ) \cup missed[s]
               \cup (IF hand.at = "queue" THEN {hand.alert} ELSE {})

SiemInv == SiemTypes /\ LineOrdered /\ \A s \in Sink : SinkOrdered(s) /\ Accounted(s)

LEMMA EmptyQueue == <<>> \in Seq(Nat) /\ Range(<<>>) = {} /\ Increasing(<<>>)
BY DEF Range, Increasing

LEMMA RangeIsNat ==
    ASSUME NEW q \in Seq(Nat)
    PROVE  Range(q) \subseteq Nat
BY RangeOfSeq

LEMMA EngineRaisesSiem ==
    ASSUME SiemInv, EngineRaises
    PROVE  SiemInv'
<1> DEFINE n == alertsRaised + 1
<1>1. alertsRaised \in Nat /\ n \in Nat /\ teeIn \in Seq(Nat)
  BY DEF SiemInv, SiemTypes
<1>2. \A x \in 0 .. alertsRaised : x < n /\ x \in 0 .. n
  BY <1>1
<1>3. teeIn' \in Seq(Nat) /\ Range(teeIn') = Range(teeIn) \cup {n} /\ n \in 0 .. n
  BY <1>1, AppendRange DEF EngineRaises
<1>4. Increasing(teeIn')
  <2>1. Below(Range(teeIn), {n})
    BY <1>2 DEF SiemInv, LineOrdered, Below
  <2> QED BY <1>1, <2>1, AppendIncreases DEF EngineRaises, SiemInv, LineOrdered
<1>5. /\ alertsRaised' = n /\ InHand' = InHand /\ \A s : Awaited(s)' = Awaited(s)
      /\ UNCHANGED <<teeOut, hand, exportQ, batch, sendingTo, notified, exported, missed, stopped>>
  BY DEF EngineRaises, InHand, Awaited
<1> HIDE DEF n
<1>6. SiemTypes'
  BY <1>1, <1>3, <1>5 DEF SiemInv, SiemTypes
<1>7. LineOrdered'
  BY <1>2, <1>3, <1>4, <1>5 DEF SiemInv, LineOrdered, Below
<1>8. \A s \in Sink : SinkOrdered(s)'
  BY <1>2, <1>3, <1>5 DEF SiemInv, SinkOrdered, Below
<1>9. \A s \in Sink : Accounted(s)'
  BY <1>5 DEF SiemInv, Accounted
<1> QED BY <1>6, <1>7, <1>8, <1>9 DEF SiemInv

LEMMA TeeTakesSiem ==
    ASSUME SiemInv, TeeTakes
    PROVE  SiemInv'
<1>1. teeIn \in Seq(Nat) /\ teeIn # <<>> /\ Increasing(teeIn)
  BY DEF SiemInv, SiemTypes, LineOrdered, TeeTakes
<1>2. PICK e \in Nat : e = Head(teeIn)
  BY <1>1, TailRange
<1>3. teeIn' \in Seq(Nat) /\ Range(teeIn) = {e} \cup Range(teeIn') /\ Increasing(teeIn') /\ Below({e}, Range(teeIn'))
  BY <1>1, <1>2, TailRange, TailIncreases DEF TeeTakes
<1>4. hand' = [at |-> "out", alert |-> e] /\ InHand' = {e} /\ hand.at = "take"
  BY <1>2 DEF TeeTakes, InHand
<1>5. /\ \A s : Awaited(s)' = Awaited(s)
      /\ UNCHANGED <<alertsRaised, teeOut, exportQ, batch, sendingTo, notified, exported, missed, stopped>>
  BY DEF TeeTakes, Awaited
<1>6. SiemTypes'
  BY <1>3, <1>4, <1>5 DEF SiemInv, SiemTypes
<1>7. LineOrdered'
  BY <1>3, <1>4, <1>5 DEF SiemInv, LineOrdered, Below
<1>8. \A s \in Sink : SinkOrdered(s)'
  BY <1>3, <1>4, <1>5 DEF SiemInv, SinkOrdered, Below
<1>9. \A s \in Sink : Accounted(s)'
  BY <1>4, <1>5 DEF SiemInv, Accounted
<1> QED BY <1>6, <1>7, <1>8, <1>9 DEF SiemInv

LEMMA TeeForwardsSiem ==
    ASSUME SiemInv, TeeForwards
    PROVE  SiemInv'
<1>1. hand \in [at : {"take", "out", "queue", "gone"}, alert : Nat] /\ hand.at = "out" /\ hand.alert \in Nat
  BY DEF SiemInv, SiemTypes, TeeForwards
<1>2. hand' = [at |-> "queue", alert |-> hand.alert]
  BY <1>1 DEF TeeForwards
<1>3. InHand' = InHand
  BY <1>1, <1>2 DEF InHand
<1>4. teeOut' \in Seq(Nat) /\ Range(teeOut') = Range(teeOut) \cup {hand.alert}
  <2>1. teeOut \in Seq(Nat) /\ teeOut' = Append(teeOut, hand.alert)
    BY DEF SiemInv, SiemTypes, TeeForwards
  <2> QED BY <1>1, <2>1, AppendRange
<1>5. /\ \A s : Awaited(s)' = Awaited(s)
      /\ UNCHANGED <<alertsRaised, teeIn, exportQ, batch, sendingTo, notified, exported, missed, stopped>>
  BY DEF TeeForwards, Awaited
<1>6. SiemTypes'
  BY <1>1, <1>2, <1>4, <1>5 DEF SiemInv, SiemTypes
<1>7. LineOrdered'
  BY <1>3, <1>5 DEF SiemInv, LineOrdered
<1>8. \A s \in Sink : SinkOrdered(s)'
  BY <1>3, <1>5 DEF SiemInv, SinkOrdered
<1>9. \A s \in Sink : Accounted(s)'
  BY <1>2, <1>4, <1>5 DEF SiemInv, Accounted
<1> QED BY <1>6, <1>7, <1>8, <1>9 DEF SiemInv

LEMMA TeeQueuesSiem ==
    ASSUME SiemInv, TeeQueues
    PROVE  SiemInv'
<1>1. hand \in [at : {"take", "out", "queue", "gone"}, alert : Nat] /\ hand.at = "queue" /\ hand.alert \in Nat
  BY DEF SiemInv, SiemTypes, TeeQueues
<1>2. hand' = [at |-> "take", alert |-> 0] /\ InHand' = {} /\ InHand = {hand.alert}
  BY <1>1 DEF TeeQueues, EmptyHand, InHand
<1>3. /\ \A s : Awaited(s)' = Awaited(s)
      /\ UNCHANGED <<alertsRaised, teeIn, teeOut, batch, sendingTo, notified, exported, stopped>>
  BY DEF TeeQueues, Awaited
<1>4. CASE Len(exportQ) < QueueCap
  <2>1. exportQ' = Append(exportQ, hand.alert) /\ missed' = missed
    BY <1>4 DEF TeeQueues
  <2>2. exportQ' \in Seq(Nat) /\ Range(exportQ') = Range(exportQ) \cup {hand.alert}
    <3>1. exportQ \in Seq(Nat)
      BY DEF SiemInv, SiemTypes
    <3> QED BY <1>1, <2>1, <3>1, AppendRange
  <2>3. Increasing(exportQ')
    <3>1. Below(Range(exportQ), {hand.alert}) /\ Increasing(exportQ) /\ exportQ \in Seq(Nat)
      BY <1>2 DEF SiemInv, LineOrdered, SiemTypes
    <3> QED BY <1>1, <2>1, <3>1, AppendIncreases
  <2>4. SiemTypes'
    BY <1>1, <1>2, <1>3, <2>1, <2>2 DEF SiemInv, SiemTypes
  <2>5. LineOrdered'
    BY <1>2, <1>3, <2>2, <2>3 DEF SiemInv, LineOrdered, Below
  <2>6. \A s \in Sink : SinkOrdered(s)'
    BY <1>2, <1>3, <2>2 DEF SiemInv, SinkOrdered, Below
  <2>7. \A s \in Sink : Accounted(s)'
    BY <1>1, <1>2, <1>3, <2>1, <2>2 DEF SiemInv, Accounted
  <2> QED BY <2>4, <2>5, <2>6, <2>7 DEF SiemInv
<1>5. CASE ~(Len(exportQ) < QueueCap)
  <2>1. missed' = [s \in Sink |-> missed[s] \cup {hand.alert}] /\ exportQ' = exportQ
    BY <1>5 DEF TeeQueues, Missing
  <2>2. SiemTypes'
    BY <1>1, <1>2, <1>3, <2>1 DEF SiemInv, SiemTypes
  <2>3. LineOrdered'
    BY <1>2, <1>3, <2>1 DEF SiemInv, LineOrdered, Below
  <2>4. \A s \in Sink : SinkOrdered(s)'
    BY <1>2, <1>3, <2>1 DEF SiemInv, SinkOrdered, Below
  <2>5. \A s \in Sink : Accounted(s)'
    BY <1>1, <1>2, <1>3, <2>1 DEF SiemInv, Accounted
  <2> QED BY <2>2, <2>3, <2>4, <2>5 DEF SiemInv
<1> QED BY <1>4, <1>5

LEMMA TeeStopsSiem ==
    ASSUME SiemInv, TeeStops
    PROVE  SiemInv'
<1>1. hand.at # "queue" /\ hand' = [at |-> "gone", alert |-> 0] /\ InHand' = {}
  BY DEF TeeStops, EmptyHand, InHand
<1>2. /\ \A s : Awaited(s)' = Awaited(s)
      /\ UNCHANGED <<alertsRaised, teeIn, teeOut, exportQ, batch, sendingTo, notified, exported, missed, stopped>>
  BY DEF TeeStops, Awaited
<1>3. SiemTypes'
  BY <1>1, <1>2 DEF SiemInv, SiemTypes
<1>4. LineOrdered'
  BY <1>1, <1>2 DEF SiemInv, LineOrdered, Below
<1>5. \A s \in Sink : SinkOrdered(s)'
  BY <1>1, <1>2 DEF SiemInv, SinkOrdered, Below
<1>6. \A s \in Sink : Accounted(s)'
  BY <1>1, <1>2 DEF SiemInv, Accounted
<1> QED BY <1>3, <1>4, <1>5, <1>6 DEF SiemInv

LEMMA NotifierTakesSiem ==
    ASSUME SiemInv, NotifierTakes
    PROVE  SiemInv'
<1>1. teeOut \in Seq(Nat) /\ teeOut # <<>> /\ notified \in Seq(Nat)
  BY DEF SiemInv, SiemTypes, NotifierTakes
<1>2. PICK e \in Nat : e = Head(teeOut)
  BY <1>1, TailRange
<1>3. teeOut' \in Seq(Nat) /\ Range(teeOut) = {e} \cup Range(teeOut')
  BY <1>1, <1>2, TailRange DEF NotifierTakes
<1>4. notified' \in Seq(Nat) /\ Range(notified') = Range(notified) \cup {e}
  BY <1>1, <1>2, AppendRange DEF NotifierTakes
<1>5. /\ InHand' = InHand /\ \A s : Awaited(s)' = Awaited(s)
      /\ UNCHANGED <<alertsRaised, teeIn, hand, exportQ, batch, sendingTo, exported, missed, stopped>>
  BY DEF NotifierTakes, Awaited, InHand
<1>6. SiemTypes'
  BY <1>3, <1>4, <1>5 DEF SiemInv, SiemTypes
<1>7. LineOrdered'
  BY <1>5 DEF SiemInv, LineOrdered
<1>8. \A s \in Sink : SinkOrdered(s)'
  BY <1>5 DEF SiemInv, SinkOrdered
<1>9. \A s \in Sink : Accounted(s)'
  BY <1>3, <1>4, <1>5 DEF SiemInv, Accounted
<1> QED BY <1>6, <1>7, <1>8, <1>9 DEF SiemInv

LEMMA RunTakesSiem ==
    ASSUME SiemInv, RunTakes
    PROVE  SiemInv'
<1>1. exportQ \in Seq(Nat) /\ exportQ # <<>> /\ Increasing(exportQ) /\ batch \in Seq(Nat) /\ Increasing(batch)
  BY DEF SiemInv, SiemTypes, LineOrdered, RunTakes
<1>2. PICK e \in Nat : e = Head(exportQ)
  BY <1>1, TailRange
<1>3. /\ exportQ' \in Seq(Nat) /\ Range(exportQ) = {e} \cup Range(exportQ')
      /\ Increasing(exportQ') /\ Below({e}, Range(exportQ'))
  BY <1>1, <1>2, TailRange, TailIncreases DEF RunTakes
<1>4. batch' = Append(batch, e) /\ batch' \in Seq(Nat) /\ Range(batch') = Range(batch) \cup {e}
  BY <1>1, <1>2, AppendRange DEF RunTakes
<1>5. Increasing(batch')
  <2>1. Below(Range(batch), {e})
    BY <1>3 DEF SiemInv, LineOrdered, Below
  <2> QED BY <1>1, <1>4, <2>1, AppendIncreases
<1>6. sendingTo = {} /\ sendingTo' \in {{}, Sink}
  BY DEF RunTakes
<1>7. \A s \in Sink : Awaited(s)' = Range(batch') /\ Awaited(s) = Range(batch)
  BY <1>6 DEF Awaited
<1>8. InHand' = InHand /\ UNCHANGED <<alertsRaised, teeIn, teeOut, hand, notified, exported, missed, stopped>>
  BY DEF RunTakes, InHand
<1>9. SiemTypes'
  BY <1>3, <1>4, <1>6, <1>8 DEF SiemInv, SiemTypes
<1>10. LineOrdered'
  BY <1>3, <1>4, <1>5, <1>8 DEF SiemInv, LineOrdered, Below
<1>11. \A s \in Sink : SinkOrdered(s)'
  BY <1>3, <1>4, <1>7, <1>8 DEF SiemInv, SinkOrdered, Below
<1>12. \A s \in Sink : Accounted(s)'
  BY <1>3, <1>4, <1>6, <1>8 DEF SiemInv, Accounted
<1> QED BY <1>9, <1>10, <1>11, <1>12 DEF SiemInv

LEMMA RunTicksSiem ==
    ASSUME SiemInv, RunTicks
    PROVE  SiemInv'
<1>1. sendingTo = {} /\ sendingTo' = Sink
  BY DEF RunTicks
<1>2. \A s \in Sink : Awaited(s)' = Awaited(s)
  BY <1>1 DEF Awaited, RunTicks
<1>3. /\ InHand' = InHand
      /\ UNCHANGED <<alertsRaised, teeIn, teeOut, hand, exportQ, batch, notified, exported, missed, stopped>>
  BY DEF RunTicks, InHand
<1>4. SiemTypes'
  BY <1>1, <1>3 DEF SiemInv, SiemTypes
<1>5. LineOrdered'
  BY <1>3 DEF SiemInv, LineOrdered
<1>6. \A s \in Sink : SinkOrdered(s)'
  BY <1>2, <1>3 DEF SiemInv, SinkOrdered
<1>7. \A s \in Sink : Accounted(s)'
  BY <1>1, <1>3 DEF SiemInv, Accounted
<1> QED BY <1>4, <1>5, <1>6, <1>7 DEF SiemInv

LEMMA SendReturnsSiem ==
    ASSUME SiemInv, NEW s \in Sink, NEW ok \in BOOLEAN, SendReturns(s, ok)
    PROVE  SiemInv'
<1>1. /\ batch \in Seq(Nat) /\ exported \in [Sink -> Seq(Nat)] /\ missed \in [Sink -> SUBSET Nat]
      /\ Range(batch) \subseteq Nat
  BY RangeIsNat DEF SiemInv, SiemTypes
<1>2. s \in sendingTo /\ sendingTo' = sendingTo \ {s} /\ sendingTo # {}
  BY DEF SendReturns
<1>3. \/ sendingTo' = {} /\ batch' = <<>>
      \/ sendingTo' # {} /\ batch' = batch
  BY DEF SendReturns, AfterSend
<1>4. /\ batch' \in Seq(Nat) /\ Range(batch') \subseteq Range(batch) /\ Increasing(batch')
      /\ sendingTo' = {} => Range(batch') = {}
      /\ sendingTo' # {} => Range(batch') = Range(batch)
  BY <1>1, <1>3, EmptyQueue DEF SiemInv, LineOrdered
<1>5. InHand' = InHand /\ UNCHANGED <<alertsRaised, teeIn, teeOut, hand, exportQ, notified, stopped>>
  BY DEF SendReturns, InHand
<1>6. /\ exported[s] \in Seq(Nat) /\ exported[s] \o batch \in Seq(Nat)
      /\ Range(exported[s] \o batch) = Range(exported[s]) \cup Range(batch)
      /\ Increasing(exported[s] \o batch)
  <2>1. exported[s] \in Seq(Nat)
    BY <1>1
  <2>2. Below(Range(exported[s]), Range(batch)) /\ Increasing(exported[s]) /\ Increasing(batch)
    BY <1>2 DEF SiemInv, SinkOrdered, LineOrdered, Awaited
  <2> QED BY <1>1, <2>1, <2>2, ConcatIncreases, RangeConcatenation
<1>7. \A t \in Sink \ {s} : exported'[t] = exported[t] /\ missed'[t] = missed[t]
  BY <1>1 DEF SendReturns
<1>8. \/ exported'[s] = exported[s] \o batch /\ missed'[s] = missed[s]
      \/ exported'[s] = exported[s] /\ missed'[s] = missed[s] \cup Range(batch)
  BY <1>1 DEF SendReturns
<1>9. SiemTypes'
  <2>1. exported' \in [Sink -> Seq(Nat)]
    BY <1>1, <1>6 DEF SendReturns
  <2>2. missed' \in [Sink -> SUBSET Nat]
    BY <1>1 DEF SendReturns
  <2> QED BY <1>2, <1>4, <1>5, <2>1, <2>2 DEF SiemInv, SiemTypes
<1>10. LineOrdered'
  BY <1>4, <1>5 DEF SiemInv, LineOrdered, Below
<1>11. ASSUME NEW t \in Sink
       PROVE  SinkOrdered(t)'
  <2>1. CASE t = s
    <3>1. Awaited(s)' = {}
      BY <1>2, <1>4 DEF Awaited
    <3>2. /\ Increasing(exported'[s])
          /\ Range(exported'[s]) \subseteq Range(exported[s]) \cup Range(batch)
      BY <1>6, <1>8 DEF SiemInv, SinkOrdered
    <3> QED BY <1>5, <2>1, <3>1, <3>2 DEF SiemInv, SinkOrdered, LineOrdered, Below
  <2>2. CASE t # s
    <3>1. Awaited(t)' \subseteq Awaited(t)
      BY <1>2, <1>4, <2>2 DEF Awaited
    <3> QED BY <1>5, <1>7, <2>2, <3>1 DEF SiemInv, SinkOrdered, Below
  <2> QED BY <2>1, <2>2
<1>12. ASSUME NEW t \in Sink
       PROVE  Accounted(t)'
  <2>1. Range(batch) \cup Range(exported[t]) \cup missed[t] \subseteq
            Range(batch') \cup Range(exported'[t]) \cup missed'[t]
    <3>1. CASE t = s
      BY <1>6, <1>8, <3>1
    <3>2. CASE t # s
      BY <1>2, <1>4, <1>7, <3>2 DEF SiemInv, Accounted
    <3> QED BY <3>1, <3>2
  <2>2. t \notin sendingTo' /\ sendingTo' # {} => Range(batch') \subseteq Range(exported'[t]) \cup missed'[t]
    <3>1. CASE t = s
      BY <1>4, <1>6, <1>8, <3>1
    <3>2. CASE t # s
      BY <1>2, <1>4, <1>7, <3>2 DEF SiemInv, Accounted
    <3> QED BY <3>1, <3>2
  <2> QED BY <1>5, <2>1, <2>2 DEF SiemInv, Accounted
<1> QED BY <1>9, <1>10, <1>11, <1>12 DEF SiemInv

LEMMA StopsSiem ==
    ASSUME SiemInv, ContextEnds \/ RunStops
    PROVE  SiemInv'
<1>1. CASE ContextEnds
  <2>1. /\ InHand' = InHand /\ \A s : Awaited(s)' = Awaited(s) /\ stopped = "no" /\ stopped' = "yes"
        /\ UNCHANGED <<alertsRaised, teeIn, teeOut, hand, exportQ, batch, sendingTo, notified, exported, missed>>
    BY <1>1 DEF ContextEnds, InHand, Awaited
  <2> QED BY <2>1 DEF SiemInv, SiemTypes, LineOrdered, SinkOrdered, Accounted
<1>2. CASE RunStops
  <2>1. /\ InHand' = InHand /\ \A s : Awaited(s)' = Awaited(s) /\ sendingTo = {} /\ stopped' = "done"
        /\ exportQ' = <<>> /\ missed' = [s \in Sink |-> missed[s] \cup Range(exportQ)]
        /\ UNCHANGED <<alertsRaised, teeIn, teeOut, hand, batch, sendingTo, notified, exported>>
    BY <1>2 DEF RunStops, InHand, Awaited, Missing
  <2>2. Range(exportQ) \subseteq Nat
    BY RangeIsNat DEF SiemInv, SiemTypes
  <2>3. SiemTypes'
    BY <2>1, <2>2, EmptyQueue DEF SiemInv, SiemTypes
  <2>4. LineOrdered'
    BY <2>1, EmptyQueue DEF SiemInv, LineOrdered, Below
  <2>5. \A s \in Sink : SinkOrdered(s)'
    BY <2>1, EmptyQueue DEF SiemInv, SinkOrdered, Below
  <2>6. \A s \in Sink : Accounted(s)'
    BY <2>1 DEF SiemInv, Accounted
  <2> QED BY <2>3, <2>4, <2>5, <2>6 DEF SiemInv
<1> QED BY <1>1, <1>2

\* Whatever sinks fail or hang, and wherever the stop comes, a sink holds alerts in
\* the order they were raised and none twice, and every alert that went on to the
\* notifier is accounted for at every sink (siemexport.go, Tee, run, Send).
THEOREM ExportKeepsOrder == SiemSpec => []ExportedOnceInOrder
<1>1. SiemInit => SiemInv
  <2> SUFFICES ASSUME SiemInit PROVE SiemInv
    OBVIOUS
  <2>1. /\ teeIn = <<>> /\ exportQ = <<>> /\ batch = <<>> /\ InHand = {} /\ notified = <<>> /\ teeOut = <<>>
        /\ sendingTo = {} /\ alertsRaised = 0
        /\ \A s \in Sink : exported[s] = <<>> /\ Awaited(s) = Range(<<>>)
    BY DEF SiemInit, EmptyHand, InHand, Awaited
  <2>2. SiemTypes
    BY EmptyQueue DEF SiemInit, SiemTypes, EmptyHand
  <2>3. LineOrdered
    BY <2>1, EmptyQueue DEF LineOrdered, Below
  <2>4. \A s \in Sink : SinkOrdered(s)
    BY <2>1, EmptyQueue DEF SinkOrdered, Below
  <2>5. \A s \in Sink : Accounted(s)
    BY <2>1, EmptyQueue DEF Accounted
  <2> QED BY <2>2, <2>3, <2>4, <2>5 DEF SiemInv
<1>2. ASSUME SiemInv, [SiemNext]_siemVars
      PROVE  SiemInv'
  <2>1. CASE UNCHANGED siemVars
    BY <1>2, <2>1 DEF siemVars, SiemInv, SiemTypes, LineOrdered, SinkOrdered, Accounted, InHand, Awaited
  <2> QED
    BY <1>2, <2>1, EngineRaisesSiem, TeeTakesSiem, TeeForwardsSiem, TeeQueuesSiem, TeeStopsSiem,
       NotifierTakesSiem, RunTakesSiem, RunTicksSiem, SendReturnsSiem, StopsSiem DEF SiemNext
<1>3. SiemInv => ExportedOnceInOrder
  BY DEF SiemInv, SinkOrdered, Accounted, Increasing, ExportedOnceInOrder
<1> QED BY <1>1, <1>2, <1>3, PTL DEF SiemSpec

-----------------------------------------------------------------------------
(* The dispatcher.                                                         *)

\* The copies that are under way.
Held == Range(chan) \cup Range(pending) \cup Range(sending)

\* The copies in the messages about a that were sent.
Told(a) == UNION {out[a][i] : i \in DOMAIN out[a]}

\* Something that says a is open has been sent.
Opened(a) == \E l \in Told(a) : l.state = "open"

\* The mark "notified", in the store or in a copy, is never ahead of the message.
MarkInv ==
    /\ \A a \in Alert : alerts[a].notified => Opened(a)
    /\ \A m \in Held : m.notified => Opened(m.alert)
    /\ \A m \in Range(sending) : m.state = "resolved" => m.notified

\* X is told before Y, alert by alert.
Earlier(X, Y) == \A l \in X, m \in Y : l.alert = m.alert => Place(l) < Place(m)

InPlace(q) == \A i, j \in DOMAIN q : i < j /\ q[i].alert = q[j].alert => Place(q[i]) < Place(q[j])

\* The way of a copy: channel, pending, sending, sent.  Who is further on is older,
\* and nothing is ahead of the alert in the store.
PlaceInv ==
    /\ \A a \in Alert : alerts[a].state = "none" => alerts[a].episode = 0
    /\ InPlace(chan) /\ InPlace(pending)
    /\ Earlier(Range(pending), Range(chan))
    /\ Earlier(Range(sending), Range(pending) \cup Range(chan))
    /\ \A a \in Alert : /\ \A l \in Told(a) : l.alert = a /\ Place(l) <= Place(alerts[a])
                        /\ Earlier(Told(a), Held)
    /\ \A m \in Held : Place(m) <= Place(alerts[m.alert])

NotifyInv == NotifyTypeOK /\ MarkInv /\ PlaceInv /\ ResolutionFollowsOpen /\ HistoryInOrder

\* Places are numbers.
LEMMA PlaceIsNat ==
    ASSUME NEW m, m.episode \in Nat
    PROVE  Place(m) \in Nat
BY DEF Place

LEMMA HeldAreCopies ==
    ASSUME NotifyTypeOK
    PROVE  Held \subseteq Copy
BY RangeOfSeq DEF NotifyTypeOK, Held

LEMMA ToldAreCopies ==
    ASSUME NotifyTypeOK, NEW a \in Alert
    PROVE  Told(a) \subseteq Copy
BY DEF NotifyTypeOK, Told

\* A copy that goes to the end of its queue is the newest there.
LEMMA AppendInPlace ==
    ASSUME NEW q \in Seq(Copy), NEW m \in Copy, InPlace(q), Earlier(Range(q), {m})
    PROVE  InPlace(Append(q, m))
<1>1. /\ Len(q) \in Nat /\ Append(q, m) \in Seq(Copy) /\ Len(Append(q, m)) = Len(q) + 1
      /\ \A i \in 1 .. Len(q) : Append(q, m)[i] = q[i]
      /\ Append(q, m)[Len(q) + 1] = m
  OBVIOUS
<1>2. DOMAIN Append(q, m) = 1 .. (Len(q) + 1) /\ DOMAIN q = 1 .. Len(q)
  BY <1>1
<1>3. \A i \in 1 .. Len(q) : q[i].alert = m.alert => Place(q[i]) < Place(m)
  BY <1>2 DEF Earlier, Range
<1> QED BY <1>1, <1>2, <1>3 DEF InPlace

LEMMA TailInPlace ==
    ASSUME NEW q \in Seq(Copy), q # <<>>, InPlace(q)
    PROVE  InPlace(Tail(q)) /\ Earlier({Head(q)}, Range(Tail(q)))
<1>1. /\ Tail(q) \in Seq(Copy) /\ Len(q) \in Nat /\ Len(q) >= 1 /\ Len(Tail(q)) = Len(q) - 1
      /\ \A i \in 1 .. (Len(q) - 1) : Tail(q)[i] = q[i + 1]
      /\ Head(q) = q[1]
  OBVIOUS
<1>2. DOMAIN Tail(q) = 1 .. (Len(q) - 1) /\ DOMAIN q = 1 .. Len(q)
  BY <1>1
<1>3. \A i, j \in 1 .. Len(q) : i < j /\ q[i].alert = q[j].alert => Place(q[i]) < Place(q[j])
  BY <1>2 DEF InPlace
<1>4. InPlace(Tail(q))
  <2> SUFFICES ASSUME NEW i \in 1 .. (Len(q) - 1), NEW j \in 1 .. (Len(q) - 1), i < j,
                      Tail(q)[i].alert = Tail(q)[j].alert
               PROVE  Place(Tail(q)[i]) < Place(Tail(q)[j])
    BY <1>2 DEF InPlace
  <2>1. i + 1 \in 1 .. Len(q) /\ j + 1 \in 1 .. Len(q) /\ i + 1 < j + 1
    BY <1>1
  <2>2. Tail(q)[i] = q[i + 1] /\ Tail(q)[j] = q[j + 1]
    BY <1>1
  <2> QED BY <1>3, <2>1, <2>2
<1>5. \A i \in 1 .. (Len(q) - 1) : Head(q).alert = Tail(q)[i].alert => Place(Head(q)) < Place(Tail(q)[i])
  <2> TAKE i \in 1 .. (Len(q) - 1)
  <2>1. 1 \in 1 .. Len(q) /\ i + 1 \in 1 .. Len(q) /\ 1 < i + 1
    BY <1>1
  <2> QED BY <1>1, <1>3, <2>1
<1> QED BY <1>2, <1>4, <1>5 DEF Earlier, Range

\* The alert a in the store becomes x, which is no older, and nothing is queued.
LEMMA StoredStep ==
    ASSUME NotifyInv, NEW a \in Alert, NEW x \in StoredAlert,
           alerts' = [alerts EXCEPT ![a] = x],
           x.state = "none" => x.episode = 0,
           Place(alerts[a]) <= Place(x), x.notified => alerts[a].notified,
           opens' \in Nat, UNCHANGED <<chan, pending, aged, sending, out>>
    PROVE  NotifyInv'
<1>1. alerts \in [Alert -> StoredAlert] /\ alerts'[a] = x /\ \A b \in Alert \ {a} : alerts'[b] = alerts[b]
  BY DEF NotifyInv, NotifyTypeOK
<1>2. \A b \in Alert : Place(alerts[b]) \in Nat /\ Place(alerts'[b]) \in Nat /\ Place(alerts[b]) <= Place(alerts'[b])
  BY <1>1, PlaceIsNat DEF StoredAlert
<1>3. Held' = Held /\ \A b : Told(b)' = Told(b) /\ Opened(b)' = Opened(b)
  BY DEF Held, Told, Opened
<1>4. Held \subseteq Copy /\ \A b \in Alert : Told(b) \subseteq Copy
  BY HeldAreCopies, ToldAreCopies DEF NotifyInv
<1>5. \A m \in Copy : m.alert \in Alert /\ Place(m) \in Nat
  BY PlaceIsNat DEF Copy
<1>6. NotifyTypeOK'
  BY <1>1 DEF NotifyInv, NotifyTypeOK
<1>7. MarkInv'
  BY <1>1, <1>3 DEF NotifyInv, MarkInv
<1>8. ASSUME NEW b \in Alert, NEW l \in Copy, Place(l) <= Place(alerts[b])
      PROVE  Place(l) <= Place(alerts'[b])
  BY <1>2, <1>5, <1>8
<1>9. PlaceInv'
  <2>1. \A b \in Alert : alerts'[b].state = "none" => alerts'[b].episode = 0
    BY <1>1 DEF NotifyInv, PlaceInv
  <2>2. \A b \in Alert : \A l \in Told(b) : l.alert = b /\ Place(l) <= Place(alerts'[b])
    BY <1>4, <1>8 DEF NotifyInv, PlaceInv
  <2>3. \A m \in Held : Place(m) <= Place(alerts'[m.alert])
    BY <1>4, <1>5, <1>8 DEF NotifyInv, PlaceInv
  <2> QED BY <1>3, <2>1, <2>2, <2>3 DEF NotifyInv, PlaceInv
<1>10. ResolutionFollowsOpen' /\ HistoryInOrder'
  BY DEF NotifyInv, ResolutionFollowsOpen, HistoryInOrder
<1> QED BY <1>6, <1>7, <1>9, <1>10 DEF NotifyInv

\* ... and a copy of it is queued, if it is newer than everything told before.
LEMMA QueuedStep ==
    ASSUME NotifyInv, NEW a \in Alert, NEW x \in StoredAlert,
           alerts' = [alerts EXCEPT ![a] = x], Queue(a, x),
           x.state # "none",
           Place(alerts[a]) < Place(x), x.notified => alerts[a].notified,
           opens' \in Nat, UNCHANGED <<pending, aged, sending, out>>
    PROVE  NotifyInv'
<1>0. Place(alerts[a]) \in Nat /\ Place(x) \in Nat
  BY PlaceIsNat DEF NotifyInv, NotifyTypeOK, StoredAlert
<1>1. CASE chan' = chan
  <2>1. Place(alerts[a]) <= Place(x)
    BY <1>0
  <2> QED BY <1>1, <2>1, StoredStep
<1>2. CASE x.state # "acked" /\ chan' = Append(chan, CopyOf(a, x))
  <2> DEFINE m == CopyOf(a, x)
  <2>1. m \in Copy /\ m.alert = a /\ Place(m) = Place(x) /\ m.notified = x.notified
    BY <1>2 DEF CopyOf, Copy, StoredAlert, State, Place
  <2> HIDE DEF m
  <2>2. chan \in Seq(Copy) /\ chan' = Append(chan, m)
    BY <1>2 DEF NotifyInv, NotifyTypeOK, m
  <2>3. chan' \in Seq(Copy) /\ Range(chan') = Range(chan) \cup {m}
    BY <2>1, <2>2, AppendRange
  <2>4. alerts \in [Alert -> StoredAlert] /\ alerts'[a] = x /\ \A b \in Alert \ {a} : alerts'[b] = alerts[b]
    BY DEF NotifyInv, NotifyTypeOK
  <2>5. \A b \in Alert : Place(alerts[b]) \in Nat /\ Place(alerts'[b]) \in Nat /\ Place(alerts[b]) <= Place(alerts'[b])
    BY <1>0, <2>4, PlaceIsNat DEF StoredAlert
  <2>6. Held' = Held \cup {m} /\ \A b : Told(b)' = Told(b) /\ Opened(b)' = Opened(b)
    BY <2>3 DEF Held, Told, Opened
  <2>7. Held \subseteq Copy /\ \A b \in Alert : Told(b) \subseteq Copy
    BY HeldAreCopies, ToldAreCopies DEF NotifyInv
  <2>8. \A n \in Copy : n.alert \in Alert /\ Place(n) \in Nat
    BY PlaceIsNat DEF Copy
  <2>9. Earlier(Held, {m}) /\ \A b \in Alert : Earlier(Told(b), {m})
    <3>1. \A l \in Held : l.alert = a => Place(l) <= Place(alerts[a])
      BY DEF NotifyInv, PlaceInv
    <3>2. \A b \in Alert : \A l \in Told(b) : l.alert = a => Place(l) <= Place(alerts[a])
      BY DEF NotifyInv, PlaceInv
    <3>3. \A l \in Copy : Place(l) <= Place(alerts[a]) => Place(l) < Place(m)
      BY <1>0, <2>1, <2>8
    <3> QED BY <2>1, <2>7, <3>1, <3>2, <3>3 DEF Earlier
  <2>10. NotifyTypeOK'
    BY <2>3, <2>4 DEF NotifyInv, NotifyTypeOK
  <2>11. MarkInv'
    BY <2>1, <2>4, <2>6 DEF NotifyInv, MarkInv
  <2>12. ASSUME NEW b \in Alert, NEW l \in Copy, Place(l) <= Place(alerts[b])
         PROVE  Place(l) <= Place(alerts'[b])
    BY <2>5, <2>8, <2>12
  <2>13. PlaceInv'
    <3>1. \A b \in Alert : alerts'[b].state = "none" => alerts'[b].episode = 0
      BY <2>4 DEF NotifyInv, PlaceInv
    <3>2. \A b \in Alert : \A l \in Told(b) : l.alert = b /\ Place(l) <= Place(alerts'[b])
      BY <2>7, <2>12 DEF NotifyInv, PlaceInv
    <3>3. \A n \in Held : Place(n) <= Place(alerts'[n.alert])
      BY <2>7, <2>8, <2>12 DEF NotifyInv, PlaceInv
    <3>4. Place(m) <= Place(alerts'[m.alert])
      BY <1>0, <2>1, <2>4
    <3>5. InPlace(chan')
      <4>1. Earlier(Range(chan), {m}) /\ InPlace(chan)
        BY <2>9 DEF NotifyInv, PlaceInv, Earlier, Held
      <4> QED BY <2>1, <2>2, <4>1, AppendInPlace
    <3>6. Earlier(Range(pending), Range(chan')) /\ Earlier(Range(sending), Range(pending) \cup Range(chan'))
      BY <2>3, <2>9 DEF NotifyInv, PlaceInv, Earlier, Held
    <3>7. \A b \in Alert : Earlier(Told(b), Held')
      BY <2>6, <2>9 DEF NotifyInv, PlaceInv, Earlier
    <3> QED BY <2>6, <3>1, <3>2, <3>3, <3>4, <3>5, <3>6, <3>7 DEF NotifyInv, PlaceInv
  <2>14. ResolutionFollowsOpen' /\ HistoryInOrder'
    BY DEF NotifyInv, ResolutionFollowsOpen, HistoryInOrder
  <2> QED BY <2>10, <2>11, <2>13, <2>14 DEF NotifyInv
<1> QED BY <1>1, <1>2 DEF Queue

LEMMA EngineStep ==
    ASSUME NotifyInv, NEW a \in Alert, NEW s \in Severity, NEW root \in BOOLEAN,
           Open(a, s, root) \/ Repeat(a, s, root)
    PROVE  NotifyInv'
<1>0. alerts[a] \in StoredAlert /\ opens + 1 \in Nat /\ Severity \subseteq 1..4
  BY NotifyAssumption DEF NotifyInv, NotifyTypeOK, Critical
<1>1. CASE Open(a, s, root)
  <2> DEFINE x == [state |-> "open", sev |-> s, notified |-> FALSE, folded |-> root, episode |-> 1]
  <2>1. x \in StoredAlert /\ x.state = "open" /\ x.notified = FALSE /\ Place(x) = 2
    BY DEF StoredAlert, State, Place
  <2>2. Place(alerts[a]) = 0
    BY <1>1 DEF Open, NotifyInv, PlaceInv, Place
  <2>3. /\ alerts' = [alerts EXCEPT ![a] = x] /\ opens' = opens + 1
        /\ Queue(a, x) \/ chan' = chan
        /\ UNCHANGED <<pending, aged, sending, out>>
    BY <1>1 DEF Open
  <2> HIDE DEF x
  <2>4. Place(alerts[a]) < Place(x) /\ Place(alerts[a]) <= Place(x) /\ opens' \in Nat
    BY <1>0, <2>1, <2>2, <2>3
  <2>5. CASE Queue(a, x)
    BY <2>1, <2>3, <2>4, <2>5, QueuedStep
  <2>6. CASE chan' = chan
    BY <2>1, <2>3, <2>4, <2>6, StoredStep
  <2> QED BY <2>3, <2>5, <2>6
<1>2. CASE Repeat(a, s, root)
  <2> DEFINE x == [alerts[a] EXCEPT !.sev = IF root \/ s > alerts[a].sev THEN s ELSE alerts[a].sev,
                                    !.folded = alerts[a].folded \/ root]
  <2>1. x \in StoredAlert /\ x.state = alerts[a].state /\ x.notified = alerts[a].notified /\ x.episode = alerts[a].episode
    BY <1>0 DEF StoredAlert
  <2>2. Place(x) = Place(alerts[a]) /\ Place(x) \in Nat
    BY <1>0, <2>1, PlaceIsNat DEF Place, StoredAlert
  <2>3. /\ alerts' = [alerts EXCEPT ![a] = x] /\ opens' = opens + 1
        /\ UNCHANGED <<chan, pending, aged, sending, out>>
    BY <1>2 DEF Repeat, NotifyInv, NotifyTypeOK, StoredAlert
  <2>4. x.state # "none"
    BY <1>2, <2>1 DEF Repeat, Unresolved
  <2> HIDE DEF x
  <2>5. Place(alerts[a]) <= Place(x) /\ opens' \in Nat
    BY <1>0, <2>2, <2>3
  <2> QED BY <2>1, <2>3, <2>4, <2>5, StoredStep
<1> QED BY <1>1, <1>2

LEMMA ReopenStep ==
    ASSUME NotifyInv, NEW a \in Alert, NEW s \in {"open", "acked", "resolved"}, Reopen(a, s)
    PROVE  NotifyInv'
<1> DEFINE x == [alerts[a] EXCEPT !.state = s, !.notified = FALSE, !.episode = @ + 1]
<1>0. alerts[a] \in StoredAlert /\ opens + 1 \in Nat /\ alerts[a].state = "resolved"
  BY DEF NotifyInv, NotifyTypeOK, Reopen
<1>1. x \in StoredAlert /\ x.state = s /\ x.notified = FALSE /\ x.episode = alerts[a].episode + 1
  <2>1. alerts[a].episode + 1 \in Nat
    BY <1>0 DEF StoredAlert
  <2> QED BY <1>0, <2>1 DEF StoredAlert, State
<1>2. Place(alerts[a]) < Place(x)
  BY <1>0, <1>1 DEF Place, StoredAlert
<1>3. alerts' = [alerts EXCEPT ![a] = x] /\ opens' = opens + 1 /\ Queue(a, x) /\ UNCHANGED <<pending, aged, sending, out>>
  BY DEF Reopen
<1> HIDE DEF x
<1> QED BY <1>0, <1>1, <1>2, <1>3, QueuedStep

LEMMA ResolveStep ==
    ASSUME NotifyInv, NEW a \in Alert, Resolve(a) \/ ResolveByHand(a)
    PROVE  NotifyInv'
<1> DEFINE x == [alerts[a] EXCEPT !.state = "resolved"]
<1>0. alerts \in [Alert -> StoredAlert] /\ alerts[a] \in StoredAlert /\ opens \in Nat /\ Unresolved(alerts[a])
  BY DEF NotifyInv, NotifyTypeOK, Resolve, ResolveByHand
<1>1. x \in StoredAlert /\ x.state = "resolved" /\ x.notified = alerts[a].notified /\ x.episode = alerts[a].episode
  BY <1>0 DEF StoredAlert, State
<1>2. Place(alerts[a]) < Place(x) /\ Place(alerts[a]) <= Place(x)
  BY <1>0, <1>1 DEF Place, StoredAlert, Unresolved
<1>3. alerts' = [alerts EXCEPT ![a] = x] /\ opens' = opens /\ UNCHANGED <<pending, aged, sending, out>>
  BY <1>0 DEF Resolve, ResolveByHand
<1>4. Queue(a, x) \/ chan' = chan
  BY DEF Resolve, ResolveByHand
<1> HIDE DEF x
<1> QED BY <1>0, <1>1, <1>2, <1>3, <1>4, QueuedStep, StoredStep

LEMMA AckStep ==
    ASSUME NotifyInv, NEW a \in Alert, Ack(a)
    PROVE  NotifyInv'
<1> DEFINE x == [alerts[a] EXCEPT !.state = "acked"]
<1>0. alerts \in [Alert -> StoredAlert] /\ alerts[a] \in StoredAlert /\ opens \in Nat /\ alerts[a].state = "open"
  BY DEF NotifyInv, NotifyTypeOK, Ack
<1>1. x \in StoredAlert /\ x.state = "acked" /\ x.notified = alerts[a].notified /\ x.episode = alerts[a].episode
  BY <1>0 DEF StoredAlert, State
<1>2. Place(alerts[a]) <= Place(x)
  BY <1>0, <1>1 DEF Place, StoredAlert
<1>3. alerts' = [alerts EXCEPT ![a] = x] /\ opens' = opens /\ UNCHANGED <<chan, pending, aged, sending, out>>
  BY <1>0 DEF Ack
<1> HIDE DEF x
<1> QED BY <1>0, <1>1, <1>2, <1>3, StoredStep

\* Run moves the oldest copy from the channel to pending.
LEMMA ReceiveStep ==
    ASSUME NotifyInv, Receive
    PROVE  NotifyInv'
<1>1. chan \in Seq(Copy) /\ chan # <<>> /\ InPlace(chan) /\ pending \in Seq(Copy) /\ InPlace(pending)
  BY DEF NotifyInv, NotifyTypeOK, PlaceInv, Receive
<1>2. PICK m \in Copy : m = Head(chan)
  BY <1>1, TailRange
<1>3. chan' \in Seq(Copy) /\ Range(chan) = {m} \cup Range(chan') /\ InPlace(chan') /\ Earlier({m}, Range(chan'))
  BY <1>1, <1>2, TailRange, TailInPlace DEF Receive
<1>4. pending' = Append(pending, m) /\ pending' \in Seq(Copy) /\ Range(pending') = Range(pending) \cup {m}
  BY <1>1, <1>2, AppendRange DEF Receive
<1>5. InPlace(pending')
  <2>1. Earlier(Range(pending), {m})
    BY <1>3 DEF NotifyInv, PlaceInv, Earlier
  <2> QED BY <1>1, <1>4, <2>1, AppendInPlace
<1>6. /\ UNCHANGED <<alerts, opens, aged, sending, out>> /\ Held' = Held
      /\ \A b : Told(b)' = Told(b) /\ Opened(b)' = Opened(b)
  BY <1>3, <1>4 DEF Receive, Held, Told, Opened
<1>7. NotifyTypeOK'
  BY <1>3, <1>4, <1>6 DEF NotifyInv, NotifyTypeOK
<1>8. MarkInv'
  BY <1>6 DEF NotifyInv, MarkInv
<1>9. PlaceInv'
  <2>1. Earlier(Range(pending'), Range(chan'))
    BY <1>3, <1>4 DEF NotifyInv, PlaceInv, Earlier
  <2>2. Range(pending') \cup Range(chan') = Range(pending) \cup Range(chan)
    BY <1>3, <1>4
  <2> QED BY <1>3, <1>5, <1>6, <2>1, <2>2 DEF NotifyInv, PlaceInv
<1>10. ResolutionFollowsOpen' /\ HistoryInOrder'
  BY <1>6 DEF NotifyInv, ResolutionFollowsOpen, HistoryInOrder
<1> QED BY <1>7, <1>8, <1>9, <1>10 DEF NotifyInv

\* What flush sends are pending copies that pass its filters.
LEMMA SortedIsPending ==
    ASSUME NotifyTypeOK, NEW c, NEW q \in Sorted(Passing(c))
    PROVE  q \in Seq(Copy) /\ \A m \in Range(q) : m \in Range(pending) /\ Passes(c, m)
<1> DEFINE S == Passing(c)
           n == Cardinality(S)
<1>1. pending \in Seq(Copy) /\ Len(pending) \in Nat /\ DOMAIN pending = 1 .. Len(pending)
  BY DEF NotifyTypeOK
<1>2. n \in Nat
  <2>1. IsFiniteSet(1 .. Len(pending))
    BY <1>1, FS_Interval
  <2>2. S \subseteq 1 .. Len(pending)
    BY <1>1 DEF Passing
  <2> QED BY <2>1, <2>2, FS_Subset, FS_CardinalityType
<1>3. PICK o \in StableOrder(S) : q = [i \in 1 .. n |-> pending[o[i]]]
  BY DEF Sorted
<1>4. o \in [1 .. n -> S]
  BY DEF StableOrder, Injection
<1>5. \A i \in 1 .. n : /\ o[i] \in DOMAIN pending /\ pending[o[i]] \in Copy
                        /\ Passes(c, pending[o[i]]) /\ q[i] = pending[o[i]]
  BY <1>1, <1>3, <1>4 DEF Passing
<1> HIDE DEF n, S
<1>6. q \in Seq(Copy)
  BY <1>2, <1>3, <1>5
<1>7. DOMAIN q = 1 .. n
  BY <1>3
<1> QED BY <1>5, <1>6, <1>7 DEF Range

LEMMA FlushStep ==
    ASSUME NotifyInv, NEW c, FlushPending(c)
    PROVE  NotifyInv'
<1>1. /\ sending = <<>> /\ pending' = <<>> /\ aged' = FALSE /\ sending' \in Sorted(Passing(c))
      /\ UNCHANGED <<alerts, opens, chan, out>>
  BY DEF FlushPending
<1>2. sending' \in Seq(Copy) /\ \A m \in Range(sending') : m \in Range(pending) /\ Passes(c, m)
  BY <1>1, SortedIsPending DEF NotifyInv
<1>3. <<>> \in Seq(Copy) /\ Range(pending') = {} /\ InPlace(pending')
  BY <1>1 DEF Range, InPlace
<1>4. /\ Held' \subseteq Held /\ Range(sending') \subseteq Range(pending)
      /\ \A b : Told(b)' = Told(b) /\ Opened(b)' = Opened(b)
  BY <1>1, <1>2, <1>3 DEF Held, Told, Opened
<1>5. NotifyTypeOK'
  BY <1>1, <1>2, <1>3 DEF NotifyInv, NotifyTypeOK
<1>6. MarkInv'
  <2>1. \A m \in Range(sending') : m.state = "resolved" => m.notified
    BY <1>2 DEF Passes
  <2> QED BY <1>1, <1>4, <2>1 DEF NotifyInv, MarkInv
<1>7. PlaceInv'
  <2>1. Earlier(Range(pending'), Range(chan')) /\ Earlier(Range(sending'), Range(pending') \cup Range(chan'))
    BY <1>1, <1>3, <1>4 DEF NotifyInv, PlaceInv, Earlier
  <2>2. \A b \in Alert : Earlier(Told(b), Held')
    BY <1>4 DEF NotifyInv, PlaceInv, Earlier
  <2> QED BY <1>1, <1>3, <1>4, <2>1, <2>2 DEF NotifyInv, PlaceInv
<1>8. ResolutionFollowsOpen' /\ HistoryInOrder'
  BY <1>1 DEF NotifyInv, ResolutionFollowsOpen, HistoryInOrder
<1> QED BY <1>5, <1>6, <1>7, <1>8 DEF NotifyInv

\* The message in hand is sent: it comes after everything told, before everything held.
LEMMA DeliverStep ==
    ASSUME NotifyInv, Deliver
    PROVE  NotifyInv'
<1>1. /\ sending' = <<>> /\ UNCHANGED <<opens, chan, pending, aged>>
      /\ alerts' = [a \in Alert |-> [alerts[a] EXCEPT !.notified = @ \/ Marked(a)]]
      /\ out' = [a \in Alert |-> IF About(a) = {} THEN out[a] ELSE Append(out[a], About(a))]
  BY DEF Deliver
<1>2. \A a \in Alert : /\ About(a) \subseteq Copy /\ About(a) \subseteq Range(sending)
                       /\ \A m \in About(a) : m.alert = a
  BY RangeOfSeq DEF About, Range, NotifyInv, NotifyTypeOK
<1>3. \A a \in Alert : out[a] \in Seq(SUBSET Copy)
  BY DEF NotifyInv, NotifyTypeOK
<1>4. ASSUME NEW a \in Alert, About(a) # {}
      PROVE  /\ out'[a] \in Seq(SUBSET Copy) /\ Len(out[a]) \in Nat
             /\ DOMAIN out[a] = 1 .. Len(out[a]) /\ DOMAIN out'[a] = 1 .. (Len(out[a]) + 1)
             /\ \A i \in 1 .. Len(out[a]) : out'[a][i] = out[a][i]
             /\ out'[a][Len(out[a]) + 1] = About(a)
  BY <1>1, <1>2, <1>3, <1>4
<1>5. ASSUME NEW a \in Alert, About(a) = {}
      PROVE  out'[a] = out[a]
  BY <1>1, <1>5
<1>6. \A a \in Alert : Told(a)' = Told(a) \cup About(a)
  <2> SUFFICES ASSUME NEW a \in Alert PROVE Told(a)' = Told(a) \cup About(a)
    OBVIOUS
  <2>1. CASE About(a) = {}
    BY <1>5, <2>1 DEF Told
  <2>2. CASE About(a) # {}
    <3>1. \A x : x \in Told(a)' <=> \E i \in 1 .. (Len(out[a]) + 1) : x \in out'[a][i]
      BY <1>4, <2>2 DEF Told
    <3>2. \A x : x \in Told(a) <=> \E i \in 1 .. Len(out[a]) : x \in out[a][i]
      BY <1>4, <2>2 DEF Told
    <3>3. /\ Len(out[a]) \in Nat /\ out'[a][Len(out[a]) + 1] = About(a)
          /\ \A i \in 1 .. Len(out[a]) : out'[a][i] = out[a][i]
      BY <1>4, <2>2
    <3>4. \A i \in 1 .. (Len(out[a]) + 1) : i \in 1 .. Len(out[a]) \/ i = Len(out[a]) + 1
      BY <3>3
    <3>5. 1 .. Len(out[a]) \subseteq 1 .. (Len(out[a]) + 1) /\ Len(out[a]) + 1 \in 1 .. (Len(out[a]) + 1)
      BY <3>3
    <3>6. \A x : x \in Told(a)' <=> x \in Told(a) \/ x \in About(a)
      BY <3>1, <3>2, <3>3, <3>4, <3>5
    <3> QED BY <3>6
  <2> QED BY <2>1, <2>2
<1>7. \A a \in Alert : Opened(a) => Opened(a)'
  BY <1>6 DEF Opened
<1>8. \A a \in Alert : /\ alerts'[a].state = alerts[a].state /\ alerts'[a].episode = alerts[a].episode
                       /\ alerts'[a].notified = (alerts[a].notified \/ Marked(a))
                       /\ alerts'[a] \in StoredAlert
  BY <1>1 DEF NotifyInv, NotifyTypeOK, StoredAlert
<1>9. Range(sending') = {} /\ <<>> \in Seq(Copy)
  BY <1>1 DEF Range
<1>10. Held' \subseteq Held /\ Held \subseteq Copy /\ Held' = Range(pending) \cup Range(chan)
  BY <1>1, <1>9, HeldAreCopies DEF Held, NotifyInv
<1>11. NotifyTypeOK'
  <2>1. out' \in [Alert -> Seq(SUBSET Copy)]
    <3>1. \A a \in Alert : out'[a] \in Seq(SUBSET Copy)
      BY <1>3, <1>4, <1>5
    <3> QED BY <1>1, <3>1
  <2>2. alerts' \in [Alert -> StoredAlert]
    BY <1>1, <1>8
  <2> QED BY <1>1, <1>9, <2>1, <2>2 DEF NotifyInv, NotifyTypeOK
<1>12. MarkInv'
  <2>1. ASSUME NEW a \in Alert, Marked(a)
        PROVE  Opened(a)'
    <3>1. PICK m \in About(a) : m.state # "resolved"
      BY <2>1 DEF Marked
    <3>2. m.state = "open" /\ m \in Told(a)'
      BY <1>2, <1>6, <3>1 DEF Copy
    <3> QED BY <3>2 DEF Opened
  <2>2. \A a \in Alert : alerts'[a].notified => Opened(a)'
    BY <1>7, <1>8, <2>1 DEF NotifyInv, MarkInv
  <2>3. \A m \in Held' : m.alert \in Alert
    BY <1>10 DEF Copy
  <2> QED BY <1>7, <1>9, <1>10, <2>2, <2>3 DEF NotifyInv, MarkInv
<1>13. PlaceInv'
  <2>1. \A a \in Alert : Place(alerts'[a]) = Place(alerts[a])
    BY <1>8 DEF Place
  <2>2. ASSUME NEW a \in Alert
        PROVE  /\ \A l \in Told(a)' : l.alert = a /\ Place(l) <= Place(alerts'[a])
               /\ Earlier(Told(a)', Held')
    <3>1. \A l \in About(a) : l.alert = a /\ Place(l) <= Place(alerts[a])
      BY <1>2 DEF NotifyInv, PlaceInv, Held
    <3>2. Earlier(About(a), Held')
      BY <1>2, <1>10 DEF NotifyInv, PlaceInv, Earlier
    <3>3. Earlier(Told(a), Held')
      BY <1>10 DEF NotifyInv, PlaceInv, Earlier
    <3>4. \A l \in Told(a) : l.alert = a /\ Place(l) <= Place(alerts[a])
      BY DEF NotifyInv, PlaceInv
    <3>5. Earlier(Told(a)', Held')
      BY <1>6, <3>2, <3>3 DEF Earlier
    <3> QED BY <1>6, <2>1, <3>1, <3>4, <3>5
  <2>3. \A m \in Held' : m.alert \in Alert /\ Place(m) <= Place(alerts'[m.alert])
    BY <1>10, <2>1 DEF NotifyInv, PlaceInv, Copy
  <2>4. Earlier(Range(sending'), Range(pending') \cup Range(chan'))
    BY <1>9 DEF Earlier
  <2> QED BY <1>1, <1>8, <2>2, <2>3, <2>4, ZenonT(30) DEF NotifyInv, PlaceInv
<1>14. ASSUME NEW a \in Alert
       PROVE  /\ \A j \in DOMAIN out'[a] : \A m \in out'[a][j] :
                   m.state = "resolved" => \E i \in 1..(j - 1) : \E l \in out'[a][i] : l.state = "open"
              /\ \A i, j \in DOMAIN out'[a] : i < j => \A l \in out'[a][i], m \in out'[a][j] : Place(l) < Place(m)
  <2>1. CASE About(a) = {}
    BY <1>5, <2>1 DEF NotifyInv, ResolutionFollowsOpen, HistoryInOrder
  <2>2. CASE About(a) # {}
    <3> DEFINE n == Len(out[a])
    <3>1. /\ n \in Nat /\ DOMAIN out[a] = 1 .. n /\ DOMAIN out'[a] = 1 .. (n + 1)
          /\ \A i \in 1 .. n : out'[a][i] = out[a][i]
          /\ out'[a][n + 1] = About(a)
      BY <1>4, <2>2
    <3> HIDE DEF n
    <3>2. ASSUME NEW j \in 1 .. (n + 1), NEW m \in out'[a][j], m.state = "resolved"
          PROVE  \E i \in 1..(j - 1) : \E l \in out'[a][i] : l.state = "open"
      <4>1. CASE j = n + 1
        <5>1. m \in About(a)
          BY <3>1, <3>2, <4>1
        <5>2. m.notified /\ m.alert = a /\ m \in Held
          BY <1>2, <3>2, <5>1 DEF NotifyInv, MarkInv, Held
        <5>3. Opened(a)
          BY <5>2 DEF NotifyInv, MarkInv
        <5>4. PICK i \in 1 .. n : \E l \in out[a][i] : l.state = "open"
          BY <3>1, <5>3 DEF Opened, Told
        <5>5. i \in 1 .. (j - 1)
          BY <3>1, <4>1
        <5> QED BY <3>1, <5>4, <5>5
      <4>2. CASE j # n + 1
        <5>1. j \in 1 .. n
          BY <3>1, <4>2
        <5>2. PICK i \in 1 .. (j - 1) : \E l \in out[a][i] : l.state = "open"
          BY <3>1, <3>2, <5>1 DEF NotifyInv, ResolutionFollowsOpen
        <5>3. i \in 1 .. n
          BY <3>1, <5>1
        <5> QED BY <3>1, <5>2, <5>3
      <4> QED BY <4>1, <4>2
    <3>3. ASSUME NEW i \in 1 .. (n + 1), NEW j \in 1 .. (n + 1), i < j,
                 NEW l \in out'[a][i], NEW m \in out'[a][j]
          PROVE  Place(l) < Place(m)
      <4>0. i \in 1 .. n /\ l \in out[a][i]
        BY <3>1, <3>3
      <4>1. CASE j = n + 1
        <5>1. m \in About(a) /\ m.alert = a /\ m \in Held
          BY <1>2, <3>1, <4>1 DEF Held
        <5>2. l \in Told(a) /\ l.alert = a
          <6>1. l \in Told(a)
            BY <3>1, <4>0 DEF Told
          <6> QED BY <6>1 DEF NotifyInv, PlaceInv
        <5> QED BY <5>1, <5>2 DEF NotifyInv, PlaceInv, Earlier
      <4>2. CASE j # n + 1
        <5>1. j \in 1 .. n
          BY <3>1, <4>2
        <5> QED BY <3>1, <3>3, <4>0, <5>1 DEF NotifyInv, HistoryInOrder
      <4> QED BY <4>1, <4>2
    <3> QED BY <3>1, <3>2, <3>3
  <2> QED BY <2>1, <2>2
<1>15. ResolutionFollowsOpen' /\ HistoryInOrder'
  BY <1>14 DEF ResolutionFollowsOpen, HistoryInOrder
<1> QED BY <1>11, <1>12, <1>13, <1>15 DEF NotifyInv

LEMMA NotifyInvariant == NotifySpec => []NotifyInv
<1>1. NotifyInit => NotifyInv
  <2> SUFFICES ASSUME NotifyInit PROVE NotifyInv
    OBVIOUS
  <2>1. PICK s \in Severity :
            alerts = [a \in Alert |-> [state |-> "none", sev |-> s, notified |-> FALSE,
                                       folded |-> FALSE, episode |-> 0]]
    BY DEF NotifyInit
  <2>2. /\ opens = 0 /\ chan = <<>> /\ pending = <<>> /\ aged = FALSE /\ sending = <<>>
        /\ out = [a \in Alert |-> <<>>]
    BY DEF NotifyInit
  <2>3. Range(<<>>) = {} /\ \A S : <<>> \in Seq(S)
    BY DEF Range
  <2>4. Held = {} /\ \A a \in Alert : Told(a) = {}
    BY <2>2, <2>3 DEF Held, Told
  <2>5. NotifyTypeOK
    <3>1. alerts \in [Alert -> StoredAlert]
      BY <2>1 DEF StoredAlert, State
    <3>2. out \in [Alert -> Seq(SUBSET Copy)]
      BY <2>2, <2>3
    <3>3. opens \in Nat /\ aged \in BOOLEAN
      BY <2>2
    <3> QED BY <2>2, <2>3, <3>1, <3>2, <3>3 DEF NotifyTypeOK
  <2>6. MarkInv
    BY <2>1, <2>2, <2>3, <2>4 DEF MarkInv
  <2>7. PlaceInv
    BY <2>1, <2>2, <2>3, <2>4 DEF PlaceInv, Earlier, InPlace
  <2>8. ResolutionFollowsOpen /\ HistoryInOrder
    BY <2>2 DEF ResolutionFollowsOpen, HistoryInOrder
  <2> QED BY <2>5, <2>6, <2>7, <2>8 DEF NotifyInv
<1>2. ASSUME NotifyInv, [NotifyNext]_notifyVars
      PROVE  NotifyInv'
  <2>1. CASE UNCHANGED <<alerts, opens, chan, pending, sending, out>> /\ aged' \in BOOLEAN
    <3>1. Held' = Held /\ \A b : Told(b)' = Told(b) /\ Opened(b)' = Opened(b)
      BY <2>1 DEF Held, Told, Opened
    <3>2. NotifyTypeOK' /\ MarkInv' /\ PlaceInv'
      BY <1>2, <2>1, <3>1 DEF NotifyInv, NotifyTypeOK, MarkInv, PlaceInv
    <3> QED BY <1>2, <2>1, <3>2 DEF NotifyInv, ResolutionFollowsOpen, HistoryInOrder
  <2>2. CASE Age
    BY <2>1, <2>2 DEF Age
  <2>3. CASE UNCHANGED notifyVars
    BY <1>2, <2>1, <2>3 DEF notifyVars, NotifyInv, NotifyTypeOK
  <2>4. CASE \E a \in Alert : \/ \E s \in Severity, root \in BOOLEAN : Open(a, s, root) \/ Repeat(a, s, root)
                              \/ \E s \in {"open", "acked", "resolved"} : Reopen(a, s)
                              \/ Resolve(a) \/ Ack(a) \/ ResolveByHand(a)
    BY <1>2, <2>4, EngineStep, ReopenStep, ResolveStep, AckStep
  <2>5. CASE Receive \/ (\E c \in Config : FlushPending(c)) \/ Deliver
    BY <1>2, <2>5, ReceiveStep, FlushStep, DeliverStep
  <2> QED BY <1>2, <2>2, <2>3, <2>4, <2>5 DEF NotifyNext
<1> QED BY <1>1, <1>2, PTL DEF NotifySpec

\* "only announce resolution of alerts that were notified": for any alerts, settings
\* and channel, no message that an alert is resolved is sent before one that it was
\* open, although the mark is set only after the sending (notify.go, flush; engine.go,
\* queueNotify).
THEOREM ResolutionAfterOpen == NotifySpec => []ResolutionFollowsOpen
<1>1. NotifyInv => ResolutionFollowsOpen
  BY DEF NotifyInv
<1> QED BY <1>1, NotifyInvariant, PTL

\* The messages about an alert tell its history forwards and nothing twice, whatever
\* the channel drops, the grouping window gathers, the filters leave out and the sort
\* turns round (notify.go, Run, flush).
THEOREM HistoryTold == NotifySpec => []HistoryInOrder
<1>1. NotifyInv => HistoryInOrder
  BY DEF NotifyInv
<1> QED BY <1>1, NotifyInvariant, PTL

=============================================================================
