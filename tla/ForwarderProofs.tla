-------------------------- MODULE ForwarderProofs --------------------------
(***************************************************************************)
(* Proofs about Forwarder, for every Max of at least five and whatever the *)
(* bounds: the count is exact, the cheap kinds stay bounded, nothing that  *)
(* must be kept is lost or reordered, and the leader ingests in order.     *)
(***************************************************************************)
EXTENDS Forwarder, SequenceTheorems, TLAPS

\* Where Flush is tells what it holds.
Phase ==
    /\ pc = "idle" => taken = Nothing
    /\ answered => pc = "posting"

\* While a batch is out the queue restarted from empty, so that putting the
\* batch back finds at most Max cheap items behind it.
CheapInv ==
    /\ CheapSize(b) <= Max + 3
    /\ CheapSize(taken) <= Max + 3
    /\ pc # "idle" => CheapSize(b) <= Max

\* s holds the last of a items, in order, and all before them are in S.
Gapless(s, a, S) ==
    /\ Len(s) <= a
    /\ \A i \in 1..Len(s) : s[i] = a - Len(s) + i
    /\ 1..(a - Len(s)) \subseteq S

\* A posted batch stays a piece of the input of which all that came before has
\* been ingested, however late it is handled.
Piece(x, S) == \E a \in Nat : Gapless(x, a, S)

OrderInv ==
    /\ Gapless(Unconfirmed, added, ingested)
    /\ IngestedInOrder
    /\ \A x \in transit : Piece(x, ingested)
    /\ answered => \A i \in 1..Len(taken.kept) : taken.kept[i] \in ingested

ForwarderInv == TypeOK /\ Phase /\ CountExact /\ CheapInv /\ OrderInv

-----------------------------------------------------------------------------
(* What the operations on batches do.                                      *)

\* The sizes of a batch are numbers.
LEMMA Sizes ==
    ASSUME NEW x \in Batch
    PROVE  /\ Len(x.kept) \in Nat
           /\ CheapSize(x) \in Nat
           /\ Size(x) = Len(x.kept) + CheapSize(x)
           /\ Size(x) \in Nat
<1>1. x.kept \in Seq(Nat) /\ x.cheap \in [Cheap -> Nat]
  BY DEF Batch
<1>2. Len(x.kept) \in Nat
  BY <1>1
<1>3. x.cheap["metrics"] \in Nat /\ x.cheap["logs"] \in Nat /\ x.cheap["flows"] \in Nat
  BY <1>1 DEF Cheap
<1>4. CheapSize(x) \in Nat
  BY <1>3 DEF CheapSize
<1>5. Size(x) = Len(x.kept) + CheapSize(x)
  BY DEF Size
<1> HIDE DEF CheapSize
<1> QED BY <1>2, <1>4, <1>5

\* Half of a number, rounded up.
LEMMA HalfUp ==
    ASSUME NEW c \in Nat
    PROVE  /\ c - c \div 2 \in Nat
           /\ 2 * (c - c \div 2) <= c + 1
OBVIOUS

\* The empty batch.
LEMMA NothingIsBatch == Nothing \in Batch /\ CheapSize(Nothing) = 0 /\ Size(Nothing) = 0
<1>1. Nothing.kept = <<>> /\ Nothing.cheap = [k \in Cheap |-> 0]
  BY DEF Nothing
<1>2. Nothing \in Batch
  BY DEF Nothing, Batch
<1>3. CheapSize(Nothing) = 0
  BY <1>1 DEF CheapSize, Cheap
<1> QED BY <1>1, <1>2, <1>3 DEF Size

\* Thinning keeps what must be kept and halves the rest, rounding each of the
\* three kinds up.
LEMMA Thinning ==
    ASSUME NEW x \in Batch
    PROVE  /\ Thinned(x) \in Batch
           /\ Thinned(x).kept = x.kept
           /\ 2 * CheapSize(Thinned(x)) <= CheapSize(x) + 3
<1> DEFINE c == [k \in Cheap |-> x.cheap[k] - x.cheap[k] \div 2]
<1>1. x.kept \in Seq(Nat) /\ x.cheap \in [Cheap -> Nat]
  BY DEF Batch
<1>2. \A k \in Cheap : x.cheap[k] \in Nat /\ c[k] \in Nat /\ 2 * c[k] <= x.cheap[k] + 1
  BY <1>1, HalfUp
<1>3. c \in [Cheap -> Nat]
  BY <1>2
<1>4. Thinned(x) = [kept |-> x.kept, cheap |-> c]
  BY DEF Thinned
<1>5. Thinned(x).cheap = c /\ Thinned(x).kept = x.kept /\ Thinned(x) \in Batch
  BY <1>1, <1>3, <1>4 DEF Batch
<1>6. {"metrics", "logs", "flows"} = Cheap
  BY DEF Cheap
<1> HIDE DEF c
<1>7. /\ 2 * c["metrics"] <= x.cheap["metrics"] + 1 /\ c["metrics"] \in Nat /\ x.cheap["metrics"] \in Nat
      /\ 2 * c["logs"] <= x.cheap["logs"] + 1 /\ c["logs"] \in Nat /\ x.cheap["logs"] \in Nat
      /\ 2 * c["flows"] <= x.cheap["flows"] + 1 /\ c["flows"] \in Nat /\ x.cheap["flows"] \in Nat
  BY <1>2, <1>6
<1> QED BY <1>5, <1>7 DEF CheapSize

\* Putting a batch in front of another adds them up.
LEMMA Requeueing ==
    ASSUME NEW x \in Batch, NEW y \in Batch
    PROVE  /\ Requeued(x, y) \in Batch
           /\ Requeued(x, y).kept = x.kept \o y.kept
           /\ CheapSize(Requeued(x, y)) = CheapSize(x) + CheapSize(y)
<1>1. /\ x.kept \in Seq(Nat) /\ x.cheap \in [Cheap -> Nat]
      /\ y.kept \in Seq(Nat) /\ y.cheap \in [Cheap -> Nat]
  BY DEF Batch
<1> DEFINE c == [k \in Cheap |-> x.cheap[k] + y.cheap[k]]
<1> DEFINE s == x.kept \o y.kept
<1>2. c \in [Cheap -> Nat] /\ s \in Seq(Nat)
  BY <1>1
<1>3. Requeued(x, y) = [kept |-> s, cheap |-> c]
  BY DEF Requeued
<1>4. \A k \in {"metrics", "logs", "flows"} :
          c[k] = x.cheap[k] + y.cheap[k] /\ x.cheap[k] \in Nat /\ y.cheap[k] \in Nat
  BY <1>1 DEF Cheap
<1> HIDE DEF c, s
<1>5. Requeued(x, y).cheap = c /\ Requeued(x, y).kept = s
  BY <1>3
<1>6. Requeued(x, y) \in Batch
  BY <1>2, <1>3 DEF Batch
<1>7. CheapSize(Requeued(x, y)) = c["metrics"] + c["logs"] + c["flows"]
  BY <1>5 DEF CheapSize
<1>8. /\ c["metrics"] = x.cheap["metrics"] + y.cheap["metrics"]
      /\ c["logs"] = x.cheap["logs"] + y.cheap["logs"]
      /\ c["flows"] = x.cheap["flows"] + y.cheap["flows"]
      /\ x.cheap["metrics"] \in Nat /\ x.cheap["logs"] \in Nat /\ x.cheap["flows"] \in Nat
      /\ y.cheap["metrics"] \in Nat /\ y.cheap["logs"] \in Nat /\ y.cheap["flows"] \in Nat
  BY <1>4
<1>9. c["metrics"] + c["logs"] + c["flows"]
          = (x.cheap["metrics"] + x.cheap["logs"] + x.cheap["flows"])
            + (y.cheap["metrics"] + y.cheap["logs"] + y.cheap["flows"])
  BY <1>8
<1>10. CheapSize(Requeued(x, y)) = CheapSize(x) + CheapSize(y)
  BY <1>7, <1>9 DEF CheapSize
<1> QED BY <1>5, <1>6, <1>10 DEF s

\* The queue that add appends to.
LEMMA RoomFacts ==
    ASSUME TypeOK
    PROVE  /\ Room \in Batch
           /\ Room.kept = b.kept
           /\ n < Max => Room = b
           /\ n >= Max => 2 * CheapSize(Room) <= CheapSize(b) + 3
<1>1. b \in Batch /\ n \in Nat /\ Max \in Nat
  BY ForwarderAssumption DEF TypeOK
<1>2. CASE n >= Max
  BY <1>1, <1>2, Thinning DEF Room
<1>3. CASE ~(n >= Max)
  BY <1>1, <1>3 DEF Room
<1> QED BY <1>2, <1>3

\* Appending one item of a cheap kind.
LEMMA CheapOneMore ==
    ASSUME NEW x \in Batch, NEW k \in Cheap
    PROVE  /\ WithCheap(x, k) \in Batch
           /\ WithCheap(x, k).kept = x.kept
           /\ CheapSize(WithCheap(x, k)) = CheapSize(x) + 1
<1> DEFINE c == [x.cheap EXCEPT ![k] = @ + 1]
<1>1. x.kept \in Seq(Nat) /\ x.cheap \in [Cheap -> Nat]
  BY DEF Batch
<1>2. c \in [Cheap -> Nat]
  BY <1>1
<1>3. WithCheap(x, k) = [kept |-> x.kept, cheap |-> c]
  BY DEF WithCheap
<1>4. /\ x.cheap["metrics"] \in Nat /\ x.cheap["logs"] \in Nat /\ x.cheap["flows"] \in Nat
      /\ c["metrics"] = IF k = "metrics" THEN x.cheap["metrics"] + 1 ELSE x.cheap["metrics"]
      /\ c["logs"] = IF k = "logs" THEN x.cheap["logs"] + 1 ELSE x.cheap["logs"]
      /\ c["flows"] = IF k = "flows" THEN x.cheap["flows"] + 1 ELSE x.cheap["flows"]
  BY <1>1 DEF Cheap
<1>5. k = "metrics" \/ k = "logs" \/ k = "flows"
  BY DEF Cheap
<1> HIDE DEF c
<1>6. c["metrics"] + c["logs"] + c["flows"]
          = x.cheap["metrics"] + x.cheap["logs"] + x.cheap["flows"] + 1
  BY <1>4, <1>5
<1>7. WithCheap(x, k).cheap = c /\ WithCheap(x, k).kept = x.kept /\ WithCheap(x, k) \in Batch
  BY <1>1, <1>2, <1>3 DEF Batch
<1> QED BY <1>6, <1>7 DEF CheapSize

\* Appending one kept item.
LEMMA KeptOneMore ==
    ASSUME NEW x \in Batch, NEW i \in Nat
    PROVE  /\ WithKept(x, i) \in Batch
           /\ WithKept(x, i).kept = Append(x.kept, i)
           /\ CheapSize(WithKept(x, i)) = CheapSize(x)
<1>1. x.kept \in Seq(Nat) /\ x.cheap \in [Cheap -> Nat]
  BY DEF Batch
<1>2. Append(x.kept, i) \in Seq(Nat)
  BY <1>1
<1>3. /\ WithKept(x, i).kept = Append(x.kept, i)
      /\ WithKept(x, i).cheap = x.cheap
      /\ WithKept(x, i) \in Batch
  BY <1>1, <1>2 DEF WithKept, Batch
<1> QED BY <1>3 DEF CheapSize

-----------------------------------------------------------------------------
(* What the operations on the numbered items do.                           *)

\* Appending behind a concatenation.
LEMMA AppendBehind ==
    ASSUME NEW s \in Seq(Nat), NEW t \in Seq(Nat), NEW i \in Nat
    PROVE  s \o t \in Seq(Nat) /\ s \o Append(t, i) = Append(s \o t, i)
<1> DEFINE u == s \o t
<1> DEFINE v == <<i>>
<1>1. u \in Seq(Nat) /\ v \in Seq(Nat)
  BY ConcatProperties
<1>2. Append(t, i) = t \o v
  BY AppendIsConcat
<1>3. (s \o t) \o v = s \o (t \o v)
  <2>1. ASSUME NEW w \in Seq(Nat) PROVE (s \o t) \o w = s \o (t \o w)
    OBVIOUS
  <2> HIDE DEF v
  <2> QED BY <1>1, <2>1, Zenon
<1>4. Append(u, i) = u \o v
  <2>1. \A w \in Seq(Nat) : Append(w, i) = w \o <<i>>
    BY AppendIsConcat
  <2> HIDE DEF u
  <2> QED BY <1>1, <2>1
<1> QED BY <1>1, <1>2, <1>3, <1>4, Zenon

\* One more item.
LEMMA GaplessAppend ==
    ASSUME NEW s \in Seq(Nat), NEW a \in Nat, NEW S, Gapless(s, a, S)
    PROVE  Gapless(Append(s, a + 1), a + 1, S)
<1> DEFINE t == Append(s, a + 1)
<1>1. /\ Len(t) = Len(s) + 1 /\ Len(s) \in Nat
      /\ \A i \in 1..Len(s) : t[i] = s[i]
      /\ t[Len(s) + 1] = a + 1
  BY AppendProperties
<1> HIDE DEF t
<1>2. \A i \in 1..Len(t) : t[i] = (a + 1) - Len(t) + i
  <2> TAKE i \in 1..Len(t)
  <2>1. CASE i = Len(s) + 1
    BY <2>1, <1>1
  <2>2. CASE i # Len(s) + 1
    <3>1. i \in 1..Len(s)
      BY <2>2, <1>1
    <3>2. s[i] = a - Len(s) + i /\ t[i] = s[i]
      BY <3>1, <1>1 DEF Gapless
    <3> QED BY <3>2, <1>1
  <2> QED BY <2>1, <2>2
<1>3. (a + 1) - Len(t) = a - Len(s) /\ Len(t) <= a + 1
  BY <1>1 DEF Gapless
<1> QED BY <1>2, <1>3 DEF Gapless, t

\* What has been ingested only grows.
LEMMA GaplessMore ==
    ASSUME NEW s, NEW a, NEW S, NEW T, Gapless(s, a, S), S \subseteq T
    PROVE  Gapless(s, a, T)
BY DEF Gapless

\* A confirmed batch leaves the front.
LEMMA GaplessRest ==
    ASSUME NEW s \in Seq(Nat), NEW t \in Seq(Nat), NEW a \in Nat, NEW S,
           Gapless(s \o t, a, S), \A i \in 1..Len(s) : s[i] \in S
    PROVE  Gapless(t, a, S)
<1> DEFINE u == s \o t
<1>1. /\ Len(u) = Len(s) + Len(t) /\ Len(s) \in Nat /\ Len(t) \in Nat
      /\ \A i \in 1..Len(s) : u[i] = s[i]
      /\ \A i \in 1..Len(t) : u[Len(s) + i] = t[i]
  BY ConcatProperties
<1>2. Gapless(u, a, S)
  OBVIOUS
<1> HIDE DEF u
<1>3. Len(t) <= a
  BY <1>1, <1>2 DEF Gapless
<1>4. \A i \in 1..Len(t) : t[i] = a - Len(t) + i
  <2> TAKE i \in 1..Len(t)
  <2>1. Len(s) + i \in 1..Len(u)
    BY <1>1
  <2> QED BY <2>1, <1>1, <1>2 DEF Gapless
<1>5. \A j \in 1..(a - Len(t)) : j \in S
  <2> TAKE j \in 1..(a - Len(t))
  <2>1. CASE j <= a - Len(u)
    <3>1. j \in 1..(a - Len(u))
      BY <1>1, <1>2, <2>1 DEF Gapless
    <3> QED BY <3>1, <1>2 DEF Gapless
  <2>2. CASE ~(j <= a - Len(u))
    <3> DEFINE i == j - (a - Len(u))
    <3>1. i \in 1..Len(s) /\ i \in 1..Len(u) /\ a - Len(u) + i = j
      BY <1>1, <1>2, <2>2 DEF Gapless
    <3> HIDE DEF i
    <3>2. u[i] = j /\ u[i] = s[i] /\ s[i] \in S
      BY <3>1, <1>1, <1>2 DEF Gapless
    <3> QED BY <3>2
  <2> QED BY <2>1, <2>2
<1> QED BY <1>3, <1>4, <1>5 DEF Gapless

\* The front of a gapless sequence is a piece of the input.
LEMMA GaplessFront ==
    ASSUME NEW s \in Seq(Nat), NEW t \in Seq(Nat), NEW a \in Nat, NEW S,
           Gapless(s \o t, a, S)
    PROVE  Piece(s, S)
<1> DEFINE u == s \o t
<1> DEFINE p == a - Len(t)
<1>1. /\ Len(u) = Len(s) + Len(t) /\ Len(s) \in Nat /\ Len(t) \in Nat
      /\ \A i \in 1..Len(s) : u[i] = s[i]
  BY ConcatProperties
<1>2. Gapless(u, a, S)
  OBVIOUS
<1> HIDE DEF u
<1>3. p \in Nat /\ Len(s) <= p /\ p - Len(s) = a - Len(u)
  BY <1>1, <1>2 DEF Gapless
<1>4. \A i \in 1..Len(s) : s[i] = p - Len(s) + i
  <2> TAKE i \in 1..Len(s)
  <2>1. i \in 1..Len(u)
    BY <1>1
  <2>2. u[i] = a - Len(u) + i
    BY <2>1, <1>2 DEF Gapless
  <2> QED BY <2>2, <1>1, <1>3
<1> HIDE DEF p
<1>5. Gapless(s, p, S)
  BY <1>2, <1>3, <1>4 DEF Gapless
<1> QED BY <1>3, <1>5 DEF Piece

\* Ingesting a piece leaves no gap.
LEMMA PieceFills ==
    ASSUME NEW x \in Seq(Nat), NEW S, Piece(x, S),
           \A i \in S : 1..i \subseteq S
    PROVE  \A i \in S \union {x[k] : k \in DOMAIN x} :
               1..i \subseteq S \union {x[k] : k \in DOMAIN x}
<1> DEFINE T == S \union {x[k] : k \in DOMAIN x}
<1>1. PICK a \in Nat : Gapless(x, a, S)
  BY DEF Piece
<1>2. Len(x) \in Nat /\ DOMAIN x = 1..Len(x)
  BY LenProperties
<1>3. ASSUME NEW m \in DOMAIN x, NEW j \in 1..x[m]
      PROVE  j \in T
  <2>1. x[m] = a - Len(x) + m /\ m \in 1..Len(x)
    BY <1>1, <1>2, <1>3 DEF Gapless
  <2>2. CASE j <= a - Len(x)
    <3>1. j \in 1..(a - Len(x))
      BY <1>1, <1>2, <2>1, <2>2 DEF Gapless
    <3> QED BY <3>1, <1>1 DEF Gapless
  <2>3. CASE ~(j <= a - Len(x))
    <3> DEFINE i == j - (a - Len(x))
    <3>1. i \in 1..Len(x) /\ a - Len(x) + i = j
      BY <1>1, <1>2, <2>1, <2>3 DEF Gapless
    <3> HIDE DEF i
    <3>2. x[i] = j /\ i \in DOMAIN x
      BY <3>1, <1>1, <1>2 DEF Gapless
    <3> QED BY <3>2
  <2> QED BY <2>2, <2>3
<1> QED BY <1>3

-----------------------------------------------------------------------------
(* Each action preserves the invariant.                                    *)

\* The start.
LEMMA InitInv == Init => ForwarderInv
<1> SUFFICES ASSUME Init PROVE ForwarderInv
  OBVIOUS
<1>1. b = Nothing /\ taken = Nothing /\ n = 0 /\ pc = "idle" /\ answered = FALSE
      /\ transit = {} /\ ingested = {} /\ added = 0 /\ cheapAdded = 0
  BY DEF Init
<1>2. TypeOK
  BY <1>1, NothingIsBatch DEF TypeOK
<1>3. Phase /\ CountExact
  BY <1>1, NothingIsBatch DEF Phase, CountExact
<1>4. CheapInv
  BY <1>1, NothingIsBatch, ForwarderAssumption DEF CheapInv
<1>5. Unconfirmed = <<>>
  BY <1>1, ConcatEmptySeq DEF Unconfirmed, Nothing
<1>6. Gapless(Unconfirmed, added, ingested)
  BY <1>1, <1>5 DEF Gapless
<1>7. OrderInv
  BY <1>1, <1>6 DEF OrderInv, IngestedInOrder
<1> QED BY <1>2, <1>3, <1>4, <1>7 DEF ForwarderInv

\* The cheap items after add made room for one more.
LEMMA RoomForOne ==
    ASSUME ForwarderInv
    PROVE  /\ CheapSize(Room) + 1 <= Max + 3
           /\ pc # "idle" => CheapSize(Room) + 1 <= Max
<1>1. /\ b \in Batch /\ TypeOK /\ n = Size(b) /\ n \in Nat /\ Max \in Nat /\ Max >= 5
      /\ CheapSize(b) <= Max + 3 /\ (pc # "idle" => CheapSize(b) <= Max)
  BY ForwarderAssumption DEF ForwarderInv, TypeOK, CountExact, CheapInv
<1>2. CheapSize(b) \in Nat /\ Len(b.kept) \in Nat /\ n = Len(b.kept) + CheapSize(b)
  BY <1>1, Sizes
<1>3. /\ Room \in Batch /\ CheapSize(Room) \in Nat
      /\ n < Max => Room = b
      /\ n >= Max => 2 * CheapSize(Room) <= CheapSize(b) + 3
  BY <1>1, RoomFacts, Sizes
<1> HIDE DEF CheapSize, Room
<1>4. CASE n < Max
  BY <1>1, <1>2, <1>3, <1>4
<1>5. CASE n >= Max
  <2> DEFINE c == CheapSize(Room)
  <2> DEFINE d == CheapSize(b)
  <2>1. c \in Nat /\ d \in Nat /\ 2 * c <= d + 3 /\ d <= Max + 3 /\ (pc # "idle" => d <= Max)
    BY <1>1, <1>2, <1>3, <1>5
  <2> HIDE DEF c, d
  <2>2. c + 1 <= Max + 3 /\ (pc # "idle" => c + 1 <= Max)
    BY <2>1, <1>1
  <2> QED BY <2>2 DEF c
<1> QED BY <1>1, <1>4, <1>5

\* A sample, an event or a trap is added.
LEMMA AddKeptInv == ForwarderInv /\ AddKept => ForwarderInv'
<1> SUFFICES ASSUME ForwarderInv, AddKept PROVE ForwarderInv'
  OBVIOUS
<1> DEFINE x == WithKept(Room, added + 1)
<1>1. /\ b' = x /\ n' = Size(x) /\ added' = added + 1
      /\ UNCHANGED <<taken, pc, answered, transit, ingested, cheapAdded>>
  BY DEF AddKept, Added
<1>2. TypeOK /\ b \in Batch /\ taken \in Batch /\ added \in Nat /\ Phase /\ CheapInv /\ OrderInv
  BY DEF ForwarderInv, TypeOK
<1>3. Room \in Batch /\ Room.kept = b.kept
  BY <1>2, RoomFacts
<1>4. x \in Batch /\ x.kept = Append(b.kept, added + 1) /\ CheapSize(x) = CheapSize(Room)
  <2>1. added + 1 \in Nat
    BY <1>2
  <2> QED BY <2>1, <1>3, KeptOneMore, Zenon
<1>5. CheapSize(Room) \in Nat /\ Size(x) \in Nat /\ Max \in Nat
  BY <1>3, <1>4, Sizes, ForwarderAssumption
<1> HIDE DEF x, Room, CheapSize, Size
<1>6. TypeOK'
  BY <1>1, <1>2, <1>4, <1>5 DEF TypeOK
<1>7. Phase' /\ CountExact'
  BY <1>1, <1>2 DEF Phase, CountExact
<1>8. CheapInv'
  BY <1>1, <1>2, <1>4, <1>5, RoomForOne DEF CheapInv
<1>9. Unconfirmed' = Append(Unconfirmed, added + 1) /\ Unconfirmed \in Seq(Nat)
  <2>1. taken.kept \in Seq(Nat) /\ b.kept \in Seq(Nat) /\ added + 1 \in Nat
    BY <1>2 DEF Batch
  <2>2. Unconfirmed' = taken.kept \o Append(b.kept, added + 1)
    BY <1>1, <1>4, Zenon DEF Unconfirmed
  <2> QED BY <2>1, <2>2, AppendBehind, Zenon DEF Unconfirmed
<1>10. Gapless(Unconfirmed, added, ingested)'
  <2>1. Gapless(Append(Unconfirmed, added + 1), added + 1, ingested)
    BY <1>2, <1>9, GaplessAppend DEF OrderInv
  <2> QED BY <2>1, <1>1, <1>9
<1>11. OrderInv'
  BY <1>1, <1>2, <1>10 DEF OrderInv, IngestedInOrder
<1> QED BY <1>6, <1>7, <1>8, <1>11 DEF ForwarderInv

\* A metric, a log line or a flow is added.
LEMMA AddCheapInv == ForwarderInv /\ (\E k \in Cheap : AddCheap(k)) => ForwarderInv'
<1> SUFFICES ASSUME ForwarderInv, NEW k \in Cheap, AddCheap(k) PROVE ForwarderInv'
  OBVIOUS
<1> DEFINE x == WithCheap(Room, k)
<1>1. /\ b' = x /\ n' = Size(x) /\ cheapAdded' = cheapAdded + 1
      /\ UNCHANGED <<taken, pc, answered, transit, ingested, added>>
  BY DEF AddCheap, Added
<1>2. TypeOK /\ b \in Batch /\ Phase /\ CheapInv /\ OrderInv
  BY DEF ForwarderInv, TypeOK
<1>3. Room \in Batch /\ Room.kept = b.kept
  BY <1>2, RoomFacts
<1>4. x \in Batch /\ x.kept = b.kept /\ CheapSize(x) = CheapSize(Room) + 1
  BY <1>3, CheapOneMore
<1>5. CheapSize(Room) \in Nat /\ Size(x) \in Nat /\ Max \in Nat
  BY <1>3, <1>4, Sizes, ForwarderAssumption
<1> HIDE DEF x, Room, CheapSize, Size
<1>6. TypeOK'
  BY <1>1, <1>2, <1>4, <1>5 DEF TypeOK
<1>7. Phase' /\ CountExact'
  BY <1>1, <1>2 DEF Phase, CountExact
<1>8. CheapInv'
  BY <1>1, <1>2, <1>4, <1>5, RoomForOne DEF CheapInv
<1>9. Unconfirmed' = Unconfirmed
  BY <1>1, <1>4 DEF Unconfirmed
<1>10. OrderInv'
  BY <1>1, <1>2, <1>9 DEF OrderInv, IngestedInOrder, Gapless
<1> QED BY <1>6, <1>7, <1>8, <1>10 DEF ForwarderInv

\* Flush takes the queue.
LEMMA FlushInv == ForwarderInv /\ Flush => ForwarderInv'
<1> SUFFICES ASSUME ForwarderInv, Flush PROVE ForwarderInv'
  OBVIOUS
<1>1. /\ pc = "idle" /\ taken' = b /\ b' = Nothing /\ n' = 0 /\ pc' = "taken"
      /\ UNCHANGED <<answered, transit, ingested, added, cheapAdded>>
  BY DEF Flush
<1>2. /\ TypeOK /\ b \in Batch /\ Phase /\ CheapInv /\ OrderInv
      /\ taken = Nothing /\ answered = FALSE
  BY <1>1 DEF ForwarderInv, TypeOK, Phase
<1>3. TypeOK'
  BY <1>1, <1>2, NothingIsBatch DEF TypeOK
<1>4. Phase' /\ CountExact'
  BY <1>1, <1>2, NothingIsBatch DEF Phase, CountExact
<1>5. CheapInv'
  BY <1>1, <1>2, NothingIsBatch, ForwarderAssumption DEF CheapInv
<1>6. Unconfirmed' = Unconfirmed
  <2>1. b.kept \in Seq(Nat) /\ Nothing.kept = <<>>
    BY <1>2 DEF Batch, Nothing
  <2> QED BY <1>1, <1>2, <2>1, ConcatEmptySeq DEF Unconfirmed
<1>7. OrderInv'
  BY <1>1, <1>2, <1>6 DEF OrderInv, IngestedInOrder, Gapless
<1> QED BY <1>3, <1>4, <1>5, <1>7 DEF ForwarderInv

\* The batch is put back: no leader, or the post failed.
LEMMA RequeueInv ==
    ASSUME ForwarderInv, pc # "idle", Requeue,
           UNCHANGED <<transit, ingested, added, cheapAdded>>
    PROVE  ForwarderInv'
<1> DEFINE whole == Requeued(taken, b)
<1> DEFINE all == IF Size(whole) > Max THEN Thinned(whole) ELSE whole
<1>1. b' = all /\ n' = Size(all) /\ taken' = Nothing /\ pc' = "idle" /\ answered' = FALSE
  BY DEF Requeue
<1>2. /\ TypeOK /\ b \in Batch /\ taken \in Batch /\ OrderInv
      /\ CheapSize(taken) <= Max + 3 /\ CheapSize(b) <= Max /\ Max \in Nat
  BY ForwarderAssumption DEF ForwarderInv, TypeOK, CheapInv
<1>3. /\ whole \in Batch /\ whole.kept = taken.kept \o b.kept
      /\ CheapSize(whole) = CheapSize(taken) + CheapSize(b)
  BY <1>2, Requeueing
<1>4. /\ Thinned(whole) \in Batch /\ Thinned(whole).kept = whole.kept
      /\ 2 * CheapSize(Thinned(whole)) <= CheapSize(whole) + 3
  BY <1>3, Thinning
<1>5. /\ CheapSize(taken) \in Nat /\ CheapSize(b) \in Nat /\ CheapSize(Thinned(whole)) \in Nat
      /\ CheapSize(whole) \in Nat /\ Len(whole.kept) \in Nat
      /\ Size(whole) = Len(whole.kept) + CheapSize(whole)
  BY <1>2, <1>3, <1>4, Sizes
<1> HIDE DEF whole, CheapSize, Size
<1>6. all \in Batch /\ all.kept = taken.kept \o b.kept /\ CheapSize(all) <= Max + 3
  <2>1. CASE Size(whole) > Max
    <3> DEFINE c == CheapSize(Thinned(whole))
    <3>1. c \in Nat /\ 2 * c <= CheapSize(taken) + CheapSize(b) + 3
      BY <1>3, <1>4, <1>5
    <3> HIDE DEF c
    <3>2. c <= Max + 3
      BY <3>1, <1>2, <1>5
    <3> QED BY <2>1, <3>2, <1>3, <1>4 DEF c
  <2>2. CASE ~(Size(whole) > Max)
    <3>1. CheapSize(whole) <= Max + 3
      BY <2>2, <1>2, <1>5
    <3> QED BY <2>2, <3>1, <1>3
  <2> QED BY <2>1, <2>2
<1>7. Size(all) \in Nat
  BY <1>6, Sizes
<1> HIDE DEF all
<1>8. TypeOK'
  BY <1>1, <1>2, <1>6, <1>7, NothingIsBatch DEF TypeOK
<1>9. Phase' /\ CountExact'
  BY <1>1 DEF Phase, CountExact
<1>10. CheapInv'
  BY <1>1, <1>2, <1>6, NothingIsBatch DEF CheapInv
<1>11. Unconfirmed' = Unconfirmed
  <2>1. taken.kept \o b.kept \in Seq(Nat)
    BY <1>2, ConcatProperties DEF Batch
  <2>2. Unconfirmed' = <<>> \o (taken.kept \o b.kept)
    BY <1>1, <1>6, Zenon DEF Unconfirmed, Nothing
  <2> QED BY <2>1, <2>2, ConcatEmptySeq, Zenon DEF Unconfirmed
<1>12. OrderInv'
  BY <1>1, <1>2, <1>11 DEF OrderInv, IngestedInOrder, Gapless
<1> QED BY <1>8, <1>9, <1>10, <1>12 DEF ForwarderInv

\* The batch is posted.
LEMMA PostInv == ForwarderInv /\ Post => ForwarderInv'
<1> SUFFICES ASSUME ForwarderInv, Post PROVE ForwarderInv'
  OBVIOUS
<1>1. /\ pc = "taken" /\ pc' = "posting" /\ transit' \subseteq transit \union {taken.kept}
      /\ UNCHANGED <<b, n, taken, answered, ingested, added, cheapAdded>>
  BY DEF Post
<1>2. TypeOK /\ Phase /\ CountExact /\ CheapInv /\ OrderInv
  BY DEF ForwarderInv
<1>3. taken.kept \in Seq(Nat) /\ b.kept \in Seq(Nat) /\ added \in Nat
  BY <1>2 DEF TypeOK, Batch
<1>4. TypeOK'
  BY <1>1, <1>2, <1>3 DEF TypeOK
<1>5. Phase' /\ CountExact' /\ CheapInv'
  BY <1>1, <1>2 DEF Phase, CountExact, CheapInv, Size, CheapSize
<1>6. Piece(taken.kept, ingested)
  <2>1. Gapless(taken.kept \o b.kept, added, ingested)
    BY <1>2 DEF OrderInv, Unconfirmed
  <2> QED BY <1>3, <2>1, GaplessFront, Zenon
<1>7. Unconfirmed' = Unconfirmed
  BY <1>1 DEF Unconfirmed
<1>8. \A x \in transit' : Piece(x, ingested)
  BY <1>1, <1>2, <1>6 DEF OrderInv
<1>9. OrderInv'
  BY <1>1, <1>2, <1>7, <1>8 DEF OrderInv, IngestedInOrder, Gapless
<1> QED BY <1>4, <1>5, <1>9 DEF ForwarderInv

\* The leader handles a posted batch.
LEMMA IngestInv == ForwarderInv /\ (\E x \in transit : Ingest(x)) => ForwarderInv'
<1> SUFFICES ASSUME ForwarderInv, NEW x \in transit, Ingest(x) PROVE ForwarderInv'
  OBVIOUS
<1> DEFINE T == ingested \union {x[k] : k \in DOMAIN x}
<1>1. /\ ingested' = T
      /\ answered' = (answered \/ (pc = "posting" /\ x = taken.kept /\ Readable(taken)))
      /\ UNCHANGED <<b, n, taken, pc, transit, added, cheapAdded>>
  BY DEF Ingest
<1>2. TypeOK /\ Phase /\ CountExact /\ CheapInv /\ OrderInv
  BY DEF ForwarderInv
<1>3. x \in Seq(Nat) /\ ingested \subseteq Nat /\ taken.kept \in Seq(Nat)
  BY <1>2 DEF TypeOK, Batch
<1>4. DOMAIN x = 1..Len(x) /\ \A k \in DOMAIN x : x[k] \in Nat
  BY <1>3, LenProperties, ElementOfSeq
<1>5. ingested \subseteq T /\ T \subseteq Nat
  BY <1>3, <1>4
<1>6. \A i \in T : 1..i \subseteq T
  BY <1>2, <1>3, PieceFills DEF OrderInv, IngestedInOrder
<1>7. answered' => \A i \in 1..Len(taken.kept) : taken.kept[i] \in T
  <2>1. CASE answered
    BY <2>1, <1>2, <1>5 DEF OrderInv
  <2>2. CASE x = taken.kept
    BY <2>2, <1>4
  <2> QED BY <2>1, <2>2, <1>1
<1> HIDE DEF T
<1>8. TypeOK'
  BY <1>1, <1>2, <1>5 DEF TypeOK
<1>9. Phase' /\ CountExact' /\ CheapInv'
  BY <1>1, <1>2 DEF Phase, CountExact, CheapInv, Size, CheapSize
<1>10. Unconfirmed' = Unconfirmed /\ Gapless(Unconfirmed, added, T)
  BY <1>1, <1>2, <1>5, GaplessMore DEF Unconfirmed, OrderInv
<1>11. \A y \in transit : Piece(y, T)
  BY <1>2, <1>5, GaplessMore DEF OrderInv, Piece
<1>12. OrderInv'
  BY <1>1, <1>6, <1>7, <1>10, <1>11 DEF OrderInv, IngestedInOrder
<1> QED BY <1>8, <1>9, <1>12 DEF ForwarderInv

\* The confirmation arrives.
LEMMA PostSucceedsInv == ForwarderInv /\ PostSucceeds => ForwarderInv'
<1> SUFFICES ASSUME ForwarderInv, PostSucceeds PROVE ForwarderInv'
  OBVIOUS
<1>1. /\ pc = "posting" /\ answered /\ pc' = "idle" /\ taken' = Nothing /\ answered' = FALSE
      /\ UNCHANGED <<b, n, transit, ingested, added, cheapAdded>>
  BY DEF PostSucceeds
<1>2. TypeOK /\ Phase /\ CountExact /\ CheapInv /\ OrderInv
  BY DEF ForwarderInv
<1>3. taken.kept \in Seq(Nat) /\ b.kept \in Seq(Nat) /\ added \in Nat
  BY <1>2 DEF TypeOK, Batch
<1>4. TypeOK'
  BY <1>1, <1>2, NothingIsBatch DEF TypeOK
<1>5. Phase' /\ CountExact'
  BY <1>1, <1>2 DEF Phase, CountExact
<1>6. CheapInv'
  BY <1>1, <1>2, NothingIsBatch, ForwarderAssumption DEF CheapInv
<1>7. Gapless(b.kept, added, ingested)
  <2>1. Gapless(taken.kept \o b.kept, added, ingested)
    BY <1>2 DEF OrderInv, Unconfirmed
  <2>2. \A i \in 1..Len(taken.kept) : taken.kept[i] \in ingested
    BY <1>1, <1>2 DEF OrderInv
  <2> QED BY <1>3, <2>1, <2>2, GaplessRest, Zenon
<1>8. Unconfirmed' = b.kept
  BY <1>1, <1>3, ConcatEmptySeq DEF Unconfirmed, Nothing
<1>9. OrderInv'
  BY <1>1, <1>2, <1>7, <1>8 DEF OrderInv, IngestedInOrder
<1> QED BY <1>4, <1>5, <1>6, <1>9 DEF ForwarderInv

\* Nothing happens.
LEMMA StutterInv == ForwarderInv /\ UNCHANGED vars => ForwarderInv'
<1> SUFFICES ASSUME ForwarderInv, UNCHANGED vars PROVE ForwarderInv'
  OBVIOUS
<1>1. /\ b' = b /\ n' = n /\ taken' = taken /\ pc' = pc /\ answered' = answered
      /\ transit' = transit /\ ingested' = ingested /\ added' = added /\ cheapAdded' = cheapAdded
  BY DEF vars
<1>2. TypeOK /\ Phase /\ CountExact /\ CheapInv /\ OrderInv
  BY DEF ForwarderInv
<1>3. TypeOK' /\ Phase'
  BY <1>1, <1>2 DEF TypeOK, Phase
<1>4. CountExact' /\ CheapInv'
  BY <1>1, <1>2 DEF CountExact, CheapInv
<1>5. Unconfirmed' = Unconfirmed
  BY <1>1 DEF Unconfirmed
<1>6. OrderInv'
  BY <1>1, <1>2, <1>5 DEF OrderInv, IngestedInOrder
<1> QED BY <1>3, <1>4, <1>6 DEF ForwarderInv

-----------------------------------------------------------------------------
\* The inductive invariant of the forwarder (add, Flush, requeue, handleIngest).
THEOREM ForwarderInvariant == Spec => []ForwarderInv
<1>1. ForwarderInv /\ [Next]_vars => ForwarderInv'
  <2> SUFFICES ASSUME ForwarderInv, [Next]_vars PROVE ForwarderInv'
    OBVIOUS
  <2>1. CASE AddKept
    BY <2>1, AddKeptInv
  <2>2. CASE \E k \in Cheap : AddCheap(k)
    BY <2>2, AddCheapInv
  <2>3. CASE Flush
    BY <2>3, FlushInv
  <2>4. CASE NoLeader \/ PostFails
    <3>1. pc # "idle" /\ Requeue /\ UNCHANGED <<transit, ingested, added, cheapAdded>>
      BY <2>4 DEF NoLeader, PostFails
    <3> QED BY <3>1, RequeueInv
  <2>5. CASE Post
    BY <2>5, PostInv
  <2>6. CASE \E x \in transit : Ingest(x)
    BY <2>6, IngestInv
  <2>7. CASE PostSucceeds
    BY <2>7, PostSucceedsInv
  <2>8. CASE UNCHANGED vars
    BY <2>8, StutterInv
  <2> QED BY <2>1, <2>2, <2>3, <2>4, <2>5, <2>6, <2>7, <2>8 DEF Next
<1> QED BY InitInv, <1>1, PTL DEF Spec

\* Every variable of the forwarder keeps its type.
THEOREM TypeCorrect == Spec => []TypeOK
<1>1. ForwarderInv => TypeOK
  BY DEF ForwarderInv
<1> QED BY <1>1, ForwarderInvariant, PTL

\* f.n is the number of queued items, whatever add, Flush and requeue do.
THEOREM CountIsExact == Spec => []CountExact
<1>1. ForwarderInv => CountExact
  BY DEF ForwarderInv
<1> QED BY <1>1, ForwarderInvariant, PTL

\* However long no leader answers, the cheap kinds stay within Max + 3.
THEOREM CheapStaysBounded == Spec => []CheapBounded
<1>1. ForwarderInv => CheapBounded
  BY DEF ForwarderInv, CheapInv, CheapBounded
<1> QED BY <1>1, ForwarderInvariant, PTL

\* No sample, event or trap is lost or reordered by the forwarder, whatever is
\* retried, refused or answered late.
THEOREM NothingLost == Spec => []HeldInOrder
<1>1. ForwarderInv => HeldInOrder
  BY DEF ForwarderInv, OrderInv, Gapless, HeldInOrder
<1> QED BY <1>1, ForwarderInvariant, PTL

\* The leader ingests in the order of queueing, retries and late posts included.
THEOREM IngestsInOrder == Spec => []IngestedInOrder
<1>1. ForwarderInv => IngestedInOrder
  BY DEF ForwarderInv, OrderInv
<1> QED BY <1>1, ForwarderInvariant, PTL
=============================================================================
