----------------------------- MODULE DataProofs -----------------------------
(***************************************************************************)
(* Proofs about what is kept and who polls it: the cluster's share of the  *)
(* devices, the time series, the log lines and the journals a standby      *)
(* copies; and the types of the six components MCData puts side by side.    *)
(***************************************************************************)
EXTENDS MCData, StoreProofs, SequenceTheorems, FiniteSetTheorems, WellFoundedInduction, TLAPS

-----------------------------------------------------------------------------
(* The cluster's share of the devices.                                     *)

\* What reshard computes from given pins and nodes.
Best(d, over) == CHOOSE n \in over : \A o \in over : Hash[o][d] <= Hash[n][d]
TargetBy(p, d, over) == IF p[SiteOf[d]] \in over THEN p[SiteOf[d]] ELSE Best(d, over)

MemberTypes ==
    /\ boss \in FullNode
    /\ members \in [ClusterNode -> [ClusterNode -> {"unknown", "member", "removed"}]]
    /\ pins \in [ClusterNode -> [Site -> PinTo \union {Unpinned}]]
    /\ token \in [Token -> [at : FullNode \union {Unpinned}, used : BOOLEAN]]
    /\ invited \subseteq ClusterNode /\ joined \subseteq ClusterNode /\ up \subseteq ClusterNode
    /\ live \subseteq ClusterNode /\ among \subseteq ClusterNode
    /\ polls \in [ClusterNode -> SUBSET Device] /\ shard \in [ClusterNode -> SUBSET Device]
    /\ beat.to \subseteq ClusterNode /\ beat.told \subseteq ClusterNode /\ beat.list \subseteq ClusterNode
    /\ beat.pins \in [Site -> PinTo \union {Unpinned}]
    /\ beat = [to |-> beat.to, told |-> beat.told, list |-> beat.list, pins |-> beat.pins]

\* The leader runs, is part of the cluster and counts itself alive; a node that is
\* part of the cluster knows itself as a member; one whose join is under way is not.
Standing ==
    /\ boss \in live /\ boss \in up /\ boss \in joined
    /\ \A n \in joined : members[n][n] = "member"
    /\ invited \intersect joined = {}

\* The leader's assignment is what reshard computed of the pins and nodes it saw,
\* and a member that answered polls at least its share.
Assigned ==
    /\ beat.list = {} => \A n \in ClusterNode : shard[n] = {}
    /\ beat.list # {} => /\ among # {}
                         /\ \A n \in ClusterNode : shard[n] = {d \in Device : TargetBy(beat.pins, d, among) = n}
    /\ beat.told \subseteq up \intersect joined
    /\ \A n \in beat.told : shard[n] \subseteq polls[n]

MemberInv == MemberTypes /\ Standing /\ Assigned

\* Among the nodes given, each device has a target, and an unpinned one the node
\* that comes first for it.
LEMMA TargetThere ==
    ASSUME NEW p, NEW d \in Device, NEW over, over \subseteq ClusterNode, over # {}
    PROVE  /\ TargetBy(p, d, over) \in over
           /\ p[SiteOf[d]] \notin over => \A o \in over : Hash[o][d] <= Hash[TargetBy(p, d, over)][d]
<1> DEFINE N == Cardinality(ClusterNode)
<1> DEFINE T == {k \in Nat : \E x \in over : k = N - Hash[x][d]}
<1> DEFINE R == OpToRel(<, Nat)
<1>1. N \in Nat
  BY MemberAssumption, FS_Union, FS_CardinalityType DEF ClusterNode
<1>2. \A n \in over : Hash[n][d] \in 1 .. N
  BY MemberAssumption DEF ClusterNode
<1>3. T \subseteq Nat /\ T # {}
  <2>1. PICK x \in over : TRUE
    OBVIOUS
  <2> HIDE DEF N
  <2>2. N - Hash[x][d] \in Nat
    BY <1>1, <1>2, <2>1
  <2>3. N - Hash[x][d] \in T
    BY <2>1, <2>2
  <2> QED BY <2>3
<1>4. IsWellFoundedOn(R, Nat)
  BY NatLessThanWellFounded
<1>5. \A x, y \in Nat : <<x, y>> \in R <=> x < y
  BY DEF OpToRel
<1> HIDE DEF R, N
<1>6. PICK k \in T : \A y \in T : ~(<<y, k>> \in R)
  <2> HIDE DEF T
  <2> QED BY <1>3, <1>4, WFMin
<1>7. PICK m \in over : k = N - Hash[m][d]
  BY <1>6
<1>8. \A x \in over : Hash[x][d] <= Hash[m][d]
  <2> SUFFICES ASSUME NEW x \in over, ~(Hash[x][d] <= Hash[m][d]) PROVE FALSE
    OBVIOUS
  <2>1. N - Hash[x][d] \in Nat /\ k \in Nat /\ N - Hash[x][d] < k
    BY <1>1, <1>2, <1>7
  <2>2. N - Hash[x][d] \in T
    BY <2>1
  <2> QED BY <1>5, <1>6, <2>1, <2>2
<1>9. Best(d, over) \in over /\ \A o \in over : Hash[o][d] <= Hash[Best(d, over)][d]
  BY <1>7, <1>8 DEF Best
<1> QED BY <1>9 DEF TargetBy

LEMMA MemberInitInv == MemberInit => MemberInv
<1> SUFFICES ASSUME MemberInit PROVE MemberInv
  OBVIOUS
<1>1. MemberTypes
  BY DEF MemberInit, MemberTypes, ClusterNode, Quiet
<1>2. Standing /\ Assigned
  BY DEF MemberInit, Standing, Assigned, ClusterNode, Quiet
<1> QED BY <1>1, <1>2 DEF MemberInv

\* Joining, removing and pinning leave the assignment alone.
LEMMA JoiningKeeps ==
    ASSUME MemberInv, NEW t \in Token, NEW m \in ClusterNode,
           MintToken(t) \/ HandleJoin(t, m) \/ Join(t, m)
    PROVE  MemberInv'
<1>0. MemberTypes /\ Standing /\ Assigned
  BY DEF MemberInv
<1>1. CASE MintToken(t)
  <2>1. token' \in [Token -> [at : FullNode \union {Unpinned}, used : BOOLEAN]]
    BY <1>0, <1>1 DEF MintToken, MemberTypes
  <2>2. MemberTypes'
    BY <1>0, <1>1, <2>1 DEF MintToken, MemberTypes
  <2> QED BY <1>0, <1>1, <2>2 DEF MintToken, MemberInv, Standing, Assigned
<1>2. CASE HandleJoin(t, m)
  <2>1. token' \in [Token -> [at : FullNode \union {Unpinned}, used : BOOLEAN]]
    BY <1>0, <1>2 DEF HandleJoin, MemberTypes
  <2>2. PICK n \in ClusterNode : members' = [members EXCEPT ![n][m] = "member"]
    BY <1>0, <1>2 DEF HandleJoin, MemberTypes
  <2>3. MemberTypes'
    BY <1>0, <1>2, <2>1, <2>2 DEF HandleJoin, MemberTypes
  <2>4. \A k \in joined : members'[k][k] = "member"
    BY <1>0, <2>2 DEF MemberTypes, Standing
  <2>5. Standing'
    BY <1>0, <1>2, <2>4 DEF HandleJoin, Standing
  <2> QED BY <1>0, <1>2, <2>3, <2>5 DEF HandleJoin, MemberInv, Assigned
<1>3. CASE Join(t, m)
  <2>1. m \notin joined /\ m # boss /\ m \notin beat.told
    BY <1>0, <1>3 DEF Join, Standing, Assigned
  <2>2. PICK n \in ClusterNode : /\ members[n][m] = "member"
                                 /\ members' = [members EXCEPT ![m] = [o \in ClusterNode |->
                                       IF o = m \/ members[n][o] = "member" THEN "member" ELSE "unknown"]]
                                 /\ pins' = [pins EXCEPT ![m] = pins[n]]
    BY <1>3 DEF Join
  <2>3. MemberTypes'
    BY <1>0, <1>3, <2>2 DEF Join, MemberTypes
  <2>4. Standing'
    BY <1>0, <1>3, <2>1, <2>2 DEF Join, Standing, MemberTypes
  <2>5. \A o \in beat.told : polls'[o] = polls[o]
    BY <1>0, <1>3, <2>1 DEF Join, MemberTypes
  <2> QED BY <1>0, <1>3, <2>3, <2>4, <2>5 DEF Join, MemberInv, Assigned
<1> QED BY <1>1, <1>2, <1>3

LEMMA AdministrationKeeps ==
    ASSUME MemberInv,
           \/ \E m \in ClusterNode : JoinLost(m) \/ RemoveMember(m)
           \/ \E s \in Site, q \in PinTo \union {Unpinned} : SetPin(s, q)
    PROVE  MemberInv'
<1>0. MemberTypes /\ Standing /\ Assigned /\ boss \in ClusterNode
  BY DEF MemberInv, MemberTypes, ClusterNode
<1>1. ASSUME NEW m \in ClusterNode, RemoveMember(m) PROVE MemberInv'
  <2>1. MemberTypes'
    BY <1>0, <1>1 DEF RemoveMember, MemberTypes, Trouble
  <2>2. \A k \in joined : members'[k][k] = "member"
    BY <1>0, <1>1 DEF RemoveMember, MemberTypes, Standing
  <2> QED BY <1>0, <1>1, <2>1, <2>2 DEF RemoveMember, MemberInv, Standing, Assigned
<1>2. ASSUME NEW s \in Site, NEW q \in PinTo \union {Unpinned}, SetPin(s, q) PROVE MemberInv'
  <2>1. MemberTypes'
    BY <1>0, <1>2 DEF SetPin, MemberTypes, Trouble
  <2> QED BY <1>0, <1>2, <2>1 DEF SetPin, MemberInv, Standing, Assigned
<1>3. ASSUME NEW m \in ClusterNode, JoinLost(m) PROVE MemberInv'
  BY <1>0, <1>3 DEF JoinLost, MemberInv, MemberTypes, Standing, Assigned
<1> QED BY <1>1, <1>2, <1>3

\* A beat computes the assignment anew, over nodes of which the leader is one.
LEMMA BeatKeeps ==
    ASSUME MemberInv, Beat
    PROVE  /\ MemberInv'
           /\ among' = live \intersect MembersOf(boss) /\ boss \in among'
           /\ beat'.list # {} /\ beat'.pins = pins[boss] /\ boss' = boss
<1>0. MemberTypes /\ Standing /\ Assigned /\ boss \in ClusterNode
  BY DEF MemberInv, MemberTypes, ClusterNode
<1>1. /\ beat' = [to |-> MembersOf(boss) \ {boss}, told |-> {boss}, list |-> MembersOf(boss), pins |-> pins[boss]]
      /\ among' = live \intersect MembersOf(boss)
      /\ UNCHANGED <<boss, members, pins, token, invited, joined, up, live, troubles>>
      /\ MembersOf(boss) \subseteq ClusterNode
  BY DEF Beat, MembersOf
<1>2. boss \in among' /\ boss \in MembersOf(boss) /\ among' \subseteq ClusterNode
  BY <1>0, <1>1 DEF Standing, MembersOf
<1>3. \A d : Target(d, among') = TargetBy(pins[boss], d, among')
  BY DEF Target, TargetBy, Best
<1>4. shard' = [n \in ClusterNode |-> {d \in Device : TargetBy(pins[boss], d, among') = n}]
  BY <1>3 DEF Beat
<1>5. shard' \in [ClusterNode -> SUBSET Device] /\ shard'[boss] \subseteq Device
  BY <1>0, <1>4
<1>6. polls' = [polls EXCEPT ![boss] = Restriction(shard'[boss])]
  BY DEF Beat
<1>7. /\ Restriction(shard'[boss]) \subseteq Device /\ shard'[boss] \subseteq Restriction(shard'[boss])
  BY <1>5 DEF Restriction
<1>8. polls' \in [ClusterNode -> SUBSET Device] /\ polls'[boss] = Restriction(shard'[boss])
  BY <1>0, <1>6, <1>7 DEF MemberTypes
<1>9. pins[boss] \in [Site -> PinTo \union {Unpinned}]
  BY <1>0 DEF MemberTypes
<1>10. /\ beat'.to = MembersOf(boss) \ {boss} /\ beat'.told = {boss} /\ beat'.list = MembersOf(boss)
       /\ beat'.pins = pins[boss]
  BY <1>1
<1>11. beat' = [to |-> beat'.to, told |-> beat'.told, list |-> beat'.list, pins |-> beat'.pins]
  BY <1>1, <1>10
<1>12. MemberTypes'
  BY <1>0, <1>1, <1>2, <1>5, <1>8, <1>9, <1>10, <1>11 DEF MemberTypes
<1>13. Standing'
  BY <1>0, <1>1 DEF Standing
<1>14. Assigned'
  <2>1. beat'.told \subseteq up' \intersect joined'
    BY <1>0, <1>1, <1>10 DEF Standing
  <2>2. \A n \in beat'.told : shard'[n] \subseteq polls'[n]
    BY <1>7, <1>8, <1>10
  <2>3. \A n \in ClusterNode : shard'[n] = {d \in Device : TargetBy(beat'.pins, d, among') = n}
    BY <1>4, <1>10
  <2>4. beat'.list # {} /\ among' # {}
    BY <1>2, <1>10
  <2> QED BY <2>1, <2>2, <2>3, <2>4 DEF Assigned, TargetBy, Best
<1> QED BY <1>1, <1>2, <1>10, <1>12, <1>13, <1>14 DEF MemberInv

\* A member that answers takes its share, which the assignment does not change.
LEMMA HeartbeatKeeps ==
    ASSUME MemberInv, NEW m \in ClusterNode, HandleHeartbeat(m) \/ HeartbeatFails(m) \/ Silent(m)
    PROVE  MemberInv'
<1>0. MemberTypes /\ Standing /\ Assigned
  BY DEF MemberInv
<1>1. CASE HandleHeartbeat(m)
  <2>1. /\ m \in up \intersect joined
        /\ UNCHANGED <<boss, token, invited, joined, up, among, shard, troubles>>
        /\ live' = live \union {m}
        /\ polls' = [polls EXCEPT ![m] = Restriction(shard[m])]
        /\ pins' = [pins EXCEPT ![m] = beat.pins]
    BY <1>1 DEF HandleHeartbeat, Hears
  <2>2. /\ beat'.to = beat.to \ {m} /\ beat'.told = beat.told \union {m}
        /\ beat'.list = beat.list /\ beat'.pins = beat.pins
        /\ beat' = [to |-> beat'.to, told |-> beat'.told, list |-> beat'.list, pins |-> beat'.pins]
    <3>1. beat' = [beat EXCEPT !.to = @ \ {m}, !.told = @ \union {m}]
      BY <1>1 DEF HandleHeartbeat
    <3>2. beat' = [to |-> beat.to \ {m}, told |-> beat.told \union {m}, list |-> beat.list, pins |-> beat.pins]
      BY <1>0, <3>1 DEF MemberTypes
    <3> QED BY <3>2
  <2>3. members' = [members EXCEPT ![m] = [o \in ClusterNode |-> IF o \in beat.list THEN "member" ELSE members[m][o]]]
    BY <1>0, <1>1 DEF HandleHeartbeat, MemberTypes
  <2>4. shard[m] \subseteq Device /\ shard[m] \subseteq Restriction(shard[m]) /\ Restriction(shard[m]) \subseteq Device
    BY <1>0 DEF MemberTypes, Restriction
  <2>5. members' \in [ClusterNode -> [ClusterNode -> {"unknown", "member", "removed"}]]
    BY <1>0, <2>3 DEF MemberTypes
  <2>6. MemberTypes'
    BY <1>0, <2>1, <2>2, <2>4, <2>5 DEF MemberTypes
  <2>7. \A k \in joined : members'[k][k] = "member"
    BY <1>0, <2>3 DEF MemberTypes, Standing
  <2>8. Standing'
    BY <1>0, <2>1, <2>7 DEF Standing
  <2>9. \A n \in beat'.told : shard[n] \subseteq polls'[n]
    BY <1>0, <2>1, <2>2, <2>4 DEF MemberTypes, Assigned
  <2>10. Assigned'
    BY <1>0, <2>1, <2>2, <2>9 DEF Assigned, TargetBy, Best
  <2> QED BY <2>6, <2>8, <2>10 DEF MemberInv
<1>2. CASE HeartbeatFails(m)
  <2>1. /\ UNCHANGED <<boss, members, pins, token, invited, joined, up, live, among, shard, polls, troubles>>
        /\ beat' = [beat EXCEPT !.to = @ \ {m}]
    BY <1>2 DEF HeartbeatFails
  <2>2. beat' = [to |-> beat.to \ {m}, told |-> beat.told, list |-> beat.list, pins |-> beat.pins]
    BY <1>0, <2>1 DEF MemberTypes
  <2>3. MemberTypes'
    BY <1>0, <2>1, <2>2 DEF MemberTypes
  <2> QED BY <1>0, <2>1, <2>2, <2>3 DEF MemberInv, Standing, Assigned, TargetBy, Best
<1>3. CASE Silent(m)
  BY <1>0, <1>3 DEF Silent, MemberInv, MemberTypes, Standing, Assigned
<1> QED BY <1>1, <1>2, <1>3

LEMMA ProcessesKeep ==
    ASSUME MemberInv, NEW m \in ClusterNode, GoesAway(m) \/ ComesBack(m) \/ Elect(m)
    PROVE  MemberInv'
<1>0. MemberTypes /\ Standing /\ Assigned /\ boss \in ClusterNode
  BY DEF MemberInv, MemberTypes, ClusterNode
<1>1. CASE GoesAway(m)
  <2>1. /\ UNCHANGED <<boss, members, pins, token, joined, live, among, shard, polls>>
        /\ up' = up \ {m} /\ invited' = invited \ {m} /\ m # boss
        /\ beat' = [beat EXCEPT !.told = @ \ {m}]
    BY <1>1 DEF GoesAway
  <2>2. beat' = [to |-> beat.to, told |-> beat.told \ {m}, list |-> beat.list, pins |-> beat.pins]
    BY <1>0, <2>1 DEF MemberTypes
  <2>3. MemberTypes'
    BY <1>0, <2>1, <2>2 DEF MemberTypes
  <2> QED BY <1>0, <2>1, <2>2, <2>3 DEF MemberInv, Standing, Assigned, TargetBy, Best
<1>2. CASE ComesBack(m)
  <2>1. m \notin beat.told
    BY <1>0, <1>2 DEF ComesBack, Assigned
  <2>2. MemberTypes'
    BY <1>0, <1>2 DEF ComesBack, MemberTypes
  <2>3. \A n \in beat.told : polls'[n] = polls[n]
    BY <1>0, <1>2, <2>1 DEF ComesBack, MemberTypes
  <2>4. Standing'
    BY <1>0, <1>2 DEF ComesBack, Standing
  <2> QED BY <1>0, <1>2, <2>2, <2>3, <2>4 DEF ComesBack, MemberInv, Assigned
<1>3. CASE Elect(m)
  <2>1. /\ m \in FullNode /\ m \in joined /\ m \in up
        /\ boss' = m /\ live' = {m} /\ beat' = Quiet /\ among' = {} /\ shard' = [k \in ClusterNode |-> {}]
        /\ polls' = [polls EXCEPT ![m] = Device, ![boss] = {}]
        /\ UNCHANGED <<members, pins, token, invited, joined, up>>
    BY <1>3 DEF Elect
  <2>2. MemberTypes'
    BY <1>0, <2>1 DEF MemberTypes, Quiet
  <2>3. Standing'
    BY <1>0, <2>1 DEF Standing
  <2>4. Assigned'
    BY <2>1 DEF Assigned, Quiet
  <2> QED BY <2>2, <2>3, <2>4 DEF MemberInv
<1> QED BY <1>1, <1>2, <1>3

LEMMA MemberStep == MemberInv /\ [MemberNext]_memberVars => MemberInv'
<1> SUFFICES ASSUME MemberInv, [MemberNext]_memberVars PROVE MemberInv'
  OBVIOUS
<1>1. CASE UNCHANGED memberVars
  BY <1>1 DEF memberVars, MemberInv, MemberTypes, Standing, Assigned, TargetBy, Best
<1>2. CASE \E t \in Token : MintToken(t)
  <2>1. PICK m \in ClusterNode : TRUE
    BY MemberAssumption DEF ClusterNode
  <2> QED BY <1>2, <2>1, JoiningKeeps
<1>3. CASE \E t \in Token, m \in ClusterNode : HandleJoin(t, m) \/ Join(t, m)
  BY <1>3, JoiningKeeps
<1>4. CASE \/ \E m \in ClusterNode : JoinLost(m) \/ RemoveMember(m)
           \/ \E s \in Site, q \in PinTo \union {Unpinned} : SetPin(s, q)
  BY <1>4, AdministrationKeeps
<1>5. CASE Beat
  BY <1>5, BeatKeeps
<1>6. CASE \E m \in ClusterNode : HandleHeartbeat(m) \/ HeartbeatFails(m) \/ Silent(m)
  BY <1>6, HeartbeatKeeps
<1>7. CASE \E m \in ClusterNode : GoesAway(m) \/ ComesBack(m) \/ Elect(m)
  BY <1>7, ProcessesKeep
<1> QED BY <1>1, <1>2, <1>3, <1>4, <1>5, <1>6, <1>7 DEF MemberNext

LEMMA MemberInvariant == MemberSpec => []MemberInv
<1> QED BY MemberInitInv, MemberStep, PTL DEF MemberSpec

\* Once the nodes a beat of the leader gives devices to have answered it, every device
\* is polled, and no device is given to a node that was silent or removed: for every
\* set of nodes, devices, pins and tokens, and every order of joins, removals, changes
\* of pins, lost heartbeats, crashes and elections (reshard, beat, handleHeartbeat).
THEOREM SharesCoverDevices == MemberSpec => []EveryDevicePolled
<1>1. MemberInv => EveryDevicePolled
  <2> SUFFICES ASSUME MemberInv PROVE EveryDevicePolled
    OBVIOUS
  <2>0. MemberTypes /\ Assigned
    BY DEF MemberInv
  <2>1. Owners \subseteq among
    <3> SUFFICES ASSUME NEW n \in ClusterNode, NEW d \in shard[n] PROVE n \in among
      BY DEF Owners
    <3>1. beat.list # {} /\ d \in Device /\ TargetBy(beat.pins, d, among) = n /\ among # {} /\ among \subseteq ClusterNode
      BY <2>0 DEF Assigned, MemberTypes
    <3> QED BY <3>1, TargetThere
  <2>2. ASSUME beat.list # {}, Owners \subseteq beat.told, NEW d \in Device
        PROVE  \E n \in beat.told : d \in polls[n]
    <3>1. among # {} /\ among \subseteq ClusterNode
      BY <2>0, <2>2 DEF Assigned, MemberTypes
    <3> DEFINE n == TargetBy(beat.pins, d, among)
    <3>2. n \in among
      BY <3>1, TargetThere
    <3>3. n \in ClusterNode /\ d \in shard[n]
      BY <2>0, <2>2, <3>1, <3>2 DEF Assigned
    <3>4. n \in beat.told
      BY <2>2, <3>3 DEF Owners
    <3> QED BY <2>0, <3>3, <3>4 DEF Assigned
  <2> QED BY <2>1, <2>2 DEF EveryDevicePolled
<1> QED BY <1>1, MemberInvariant, PTL

\* The type invariant of the cluster's membership.
THEOREM MembersTypeCorrect == MemberSpec => []MemberTypeOK
<1>1. MemberInv => MemberTypeOK
  BY DEF MemberInv, MemberTypes, MemberTypeOK
<1> QED BY <1>1, MemberInvariant, PTL

\* A beat never moves a device between two nodes that were there before and still
\* are, but for a pin: reshard is stable for every set of nodes and every hash.
THEOREM ReshardIsStable == MemberSpec => OnlyTheFairShareMoves
<1> DEFINE Moves == \A d \in Device, n, o \in ClusterNode :
          n # o /\ d \in shard[n] /\ d \in shard'[o]
              => \/ n \notin live \/ members[boss][n] # "member"
                 \/ o \notin among
                 \/ \E p \in {beat.pins, pins[boss]} : p[SiteOf[d]] \in {n, o}
<1>1. MemberInv /\ [MemberNext]_memberVars => [Moves]_shard
  <2> SUFFICES ASSUME MemberInv, MemberNext, shard' # shard,
                      NEW d \in Device, NEW n \in ClusterNode, NEW o \in ClusterNode,
                      n # o, d \in shard[n], d \in shard'[o],
                      n \in live, members[boss][n] = "member", o \in among,
                      beat.pins[SiteOf[d]] \notin {n, o}, pins[boss][SiteOf[d]] \notin {n, o}
               PROVE  FALSE
    BY DEF memberVars
  <2>0. MemberTypes /\ Assigned
    BY DEF MemberInv
  <2>1. Beat
    <3>1. \A m \in ClusterNode : ~Elect(m)
      BY DEF Elect
    <3> QED BY <3>1 DEF MemberNext, MintToken, HandleJoin, Join, JoinLost, RemoveMember, SetPin,
                        HandleHeartbeat, HeartbeatFails, Silent, GoesAway, ComesBack
  <2>2. /\ among' = live \intersect MembersOf(boss) /\ boss \in among' /\ beat'.list # {}
        /\ beat'.pins = pins[boss] /\ MemberTypes' /\ Assigned'
    BY <2>1, BeatKeeps DEF MemberInv
  <2>3. n = TargetBy(beat.pins, d, among) /\ among # {} /\ among \subseteq ClusterNode
    BY <2>0 DEF Assigned, MemberTypes
  <2>4. o = TargetBy(pins[boss], d, among') /\ among' # {} /\ among' \subseteq ClusterNode
    BY <2>2 DEF Assigned, MemberTypes, TargetBy, Best
  <2>5. n \in among' /\ n \in among /\ o \in among'
    BY <2>2, <2>3, <2>4, TargetThere DEF MembersOf
  <2>6. beat.pins[SiteOf[d]] \notin among
    BY <2>3 DEF TargetBy
  <2>7. pins[boss][SiteOf[d]] \notin among'
    BY <2>4 DEF TargetBy
  <2>8. Hash[o][d] <= Hash[n][d]
    BY <2>3, <2>6, TargetThere
  <2>9. Hash[n][d] <= Hash[o][d]
    BY <2>4, <2>5, <2>7, TargetThere
  <2>10. Hash[n][d] \in Nat /\ Hash[o][d] \in Nat /\ Hash[n][d] # Hash[o][d]
    <3>1. Cardinality(ClusterNode) \in Nat
      BY MemberAssumption, FS_Union, FS_CardinalityType DEF ClusterNode
    <3> QED BY <3>1, MemberAssumption DEF ClusterNode
  <2> QED BY <2>8, <2>9, <2>10
<1> QED BY <1>1, MemberInvariant, PTL DEF MemberSpec, OnlyTheFairShareMoves

-----------------------------------------------------------------------------
(* The time series.                                                        *)

TsdbTypes ==
    /\ dbClock \in Hour /\ hour \in Hour
    /\ head \subseteq Point /\ kept \subseteq Point
    /\ writing \in [at : Hour, points : SUBSET Point] \cup {NoWrite}
    /\ raw \in [Hour -> SUBSET Point]
    /\ rollup \in [0 .. DayOf(MaxHour) -> SUBSET Point]
    /\ removing \subseteq Hour

\* Every sample is where its hour belongs, and a roll-up only has hours that are over.
Placed ==
    /\ \A p \in head : p[1] = hour
    /\ \A h \in Hour : \A p \in raw[h] : p[1] = h
    /\ \A p \in writing.points : p[1] = writing.at
    /\ \A d \in 0 .. DayOf(MaxHour) : \A p \in rollup[d] : p[1] < dbClock /\ (running => p[1] < hour)

\* The files of the present hour and of later ones have nothing the head has not.
Unwritten ==
    running => /\ raw[hour] \subseteq head \cup excused
               /\ \A h \in Hour : h > hour => raw[h] \subseteq excused

\* A checkpoint in the writing takes nothing away: of the present hour it has a part of
\* the head, of an hour that is over all that its file has.
Written ==
    writing # NoWrite =>
        /\ running /\ writing.at \in Hour /\ writing.at <= hour
        /\ writing.at = hour => writing.points \subseteq head
        /\ writing.at < hour => raw[writing.at] \subseteq writing.points \cup excused
        /\ \A d \in 0 .. DayOf(MaxHour) : \A p \in rollup[d] : p[1] < writing.at

\* A head that is not dirty is in its file, or on its way there.
Clean ==
    running /\ ~headDirty =>
        IF writing.at = hour THEN head \subseteq writing.points ELSE head \subseteq raw[hour]

\* An hour file that is still there has what the roll-up has of its hour; one that is
\* about to be removed is in the roll-up, and is not written again.
RolledUp ==
    /\ \A h \in Hour : raw[h] # {} => \A p \in rollup[DayOf(h)] : p[1] = h => p \in raw[h] \cup excused
    /\ \A h \in removing : /\ running /\ h < hour /\ raw[h] \subseteq rollup[DayOf(h)]
                           /\ writing # NoWrite => h < writing.at

TsdbInv == TsdbTypes /\ Placed /\ Unwritten /\ Written /\ Clean /\ RolledUp /\ KeptIsStored

LEMMA HourFacts ==
    /\ MaxHour \in Nat /\ HoursPerDay \in Nat /\ HoursPerDay # 0
    /\ \A h \in Hour : h \in Nat /\ DayOf(h) \in 0 .. DayOf(MaxHour)
    /\ \A h \in Nat : DayOf(h) \in Nat
    /\ \A g, h \in Nat : DayOf(g) < DayOf(h) => g < h
    /\ \A p \in Point : p[1] \in Hour
    /\ NoWrite.at \notin Hour /\ NoWrite.points = {}
<1>1. MaxHour \in Nat /\ HoursPerDay \in Nat /\ HoursPerDay # 0
  BY TsdbAssumption
<1>2. \A h \in Nat : DayOf(h) \in Nat
  BY <1>1 DEF DayOf
<1>3. \A g, h \in Nat : g <= h => DayOf(g) <= DayOf(h)
  BY <1>1 DEF DayOf
<1>4. \A h \in Hour : h \in Nat /\ DayOf(h) \in 0 .. DayOf(MaxHour)
  BY <1>1, <1>2, <1>3 DEF Hour
<1>5. \A g, h \in Nat : DayOf(g) < DayOf(h) => g < h
  BY <1>2, <1>3
<1>6. \A p \in Point : p[1] \in Hour
  BY DEF Point
<1>7. NoWrite.at \notin Hour /\ NoWrite.points = {}
  BY <1>1 DEF NoWrite, Hour
<1> QED BY <1>1, <1>2, <1>4, <1>5, <1>6, <1>7

LEMMA TsdbInitInv == TsdbInit => TsdbInv
<1> SUFFICES ASSUME TsdbInit PROVE TsdbInv
  OBVIOUS
<1>1. TsdbTypes
  BY HourFacts DEF TsdbInit, TsdbTypes, Hour
<1>2. Placed
  BY HourFacts DEF TsdbInit, Placed
<1>3. Unwritten /\ Written /\ KeptIsStored
  <2>1. 0 \in Hour
    BY HourFacts DEF Hour
  <2>2. Unwritten
    BY <2>1 DEF TsdbInit, Unwritten
  <2>3. Written /\ KeptIsStored
    BY DEF TsdbInit, Written, KeptIsStored
  <2> QED BY <2>2, <2>3
<1>4. Clean
  BY HourFacts DEF TsdbInit, Clean
<1>5. RolledUp
  BY DEF TsdbInit, RolledUp
<1> QED BY <1>1, <1>2, <1>3, <1>4, <1>5 DEF TsdbInv

\* What closing the hour does to its file.
LEMMA RolledFacts ==
    ASSUME TsdbInv, running
    PROVE  /\ Rolled(hour) \in [Hour -> SUBSET Point]
           /\ \A h \in Hour : h # hour => Rolled(hour)[h] = raw[h]
           /\ head # {} => Rolled(hour)[hour] = head
           /\ head = {} => Rolled(hour)[hour] = raw[hour]
           /\ \A h : Rolled(h) = Rolled(hour)
  BY DEF TsdbInv, TsdbTypes, Rolled

\* Closing the hour, as Append and the loop do it: the next hour's head has what was
\* appended to it, if anything.
LEMMA HourCloses ==
    ASSUME TsdbInv, running, NEW h \in Hour, h > hour,
           NEW q, q \subseteq Point, \A p \in q : p[1] = h,
           raw' = Rolled(hour), hour' = h, head' = q, excused' = excused \cup Overtaken,
           headDirty' \/ q = {}, kept' = kept \cup q,
           UNCHANGED <<dbClock, writing, rollup, removing, running>>
    PROVE  TsdbInv'
<1>0. TsdbTypes /\ Placed /\ Unwritten /\ Written /\ Clean /\ RolledUp /\ KeptIsStored
  BY DEF TsdbInv
<1>1. /\ raw' \in [Hour -> SUBSET Point]
      /\ \A g \in Hour : g # hour => raw'[g] = raw[g]
      /\ head # {} => raw'[hour] = head
      /\ head = {} => raw'[hour] = raw[hour]
  BY RolledFacts
<1>2. hour \in Hour /\ hour \in Nat /\ h \in Nat /\ \A g \in Hour : g \in Nat
  BY <1>0, HourFacts DEF TsdbTypes
<1>3. raw'[hour] \subseteq head \cup excused /\ head \subseteq raw'[hour] /\ \A p \in raw'[hour] : p[1] = hour
  BY <1>0, <1>1, <1>2 DEF Unwritten, Placed
<1>4. excused \subseteq excused' /\ (writing.at = hour => head \subseteq writing.points \cup excused')
  BY DEF Overtaken
<1>5. TsdbTypes'
  BY <1>0, <1>1 DEF TsdbTypes
<1>6. Placed'
  <2>1. \A g \in Hour : \A p \in raw'[g] : p[1] = g
    BY <1>0, <1>1, <1>3 DEF Placed
  <2>2. \A d \in 0 .. DayOf(MaxHour) : \A p \in rollup[d] : p[1] < dbClock /\ p[1] < h
    <3> SUFFICES ASSUME NEW d \in 0 .. DayOf(MaxHour), NEW p \in rollup[d] PROVE p[1] < dbClock /\ p[1] < h
      OBVIOUS
    <3>1. p[1] \in Nat /\ p[1] < dbClock /\ p[1] < hour
      BY <1>0, <1>2, HourFacts DEF TsdbTypes, Placed
    <3> QED BY <1>2, <3>1
  <2> QED BY <1>0, <2>1, <2>2 DEF Placed
<1>7. Unwritten'
  <2>1. \A g \in Hour : g >= h => raw'[g] \subseteq excused
    BY <1>0, <1>1, <1>2 DEF Unwritten
  <2> QED BY <1>2, <1>4, <2>1 DEF Unwritten
<1>8. Written'
  <2> SUFFICES ASSUME writing # NoWrite PROVE Written'
    BY DEF Written
  <2>1. /\ writing.at \in Hour /\ writing.at <= hour
        /\ writing.at < hour => raw[writing.at] \subseteq writing.points \cup excused
        /\ \A d \in 0 .. DayOf(MaxHour) : \A p \in rollup[d] : p[1] < writing.at
    BY <1>0 DEF Written
  <2>2. writing.at \in Nat /\ writing.at < h
    <3>1. writing.at \in Nat
      BY <1>2, <2>1
    <3> QED BY <1>2, <2>1, <3>1
  <2>3. raw'[writing.at] \subseteq writing.points \cup excused'
    <3>1. CASE writing.at = hour
      BY <1>3, <1>4, <3>1
    <3>2. CASE writing.at # hour
      <4>1. writing.at < hour
        BY <1>2, <2>1, <2>2, <3>2
      <4> QED BY <1>1, <1>4, <2>1, <3>2, <4>1
    <3> QED BY <3>1, <3>2
  <2>4. writing.at <= h /\ writing.at # h
    BY <1>2, <2>2
  <2> QED BY <2>1, <2>3, <2>4 DEF Written
<1>9. Clean'
  <2>1. q = {} => head' = {}
    OBVIOUS
  <2> QED BY <2>1 DEF Clean
<1>10. RolledUp'
  <2>1. ASSUME NEW g \in Hour, raw'[g] # {}, NEW p \in rollup[DayOf(g)], p[1] = g
        PROVE  p \in raw'[g] \cup excused'
    <3>1. DayOf(g) \in 0 .. DayOf(MaxHour)
      BY HourFacts
    <3>2. p[1] < hour
      BY <1>0, <2>1, <3>1 DEF Placed
    <3>3. g # hour
      BY <1>2, <2>1, <3>2
    <3> QED BY <1>0, <1>1, <1>4, <2>1, <3>3 DEF RolledUp
  <2>2. ASSUME NEW g \in removing
        PROVE  /\ running /\ g < h /\ raw'[g] \subseteq rollup[DayOf(g)]
               /\ writing # NoWrite => g < writing.at
    <3>1. g \in Hour /\ g < hour /\ raw[g] \subseteq rollup[DayOf(g)] /\ (writing # NoWrite => g < writing.at)
      BY <1>0, <2>2 DEF RolledUp, TsdbTypes
    <3>2. g # hour /\ g < h
      BY <1>2, <3>1
    <3> QED BY <1>1, <3>1, <3>2
  <2> QED BY <2>1, <2>2 DEF RolledUp
<1>11. KeptIsStored'
  <2> SUFFICES ASSUME NEW p \in kept' \ excused'
               PROVE  p \in head' \/ p \in raw'[p[1]] \/ p \in rollup[DayOf(p[1])]
    BY DEF KeptIsStored
  <2>1. CASE p \in q
    BY <2>1
  <2>2. CASE p \notin q
    <3>1. p \in kept \ excused /\ p[1] \in Hour
      BY <1>0, <1>4, <2>2, HourFacts DEF TsdbTypes
    <3>2. p \in head \/ p \in raw[p[1]] \/ p \in rollup[DayOf(p[1])]
      BY <1>0, <3>1 DEF KeptIsStored
    <3>3. CASE p \in head
      BY <1>0, <1>3, <3>3 DEF Placed
    <3>4. CASE p \in raw[p[1]]
      <4>1. CASE p[1] = hour
        BY <1>0, <1>3, <3>1, <3>4, <4>1 DEF Unwritten
      <4>2. CASE p[1] # hour
        BY <1>1, <3>1, <3>4, <4>2
      <4> QED BY <4>1, <4>2
    <3> QED BY <3>2, <3>3, <3>4
  <2> QED BY <2>1, <2>2
<1> QED BY <1>5, <1>6, <1>7, <1>8, <1>9, <1>10, <1>11 DEF TsdbInv

LEMMA AppendKeeps ==
    ASSUME TsdbInv, NEW p \in Point, AppendSample(p)
    PROVE  TsdbInv'
<1>0. TsdbTypes /\ Placed /\ Unwritten /\ Written /\ Clean /\ RolledUp /\ KeptIsStored
  BY DEF TsdbInv
<1>1. p[1] \in Hour /\ p[1] \in Nat /\ hour \in Nat /\ hour \in Hour /\ p[1] >= hour /\ running
  BY <1>0, HourFacts DEF AppendSample, TsdbTypes
<1>2. CASE p[1] > hour
  <2>1. /\ raw' = Rolled(p[1]) /\ hour' = p[1] /\ head' = {p} /\ excused' = excused \cup Overtaken
        /\ headDirty' /\ kept' = kept \cup {p}
        /\ UNCHANGED <<dbClock, writing, rollup, removing, running>>
    BY <1>2 DEF AppendSample
  <2>2. raw' = Rolled(hour)
    BY <1>1, <2>1, RolledFacts
  <2>3. {p} \subseteq Point /\ \A x \in {p} : x[1] = p[1]
    OBVIOUS
  <2> DEFINE q == {p}
  <2>4. q \subseteq Point /\ (\A x \in q : x[1] = p[1]) /\ head' = q /\ kept' = kept \cup q
    BY <2>1, <2>3
  <2> HIDE DEF q
  <2> QED BY <1>1, <1>2, <2>1, <2>2, <2>4, HourCloses
<1>3. CASE ~(p[1] > hour)
  <2>1. /\ head' = head \cup {p} /\ kept' = kept \cup {p} /\ headDirty' /\ p[1] = hour
        /\ UNCHANGED <<raw, hour, excused, dbClock, writing, rollup, removing, running>>
    BY <1>1, <1>3 DEF AppendSample
  <2>2. TsdbTypes'
    BY <1>0, <2>1 DEF TsdbTypes
  <2>3. Placed' /\ Unwritten' /\ RolledUp'
    BY <1>0, <2>1 DEF Placed, Unwritten, RolledUp
  <2>4. Written'
    BY <1>0, <2>1 DEF Written
  <2>5. Clean'
    BY <2>1 DEF Clean
  <2>6. KeptIsStored'
    BY <1>0, <1>1, <2>1 DEF KeptIsStored
  <2> QED BY <2>2, <2>3, <2>4, <2>5, <2>6 DEF TsdbInv
<1> QED BY <1>2, <1>3

LEMMA RolloverKeeps == ASSUME TsdbInv, Rollover PROVE TsdbInv'
<1>1. /\ running /\ dbClock \in Hour /\ dbClock > hour
      /\ raw' = Rolled(dbClock) /\ hour' = dbClock /\ head' = {} /\ excused' = excused \cup Overtaken
      /\ UNCHANGED <<dbClock, writing, rollup, removing, running, kept>>
  BY DEF TsdbInv, TsdbTypes, Rollover
<1>2. raw' = Rolled(hour)
  BY <1>1, RolledFacts
<1> DEFINE q == {}
<1>3. q \subseteq Point /\ (\A x \in q : x[1] = dbClock) /\ head' = q /\ kept' = kept \cup q /\ (headDirty' \/ q = {})
  BY <1>1
<1> HIDE DEF q
<1> QED BY <1>1, <1>2, <1>3, HourCloses

LEMMA CheckpointKeeps == ASSUME TsdbInv, Checkpoint \/ CheckpointWritten PROVE TsdbInv'
<1>0. TsdbTypes /\ Placed /\ Unwritten /\ Written /\ Clean /\ RolledUp /\ KeptIsStored
  BY DEF TsdbInv
<1>00. hour \in Hour /\ hour \in Nat /\ \A h \in Hour : h \in Nat
  BY <1>0, HourFacts DEF TsdbTypes
<1>1. CASE Checkpoint
  <2>1. /\ running /\ writing' = [at |-> hour, points |-> head]
        /\ UNCHANGED <<dbClock, hour, head, raw, rollup, removing, running, kept, excused>>
    BY <1>1 DEF Checkpoint
  <2>2. writing'.at = hour /\ writing'.points = head
    BY <2>1
  <2>3. TsdbTypes'
    BY <1>0, <2>1 DEF TsdbTypes
  <2>4. Placed' /\ Unwritten' /\ KeptIsStored'
    BY <1>0, <2>1, <2>2 DEF Placed, Unwritten, KeptIsStored
  <2>5. Written'
    <3>1. \A d \in 0 .. DayOf(MaxHour) : \A p \in rollup[d] : p[1] < hour
      BY <1>0, <2>1 DEF Placed
    <3>2. hour <= hour /\ ~(hour < hour)
      BY <1>00
    <3> QED BY <1>00, <2>1, <2>2, <3>1, <3>2 DEF Written
  <2>6. Clean'
    BY <2>1, <2>2 DEF Clean
  <2>7. RolledUp'
    BY <1>0, <2>1, <2>2 DEF RolledUp
  <2> QED BY <2>3, <2>4, <2>5, <2>6, <2>7 DEF TsdbInv
<1>2. CASE CheckpointWritten
  <2>1. /\ running /\ writing # NoWrite /\ raw' = [raw EXCEPT ![writing.at] = writing.points] /\ writing' = NoWrite
        /\ UNCHANGED <<dbClock, hour, head, headDirty, rollup, removing, running, kept, excused>>
    BY <1>2 DEF CheckpointWritten
  <2>2. /\ writing.at \in Hour /\ writing.at <= hour /\ writing.points \subseteq Point
        /\ writing.at = hour => writing.points \subseteq head
        /\ writing.at < hour => raw[writing.at] \subseteq writing.points \cup excused
        /\ \A d \in 0 .. DayOf(MaxHour) : \A p \in rollup[d] : p[1] < writing.at
        /\ \A p \in writing.points : p[1] = writing.at
    BY <1>0, <2>1 DEF Written, TsdbTypes, Placed
  <2> DEFINE w == writing.at
  <2>3. /\ raw' \in [Hour -> SUBSET Point] /\ raw'[w] = writing.points
        /\ \A h \in Hour : h # w => raw'[h] = raw[h]
    BY <1>0, <2>1, <2>2 DEF TsdbTypes
  <2>4. w \in Hour /\ w \in Nat /\ (w # hour => w < hour)
    <3>1. w \in Nat /\ w <= hour
      BY <1>00, <2>2
    <3> QED BY <1>00, <2>2, <3>1
  <2>5. writing'.points = {} /\ writing'.at # hour
    BY <1>00, <2>1, HourFacts
  <2> HIDE DEF w
  <2>6. TsdbTypes'
    BY <1>0, <2>1, <2>3 DEF TsdbTypes
  <2>7. Placed'
    <3>1. \A h \in Hour : \A p \in raw'[h] : p[1] = h
      BY <1>0, <2>2, <2>3 DEF Placed, w
    <3> QED BY <1>0, <2>1, <2>5, <3>1 DEF Placed
  <2>8. Unwritten'
    <3>1. raw'[hour] \subseteq head \cup excused
      BY <1>0, <1>00, <2>1, <2>2, <2>3 DEF Unwritten, w
    <3>2. \A h \in Hour : h > hour => raw'[h] \subseteq excused
      <4> SUFFICES ASSUME NEW h \in Hour, h > hour PROVE raw'[h] \subseteq excused
        OBVIOUS
      <4>1. h # w
        BY <1>00, <2>4
      <4> QED BY <1>0, <2>1, <2>3, <4>1 DEF Unwritten
    <3> QED BY <2>1, <3>1, <3>2 DEF Unwritten
  <2>9. Written'
    BY <2>1 DEF Written
  <2>10. Clean'
    <3>1. ASSUME ~headDirty PROVE head \subseteq raw'[hour]
      <4>1. CASE writing.at = hour
        BY <1>0, <2>1, <2>3, <3>1, <4>1 DEF Clean, w
      <4>2. CASE writing.at # hour
        BY <1>0, <1>00, <2>1, <2>3, <3>1, <4>2 DEF Clean, w
      <4> QED BY <4>1, <4>2
    <3> QED BY <2>1, <2>5, <3>1 DEF Clean
  <2>11. RolledUp'
    <3>1. ASSUME NEW g \in Hour, raw'[g] # {}, NEW p \in rollup[DayOf(g)], p[1] = g
          PROVE  p \in raw'[g] \cup excused
      <4>1. DayOf(g) \in 0 .. DayOf(MaxHour)
        BY HourFacts
      <4>2. p[1] < w
        BY <2>2, <3>1, <4>1 DEF w
      <4>3. g # w
        BY <1>00, <2>4, <3>1, <4>2
      <4> QED BY <1>0, <2>3, <3>1, <4>3 DEF RolledUp
    <3>2. ASSUME NEW g \in removing
          PROVE  running /\ g < hour /\ raw'[g] \subseteq rollup[DayOf(g)]
      <4>1. g \in Hour /\ g < hour /\ raw[g] \subseteq rollup[DayOf(g)] /\ g < w
        BY <1>0, <2>1, <3>2 DEF RolledUp, TsdbTypes, w
      <4>2. g # w
        BY <1>00, <2>4, <4>1
      <4> QED BY <2>1, <2>3, <4>1, <4>2
    <3> QED BY <2>1, <3>1, <3>2 DEF RolledUp
  <2>12. KeptIsStored'
    <3> SUFFICES ASSUME NEW p \in kept \ excused
                 PROVE  p \in head \/ p \in raw'[p[1]] \/ p \in rollup[DayOf(p[1])]
      BY <2>1 DEF KeptIsStored
    <3>1. p[1] \in Hour
      BY <1>0, HourFacts DEF TsdbTypes
    <3>2. p \in head \/ p \in raw[p[1]] \/ p \in rollup[DayOf(p[1])]
      BY <1>0 DEF KeptIsStored
    <3>3. CASE p \in raw[p[1]] /\ p[1] = w
      <4>1. CASE w = hour
        BY <1>0, <2>1, <3>3, <4>1 DEF Unwritten
      <4>2. CASE w # hour
        BY <2>2, <2>3, <2>4, <3>3, <4>2 DEF w
      <4> QED BY <4>1, <4>2
    <3> QED BY <2>3, <3>1, <3>2, <3>3
  <2> QED BY <2>6, <2>7, <2>8, <2>9, <2>10, <2>11, <2>12 DEF TsdbInv
<1> QED BY <1>1, <1>2

\* A day that is old enough to be rolled up is over.
LEMMA CutIsPast ==
    ASSUME TsdbInv, NEW hours \in Nat, NEW h \in Nat, DayOf(h) < Cut(hours)
    PROVE  h < dbClock
<1>1. dbClock \in Nat
  BY HourFacts DEF TsdbInv, TsdbTypes
<1>2. DayOf(h) \in Nat
  BY HourFacts
<1>3. ~(dbClock < hours) /\ DayOf(h) < DayOf(dbClock - hours)
  BY <1>2 DEF Cut
<1>4. dbClock - hours \in Nat /\ dbClock - hours <= dbClock
  BY <1>1, <1>3
<1>5. h < dbClock - hours
  BY <1>3, <1>4, HourFacts
<1> QED BY <1>1, <1>4, <1>5

LEMMA CompactKeeps ==
    ASSUME TsdbInv, NEW d \in 0 .. DayOf(MaxHour), Compact(d)
    PROVE  TsdbInv'
<1>0. TsdbTypes /\ Placed /\ Unwritten /\ Written /\ Clean /\ RolledUp /\ KeptIsStored
  BY DEF TsdbInv
<1>1. /\ running /\ dbClock <= hour /\ writing = NoWrite /\ d < Cut(RawHours)
      /\ rollup' = [rollup EXCEPT ![d] = RollupDay(d)] /\ removing' = DayFiles(d)
      /\ UNCHANGED <<dbClock, hour, head, headDirty, writing, raw, running, kept, excused>>
  BY DEF Compact
<1>2. /\ \A h \in Hour : h \in Nat /\ DayOf(h) \in 0 .. DayOf(MaxHour)
      /\ dbClock \in Nat /\ hour \in Nat /\ RawHours \in Nat
  BY <1>0, HourFacts, TsdbAssumption DEF TsdbTypes
<1>3. \A h \in DayFiles(d) : h \in Hour /\ DayOf(h) = d /\ raw[h] # {} /\ h < dbClock /\ h < hour
  <2> SUFFICES ASSUME NEW h \in DayFiles(d) PROVE h \in Hour /\ DayOf(h) = d /\ raw[h] # {} /\ h < dbClock /\ h < hour
    OBVIOUS
  <2>1. h \in Hour /\ DayOf(h) = d /\ raw[h] # {}
    BY DEF DayFiles
  <2>2. h < dbClock
    BY <1>1, <1>2, <2>1, CutIsPast
  <2>3. h < hour
    BY <1>1, <1>2, <2>1, <2>2
  <2> QED BY <2>1, <2>2, <2>3
<1>4. \A p : p \in RollupDay(d) <=> \/ \E h \in DayFiles(d) : p \in raw[h]
                                    \/ p \in rollup[d] /\ p[1] \notin DayFiles(d)
  BY DEF RollupDay, Raws
<1>5. RollupDay(d) \subseteq Point
  BY <1>0, <1>3, <1>4 DEF TsdbTypes
<1>6. /\ rollup' \in [0 .. DayOf(MaxHour) -> SUBSET Point] /\ rollup'[d] = RollupDay(d)
      /\ \A e \in 0 .. DayOf(MaxHour) : e # d => rollup'[e] = rollup[e]
  BY <1>0, <1>1, <1>5 DEF TsdbTypes
<1>7. TsdbTypes'
  BY <1>0, <1>1, <1>3, <1>6 DEF TsdbTypes
<1>8. Placed'
  <2>1. \A p \in rollup'[d] : p[1] < dbClock /\ p[1] < hour
    BY <1>0, <1>1, <1>3, <1>4, <1>6 DEF Placed
  <2>2. \A e \in 0 .. DayOf(MaxHour) : \A p \in rollup'[e] : p[1] < dbClock /\ p[1] < hour
    BY <1>0, <1>1, <1>6, <2>1 DEF Placed
  <2> QED BY <1>0, <1>1, <2>2 DEF Placed
<1>9. Unwritten' /\ Written' /\ Clean'
  BY <1>0, <1>1 DEF Unwritten, Written, Clean
<1>10. RolledUp'
  <2>1. ASSUME NEW g \in Hour, raw[g] # {}, NEW p \in rollup'[DayOf(g)], p[1] = g
        PROVE  p \in raw[g] \cup excused
    <3>1. CASE DayOf(g) = d
      <4>1. g \in DayFiles(d)
        BY <2>1, <3>1 DEF DayFiles
      <4>2. PICK h \in DayFiles(d) : p \in raw[h]
        BY <1>4, <1>6, <2>1, <3>1, <4>1
      <4>3. p[1] = h
        BY <1>0, <1>3, <4>2 DEF Placed
      <4> QED BY <2>1, <4>2, <4>3
    <3>2. CASE DayOf(g) # d
      BY <1>0, <1>2, <1>6, <2>1, <3>2 DEF RolledUp
    <3> QED BY <3>1, <3>2
  <2>2. ASSUME NEW g \in removing'
        PROVE  running /\ g < hour /\ raw[g] \subseteq rollup'[DayOf(g)]
    BY <1>1, <1>3, <1>4, <1>6, <2>2
  <2> QED BY <1>1, <2>1, <2>2 DEF RolledUp
<1>11. KeptIsStored'
  <2> SUFFICES ASSUME NEW p \in kept \ excused
               PROVE  p \in head \/ p \in raw[p[1]] \/ p \in rollup'[DayOf(p[1])]
    BY <1>1 DEF KeptIsStored
  <2>1. p[1] \in Hour /\ DayOf(p[1]) \in 0 .. DayOf(MaxHour)
    BY <1>0, <1>2, HourFacts DEF TsdbTypes
  <2>2. p \in head \/ p \in raw[p[1]] \/ p \in rollup[DayOf(p[1])]
    BY <1>0 DEF KeptIsStored
  <2>3. CASE p \in rollup[DayOf(p[1])] /\ DayOf(p[1]) = d /\ p[1] \in DayFiles(d)
    BY <1>0, <1>3, <2>1, <2>3 DEF RolledUp
  <2>4. CASE p \in rollup[DayOf(p[1])] /\ DayOf(p[1]) = d /\ p[1] \notin DayFiles(d)
    BY <1>4, <1>6, <2>4
  <2>5. CASE p \in rollup[DayOf(p[1])] /\ DayOf(p[1]) # d
    BY <1>6, <2>1, <2>5
  <2> QED BY <2>2, <2>3, <2>4, <2>5
<1> QED BY <1>7, <1>8, <1>9, <1>10, <1>11 DEF TsdbInv

LEMMA CompactRemoveKeeps ==
    ASSUME TsdbInv, NEW h \in Hour, CompactRemove(h)
    PROVE  TsdbInv'
<1>0. TsdbTypes /\ Placed /\ Unwritten /\ Written /\ Clean /\ RolledUp /\ KeptIsStored
  BY DEF TsdbInv
<1>1. /\ running /\ h \in removing /\ raw' = [raw EXCEPT ![h] = {}] /\ removing' = removing \ {h}
      /\ UNCHANGED <<dbClock, hour, head, headDirty, writing, rollup, running, kept, excused>>
  BY DEF CompactRemove
<1>2. h \in Nat /\ hour \in Nat /\ hour \in Hour /\ h < hour /\ raw[h] \subseteq rollup[DayOf(h)]
  BY <1>0, <1>1, HourFacts DEF RolledUp, TsdbTypes
<1>3. /\ raw' \in [Hour -> SUBSET Point] /\ raw'[h] = {} /\ h # hour
      /\ \A g \in Hour : g # h => raw'[g] = raw[g]
  BY <1>0, <1>1, <1>2 DEF TsdbTypes
<1>4. \A g \in Hour : raw'[g] \subseteq raw[g]
  BY <1>3
<1>5. TsdbTypes'
  BY <1>0, <1>1, <1>3 DEF TsdbTypes
<1>6. Placed' /\ Unwritten'
  BY <1>0, <1>1, <1>2, <1>4 DEF Placed, Unwritten
<1>7. Written'
  BY <1>0, <1>1, <1>4 DEF Written
<1>8. Clean'
  BY <1>0, <1>1, <1>2, <1>3 DEF Clean
<1>9. RolledUp'
  <2>1. \A g \in Hour : raw'[g] # {} => \A p \in rollup[DayOf(g)] : p[1] = g => p \in raw'[g] \cup excused
    BY <1>0, <1>3 DEF RolledUp
  <2>2. \A g \in removing' : running /\ g < hour /\ raw'[g] \subseteq rollup[DayOf(g)] /\ (writing # NoWrite => g < writing.at)
    BY <1>0, <1>1, <1>4 DEF RolledUp, TsdbTypes
  <2> QED BY <1>1, <2>1, <2>2 DEF RolledUp
<1>10. KeptIsStored'
  <2> SUFFICES ASSUME NEW p \in kept \ excused
               PROVE  p \in head \/ p \in raw'[p[1]] \/ p \in rollup[DayOf(p[1])]
    BY <1>1 DEF KeptIsStored
  <2>1. p[1] \in Hour
    BY <1>0, HourFacts DEF TsdbTypes
  <2>2. p \in head \/ p \in raw[p[1]] \/ p \in rollup[DayOf(p[1])]
    BY <1>0 DEF KeptIsStored
  <2> QED BY <1>2, <1>3, <2>1, <2>2
<1> QED BY <1>5, <1>6, <1>7, <1>8, <1>9, <1>10 DEF TsdbInv

LEMMA ExpireKeeps ==
    ASSUME TsdbInv, NEW d \in 0 .. DayOf(MaxHour), Expire(d)
    PROVE  TsdbInv'
<1>0. TsdbTypes /\ Placed /\ Unwritten /\ Written /\ Clean /\ RolledUp /\ KeptIsStored
  BY DEF TsdbInv
<1>1. /\ removing = {} /\ excused' = excused \cup rollup[d] /\ rollup' = [rollup EXCEPT ![d] = {}]
      /\ UNCHANGED <<dbClock, hour, head, headDirty, writing, raw, removing, running, kept>>
  BY DEF Expire
<1>2. /\ rollup' \in [0 .. DayOf(MaxHour) -> SUBSET Point] /\ rollup'[d] = {}
      /\ \A e \in 0 .. DayOf(MaxHour) : e # d => rollup'[e] = rollup[e]
  BY <1>0, <1>1 DEF TsdbTypes
<1>3. TsdbTypes'
  BY <1>0, <1>1, <1>2 DEF TsdbTypes
<1>4. Placed' /\ Unwritten'
  BY <1>0, <1>1, <1>2 DEF Placed, Unwritten
<1>5. Written'
  BY <1>0, <1>1, <1>2 DEF Written
<1>6. Clean'
  BY <1>0, <1>1 DEF Clean
<1>7. RolledUp'
  <2>1. \A g \in Hour : DayOf(g) \in 0 .. DayOf(MaxHour)
    BY HourFacts
  <2> QED BY <1>0, <1>1, <1>2, <2>1 DEF RolledUp
<1>8. KeptIsStored'
  <2> SUFFICES ASSUME NEW p \in kept \ excused'
               PROVE  (running /\ p \in head) \/ p \in raw[p[1]] \/ p \in rollup'[DayOf(p[1])]
    BY <1>1 DEF KeptIsStored
  <2>1. p[1] \in Hour /\ DayOf(p[1]) \in 0 .. DayOf(MaxHour) /\ p \notin rollup[d]
    BY <1>0, <1>1, HourFacts DEF TsdbTypes
  <2>2. (running /\ p \in head) \/ p \in raw[p[1]] \/ p \in rollup[DayOf(p[1])]
    BY <1>0, <1>1 DEF KeptIsStored
  <2> QED BY <1>2, <2>1, <2>2
<1> QED BY <1>3, <1>4, <1>5, <1>6, <1>7, <1>8 DEF TsdbInv

\* The clock, a stop, a crash and a start.
LEMMA ClosingKeeps ==
    ASSUME TsdbInv, HourPasses \/ CloseDB \/ CrashDB
    PROVE  TsdbInv'
<1>0. TsdbTypes /\ Placed /\ Unwritten /\ Written /\ Clean /\ RolledUp /\ KeptIsStored
  BY DEF TsdbInv
<1>00. hour \in Hour /\ hour \in Nat /\ dbClock \in Nat /\ \A h \in Hour : h \in Nat
  BY <1>0, HourFacts DEF TsdbTypes
<1>1. CASE HourPasses
  <2>1. /\ dbClock' = dbClock + 1 /\ dbClock < MaxHour
        /\ UNCHANGED <<hour, head, headDirty, writing, raw, rollup, removing, running, kept, excused>>
    BY <1>1 DEF HourPasses
  <2>2. dbClock' \in Hour
    BY <1>00, <2>1, HourFacts DEF Hour
  <2>3. TsdbTypes'
    BY <1>0, <2>1, <2>2 DEF TsdbTypes
  <2>4. \A d \in 0 .. DayOf(MaxHour) : \A p \in rollup[d] : p[1] < dbClock'
    <3> SUFFICES ASSUME NEW d \in 0 .. DayOf(MaxHour), NEW p \in rollup[d] PROVE p[1] < dbClock'
      OBVIOUS
    <3>1. p[1] \in Hour
      BY <1>0, HourFacts DEF TsdbTypes
    <3>2. p[1] < dbClock
      BY <1>0 DEF Placed
    <3>3. p[1] \in Nat /\ dbClock' = dbClock + 1
      BY <1>00, <2>1, <3>1
    <3> HIDE DEF Hour
    <3> QED BY <1>00, <3>2, <3>3
  <2>5. Placed'
    BY <1>0, <2>1, <2>4 DEF Placed
  <2> QED BY <1>0, <2>1, <2>3, <2>5 DEF TsdbInv, Unwritten, Written, Clean, RolledUp, KeptIsStored
<1>2. CASE CloseDB
  <2>1. /\ running /\ writing = NoWrite /\ removing = {} /\ ~running'
        /\ raw' = IF headDirty THEN [raw EXCEPT ![hour] = head] ELSE raw
        /\ UNCHANGED <<dbClock, hour, head, headDirty, writing, rollup, removing, kept, excused>>
    BY <1>2 DEF CloseDB
  <2>2. /\ raw' \in [Hour -> SUBSET Point] /\ \A g \in Hour : g # hour => raw'[g] = raw[g]
        /\ raw'[hour] = head \/ (raw' = raw /\ ~headDirty)
    BY <1>0, <1>00, <2>1 DEF TsdbTypes
  <2>3. /\ head \subseteq raw'[hour] /\ raw'[hour] \subseteq head \cup excused
        /\ \A p \in raw'[hour] : p[1] = hour
    <3>1. writing.at # hour
      BY <1>00, <2>1, HourFacts
    <3>2. ~headDirty => head \subseteq raw[hour]
      BY <1>0, <2>1, <3>1 DEF Clean
    <3> QED BY <1>0, <1>00, <2>1, <2>2, <3>2 DEF Unwritten, Placed
  <2>4. TsdbTypes'
    BY <1>0, <2>1, <2>2 DEF TsdbTypes
  <2>5. Placed'
    BY <1>0, <2>1, <2>2, <2>3 DEF Placed
  <2>6. Unwritten' /\ Written' /\ Clean'
    BY <2>1 DEF Unwritten, Written, Clean
  <2>7. RolledUp'
    <3>1. ASSUME NEW g \in Hour, raw'[g] # {}, NEW p \in rollup[DayOf(g)], p[1] = g
          PROVE  p \in raw'[g] \cup excused
      <4>1. DayOf(g) \in 0 .. DayOf(MaxHour)
        BY HourFacts
      <4>2. p[1] < hour
        BY <1>0, <2>1, <3>1, <4>1 DEF Placed
      <4>3. g # hour
        BY <1>00, <3>1, <4>2
      <4> QED BY <1>0, <2>2, <3>1, <4>3 DEF RolledUp
    <3> QED BY <2>1, <3>1 DEF RolledUp
  <2>8. KeptIsStored'
    <3> SUFFICES ASSUME NEW p \in kept \ excused
                 PROVE  p \in raw'[p[1]] \/ p \in rollup[DayOf(p[1])]
      BY <2>1 DEF KeptIsStored
    <3>1. p[1] \in Hour
      BY <1>0, HourFacts DEF TsdbTypes
    <3>2. p \in head \/ p \in raw[p[1]] \/ p \in rollup[DayOf(p[1])]
      BY <1>0 DEF KeptIsStored
    <3>3. CASE p \in head
      BY <1>0, <2>3, <3>3 DEF Placed
    <3>4. CASE p \in raw[p[1]] /\ p[1] = hour
      BY <1>0, <2>1, <2>3, <3>4 DEF Unwritten
    <3> QED BY <2>2, <3>1, <3>2, <3>3, <3>4
  <2> QED BY <2>4, <2>5, <2>6, <2>7, <2>8 DEF TsdbInv
<1>3. CASE CrashDB
  <2>1. /\ running /\ writing' = NoWrite /\ removing' = {} /\ ~running'
        /\ excused' = excused \cup (head \ raw[hour])
        /\ UNCHANGED <<dbClock, hour, head, headDirty, raw, rollup, kept>>
    BY <1>3 DEF CrashDB
  <2>2. TsdbTypes'
    BY <1>0, <2>1 DEF TsdbTypes
  <2>3. Placed'
    BY <1>0, <2>1, HourFacts DEF Placed
  <2>4. Unwritten' /\ Written' /\ Clean'
    BY <2>1 DEF Unwritten, Written, Clean
  <2>5. RolledUp'
    BY <1>0, <2>1 DEF RolledUp
  <2>6. KeptIsStored'
    <3> SUFFICES ASSUME NEW p \in kept \ excused'
                 PROVE  p \in raw[p[1]] \/ p \in rollup[DayOf(p[1])]
      BY <2>1 DEF KeptIsStored
    <3>1. p \in head \/ p \in raw[p[1]] \/ p \in rollup[DayOf(p[1])]
      BY <1>0, <2>1 DEF KeptIsStored
    <3>2. p \in head => p[1] = hour /\ p \in raw[hour]
      BY <1>0, <2>1 DEF Placed
    <3> QED BY <3>1, <3>2
  <2> QED BY <2>2, <2>3, <2>4, <2>5, <2>6 DEF TsdbInv
<1> QED BY <1>1, <1>2, <1>3

LEMMA OpenKeeps == ASSUME TsdbInv, OpenDB PROVE TsdbInv'
<1>0. TsdbTypes /\ Placed /\ Unwritten /\ Written /\ Clean /\ RolledUp /\ KeptIsStored
  BY DEF TsdbInv
<1>1. /\ ~running /\ running' /\ hour' = dbClock /\ head' = raw[dbClock] /\ ~headDirty'
      /\ excused' = excused \cup {p \in Raws(Hour) : p[1] > dbClock}
      /\ UNCHANGED <<dbClock, writing, raw, rollup, removing, kept>>
  BY DEF OpenDB
<1>2. dbClock \in Hour /\ writing = NoWrite /\ removing = {} /\ writing.at # dbClock
  BY <1>0, <1>1, HourFacts DEF TsdbTypes, Written, RolledUp
<1>3. TsdbTypes'
  BY <1>0, <1>1, <1>2 DEF TsdbTypes
<1>4. Placed'
  BY <1>0, <1>1, <1>2 DEF Placed
<1>5. Unwritten'
  <2>1. \A h \in Hour : h > dbClock => raw[h] \subseteq excused'
    BY <1>0, <1>1 DEF Placed, Raws
  <2> QED BY <1>1, <2>1 DEF Unwritten
<1>6. Written'
  BY <1>1, <1>2 DEF Written
<1>7. Clean'
  BY <1>1, <1>2 DEF Clean
<1>8. RolledUp'
  BY <1>0, <1>1, <1>2 DEF RolledUp
<1>9. KeptIsStored'
  BY <1>0, <1>1 DEF KeptIsStored
<1> QED BY <1>3, <1>4, <1>5, <1>6, <1>7, <1>8, <1>9 DEF TsdbInv

LEMMA TsdbStep == TsdbInv /\ [TsdbNext]_tsdbVars => TsdbInv'
<1> SUFFICES ASSUME TsdbInv, [TsdbNext]_tsdbVars PROVE TsdbInv'
  OBVIOUS
<1>1. CASE UNCHANGED tsdbVars
  BY <1>1 DEF tsdbVars, TsdbInv, TsdbTypes, Placed, Unwritten, Written, Clean, RolledUp, KeptIsStored
<1>2. CASE TsdbNext
  BY <1>2, AppendKeeps, RolloverKeeps, CheckpointKeeps, CompactKeeps, CompactRemoveKeeps, ExpireKeeps,
     ClosingKeeps, OpenKeeps DEF TsdbNext
<1> QED BY <1>1, <1>2

\* A sample Append has taken is in the head, its hour's file or its day's roll-up: for
\* every number of hours and samples, every length of a day and every retention, however
\* rollovers, checkpoints being written, compactions in parts, crashes and starts
\* interleave, but for the samples the property names.
THEOREM SamplesAreKept == TsdbSpec => []KeptIsStored
<1>1. TsdbInv => KeptIsStored
  BY DEF TsdbInv
<1> QED BY <1>1, TsdbInitInv, TsdbStep, PTL DEF TsdbSpec

-----------------------------------------------------------------------------
(* The log lines.                                                          *)

LogLine == (Nat \ {0}) \X LogDays
LogFile == (SUBSET LogLine) \cup {Missing}
PackerRec == [at : {"rest", "glob", "copy", "rename", "remove"}, but : 0 .. LastDay, todo : SUBSET LogDays]
AtWork(k) == packer[k] # PackerIdle

SyslogTypes ==
    /\ today \in LogDays /\ logDay \in LogDays \cup {0}
    /\ plain \in [LogDays -> LogFile] /\ packed \in [LogDays -> LogFile] /\ scratch \in [LogDays -> LogFile]
    /\ buffer \subseteq LogLine /\ written \subseteq LogLine
    /\ packer \in [Packer -> PackerRec]
    /\ \A k \in Packer : /\ packer[k].at = "rest" <=> ~AtWork(k)
                         /\ packer[k].at \in {"rename", "remove"} => packer[k].todo # {}
    /\ attached /\ logDay # 0 => plain[logDay] # Missing

\* No day after d has a file.
NoneAfter(d) == \A e \in LogDays : e > d => plain[e] = Missing /\ packed[e] = Missing

\* The day that is written is the last one with a file; its file is gone only after the
\* retention.
WriterIsLast == logDay # 0 => NoneAfter(logDay) /\ (~attached => ~Retained(logDay))

\* One compressor is at work at most.  It leaves the day alone that is written, and all
\* it takes are earlier; what it has copied, or renamed, is what the day's file has.
PackersWork ==
    /\ \A j, k \in Packer : AtWork(j) /\ AtWork(k) => j = k
    /\ \A k \in Packer : AtWork(k) =>
          /\ packer[k].but \in LogDays /\ logDay \in {0, packer[k].but} /\ NoneAfter(packer[k].but)
          /\ Retained(packer[k].but) => plain[packer[k].but] # Missing
          /\ \A d \in packer[k].todo : d < packer[k].but
          /\ packer[k].at = "rename" /\ Retained(NextOf(k))
                => plain[NextOf(k)] # Missing /\ scratch[NextOf(k)] = plain[NextOf(k)]
          /\ packer[k].at = "remove" /\ Retained(NextOf(k))
                => plain[NextOf(k)] # Missing /\ packed[NextOf(k)] = plain[NextOf(k)]

\* A compressed day is never the last one with a file, so it is not written again.
PackedIsOver ==
    \A d \in LogDays : Retained(d) /\ packed[d] # Missing
        => \E e \in LogDays : e > d /\ (plain[e] # Missing \/ packed[e] # Missing)

LinesFound == \A line \in written : Retained(line[2]) => line \in Search(line[2])

FilesInv == WriterIsLast /\ PackersWork /\ PackedIsOver /\ LinesFound

SyslogInv == SyslogTypes /\ (~crossed => FilesInv)

LEMMA LogFileFacts ==
    /\ LastDay \in Nat /\ \A d \in LogDays : d \in Nat /\ d # 0
    /\ \A S : S \subseteq LogLine => S \in LogFile /\ S # Missing
    /\ \A f \in LogFile : f # Missing => f \subseteq LogLine
    /\ Missing \in LogFile
    /\ \A line \in LogLine : line[2] \in LogDays
<1>1. LastDay \in Nat
  BY SyslogAssumption
<1>2. \A d \in LogDays : d \in Nat /\ d # 0
  BY <1>1 DEF LogDays
<1>3. <<0, 0>> \notin LogLine /\ \A line \in LogLine : line[2] \in LogDays
  BY DEF LogLine
<1>4. \A S : S \subseteq LogLine => S # Missing
  BY <1>3 DEF Missing
<1>5. \A S : S \subseteq LogLine => S \in LogFile
  BY DEF LogFile
<1>6. \A f \in LogFile : f # Missing => f \subseteq LogLine
  BY DEF LogFile
<1>7. Missing \in LogFile
  BY DEF LogFile
<1> QED BY <1>1, <1>2, <1>3, <1>4, <1>5, <1>6, <1>7

\* The days a compressor has before it have a first one.
LEMMA NextOfThere ==
    ASSUME SyslogTypes, NEW k \in Packer, packer[k].todo # {}
    PROVE  NextOf(k) \in packer[k].todo /\ NextOf(k) \in LogDays
<1> DEFINE T == packer[k].todo
<1> DEFINE R == OpToRel(<, Nat)
<1>1. T \subseteq LogDays /\ T \subseteq Nat /\ T # {}
  BY LogFileFacts DEF SyslogTypes, PackerRec
<1>2. IsWellFoundedOn(R, Nat)
  BY NatLessThanWellFounded
<1>3. \A x, y \in Nat : <<x, y>> \in R <=> x < y
  BY DEF OpToRel
<1> HIDE DEF R, T
<1>4. PICK d \in T : \A e \in T : ~(<<e, d>> \in R)
  BY <1>1, <1>2, WFMin
<1>5. \A e \in T : d <= e
  <2> SUFFICES ASSUME NEW e \in T PROVE d <= e
    OBVIOUS
  <2>1. d \in Nat /\ e \in Nat
    BY <1>1
  <2>2. ~(e < d)
    BY <1>3, <1>4, <2>1
  <2> QED BY <2>1, <2>2
<1>6. (CHOOSE x \in T : \A e \in T : x <= e) \in T
  BY <1>4, <1>5
<1>7. NextOf(k) \in T
  BY <1>6 DEF NextOf, T
<1> QED BY <1>1, <1>7 DEF T

\* What flushing the buffer does to the files.
LEMMA FlushFacts ==
    ASSUME SyslogTypes
    PROVE  /\ AfterFlush \in [LogDays -> LogFile]
           /\ \A d \in LogDays : AfterFlush[d] = IF d = logDay /\ attached THEN plain[d] \cup buffer ELSE plain[d]
           /\ \A d \in LogDays : AfterFlush[d] = Missing <=> plain[d] = Missing
<1>0. /\ plain \in [LogDays -> LogFile] /\ logDay \in LogDays \cup {0} /\ 0 \notin LogDays
      /\ buffer \subseteq LogLine /\ (attached /\ logDay # 0 => plain[logDay] # Missing)
  BY LogFileFacts DEF SyslogTypes
<1>1. CASE logDay # 0 /\ attached
  <2>1. plain[logDay] \subseteq LogLine /\ plain[logDay] \cup buffer \subseteq LogLine
    BY <1>0, <1>1, LogFileFacts
  <2>2. plain[logDay] \cup buffer \in LogFile /\ plain[logDay] \cup buffer # Missing /\ plain[logDay] # Missing
    BY <2>1, LogFileFacts
  <2>3. AfterFlush = [plain EXCEPT ![logDay] = plain[logDay] \cup buffer]
    BY <1>0, <1>1 DEF AfterFlush
  <2> QED BY <1>0, <1>1, <2>2, <2>3
<1>2. CASE ~(logDay # 0 /\ attached)
  <2>1. AfterFlush = plain
    BY <1>2 DEF AfterFlush
  <2> QED BY <1>0, <1>2, <2>1
<1> QED BY <1>1, <1>2

LEMMA SyslogInitInv == SyslogInit => SyslogInv
<1> SUFFICES ASSUME SyslogInit PROVE SyslogInv
  OBVIOUS
<1>1. /\ today = 1 /\ logDay = 0 /\ buffer = {} /\ written = {} /\ packer = [k \in Packer |-> PackerIdle]
      /\ plain = [d \in LogDays |-> Missing] /\ packed = plain /\ scratch = plain
  BY DEF SyslogInit
<1>2. 1 \in LogDays
  BY SyslogAssumption DEF LogDays
<1>3. PackerIdle \in PackerRec /\ PackerIdle.at = "rest"
  BY SyslogAssumption DEF PackerIdle, PackerRec
<1>4. plain \in [LogDays -> LogFile]
  BY <1>1, LogFileFacts
<1>5. SyslogTypes
  BY <1>1, <1>2, <1>3, <1>4 DEF SyslogTypes, AtWork
<1>6. FilesInv
  BY <1>1 DEF FilesInv, WriterIsLast, PackersWork, PackedIsOver, LinesFound, AtWork
<1> QED BY <1>5, <1>6 DEF SyslogInv

\* The invariant is about the files, the writer and the day.
LEMMA FilesUnchanged ==
    ASSUME SyslogInv, UNCHANGED <<fileVars, today>>
    PROVE  SyslogInv'
<1>0. UNCHANGED <<plain, packed, scratch, logDay, attached, buffer, packer, written, crossed, today>>
  BY DEF fileVars
<1>1. SyslogTypes'
  BY <1>0 DEF SyslogInv, SyslogTypes, AtWork
<1>2. \A d : /\ Retained(d)' <=> Retained(d)
             /\ NoneAfter(d)' <=> NoneAfter(d)
             /\ Search(d)' = Search(d)
  BY <1>0 DEF Retained, NoneAfter, Search, AfterFlush
<1>3. ASSUME FilesInv PROVE FilesInv'
  <2>1. WriterIsLast'
    BY <1>0, <1>2, <1>3 DEF FilesInv, WriterIsLast, NoneAfter, Retained
  <2>2. PackersWork'
    BY <1>0, <1>3 DEF FilesInv, PackersWork, NoneAfter, Retained, AtWork, NextOf
  <2>3. PackedIsOver'
    BY <1>0, <1>3 DEF FilesInv, PackedIsOver, Retained
  <2>4. LinesFound'
    BY <1>0, <1>2, <1>3 DEF FilesInv, LinesFound, Retained, Search, AfterFlush
  <2> QED BY <2>1, <2>2, <2>3, <2>4 DEF FilesInv
<1> QED BY <1>0, <1>1, <1>3 DEF SyslogInv

\* Flushing, with the file left open or closed: the days keep their files, and a
\* compressor that is at work is not disturbed.
LEMMA FlushLogKeeps ==
    ASSUME SyslogInv, plain' = AfterFlush, buffer' = {}, logDay' \in {0, logDay},
           logDay' # 0 => (attached' <=> attached),
           UNCHANGED <<today, packed, scratch, packer, written, crossed>>
    PROVE  SyslogInv'
<1>0. SyslogTypes /\ 0 \notin LogDays
  BY LogFileFacts DEF SyslogInv
<1>1. /\ plain' \in [LogDays -> LogFile]
      /\ \A d \in LogDays : plain'[d] = IF d = logDay /\ attached THEN plain[d] \cup buffer ELSE plain[d]
      /\ \A d \in LogDays : plain'[d] = Missing <=> plain[d] = Missing
  BY <1>0, FlushFacts
<1>2. logDay' \in LogDays \cup {0} /\ logDay \in LogDays \cup {0}
  BY <1>0 DEF SyslogTypes
<1>3. SyslogTypes'
  <2>1. attached' /\ logDay' # 0 => plain'[logDay'] # Missing
    BY <1>0, <1>1, <1>2 DEF SyslogTypes
  <2> QED BY <1>0, <1>1, <1>2, <2>1 DEF SyslogTypes, AtWork
<1>4. ASSUME FilesInv PROVE FilesInv'
  <2>0. WriterIsLast /\ PackersWork /\ PackedIsOver /\ LinesFound
    BY <1>4 DEF FilesInv
  <2>1. \A d : NoneAfter(d) => NoneAfter(d)'
    BY <1>1 DEF NoneAfter
  <2>2. \A d : Retained(d)' <=> Retained(d)
    BY DEF Retained
  <2>3. WriterIsLast'
    BY <2>0, <2>1, <2>2 DEF WriterIsLast
  <2>4. PackersWork'
    <3>1. ASSUME NEW k \in Packer, AtWork(k)
          PROVE  /\ packer[k].but \in LogDays /\ logDay' \in {0, packer[k].but} /\ NoneAfter(packer[k].but)'
                 /\ Retained(packer[k].but) => plain'[packer[k].but] # Missing
                 /\ \A d \in packer[k].todo : d < packer[k].but
      BY <1>1, <2>0, <2>1, <3>1 DEF PackersWork
    <3>2. ASSUME NEW k \in Packer, AtWork(k), packer[k].at \in {"rename", "remove"}
          PROVE  plain'[NextOf(k)] = plain[NextOf(k)]
      <4>1. NextOf(k) \in packer[k].todo /\ NextOf(k) \in LogDays
        BY <1>0, <3>2, NextOfThere DEF SyslogTypes
      <4>2. NextOf(k) < packer[k].but /\ logDay \in {0, packer[k].but} /\ packer[k].but \in LogDays
        BY <2>0, <3>2, <4>1 DEF PackersWork
      <4>3. NextOf(k) # logDay
        BY <1>0, <4>1, <4>2, LogFileFacts
      <4> QED BY <1>1, <4>1, <4>3
    <3>3. \A k \in Packer : NextOf(k)' = NextOf(k) /\ (AtWork(k)' <=> AtWork(k))
      BY DEF NextOf, AtWork
    <3> QED BY <2>0, <2>2, <3>1, <3>2, <3>3 DEF PackersWork
  <2>5. PackedIsOver'
    BY <1>1, <2>0, <2>2 DEF PackedIsOver
  <2>6. LinesFound'
    <3> SUFFICES ASSUME NEW line \in written, Retained(line[2]) PROVE line \in Search(line[2])'
      BY <2>2 DEF LinesFound
    <3> DEFINE d == line[2]
    <3>1. d \in LogDays /\ line \in Search(d)
      BY <1>0, <2>0, LogFileFacts DEF SyslogTypes, LinesFound
    <3>2. AfterFlush' [d] = plain'[d]
      BY <1>1, <1>2, <3>1 DEF AfterFlush
    <3>3. plain'[d] = AfterFlush[d]
      OBVIOUS
    <3> HIDE DEF d
    <3>4. Search(d)' = Search(d)
      BY <3>2, <3>3 DEF Search
    <3> QED BY <3>1, <3>4 DEF d
  <2> QED BY <2>3, <2>4, <2>5, <2>6 DEF FilesInv
<1> QED BY <1>3, <1>4 DEF SyslogInv

\* A stop or a crash: no file is open any more and no compressor is at work.
LEMMA StopKeeps ==
    ASSUME SyslogInv, Begins, UNCHANGED <<today, packed, scratch, crossed>>,
           \/ plain' = AfterFlush /\ written' = written
           \/ plain' = plain /\ written' = written \ buffer
    PROVE  SyslogInv'
<1>0. SyslogTypes /\ 0 \notin LogDays
  BY LogFileFacts DEF SyslogInv
<1>1. /\ packer' = [k \in Packer |-> PackerIdle] /\ logDay' = 0 /\ attached' /\ buffer' = {}
  BY DEF Begins
<1>2. /\ plain' \in [LogDays -> LogFile]
      /\ \A d \in LogDays : plain'[d] = Missing <=> plain[d] = Missing
  BY <1>0, FlushFacts DEF SyslogTypes
<1>3. PackerIdle \in PackerRec /\ PackerIdle.at = "rest"
  BY SyslogAssumption DEF PackerIdle, PackerRec
<1>4. written' \subseteq written
  OBVIOUS
<1>5. SyslogTypes'
  BY <1>0, <1>1, <1>2, <1>3, <1>4 DEF SyslogTypes, AtWork
<1>6. ASSUME FilesInv PROVE FilesInv'
  <2>0. PackedIsOver /\ LinesFound
    BY <1>6 DEF FilesInv
  <2>1. WriterIsLast' /\ PackersWork'
    BY <1>1 DEF WriterIsLast, PackersWork, AtWork
  <2>2. \A d : Retained(d)' <=> Retained(d)
    BY DEF Retained
  <2>3. PackedIsOver'
    BY <1>2, <2>0, <2>2 DEF PackedIsOver
  <2>4. LinesFound'
    <3> SUFFICES ASSUME NEW line \in written', Retained(line[2]) PROVE line \in Search(line[2])'
      BY <2>2 DEF LinesFound
    <3> DEFINE d == line[2]
    <3>1. d \in LogDays /\ line \in Search(d)
      BY <1>0, <1>4, <2>0, LogFileFacts DEF SyslogTypes, LinesFound
    <3>2. AfterFlush'[d] = plain'[d]
      BY <1>1 DEF AfterFlush
    <3> HIDE DEF d
    <3>3. CASE plain' = AfterFlush
      <4>1. Search(d)' = Search(d)
        BY <3>2, <3>3 DEF Search
      <4> QED BY <3>1, <4>1 DEF d
    <3>4. CASE plain' = plain /\ written' = written \ buffer
      <4>1. line \notin buffer
        BY <3>4
      <4>2. AfterFlush[d] = IF d = logDay /\ attached THEN plain[d] \cup buffer ELSE plain[d]
        BY <1>0, <3>1, FlushFacts
      <4>3. AfterFlush[d] = Missing <=> plain[d] = Missing
        BY <1>0, <3>1, FlushFacts
      <4>4. CASE plain[d] # Missing
        <5>1. line \in AfterFlush[d]
          BY <3>1, <4>3, <4>4 DEF Search
        <5>2. line \in plain[d]
          BY <4>1, <4>2, <5>1
        <5> QED BY <3>2, <3>4, <4>4, <5>2 DEF Search, d
      <4>5. CASE plain[d] = Missing
        BY <3>1, <3>2, <3>4, <4>3, <4>5 DEF Search, d
      <4> QED BY <4>4, <4>5
    <3> QED BY <3>3, <3>4
  <2> QED BY <2>1, <2>3, <2>4 DEF FilesInv
<1> QED BY <1>5, <1>6 DEF SyslogInv

\* The day passes while nothing is compressed, and a day that is retained tomorrow is
\* retained today.
LEMMA NextDayKeeps == ASSUME SyslogInv, NextDay PROVE SyslogInv'
<1>0. SyslogTypes
  BY DEF SyslogInv
<1>1. /\ today < LastDay /\ today' = today + 1 /\ \A k \in Packer : ~AtWork(k)
      /\ UNCHANGED <<plain, packed, scratch, logDay, attached, buffer, packer, written, crossed>>
  BY DEF NextDay, fileVars, AtWork
<1>2. today \in Nat /\ today' \in LogDays
  BY <1>0, <1>1, LogFileFacts DEF SyslogTypes, LogDays
<1>3. SyslogTypes'
  BY <1>0, <1>1, <1>2 DEF SyslogTypes, AtWork
<1>4. \A d \in LogDays : Retained(d)' => Retained(d)
  <2> SUFFICES ASSUME NEW d \in LogDays, today' - d <= KeepDays PROVE today - d <= KeepDays
    BY DEF Retained
  <2>1. d \in Nat /\ KeepDays \in Nat
    BY LogFileFacts, SyslogAssumption
  <2> QED BY <1>1, <1>2, <2>1
<1>5. ASSUME FilesInv PROVE FilesInv'
  <2>1. WriterIsLast'
    <3> SUFFICES ASSUME logDay # 0 PROVE NoneAfter(logDay)' /\ (~attached => ~Retained(logDay)')
      BY <1>1 DEF WriterIsLast, Retained, NoneAfter
    <3>1. logDay \in LogDays /\ NoneAfter(logDay) /\ (~attached => ~Retained(logDay))
      BY <1>0, <1>5 DEF FilesInv, WriterIsLast, SyslogTypes
    <3> QED BY <1>1, <1>4, <3>1 DEF NoneAfter
  <2>2. PackersWork'
    BY <1>1 DEF PackersWork, AtWork
  <2>3. PackedIsOver'
    BY <1>1, <1>4, <1>5 DEF FilesInv, PackedIsOver
  <2>4. LinesFound'
    <3>1. \A line \in written : line[2] \in LogDays
      BY <1>0, LogFileFacts DEF SyslogTypes
    <3>2. \A d : Search(d)' = Search(d)
      BY <1>1 DEF Search, AfterFlush
    <3> QED BY <1>1, <1>4, <1>5, <3>1, <3>2 DEF FilesInv, LinesFound
  <2> QED BY <2>1, <2>2, <2>3, <2>4 DEF FilesInv
<1> QED BY <1>1, <1>3, <1>5 DEF SyslogInv

\* Pruning takes whole days, the older ones first.
LEMMA PruneKeeps == ASSUME SyslogInv, Prune PROVE SyslogInv'
<1>0. SyslogTypes
  BY DEF SyslogInv
<1>1. /\ plain' = [d \in LogDays |-> IF Retained(d) THEN plain[d] ELSE Missing]
      /\ packed' = [d \in LogDays |-> IF Retained(d) THEN packed[d] ELSE Missing]
      /\ scratch' = [d \in LogDays |-> IF Retained(d) THEN scratch[d] ELSE Missing]
      /\ attached' <=> attached /\ (logDay # 0 => Retained(logDay))
      /\ UNCHANGED <<today, logDay, buffer, packer, written, crossed>>
  BY DEF Prune, packVars
<1>2. SyslogTypes'
  BY <1>0, <1>1, LogFileFacts DEF SyslogTypes, AtWork
<1>3. \A d : Retained(d)' <=> Retained(d)
  BY <1>1 DEF Retained
<1>4. \A d, e \in LogDays : e > d /\ Retained(d) => Retained(e)
  <2> SUFFICES ASSUME NEW d \in LogDays, NEW e \in LogDays, e > d, today - d <= KeepDays PROVE today - e <= KeepDays
    BY DEF Retained
  <2>1. d \in Nat /\ e \in Nat /\ today \in Nat /\ KeepDays \in Nat
    BY <1>0, LogFileFacts, SyslogAssumption DEF SyslogTypes
  <2> QED BY <2>1
<1>5. ASSUME FilesInv PROVE FilesInv'
  <2>0. WriterIsLast /\ PackersWork /\ PackedIsOver /\ LinesFound
    BY <1>5 DEF FilesInv
  <2>1. \A d : NoneAfter(d) => NoneAfter(d)'
    BY <1>1 DEF NoneAfter
  <2>2. WriterIsLast'
    BY <1>1, <1>3, <2>0, <2>1 DEF WriterIsLast
  <2>3. PackersWork'
    <3>1. \A k \in Packer : NextOf(k)' = NextOf(k) /\ (AtWork(k)' <=> AtWork(k))
      BY <1>1 DEF NextOf, AtWork
    <3>2. ASSUME NEW k \in Packer, AtWork(k), packer[k].at \in {"rename", "remove"}, Retained(NextOf(k))
          PROVE  /\ plain'[NextOf(k)] = plain[NextOf(k)] /\ packed'[NextOf(k)] = packed[NextOf(k)]
                 /\ scratch'[NextOf(k)] = scratch[NextOf(k)]
      <4>1. NextOf(k) \in LogDays
        BY <1>0, <3>2, NextOfThere DEF SyslogTypes
      <4> QED BY <1>1, <3>2, <4>1
    <3>3. ASSUME NEW k \in Packer, AtWork(k)
          PROVE  /\ packer[k].but \in LogDays /\ logDay \in {0, packer[k].but} /\ NoneAfter(packer[k].but)'
                 /\ Retained(packer[k].but) => plain'[packer[k].but] # Missing
                 /\ \A d \in packer[k].todo : d < packer[k].but
      BY <1>1, <2>0, <2>1, <3>3 DEF PackersWork
    <3> QED BY <1>1, <1>3, <2>0, <3>1, <3>2, <3>3 DEF PackersWork
  <2>4. PackedIsOver'
    <3> SUFFICES ASSUME NEW d \in LogDays, Retained(d), packed'[d] # Missing
                 PROVE  \E e \in LogDays : e > d /\ (plain'[e] # Missing \/ packed'[e] # Missing)
      BY <1>3 DEF PackedIsOver
    <3>1. PICK e \in LogDays : e > d /\ (plain[e] # Missing \/ packed[e] # Missing)
      BY <1>1, <2>0 DEF PackedIsOver
    <3>2. Retained(e)
      BY <1>4, <3>1
    <3> QED BY <1>1, <3>1, <3>2
  <2>5. LinesFound'
    <3> SUFFICES ASSUME NEW line \in written, Retained(line[2]) PROVE line \in Search(line[2])'
      BY <1>1, <1>3 DEF LinesFound
    <3> DEFINE d == line[2]
    <3>1. d \in LogDays /\ line \in Search(d) /\ Retained(d)
      BY <1>0, <2>0, LogFileFacts DEF SyslogTypes, LinesFound
    <3> HIDE DEF d
    <3>2. /\ AfterFlush[d] = IF d = logDay /\ attached THEN plain[d] \cup buffer ELSE plain[d]
          /\ AfterFlush'[d] = IF d = logDay' /\ attached' THEN plain'[d] \cup buffer' ELSE plain'[d]
      <4>1. SyslogTypes' => AfterFlush'[d] = IF d = logDay' /\ attached' THEN plain'[d] \cup buffer' ELSE plain'[d]
        <5>1. plain' \in [LogDays -> LogFile] /\ 0 \notin LogDays
          BY <1>2, LogFileFacts DEF SyslogTypes
        <5> QED BY <3>1, <5>1 DEF AfterFlush
      <4> QED BY <1>0, <1>2, <3>1, <4>1, FlushFacts
    <3>3. plain'[d] = plain[d] /\ packed'[d] = packed[d] /\ (d = logDay => (attached' <=> attached))
      BY <1>1, <3>1, LogFileFacts
    <3>4. AfterFlush'[d] = AfterFlush[d]
      BY <1>1, <3>2, <3>3
    <3>5. Search(d)' = Search(d)
      BY <3>3, <3>4 DEF Search
    <3> QED BY <3>1, <3>5 DEF d
  <2> QED BY <2>2, <2>3, <2>4, <2>5 DEF FilesInv
<1> QED BY <1>1, <1>2, <1>5 DEF SyslogInv

LEMMA GlobKeeps == ASSUME SyslogInv, NEW k \in Packer, Glob(k) \/ PackEnds(k) PROVE SyslogInv'
<1>0. SyslogTypes
  BY DEF SyslogInv
<1>1. /\ UNCHANGED <<today, plain, packed, scratch, logDay, attached, buffer, written, crossed>>
      /\ packer[k].at \in {"glob", "copy"}
  BY DEF Glob, PackEnds, packVars
<1>2. /\ packer'[k].at \in {"rest", "copy"} /\ packer' \in [Packer -> PackerRec]
      /\ (packer'[k].at = "rest" <=> packer'[k] = PackerIdle)
      /\ packer'[k] = PackerIdle \/ packer'[k] = [at |-> "copy", but |-> packer[k].but, todo |-> ToPack(k)]
      /\ \A j \in Packer : j # k => packer'[j] = packer[j]
  <2>1. CASE Glob(k)
    <3> DEFINE new == [at |-> "copy", but |-> packer[k].but, todo |-> ToPack(k)]
    <3>1. packer' = [packer EXCEPT ![k] = new]
      BY <2>1 DEF Glob, Packs
    <3>2. new \in PackerRec /\ new.at = "copy" /\ new # PackerIdle
      <4>1. new.at # PackerIdle.at
        BY DEF PackerIdle
      <4> QED BY <1>0, <4>1 DEF SyslogTypes, PackerRec, ToPack
    <3> HIDE DEF new
    <3>3. packer'[k] = new /\ packer' \in [Packer -> PackerRec] /\ \A j \in Packer : j # k => packer'[j] = packer[j]
      BY <1>0, <3>1, <3>2 DEF SyslogTypes
    <3> QED BY <3>2, <3>3 DEF new
  <2>2. CASE PackEnds(k)
    <3>1. packer' = [packer EXCEPT ![k] = PackerIdle]
      BY <2>2 DEF PackEnds
    <3>2. PackerIdle \in PackerRec /\ PackerIdle.at = "rest"
      BY SyslogAssumption DEF PackerIdle, PackerRec
    <3> QED BY <1>0, <3>1, <3>2 DEF SyslogTypes
  <2> QED BY <2>1, <2>2
<1>3. AtWork(k)
  BY <1>0, <1>1 DEF SyslogTypes
<1>4. SyslogTypes'
  BY <1>0, <1>1, <1>2 DEF SyslogTypes, AtWork
<1>5. ASSUME FilesInv PROVE FilesInv'
  <2>0. WriterIsLast /\ PackersWork /\ PackedIsOver /\ LinesFound
    BY <1>5 DEF FilesInv
  <2>1. /\ \A d : Retained(d)' <=> Retained(d)
        /\ \A d : NoneAfter(d)' <=> NoneAfter(d)
        /\ \A d : Search(d)' = Search(d)
    BY <1>1 DEF Retained, NoneAfter, Search, AfterFlush
  <2>2. WriterIsLast' /\ PackedIsOver' /\ LinesFound'
    BY <1>1, <2>0, <2>1 DEF WriterIsLast, PackedIsOver, LinesFound, NoneAfter, Retained
  <2>3. PackersWork'
    <3>1. \A j \in Packer : j # k => ~AtWork(j) /\ ~AtWork(j)'
      BY <1>2, <1>3, <2>0 DEF PackersWork, AtWork
    <3>2. ASSUME AtWork(k)'
          PROVE  /\ packer'[k].but = packer[k].but /\ packer'[k].at = "copy" /\ packer'[k].todo = ToPack(k)
      BY <1>2, <3>2 DEF AtWork
    <3>3. \A d \in ToPack(k) : d < packer[k].but
      <4> SUFFICES ASSUME NEW d \in ToPack(k) PROVE d < packer[k].but
        OBVIOUS
      <4>1. d \in LogDays /\ plain[d] # Missing /\ d # packer[k].but
        BY DEF ToPack
      <4>2. packer[k].but \in LogDays /\ NoneAfter(packer[k].but)
        BY <1>3, <2>0 DEF PackersWork
      <4>3. ~(d > packer[k].but)
        BY <4>1, <4>2 DEF NoneAfter
      <4> QED BY <4>1, <4>2, <4>3, LogFileFacts
    <3>4. /\ packer[k].but \in LogDays /\ logDay \in {0, packer[k].but} /\ NoneAfter(packer[k].but)
          /\ Retained(packer[k].but) => plain[packer[k].but] # Missing
      BY <1>3, <2>0 DEF PackersWork
    <3> QED BY <1>1, <2>1, <3>1, <3>2, <3>3, <3>4 DEF PackersWork, Retained, NoneAfter
  <2> QED BY <2>2, <2>3 DEF FilesInv
<1> QED BY <1>1, <1>4, <1>5 DEF SyslogInv

\* A later day is retained with an earlier one.
LEMMA LaterRetained ==
    ASSUME SyslogTypes, NEW d \in LogDays, NEW e \in LogDays, d < e, Retained(d)
    PROVE  Retained(e)
<1>1. d \in Nat /\ e \in Nat /\ today \in Nat /\ KeepDays \in Nat /\ today - d <= KeepDays
  BY LogFileFacts, SyslogAssumption DEF SyslogTypes, Retained
<1>2. today - e <= KeepDays
  BY <1>1
<1> QED BY <1>2 DEF Retained

\* What every step of a compressor at one of its days has in common: the other days'
\* files stay, and of its own day the same lines are found.
LEMMA PackKeeps ==
    ASSUME SyslogInv, NEW k \in Packer, AtWork(k), NEW d \in packer[k].todo,
           NEW new \in PackerRec, packer' = [packer EXCEPT ![k] = new],
           new.at \in {"copy", "rename", "remove"}, new.but = packer[k].but,
           new.todo \subseteq packer[k].todo, new.at # "copy" => new.todo # {},
           UNCHANGED <<today, logDay, buffer, written, crossed>>,
           plain' \in [LogDays -> LogFile], packed' \in [LogDays -> LogFile], scratch' \in [LogDays -> LogFile],
           \A e \in LogDays : e # d => plain'[e] = plain[e] /\ packed'[e] = packed[e],
           attached' <=> attached /\ (plain' = plain \/ logDay # d),
           FilesInv /\ Retained(d) =>
               \/ plain'[d] = plain[d] /\ (plain[d] # Missing \/ packed'[d] = packed[d])
               \/ plain[d] # Missing /\ plain'[d] = Missing /\ packed'[d] = plain[d],
           FilesInv /\ new.at = "rename" /\ Retained(NextOf(k)') =>
               plain'[NextOf(k)'] # Missing /\ scratch'[NextOf(k)'] = plain'[NextOf(k)'],
           FilesInv /\ new.at = "remove" /\ Retained(NextOf(k)') =>
               plain'[NextOf(k)'] # Missing /\ packed'[NextOf(k)'] = plain'[NextOf(k)']
    PROVE  SyslogInv'
<1>0. SyslogTypes /\ d \in LogDays /\ 0 \notin LogDays
  BY LogFileFacts DEF SyslogInv, SyslogTypes, PackerRec
<1>1. /\ packer' \in [Packer -> PackerRec] /\ packer'[k] = new /\ new # PackerIdle
      /\ \A j \in Packer : j # k => packer'[j] = packer[j]
  BY <1>0 DEF SyslogTypes, PackerIdle
<1>2. SyslogTypes'
  <2>1. attached' /\ logDay # 0 => plain'[logDay] # Missing
    BY <1>0 DEF SyslogTypes
  <2>2. \A j \in Packer : /\ packer'[j].at = "rest" <=> ~AtWork(j)'
                          /\ packer'[j].at \in {"rename", "remove"} => packer'[j].todo # {}
    <3>1. new.at # "rest"
      OBVIOUS
    <3>2. /\ packer'[k].at = "rest" <=> ~AtWork(k)'
          /\ packer'[k].at \in {"rename", "remove"} => packer'[k].todo # {}
      BY <1>1, <3>1 DEF AtWork
    <3> QED BY <1>0, <1>1, <3>2 DEF SyslogTypes, AtWork
  <2> QED BY <1>0, <1>1, <2>1, <2>2 DEF SyslogTypes
<1>3. \A g : Retained(g)' <=> Retained(g)
  BY DEF Retained
<1>4. ASSUME FilesInv PROVE FilesInv'
  <2>0. WriterIsLast /\ PackersWork /\ PackedIsOver /\ LinesFound
    BY <1>4 DEF FilesInv
  <2> DEFINE but == packer[k].but
  <2>1. /\ but \in LogDays /\ logDay \in {0, but} /\ NoneAfter(but) /\ (Retained(but) => plain[but] # Missing)
        /\ (\A e \in packer[k].todo : e < but) /\ d < but
    BY <2>0 DEF PackersWork
  <2>2. new.but = but /\ but # d /\ d # logDay /\ plain'[but] = plain[but]
    BY <1>0, <2>1, LogFileFacts
  <2> HIDE DEF but
  <2>3. \A g \in LogDays : g = but \/ g = logDay => (NoneAfter(g) => NoneAfter(g)')
    <3> SUFFICES ASSUME NEW g \in LogDays, g = but, NoneAfter(g) PROVE NoneAfter(g)'
      BY <1>0, <2>1
    <3> SUFFICES ASSUME NEW e \in LogDays, e > g PROVE plain'[e] = Missing /\ packed'[e] = Missing
      BY DEF NoneAfter
    <3>1. e # d
      BY <1>0, <2>1, LogFileFacts
    <3> QED BY <3>1 DEF NoneAfter
  <2>4. WriterIsLast'
    <3> SUFFICES ASSUME logDay # 0 PROVE NoneAfter(logDay)' /\ (~attached' => ~Retained(logDay))
      BY <1>3 DEF WriterIsLast, NoneAfter, Retained
    <3>1. logDay \in LogDays /\ NoneAfter(logDay) /\ (~attached => ~Retained(logDay))
      BY <1>0, <2>0 DEF WriterIsLast, SyslogTypes
    <3> QED BY <2>2, <2>3, <3>1
  <2>5. PackersWork'
    <3>1. \A j \in Packer : j # k => ~AtWork(j)'
      BY <1>1, <2>0 DEF PackersWork, AtWork
    <3>2. /\ packer'[k].but = but /\ packer'[k].at = new.at /\ packer'[k].todo = new.todo
          /\ NoneAfter(but)' /\ (Retained(but) => plain'[but] # Missing)
          /\ \A e \in new.todo : e < but
      BY <1>1, <2>1, <2>2, <2>3 DEF but
    <3>3. AtWork(k)' => /\ packer'[k].but \in LogDays /\ logDay \in {0, packer'[k].but} /\ NoneAfter(packer[k].but)'
                        /\ Retained(packer'[k].but) => plain'[packer'[k].but] # Missing
                        /\ \A e \in packer'[k].todo : e < packer'[k].but
                        /\ packer'[k].at = "rename" /\ Retained(NextOf(k)')
                              => plain'[NextOf(k)'] # Missing /\ scratch'[NextOf(k)'] = plain'[NextOf(k)']
                        /\ packer'[k].at = "remove" /\ Retained(NextOf(k)')
                              => plain'[NextOf(k)'] # Missing /\ packed'[NextOf(k)'] = plain'[NextOf(k)']
      BY <1>4, <2>1, <3>2 DEF but, NoneAfter
    <3> QED BY <1>3, <3>1, <3>2, <3>3 DEF PackersWork, NoneAfter, Retained
  <2>6. PackedIsOver'
    <3> SUFFICES ASSUME NEW g \in LogDays, Retained(g), packed'[g] # Missing
                 PROVE  \E e \in LogDays : e > g /\ (plain'[e] # Missing \/ packed'[e] # Missing)
      BY <1>3 DEF PackedIsOver
    <3>1. CASE g < but
      <4>1. plain'[but] # Missing
        BY <1>0, <2>1, <2>2, <3>1, LaterRetained
      <4>2. but > g
        BY <2>1, <3>1, LogFileFacts
      <4> QED BY <2>1, <4>1, <4>2
    <3>2. CASE ~(g < but)
      <4>1. g # d
        BY <2>1, <3>2
      <4>2. PICK e \in LogDays : e > g /\ (plain[e] # Missing \/ packed[e] # Missing)
        BY <2>0, <4>1 DEF PackedIsOver
      <4>3. e # d
        BY <2>1, <3>2, <4>2, <1>0, LogFileFacts
      <4> QED BY <4>2, <4>3
    <3> QED BY <3>1, <3>2
  <2>7. LinesFound'
    <3> SUFFICES ASSUME NEW line \in written, Retained(line[2]) PROVE line \in Search(line[2])'
      BY <1>3 DEF LinesFound
    <3> DEFINE g == line[2]
    <3>1. g \in LogDays /\ line \in Search(g) /\ Retained(g)
      BY <1>0, <2>0, LogFileFacts DEF SyslogTypes, LinesFound
    <3> HIDE DEF g
    <3>2. /\ AfterFlush[g] = IF g = logDay /\ attached THEN plain[g] \cup buffer ELSE plain[g]
          /\ AfterFlush'[g] = IF g = logDay /\ attached' THEN plain'[g] \cup buffer ELSE plain'[g]
      <4>1. AfterFlush'[g] = IF g = logDay' /\ attached' THEN plain'[g] \cup buffer' ELSE plain'[g]
        BY <1>0, <3>1 DEF AfterFlush
      <4> QED BY <1>0, <3>1, <4>1, FlushFacts
    <3>3. CASE g # d
      <4>1. AfterFlush'[g] = AfterFlush[g] /\ packed'[g] = packed[g]
        BY <2>2, <3>1, <3>2, <3>3
      <4>2. Search(g)' = Search(g)
        BY <4>1 DEF Search
      <4> QED BY <3>1, <4>2 DEF g
    <3>4. CASE g = d
      <4>1. AfterFlush[d] = plain[d] /\ AfterFlush'[d] = plain'[d]
        BY <2>2, <3>2, <3>4
      <4>2. CASE plain'[d] = plain[d] /\ (plain[d] # Missing \/ packed'[d] = packed[d])
        <5>1. Search(d)' = Search(d)
          BY <4>1, <4>2 DEF Search
        <5> QED BY <3>1, <3>4, <5>1 DEF g
      <4>3. CASE plain[d] # Missing /\ plain'[d] = Missing /\ packed'[d] = plain[d]
        <5>1. Search(d)' = Search(d)
          BY <4>1, <4>3 DEF Search
        <5> QED BY <3>1, <3>4, <5>1 DEF g
      <4> QED BY <1>4, <3>1, <3>4, <4>2, <4>3
    <3> QED BY <3>3, <3>4
  <2> QED BY <2>4, <2>5, <2>6, <2>7 DEF FilesInv
<1> QED BY <1>2, <1>4 DEF SyslogInv

\* Copying a day, renaming the copy, giving it up, and removing the day's plain file.
LEMMA PackerSteps ==
    ASSUME SyslogInv, NEW k \in Packer, PackCopy(k) \/ PackRename(k) \/ PackFails(k) \/ PackRemove(k)
    PROVE  SyslogInv'
<1> DEFINE d == NextOf(k)
<1>0. SyslogTypes
  BY DEF SyslogInv
<1>1. /\ UNCHANGED <<today, logDay, buffer, written, crossed>>
      /\ packer[k].at \in {"copy", "rename", "remove"} /\ packer[k].todo # {}
  BY <1>0 DEF PackCopy, PackRename, PackFails, PackRemove, packVars, SyslogTypes
<1>2. AtWork(k) /\ d \in packer[k].todo /\ d \in LogDays
  BY <1>0, <1>1, NextOfThere DEF SyslogTypes
<1>3. packer[k].but \in 0 .. LastDay /\ packer[k].todo \subseteq LogDays
  BY <1>0 DEF SyslogTypes, PackerRec
<1>4. \A e \in {"copy", "rename", "remove"} : \A T : T \subseteq LogDays =>
         [at |-> e, but |-> packer[k].but, todo |-> T] \in PackerRec
  BY <1>3 DEF PackerRec
<1>5. /\ plain \in [LogDays -> LogFile] /\ packed \in [LogDays -> LogFile] /\ scratch \in [LogDays -> LogFile]
      /\ packer \in [Packer -> PackerRec]
  BY <1>0 DEF SyslogTypes
<1>6. FilesInv => PackersWork /\ LinesFound
  BY DEF FilesInv
<1>7. ASSUME NEW at \in {"copy", "rename", "remove"}, NEW T, T \subseteq packer[k].todo, at # "copy" => T = packer[k].todo,
             Packs(k, at, T)
      PROVE  LET new == [at |-> at, but |-> packer[k].but, todo |-> T]
             IN  /\ packer' = [packer EXCEPT ![k] = new] /\ new \in PackerRec /\ new.at = at
                 /\ new.but = packer[k].but /\ new.todo = T /\ (at # "copy" => T # {} /\ NextOf(k)' = d)
  <2>1. T \subseteq LogDays /\ (at # "copy" => T # {})
    BY <1>1, <1>3, <1>7
  <2> DEFINE new == [at |-> at, but |-> packer[k].but, todo |-> T]
  <2>2. new \in PackerRec /\ new.at = at /\ new.but = packer[k].but /\ new.todo = T
    BY <1>4, <2>1
  <2>3. packer' = [packer EXCEPT ![k] = new]
    BY <1>7 DEF Packs
  <2> HIDE DEF new
  <2>4. packer'[k].todo = T
    BY <1>5, <2>2, <2>3
  <2>5. at # "copy" => NextOf(k)' = d
    BY <1>7, <2>4 DEF NextOf
  <2> QED BY <2>1, <2>2, <2>3, <2>5 DEF new
<1>8. CASE PackCopy(k) /\ plain[d] = Missing
  <2> DEFINE T == packer[k].todo \ {d}
             new == [at |-> "copy", but |-> packer[k].but, todo |-> T]
  <2>1. /\ Packs(k, "copy", T) /\ UNCHANGED <<scratch, plain, packed, attached>> /\ T \subseteq packer[k].todo
    BY <1>8 DEF PackCopy
  <2>2. packer' = [packer EXCEPT ![k] = new] /\ new \in PackerRec /\ new.at = "copy" /\ new.but = packer[k].but /\ new.todo = T
    BY <1>7, <2>1
  <2> HIDE DEF new, T, d
  <2>3. attached' <=> attached /\ (plain' = plain \/ logDay # d)
    BY <2>1
  <2>4. \A e \in LogDays : e # d => plain'[e] = plain[e] /\ packed'[e] = packed[e]
    BY <2>1
  <2>5. plain'[d] = plain[d] /\ packed'[d] = packed[d]
    BY <2>1
  <2>6. new.at # "rename" /\ new.at # "remove" /\ new.at \in {"copy", "rename", "remove"} /\ new.todo \subseteq packer[k].todo
    BY <2>1, <2>2
  <2>7. plain' \in [LogDays -> LogFile] /\ packed' \in [LogDays -> LogFile] /\ scratch' \in [LogDays -> LogFile]
    BY <1>5, <2>1
  <2> QED BY <1>1, <1>2, <2>2, <2>3, <2>4, <2>5, <2>6, <2>7, PackKeeps
<1>9. CASE PackCopy(k) /\ plain[d] # Missing
  <2> DEFINE new == [at |-> "rename", but |-> packer[k].but, todo |-> packer[k].todo]
  <2>1. /\ Packs(k, "rename", packer[k].todo) /\ scratch' = [scratch EXCEPT ![d] = plain[d]]
        /\ UNCHANGED <<plain, packed, attached>>
    BY <1>9 DEF PackCopy
  <2>2. /\ packer' = [packer EXCEPT ![k] = new] /\ new \in PackerRec /\ new.at = "rename" /\ new.but = packer[k].but
        /\ new.todo = packer[k].todo /\ NextOf(k)' = d
    BY <1>7, <2>1
  <2> HIDE DEF new, d
  <2>3. attached' <=> attached /\ (plain' = plain \/ logDay # d)
    BY <2>1
  <2>4. \A e \in LogDays : e # d => plain'[e] = plain[e] /\ packed'[e] = packed[e]
    BY <2>1
  <2>5. plain'[d] = plain[d] /\ packed'[d] = packed[d]
    BY <2>1
  <2>6. new.at # "remove" /\ new.at \in {"copy", "rename", "remove"} /\ new.todo \subseteq packer[k].todo /\ new.todo # {}
    BY <1>1, <2>2
  <2>7. plain' \in [LogDays -> LogFile] /\ packed' \in [LogDays -> LogFile] /\ scratch' \in [LogDays -> LogFile]
    BY <1>2, <1>5, <2>1
  <2>8. plain'[NextOf(k)'] # Missing /\ scratch'[NextOf(k)'] = plain'[NextOf(k)']
    BY <1>2, <1>5, <1>9, <2>1, <2>2
  <2> QED BY <1>1, <1>2, <2>2, <2>3, <2>4, <2>5, <2>6, <2>7, <2>8, PackKeeps
<1>10. CASE PackRename(k)
  <2> DEFINE new == [at |-> "remove", but |-> packer[k].but, todo |-> packer[k].todo]
  <2>1. /\ Packs(k, "remove", packer[k].todo) /\ packed' = [packed EXCEPT ![d] = scratch[d]]
        /\ scratch' = [scratch EXCEPT ![d] = Missing] /\ packer[k].at = "rename"
        /\ UNCHANGED <<plain, attached, today>>
    BY <1>10 DEF PackRename, packVars
  <2>2. /\ packer' = [packer EXCEPT ![k] = new] /\ new \in PackerRec /\ new.at = "remove" /\ new.but = packer[k].but
        /\ new.todo = packer[k].todo /\ NextOf(k)' = d
    BY <1>7, <2>1
  <2>0. FilesInv /\ Retained(d) => plain[d] # Missing /\ scratch[d] = plain[d]
    BY <1>2, <1>6, <2>1 DEF PackersWork
  <2>00. Retained(NextOf(k)') <=> Retained(d)
    BY <2>2
  <2> HIDE DEF new, d
  <2>3. attached' <=> attached /\ (plain' = plain \/ logDay # d)
    BY <2>1
  <2>4. \A e \in LogDays : e # d => plain'[e] = plain[e] /\ packed'[e] = packed[e]
    BY <1>5, <2>1
  <2>5. plain'[d] = plain[d] /\ (FilesInv /\ Retained(d) => plain[d] # Missing)
    BY <2>0, <2>1
  <2>6. new.at # "rename" /\ new.at \in {"copy", "rename", "remove"} /\ new.todo \subseteq packer[k].todo /\ new.todo # {}
    BY <1>1, <2>2
  <2>7. plain' \in [LogDays -> LogFile] /\ packed' \in [LogDays -> LogFile] /\ scratch' \in [LogDays -> LogFile]
    BY <1>2, <1>5, <2>1, LogFileFacts
  <2>8. FilesInv /\ Retained(NextOf(k)') => plain'[NextOf(k)'] # Missing /\ packed'[NextOf(k)'] = plain'[NextOf(k)']
    BY <1>2, <1>5, <2>0, <2>00, <2>1, <2>2
  <2> QED BY <1>1, <1>2, <2>2, <2>3, <2>4, <2>5, <2>6, <2>7, <2>8, PackKeeps
<1>11. CASE PackFails(k)
  <2> DEFINE T == packer[k].todo \ {d}
             new == [at |-> "copy", but |-> packer[k].but, todo |-> T]
  <2>1. /\ Packs(k, "copy", T) /\ scratch' = [scratch EXCEPT ![d] = Missing] /\ packer[k].at = "rename"
        /\ UNCHANGED <<plain, packed, attached>> /\ T \subseteq packer[k].todo
    BY <1>11 DEF PackFails
  <2>2. packer' = [packer EXCEPT ![k] = new] /\ new \in PackerRec /\ new.at = "copy" /\ new.but = packer[k].but /\ new.todo = T
    BY <1>7, <2>1
  <2> HIDE DEF new, T, d
  <2>3. attached' <=> attached /\ (plain' = plain \/ logDay # d)
    BY <2>1
  <2>4. \A e \in LogDays : e # d => plain'[e] = plain[e] /\ packed'[e] = packed[e]
    BY <2>1
  <2>5. plain'[d] = plain[d] /\ packed'[d] = packed[d]
    BY <2>1
  <2>6. new.at # "rename" /\ new.at # "remove" /\ new.at \in {"copy", "rename", "remove"} /\ new.todo \subseteq packer[k].todo
    BY <2>1, <2>2
  <2>7. plain' \in [LogDays -> LogFile] /\ packed' \in [LogDays -> LogFile] /\ scratch' \in [LogDays -> LogFile]
    BY <1>2, <1>5, <2>1, LogFileFacts
  <2> QED BY <1>1, <1>2, <2>2, <2>3, <2>4, <2>5, <2>6, <2>7, PackKeeps
<1>12. CASE PackRemove(k)
  <2> DEFINE T == packer[k].todo \ {d}
             new == [at |-> "copy", but |-> packer[k].but, todo |-> T]
  <2>1. /\ Packs(k, "copy", T) /\ plain' = [plain EXCEPT ![d] = Missing] /\ packer[k].at = "remove"
        /\ (attached' <=> attached /\ logDay # d)
        /\ UNCHANGED <<scratch, packed>> /\ T \subseteq packer[k].todo
    BY <1>12 DEF PackRemove
  <2>2. packer' = [packer EXCEPT ![k] = new] /\ new \in PackerRec /\ new.at = "copy" /\ new.but = packer[k].but /\ new.todo = T
    BY <1>7, <2>1
  <2>0. FilesInv /\ Retained(d) => plain[d] # Missing /\ packed[d] = plain[d]
    BY <1>2, <1>6, <2>1 DEF PackersWork
  <2> HIDE DEF new, T, d
  <2>3. attached' <=> attached /\ (plain' = plain \/ logDay # d)
    <3>1. ASSUME attached, logDay = d PROVE plain' # plain
      BY <1>0, <1>2, <1>5, <2>1, <3>1, LogFileFacts DEF SyslogTypes
    <3> QED BY <2>1, <3>1
  <2>4. \A e \in LogDays : e # d => plain'[e] = plain[e] /\ packed'[e] = packed[e]
    BY <1>5, <2>1
  <2>5. plain'[d] = Missing /\ (FilesInv /\ Retained(d) => plain[d] # Missing /\ packed'[d] = plain[d])
    BY <1>2, <1>5, <2>0, <2>1
  <2>6. new.at # "rename" /\ new.at # "remove" /\ new.at \in {"copy", "rename", "remove"} /\ new.todo \subseteq packer[k].todo
    BY <2>1, <2>2
  <2>7. plain' \in [LogDays -> LogFile] /\ packed' \in [LogDays -> LogFile] /\ scratch' \in [LogDays -> LogFile]
    BY <1>2, <1>5, <2>1, LogFileFacts
  <2> QED BY <1>1, <1>2, <2>2, <2>3, <2>4, <2>5, <2>6, <2>7, PackKeeps
<1> QED BY <1>8, <1>9, <1>10, <1>11, <1>12

\* The line that is stored has a number of its own.
LEMMA NewLineThere ==
    ASSUME SyslogTypes, NEW d \in LogDays, \A line \in written : line[1] < MaxLines
    PROVE  NewLine(d) \in LogLine /\ NewLine(d)[2] = d
<1> DEFINE T == {k \in Nat : \E x \in Numbers : k = MaxLines - x}
<1> DEFINE R == OpToRel(<, Nat)
<1>0. MaxLines \in Nat
  BY SyslogAssumption
<1>1. \A x \in Numbers : x \in Nat /\ x <= MaxLines
  <2> SUFFICES ASSUME NEW x \in Numbers PROVE x \in Nat /\ x <= MaxLines
    OBVIOUS
  <2>1. CASE x = 0
    BY <1>0, <2>1
  <2>2. CASE x # 0
    <3>1. PICK line \in written : x = line[1]
      BY <2>2 DEF Numbers
    <3>2. line[1] \in Nat /\ line[1] < MaxLines
      BY <3>1 DEF SyslogTypes, LogLine
    <3> QED BY <1>0, <3>1, <3>2
  <2> QED BY <2>1, <2>2
<1>2. T \subseteq Nat /\ MaxLines \in T
  <2>1. 0 \in Numbers /\ MaxLines - 0 = MaxLines
    BY <1>0 DEF Numbers
  <2> QED BY <1>0, <2>1
<1>3. IsWellFoundedOn(R, Nat)
  BY NatLessThanWellFounded
<1>4. \A x, y \in Nat : <<x, y>> \in R <=> x < y
  BY DEF OpToRel
<1> HIDE DEF R
<1>5. PICK k \in T : \A y \in T : ~(<<y, k>> \in R)
  <2> HIDE DEF T
  <2> QED BY <1>2, <1>3, WFMin
<1>6. PICK n \in Numbers : k = MaxLines - n
  BY <1>5
<1>7. \A m \in Numbers : m <= n
  <2> SUFFICES ASSUME NEW m \in Numbers, ~(m <= n) PROVE FALSE
    OBVIOUS
  <2>1. MaxLines - m \in Nat /\ k \in Nat /\ MaxLines - m < k
    BY <1>0, <1>1, <1>6
  <2>2. MaxLines - m \in T
    BY <2>1
  <2> QED BY <1>4, <1>5, <2>1, <2>2
<1> DEFINE c == CHOOSE x \in Numbers : \A m \in Numbers : m <= x
<1>8. c \in Numbers
  BY <1>7
<1>9. NewLine(d) = <<1 + c, d>>
  BY DEF NewLine
<1> HIDE DEF c
<1>10. 1 + c \in Nat \ {0}
  BY <1>1, <1>8
<1> QED BY <1>9, <1>10 DEF LogLine

\* What storing a line of the day d does to the files: whichever of the buffer and the
\* file it goes to, the day has what it had and the line; but a file whose name is gone
\* takes nothing.
LEMMA LogWritten ==
    ASSUME SyslogTypes, NEW h \in Handler, AppendLog(h)
    PROVE  LET d == handler[h]
               line == NewLine(d)
           IN  /\ d \in LogDays /\ line \in LogLine /\ line[2] = d
               /\ logDay' = d /\ written' = written \cup {line} /\ UNCHANGED <<today, packed, scratch>>
               /\ plain' \in [LogDays -> LogFile] /\ buffer' \subseteq LogLine
               /\ \A g \in LogDays : g # d => plain'[g] = AfterFlush[g]
               /\ attached' => /\ plain'[d] # Missing
                               /\ plain'[d] \cup buffer' = (IF AfterFlush[d] = Missing THEN {} ELSE AfterFlush[d]) \cup {line}
               /\ ~attached' => ~attached /\ SameDay(d) /\ plain' = plain
<1> DEFINE d == handler[h]
           line == NewLine(d)
           stored == IF SameDay(d) THEN plain ELSE [AfterFlush EXCEPT ![d] = IF @ = Missing THEN {} ELSE @]
           full == (IF SameDay(d) THEN buffer ELSE {}) \cup {line}
<1>0. SyslogTypes /\ 0 \notin LogDays
  BY LogFileFacts
<1>1. /\ d \in LogDays /\ (\A l \in written : l[1] < MaxLines)
      /\ UNCHANGED <<today, packed, scratch>>
      /\ logDay' = d /\ written' = written \cup {line}
  BY DEF AppendLog
<1>2. attached' <=> attached \/ ~SameDay(d)
  BY DEF AppendLog
<1>3. \/ plain' = stored /\ (attached \/ ~SameDay(d)) /\ buffer' = full
      \/ plain' = stored /\ ~(attached \/ ~SameDay(d)) /\ buffer' \in {full, {}}
      \/ plain' = [stored EXCEPT ![d] = @ \cup full] /\ (attached \/ ~SameDay(d)) /\ buffer' = {}
  BY DEF AppendLog
<1>4. line \in LogLine /\ line[2] = d
  BY <1>0, <1>1, NewLineThere
<1> HIDE DEF line, d
<1>5. /\ AfterFlush \in [LogDays -> LogFile]
      /\ \A g \in LogDays : AfterFlush[g] = IF g = logDay /\ attached THEN plain[g] \cup buffer ELSE plain[g]
  BY <1>0, FlushFacts
<1>6. CASE SameDay(d)
  <2>1. stored = plain /\ full = buffer \cup {line} /\ logDay = d
    BY <1>6 DEF SameDay
  <2>2. plain \in [LogDays -> LogFile] /\ buffer \subseteq LogLine /\ full \subseteq LogLine
    BY <1>0, <1>4, <2>1 DEF SyslogTypes
  <2> HIDE DEF stored, full
  <2>3. CASE attached
    <3>1. plain[d] # Missing /\ plain[d] \subseteq LogLine
      BY <1>0, <1>1, <2>1, <2>2, <2>3, LogFileFacts DEF SyslogTypes
    <3>2. plain[d] \cup full \in LogFile /\ plain[d] \cup full # Missing
      BY <2>2, <3>1, LogFileFacts
    <3>3. AfterFlush[d] = plain[d] \cup buffer /\ AfterFlush[d] # Missing
      <4>1. plain[d] \cup buffer \subseteq LogLine
        BY <2>2, <3>1
      <4> QED BY <1>1, <1>5, <2>1, <2>3, <4>1, LogFileFacts
    <3>4. \A g \in LogDays : g # d => AfterFlush[g] = plain[g]
      BY <1>5, <2>1
    <3>5. CASE plain' = stored /\ buffer' = full
      <4>1. plain'[d] # Missing /\ plain'[d] \cup buffer' = AfterFlush[d] \cup {line}
        BY <2>1, <3>1, <3>3, <3>5
      <4>2. plain' \in [LogDays -> LogFile] /\ buffer' \subseteq LogLine /\ \A g \in LogDays : g # d => plain'[g] = AfterFlush[g]
        BY <2>1, <2>2, <3>4, <3>5
      <4> QED BY <1>1, <1>2, <1>4, <2>3, <3>3, <4>1, <4>2 DEF d, line
    <3>6. CASE plain' = [stored EXCEPT ![d] = @ \cup full] /\ buffer' = {}
      <4>0. plain' = [plain EXCEPT ![d] = plain[d] \cup full]
        BY <2>1, <3>6
      <4>1. plain'[d] # Missing /\ plain'[d] \cup buffer' = AfterFlush[d] \cup {line}
        BY <1>1, <2>1, <2>2, <3>2, <3>3, <3>6, <4>0
      <4>2. plain' \in [LogDays -> LogFile] /\ buffer' \subseteq LogLine /\ \A g \in LogDays : g # d => plain'[g] = AfterFlush[g]
        BY <2>2, <3>2, <3>4, <3>6, <4>0
      <4> QED BY <1>1, <1>2, <1>4, <2>3, <3>3, <4>1, <4>2 DEF d, line
    <3> QED BY <1>3, <2>3, <3>5, <3>6
  <2>4. CASE ~attached
    <3>1. plain' = plain /\ buffer' \in {full, {}} /\ ~attached'
      BY <1>2, <1>3, <1>6, <2>1, <2>4
    <3>2. \A g \in LogDays : AfterFlush[g] = plain[g]
      BY <1>5, <2>4
    <3> QED BY <1>1, <1>4, <1>6, <2>2, <2>4, <3>1, <3>2 DEF d, line
  <2> QED BY <2>3, <2>4
<1>7. CASE ~SameDay(d)
  <2> DEFINE had == IF AfterFlush[d] = Missing THEN {} ELSE AfterFlush[d]
  <2>1. stored = [AfterFlush EXCEPT ![d] = had] /\ full = {line}
    BY <1>7
  <2>2. had \subseteq LogLine
    BY <1>1, <1>5, LogFileFacts
  <2> HIDE DEF stored, full, had
  <2>3. /\ had \in LogFile /\ had # Missing /\ had \cup full \in LogFile /\ had \cup full # Missing
        /\ full \subseteq LogLine /\ had \cup full \subseteq LogLine
    BY <1>4, <2>1, <2>2, LogFileFacts
  <2>4. /\ stored \in [LogDays -> LogFile] /\ stored[d] = had
        /\ \A g \in LogDays : g # d => stored[g] = AfterFlush[g]
    BY <1>1, <1>5, <2>1, <2>3
  <2>5. /\ plain' \in [LogDays -> LogFile] /\ buffer' \subseteq LogLine
        /\ \A g \in LogDays : g # d => plain'[g] = AfterFlush[g]
        /\ plain'[d] # Missing /\ plain'[d] \cup buffer' = had \cup {line}
    <3>1. CASE plain' = stored /\ buffer' = full
      BY <2>1, <2>3, <2>4, <3>1
    <3>2. CASE plain' = [stored EXCEPT ![d] = @ \cup full] /\ buffer' = {}
      <4>1. plain' = [stored EXCEPT ![d] = had \cup full]
        BY <2>4, <3>2
      <4> QED BY <1>1, <2>1, <2>3, <2>4, <3>2, <4>1
    <3> QED BY <1>3, <1>7, <3>1, <3>2
  <2> QED BY <1>1, <1>2, <1>4, <1>7, <2>5 DEF d, line, had
<1> QED BY <1>6, <1>7

\* Storing a line.  Where the line is not of the day that is written, the writer changes
\* day: with no later file and no compressor at work, or it has crossed.
LEMMA AppendLogKeeps ==
    ASSUME SyslogInv, NEW h \in Handler, AppendLog(h)
    PROVE  SyslogInv'
<1> PICK d : d = handler[h]
  OBVIOUS
<1> PICK line : line = NewLine(d)
  OBVIOUS
<1>0. SyslogTypes /\ 0 \notin LogDays
  BY LogFileFacts DEF SyslogInv
<1>1. /\ d \in LogDays /\ line \in LogLine /\ line[2] = d
      /\ logDay' = d /\ written' = written \cup {line} /\ UNCHANGED <<today, packed, scratch>>
      /\ plain' \in [LogDays -> LogFile] /\ buffer' \subseteq LogLine
      /\ \A g \in LogDays : g # d => plain'[g] = AfterFlush[g]
      /\ ~attached' => ~attached /\ SameDay(d) /\ plain' = plain
  BY <1>0, LogWritten
<1>2. attached' => /\ plain'[d] # Missing
                   /\ plain'[d] \cup buffer' = (IF AfterFlush[d] = Missing THEN {} ELSE AfterFlush[d]) \cup {line}
  BY <1>0, LogWritten
<1>3. /\ crossed' <=> crossed \/ Crosses(d)
      /\ attached' <=> attached \/ ~SameDay(d)
      /\ SameDay(d) => packer' = packer
      /\ ~SameDay(d) => \E k \in Packer : /\ packer[k] = PackerIdle
                                          /\ packer' = [packer EXCEPT ![k] = [at |-> "glob", but |-> d, todo |-> {}]]
  BY DEF AppendLog
<1>4. /\ AfterFlush \in [LogDays -> LogFile]
      /\ \A g \in LogDays : AfterFlush[g] = IF g = logDay /\ attached THEN plain[g] \cup buffer ELSE plain[g]
      /\ \A g \in LogDays : AfterFlush[g] = Missing <=> plain[g] = Missing
  BY <1>0, FlushFacts
<1>5. [at |-> "glob", but |-> d, todo |-> {}] \in PackerRec /\ [at |-> "glob", but |-> d, todo |-> {}] # PackerIdle
  <2>1. d \in 0 .. LastDay
    BY <1>1, SyslogAssumption DEF LogDays
  <2>2. [at |-> "glob", but |-> d, todo |-> {}].at # PackerIdle.at
    BY DEF PackerIdle
  <2> QED BY <2>1, <2>2 DEF PackerRec
<1>6. SyslogTypes'
  <2>1. today' \in LogDays /\ logDay' \in LogDays \cup {0} /\ written' \subseteq LogLine
        /\ packed' \in [LogDays -> LogFile] /\ scratch' \in [LogDays -> LogFile]
    BY <1>0, <1>1 DEF SyslogTypes
  <2>2. attached' /\ logDay' # 0 => plain'[logDay'] # Missing
    BY <1>1, <1>2
  <2>3. packer' \in [Packer -> PackerRec]
        /\ \A k \in Packer : /\ packer'[k].at = "rest" <=> packer'[k] = PackerIdle
                             /\ packer'[k].at \in {"rename", "remove"} => packer'[k].todo # {}
    <3>1. CASE SameDay(d)
      BY <1>0, <1>3, <3>1 DEF SyslogTypes, AtWork
    <3>2. CASE ~SameDay(d)
      <4> PICK r : r = [at |-> "glob", but |-> d, todo |-> {}]
        OBVIOUS
      <4>1. PICK k \in Packer : packer' = [packer EXCEPT ![k] = r]
        BY <1>3, <3>2
      <4>2. r \in PackerRec /\ r # PackerIdle /\ r.at = "glob" /\ packer \in [Packer -> PackerRec]
        BY <1>0, <1>5 DEF SyslogTypes
      <4>3. packer' \in [Packer -> PackerRec] /\ packer'[k] = r /\ \A j \in Packer : j # k => packer'[j] = packer[j]
        BY <4>1, <4>2
      <4>4. \A j \in Packer : /\ packer[j].at = "rest" <=> packer[j] = PackerIdle
                              /\ packer[j].at \in {"rename", "remove"} => packer[j].todo # {}
        BY <1>0 DEF SyslogTypes, AtWork
      <4> QED BY <4>2, <4>3, <4>4
    <3> QED BY <3>1, <3>2
  <2> QED BY <1>1, <2>1, <2>2, <2>3 DEF SyslogTypes, AtWork
<1>7. ASSUME FilesInv, ~Crosses(d) PROVE FilesInv'
  <2>0. WriterIsLast /\ PackersWork /\ PackedIsOver /\ LinesFound
    BY <1>7 DEF FilesInv
  <2>1. \A g : Retained(g)' <=> Retained(g)
    BY <1>1 DEF Retained
  <2>2. NoneAfter(d)
    <3>1. CASE SameDay(d)
      BY <1>0, <1>1, <2>0, <3>1 DEF SameDay, WriterIsLast
    <3>2. CASE ~SameDay(d)
      <4>1. ~ \E e \in d + 1 .. LastDay : plain[e] # Missing \/ packed[e] # Missing
        BY <1>7, <3>2 DEF Crosses
      <4> SUFFICES ASSUME NEW e \in LogDays, e > d PROVE e \in d + 1 .. LastDay
        BY <4>1 DEF NoneAfter
      <4> QED BY <1>1, LogFileFacts DEF LogDays
    <3> QED BY <3>1, <3>2
  <2>3. NoneAfter(d)'
    <3> SUFFICES ASSUME NEW e \in LogDays, e > d PROVE plain'[e] = Missing /\ packed'[e] = Missing
      BY DEF NoneAfter
    <3>1. plain[e] = Missing /\ packed[e] = Missing
      BY <2>2 DEF NoneAfter
    <3>2. e # d
      BY <1>1, LogFileFacts
    <3> QED BY <1>1, <1>4, <3>1, <3>2
  <2>4. ~attached' => ~Retained(d)
    BY <1>0, <1>1, <2>0 DEF SameDay, WriterIsLast
  <2>5. WriterIsLast'
    BY <1>1, <2>1, <2>3, <2>4 DEF WriterIsLast, NoneAfter, Retained
  <2>6. Retained(d) => plain'[d] # Missing
    BY <1>2, <2>4
  <2>7. PackersWork'
    <3>1. CASE SameDay(d)
      <4>1. packer' = packer /\ logDay = d /\ \A k \in Packer : NextOf(k)' = NextOf(k) /\ (AtWork(k)' <=> AtWork(k))
        BY <1>3, <3>1 DEF SameDay, NextOf, AtWork
      <4>2. \A k \in Packer : AtWork(k) => packer[k].but = d /\ \A e \in packer[k].todo : e < d
        BY <1>0, <1>1, <2>0, <4>1 DEF PackersWork
      <4>3. ASSUME NEW k \in Packer, AtWork(k), packer[k].at \in {"rename", "remove"}
            PROVE  plain'[NextOf(k)] = plain[NextOf(k)]
        <5>1. NextOf(k) \in packer[k].todo /\ NextOf(k) \in LogDays
          BY <1>0, <4>3, NextOfThere DEF SyslogTypes
        <5>2. NextOf(k) # d
          BY <1>1, <4>2, <4>3, <5>1, LogFileFacts
        <5> QED BY <1>1, <1>4, <4>1, <5>1, <5>2
      <4>4. \A j, k \in Packer : AtWork(j) /\ AtWork(k) => j = k
        BY <2>0 DEF PackersWork
      <4>5. ASSUME NEW k \in Packer, AtWork(k), packer[k].at = "rename", Retained(NextOf(k))
            PROVE  plain'[NextOf(k)] # Missing /\ scratch'[NextOf(k)] = plain'[NextOf(k)]
        BY <1>1, <2>0, <4>3, <4>5 DEF PackersWork
      <4>6. ASSUME NEW k \in Packer, AtWork(k), packer[k].at = "remove", Retained(NextOf(k))
            PROVE  plain'[NextOf(k)] # Missing /\ packed'[NextOf(k)] = plain'[NextOf(k)]
        BY <1>1, <2>0, <4>3, <4>6 DEF PackersWork
      <4> QED BY <1>1, <2>1, <2>3, <2>6, <4>1, <4>2, <4>4, <4>5, <4>6 DEF PackersWork
    <3>2. CASE ~SameDay(d)
      <4>1. PICK k \in Packer : packer' = [packer EXCEPT ![k] = [at |-> "glob", but |-> d, todo |-> {}]]
        BY <1>3, <3>2
      <4>2. \A j \in Packer : packer[j] = PackerIdle
        BY <1>7, <3>2 DEF Crosses
      <4>3. packer \in [Packer -> PackerRec]
        BY <1>0 DEF SyslogTypes
      <4>4. \A j \in Packer : AtWork(j)' => j = k
        BY <4>1, <4>2, <4>3 DEF AtWork
      <4>5. packer'[k].at = "glob" /\ packer'[k].but = d /\ packer'[k].todo = {}
        BY <4>1, <4>3
      <4> QED BY <1>1, <2>1, <2>3, <2>6, <4>4, <4>5 DEF PackersWork
    <3> QED BY <3>1, <3>2
  <2>8. PackedIsOver'
    <3> SUFFICES ASSUME NEW g \in LogDays, Retained(g), packed[g] # Missing
                 PROVE  \E e \in LogDays : e > g /\ (plain'[e] # Missing \/ packed'[e] # Missing)
      BY <1>1, <2>1 DEF PackedIsOver
    <3>1. PICK e \in LogDays : e > g /\ (plain[e] # Missing \/ packed[e] # Missing)
      BY <2>0 DEF PackedIsOver
    <3>2. CASE e = d
      <4>1. plain[d] # Missing => plain'[d] # Missing
        BY <1>1, <1>2
      <4> QED BY <1>1, <3>1, <3>2, <4>1
    <3>3. CASE e # d
      BY <1>1, <1>4, <3>1, <3>3
    <3> QED BY <3>2, <3>3
  <2>9. LinesFound'
    <3> SUFFICES ASSUME NEW l \in written \cup {line}, Retained(l[2]) PROVE l \in Search(l[2])'
      BY <1>1, <2>1 DEF LinesFound
    <3>1. l[2] \in LogDays
      BY <1>0, <1>1, LogFileFacts DEF SyslogTypes
    <3>2. \A g \in LogDays : AfterFlush'[g] = IF g = d /\ attached' THEN plain'[g] \cup buffer' ELSE plain'[g]
      <4>1. logDay' = d /\ d # 0 /\ plain' \in [LogDays -> LogFile] /\ d \in LogDays
        BY <1>0, <1>1
      <4>2. CASE attached'
        <5>1. AfterFlush' = [plain' EXCEPT ![d] = plain'[d] \cup buffer']
          BY <4>1, <4>2 DEF AfterFlush
        <5> QED BY <4>1, <4>2, <5>1
      <4>3. CASE ~attached'
        BY <4>3 DEF AfterFlush
      <4> QED BY <4>2, <4>3
    <3>3. CASE l[2] # d
      <4>1. l \in Search(l[2])
        BY <1>1, <2>0, <3>3 DEF LinesFound
      <4>2. AfterFlush'[l[2]] = AfterFlush[l[2]]
        BY <1>1, <3>1, <3>2, <3>3
      <4> QED BY <1>1, <4>1, <4>2 DEF Search
    <3>4. CASE l[2] = d
      <4>1. attached'
        BY <2>4, <3>4
      <4>2. AfterFlush'[d] = plain'[d] \cup buffer'
        BY <1>1, <3>2, <4>1
      <4>3. line \in AfterFlush'[d] /\ (AfterFlush[d] # Missing => AfterFlush[d] \subseteq AfterFlush'[d])
        BY <1>2, <4>1, <4>2
      <4>4. l \in AfterFlush'[d]
        <5>1. CASE l = line
          BY <4>3, <5>1
        <5>2. CASE l # line
          <6>1. l \in Search(d)
            BY <2>0, <3>4, <5>2 DEF LinesFound
          <6>2. AfterFlush[d] # Missing
            <7> SUFFICES ASSUME AfterFlush[d] = Missing PROVE FALSE
              OBVIOUS
            <7>1. packed[d] # Missing
              BY <6>1 DEF Search
            <7>2. PICK e \in LogDays : e > d /\ (plain[e] # Missing \/ packed[e] # Missing)
              BY <1>1, <2>0, <3>4, <7>1 DEF PackedIsOver
            <7> QED BY <2>2, <7>2 DEF NoneAfter
          <6>3. l \in AfterFlush[d]
            BY <6>1, <6>2 DEF Search
          <6> QED BY <4>3, <6>2, <6>3
        <5> QED BY <5>1, <5>2
      <4>5. AfterFlush'[d] # Missing
        <5>1. plain'[d] \subseteq LogLine /\ buffer' \subseteq LogLine
          BY <1>1, <1>2, <4>1, LogFileFacts
        <5> QED BY <4>2, <5>1, LogFileFacts
      <4>6. Search(d)' = AfterFlush'[d]
        BY <4>5 DEF Search
      <4> QED BY <3>4, <4>4, <4>6
    <3> QED BY <3>3, <3>4
  <2> QED BY <2>5, <2>7, <2>8, <2>9 DEF FilesInv
<1> QED BY <1>3, <1>6, <1>7 DEF SyslogInv

LEMMA SyslogStep == SyslogInv /\ [SyslogNext]_syslogVars => SyslogInv'
<1> SUFFICES ASSUME SyslogInv, [SyslogNext]_syslogVars PROVE SyslogInv'
  OBVIOUS
<1>1. ASSUME UNCHANGED <<fileVars, today>> PROVE SyslogInv'
  BY <1>1, FilesUnchanged
<1>2. CASE Second
  BY <1>1, <1>2 DEF Second
<1>3. CASE Flush
  <2>1. logDay' \in {0, logDay} /\ (attached' <=> attached) /\ plain' = AfterFlush /\ buffer' = {}
        /\ UNCHANGED <<today, packed, scratch, packer, written, crossed>>
    BY <1>3 DEF Flush
  <2> QED BY <2>1, FlushLogKeeps
<1>4. CASE Prune
  BY <1>4, PruneKeeps
<1>5. CASE NextDay
  BY <1>5, NextDayKeeps
<1>6. CASE StopAndStart
  <2>1. Begins /\ plain' = AfterFlush /\ written' = written /\ UNCHANGED <<today, packed, scratch, crossed>>
    BY <1>6 DEF StopAndStart
  <2> QED BY <2>1, StopKeeps
<1>7. CASE Crash
  <2>1. Begins /\ plain' = plain /\ written' = written \ buffer /\ UNCHANGED <<today, packed, scratch, crossed>>
    BY <1>7 DEF Crash
  <2> QED BY <2>1, StopKeeps
<1>8. ASSUME NEW h \in Handler, HandleDropped(h) \/ HandleAllowed(h) \/ Stamp(h) PROVE SyslogInv'
  <2>1. UNCHANGED <<fileVars, today>>
    BY <1>8 DEF HandleDropped, HandleAllowed, Stamp
  <2> QED BY <1>1, <2>1
<1>9. ASSUME NEW h \in Handler, AppendLog(h) PROVE SyslogInv'
  BY <1>9, AppendLogKeeps
<1>10. ASSUME NEW h \in Handler, AppendRefused(h) PROVE SyslogInv'
  <2>1. logDay' \in {0, logDay} /\ (logDay' # 0 => (attached' <=> attached)) /\ plain' = AfterFlush /\ buffer' = {}
        /\ UNCHANGED <<today, packed, scratch, packer, written, crossed>>
    BY <1>10 DEF AppendRefused
  <2> QED BY <2>1, FlushLogKeeps
<1>11. ASSUME NEW k \in Packer, Glob(k) \/ PackEnds(k) PROVE SyslogInv'
  BY <1>11, GlobKeeps
<1>12. ASSUME NEW k \in Packer, PackCopy(k) \/ PackRename(k) \/ PackFails(k) \/ PackRemove(k) PROVE SyslogInv'
  BY <1>12, PackerSteps
<1>13. CASE UNCHANGED syslogVars
  BY <1>1, <1>13 DEF syslogVars, fileVars
<1> QED
  BY <1>2, <1>3, <1>4, <1>5, <1>6, <1>7, <1>8, <1>9, <1>10, <1>11, <1>12, <1>13 DEF SyslogNext

\* A search of a day that is kept finds every line stored for it: for every number of
\* listeners, compressors, lines, days and every retention and size of the buffer, while
\* days are compressed, pruned, cut off by a crash or failing; but where the writer went
\* back a day or changed day while a compressor was at work.
THEOREM LinesAreFound == SyslogSpec => []StoredIsFound
<1>1. SyslogInv => StoredIsFound
  BY DEF SyslogInv, FilesInv, LinesFound, StoredIsFound
<1> QED BY <1>1, SyslogInitInv, SyslogStep, PTL DEF SyslogSpec

-----------------------------------------------------------------------------
(* The copies of the journal.                                              *)

Journal(n) == files[n]["events"]
PassRec == [on : BOOLEAN, from : Holder, remote : [File -> Info], mine : [File -> Info],
            next : Nat \ {0}, changed : SUBSET File]

MirrorTypes ==
    /\ lead \in Full /\ clock \in Nat /\ failovers \in Nat
    /\ files \in [Holder -> [File -> Seq(Nat)]] /\ mtime \in [Holder -> [File -> Nat]]
    /\ last \in [Holder -> [File -> Info]]
    /\ pass \in [Holder -> PassRec]
    /\ sources \in [Holder -> SUBSET (Holder \X Nat)]

\* A line is numbered by the clock of its writing.
Stamped == \A n \in Holder : \A i \in DOMAIN Journal(n) : Journal(n)[i] <= clock

\* Who leads copies nothing; the journal comes first, and until then a pass knows its
\* length; a tail is only put to a journal that was fetched before.
PassesKnow ==
    /\ ~pass[lead].on
    /\ \A n \in Holder : pass[n].on /\ pass[n].next = 1 => pass[n].mine["events"].size = Len(Journal(n))
    /\ \A n \in Holder : last[n]["events"].size > 0 => sources[n] # {}

Leadership == <<lead, failovers>>
SourcesArePast == \A n \in Holder : \A s \in sources[n] : s[2] <= failovers

Copied ==
    \A n \in Holder \ {lead} :
        sources[n] = {Leadership} /\ Unpruned(n) => IsPrefix(Journal(n), Journal(lead))

MirrorInv == MirrorTypes /\ Stamped /\ PassesKnow /\ SourcesArePast /\ Copied

LEMMA MirrorInitInv == MirrorInit => MirrorInv
<1> SUFFICES ASSUME MirrorInit PROVE MirrorInv
  OBVIOUS
<1>1. /\ lead \in Full /\ Full \subseteq Holder
      /\ files = [n \in Holder |-> [f \in File |-> <<>>]] /\ mtime = [n \in Holder |-> [f \in File |-> 0]]
      /\ last  = [n \in Holder |-> [f \in File |-> NoInfo]]
      /\ pass  = [n \in Holder |-> Resting]
      /\ sources = [n \in Holder |-> {}]
      /\ clock = 0 /\ failovers = 0
  BY DEF MirrorInit, Holder
<1>2. NoInfo \in Info /\ NoInfo.size = 0
  BY DEF NoInfo, Info
<1>3. Resting \in PassRec /\ ~Resting.on
  BY <1>1, <1>2 DEF Resting, PassRec
<1>4. "events" \in File
  BY DEF File
<1>5. MirrorTypes
  <2>1. <<>> \in Seq(Nat)
    OBVIOUS
  <2> QED BY <1>1, <1>2, <1>3, <2>1 DEF MirrorTypes
<1>6. \A n \in Holder : Journal(n) = <<>>
  BY <1>1, <1>4 DEF Journal
<1> QED BY <1>1, <1>2, <1>3, <1>4, <1>5, <1>6 DEF MirrorInv, Stamped, PassesKnow, SourcesArePast, Copied

LEMMA PrefixElements ==
    ASSUME NEW s \in Seq(Nat), NEW t \in Seq(Nat)
    PROVE  IsPrefix(s, t) <=> Len(s) <= Len(t) /\ \A i \in 1 .. Len(s) : s[i] = t[i]
<1>0. Len(s) \in Nat /\ Len(t) \in Nat
  OBVIOUS
<1>1. SubSeq(s, 1, Len(s)) = s
  OBVIOUS
<1>2. CASE Len(s) <= Len(t)
  <2> DEFINE u == SubSeq(t, 1, Len(s))
  <2>1. u \in Seq(Nat) /\ Len(u) = Len(s) /\ \A i \in 1 .. Len(s) : u[i] = t[i]
    BY <1>0, <1>2
  <2> HIDE DEF u
  <2>2. s = u <=> \A i \in 1 .. Len(s) : s[i] = u[i]
    BY <2>1, SeqEqual
  <2>3. IsPrefix(s, t) <=> s = u
    BY <1>1, <1>2 DEF IsPrefix, u
  <2> QED BY <1>2, <2>1, <2>2, <2>3
<1>3. CASE ~(Len(s) <= Len(t))
  BY <1>3 DEF IsPrefix
<1> QED BY <1>2, <1>3

\* A write of the leader: to its journal a line is added, or it begins again.
LEMMA WriteKeeps ==
    ASSUME MirrorInv, NEW f \in File, NEW content \in Seq(Nat), Write(f, content),
           f = "events" => content \in {<<>>, Append(Journal(lead), clock + 1)},
           \A i \in DOMAIN content : content[i] <= clock + 1
    PROVE  MirrorInv'
<1>0. /\ MirrorTypes /\ Stamped /\ PassesKnow /\ SourcesArePast /\ Copied
      /\ lead \in Holder /\ Full \subseteq Holder /\ "events" \in File /\ clock \in Nat
  BY DEF MirrorInv, MirrorTypes, Holder, File
<1>1. /\ clock' = clock + 1 /\ files' = [files EXCEPT ![lead][f] = content]
      /\ UNCHANGED <<lead, last, pass, sources, failovers>>
  BY DEF Write
<1>2. files \in [Holder -> [File -> Seq(Nat)]]
  BY <1>0 DEF MirrorTypes
<1>3. files' \in [Holder -> [File -> Seq(Nat)]]
  BY <1>1, <1>2
<1>4. MirrorTypes'
  <2>1. mtime' = [mtime EXCEPT ![lead][f] = clock + 1]
    BY DEF Write
  <2>2. mtime' \in [Holder -> [File -> Nat]]
    BY <1>0, <2>1 DEF MirrorTypes
  <2> QED BY <1>0, <1>1, <1>3, <2>2 DEF MirrorTypes
<1>5. \A n \in Holder : Journal(n)' = IF n = lead /\ f = "events" THEN content ELSE Journal(n)
  BY <1>0, <1>1, <1>2 DEF Journal
<1>6. \A n \in Holder : Journal(n) \in Seq(Nat) /\ Journal(n)' \in Seq(Nat)
  BY <1>0, <1>2, <1>3 DEF Journal
<1>11. /\ Journal(lead)' = IF f = "events" THEN content ELSE Journal(lead)
       /\ Journal(lead)' \in Seq(Nat)
  <2>1. Journal(lead)' = files'[lead]["events"]
    BY <1>1 DEF Journal
  <2> QED BY <1>0, <1>1, <1>2, <1>3, <2>1 DEF Journal
<1>7. Stamped'
  <2> SUFFICES ASSUME NEW n \in Holder, NEW i \in DOMAIN Journal(n)' PROVE Journal(n)'[i] <= clock'
    BY DEF Stamped
  <2>1. CASE n = lead /\ f = "events"
    BY <1>1, <1>5, <2>1
  <2>2. CASE ~(n = lead /\ f = "events")
    <3>1. Journal(n)' = Journal(n) /\ Journal(n)[i] <= clock
      BY <1>0, <1>5, <2>2 DEF Stamped
    <3>2. Journal(n)[i] \in Nat
      BY <1>6, <3>1
    <3> QED BY <1>0, <1>1, <3>1, <3>2
  <2> QED BY <2>1, <2>2
<1>8. PassesKnow'
  <2>1. ASSUME NEW n \in Holder, pass[n].on PROVE Journal(n)' = Journal(n)
    BY <1>0, <1>5, <2>1 DEF PassesKnow
  <2> QED BY <1>0, <1>1, <2>1 DEF PassesKnow
<1>9. SourcesArePast'
  BY <1>0, <1>1 DEF SourcesArePast
<1>10. Copied'
  <2> SUFFICES ASSUME NEW n \in Holder \ {lead}, sources[n] = {Leadership}, Unpruned(n)'
               PROVE  IsPrefix(Journal(n)', Journal(lead)')
    BY <1>1 DEF Copied, Leadership
  <2>1. Journal(n)' = Journal(n) /\ n \in Holder
    BY <1>5
  <2>2. Unpruned(n)' <=> (Journal(n) # <<>> => Journal(lead)' # <<>> /\ Head(Journal(lead)') = Head(Journal(n)))
    BY <1>1, <2>1 DEF Unpruned, Journal
  <2> DEFINE mine == Journal(n)
             theirs == Journal(lead)
  <2>3. mine \in Seq(Nat) /\ theirs \in Seq(Nat) /\ Journal(lead)' \in Seq(Nat)
    BY <1>0, <1>6, <1>11, <2>1
  <2>4. Unpruned(n) <=> (mine # <<>> => theirs # <<>> /\ Head(theirs) = Head(mine))
    BY DEF Unpruned, Journal
  <2>5. Journal(lead)' \in {theirs, <<>>, Append(theirs, clock + 1)}
    BY <1>11
  <2>6. Unpruned(n) => IsPrefix(mine, theirs)
    BY <1>0 DEF Copied
  <2>7. \A i \in DOMAIN mine : mine[i] <= clock
    BY <1>0, <2>1 DEF Stamped
  <2> HIDE DEF mine, theirs
  <2>8. CASE mine = <<>>
    <3>1. Len(mine) = 0
      BY <2>8
    <3> DEFINE theirsNow == Journal(lead)'
    <3>2. Len(theirsNow) \in Nat /\ theirsNow \in Seq(Nat)
      BY <2>3
    <3> HIDE DEF theirsNow
    <3>3. IsPrefix(mine, theirsNow)
      <4>1. Len(mine) <= Len(theirsNow) /\ \A i \in 1 .. Len(mine) : mine[i] = theirsNow[i]
        BY <3>1, <3>2
      <4> QED BY <2>3, <3>2, <4>1, PrefixElements
    <3> QED BY <2>1, <3>3 DEF mine, theirsNow
  <2>9. CASE mine # <<>> /\ Journal(lead)' = theirs
    BY <2>1, <2>2, <2>4, <2>6, <2>9 DEF mine
  <2>10. CASE mine # <<>> /\ Journal(lead)' = <<>>
    BY <2>2, <2>10 DEF mine
  <2>11. CASE mine # <<>> /\ Journal(lead)' = Append(theirs, clock + 1)
    <3>1. Head(mine) = mine[1] /\ 1 \in DOMAIN mine /\ mine[1] \in Nat
      BY <2>3, <2>11
    <3>2. theirs # <<>>
      <4>1. theirs = <<>> => Head(Append(theirs, clock + 1)) = clock + 1
        BY <1>0
      <4> QED BY <1>0, <2>2, <2>7, <2>11, <3>1, <4>1 DEF mine
    <3>3. Head(Append(theirs, clock + 1)) = Head(theirs)
      BY <1>0, <2>3, <3>2
    <3>4. IsPrefix(mine, theirs)
      BY <2>2, <2>4, <2>6, <2>11, <3>2, <3>3 DEF mine
    <3>5. Len(mine) <= Len(theirs) /\ \A i \in 1 .. Len(mine) : mine[i] = theirs[i]
      BY <2>3, <3>4, PrefixElements
    <3>6. Len(Append(theirs, clock + 1)) = Len(theirs) + 1 /\ \A i \in 1 .. Len(theirs) : Append(theirs, clock + 1)[i] = theirs[i]
      BY <1>0, <2>3
    <3>7. Len(mine) \in Nat /\ Len(theirs) \in Nat
      BY <2>3
    <3> DEFINE longer == Append(theirs, clock + 1)
    <3>9. longer \in Seq(Nat)
      BY <1>0, <2>3
    <3> HIDE DEF longer
    <3>8. IsPrefix(mine, longer)
      <4>1. Len(mine) <= Len(longer) /\ \A i \in 1 .. Len(mine) : mine[i] = longer[i]
        BY <3>5, <3>6, <3>7 DEF longer
      <4> QED BY <2>3, <3>9, <4>1, PrefixElements
    <3> QED BY <2>1, <2>11, <3>8 DEF mine, longer
  <2> QED BY <2>5, <2>8, <2>9, <2>10, <2>11
<1> QED BY <1>4, <1>7, <1>8, <1>9, <1>10 DEF MirrorInv

LEMMA LeaderWrites == ASSUME MirrorInv, AppendLine \/ (\E f \in File \ Tailed : WriteWhole(f)) \/ (\E f \in File \ {"state"} : RemoveFile(f)) PROVE MirrorInv'
<1>0. /\ MirrorTypes /\ Stamped /\ lead \in Holder /\ "events" \in File /\ clock \in Nat /\ Journal(lead) \in Seq(Nat)
  BY DEF MirrorInv, MirrorTypes, Holder, File, Journal
<1>1. CASE AppendLine
  <2> DEFINE c == Append(Journal(lead), clock + 1)
  <2>1. Write("events", c)
    BY <1>1 DEF AppendLine, Journal
  <2>2. c \in Seq(Nat) /\ Len(c) = Len(Journal(lead)) + 1 /\ DOMAIN c = 1 .. Len(c)
        /\ (\A i \in 1 .. Len(Journal(lead)) : c[i] = Journal(lead)[i] /\ Journal(lead)[i] \in Nat)
        /\ c[Len(Journal(lead)) + 1] = clock + 1 /\ Len(Journal(lead)) \in Nat
    BY <1>0
  <2>3. \A i \in 1 .. Len(Journal(lead)) : Journal(lead)[i] <= clock
    BY <1>0 DEF Stamped
  <2> HIDE DEF c
  <2>4. \A i \in DOMAIN c : c[i] <= clock + 1
    <3> SUFFICES ASSUME NEW i \in DOMAIN c PROVE c[i] <= clock + 1
      OBVIOUS
    <3>1. i = Len(Journal(lead)) + 1 \/ i \in 1 .. Len(Journal(lead))
      BY <2>2
    <3>2. CASE i = Len(Journal(lead)) + 1
      <4>1. c[i] = clock + 1
        BY <2>2, <3>2
      <4> QED BY <1>0, <4>1
    <3>3. CASE i \in 1 .. Len(Journal(lead))
      <4>1. c[i] = Journal(lead)[i] /\ Journal(lead)[i] \in Nat /\ Journal(lead)[i] <= clock
        BY <2>2, <2>3, <3>3
      <4> QED BY <1>0, <4>1
    <3> QED BY <3>1, <3>2, <3>3
  <2> QED BY <1>0, <2>1, <2>2, <2>4, WriteKeeps DEF c
<1>2. ASSUME NEW f \in File \ Tailed, WriteWhole(f) PROVE MirrorInv'
  <2>1. Write(f, <<clock + 1>>) /\ f # "events" /\ f \in File
    BY <1>2 DEF WriteWhole, Tailed
  <2>2. <<clock + 1>> \in Seq(Nat) /\ \A i \in DOMAIN <<clock + 1>> : <<clock + 1>>[i] <= clock + 1
    BY <1>0
  <2> QED BY <2>1, <2>2, WriteKeeps
<1>3. ASSUME NEW f \in File \ {"state"}, RemoveFile(f) PROVE MirrorInv'
  <2>1. Write(f, <<>>) /\ f \in File
    BY <1>3 DEF RemoveFile
  <2>2. <<>> \in Seq(Nat) /\ \A i \in DOMAIN <<>> : <<>>[i] <= clock + 1
    OBVIOUS
  <2> QED BY <2>1, <2>2, WriteKeeps
<1> QED BY <1>1, <1>2, <1>3

\* A step of a standby, by what it makes of its journal j.
LEMMA StandbyKeeps ==
    ASSUME MirrorInv, NEW n \in Holder, n # lead, NEW j \in Seq(Nat),
           UNCHANGED <<lead, clock, failovers>>,
           files' \in [Holder -> [File -> Seq(Nat)]], mtime' \in [Holder -> [File -> Nat]], last' \in [Holder -> [File -> Info]],
           pass' \in [Holder -> PassRec], sources' \in [Holder -> SUBSET (Holder \X Nat)],
           \A m \in Holder : m # n => /\ files'[m] = files[m] /\ last'[m] = last[m]
                                      /\ pass'[m] = pass[m] /\ sources'[m] = sources[m],
           files'[n]["events"] = j,
           \A i \in DOMAIN j : j[i] <= clock,
           pass'[n].on /\ pass'[n].next = 1 => pass'[n].mine["events"].size = Len(j),
           last'[n]["events"].size > 0 => sources'[n] # {},
           \A s \in sources'[n] : s[2] <= failovers,
           sources'[n] = {Leadership} /\ j # <<>> /\ Journal(lead) # <<>> /\ Head(Journal(lead)) = Head(j)
               => IsPrefix(j, Journal(lead))
    PROVE  MirrorInv'
<1>0. /\ MirrorTypes /\ Stamped /\ PassesKnow /\ SourcesArePast /\ Copied
      /\ lead \in Holder /\ "events" \in File /\ clock \in Nat /\ Journal(lead) \in Seq(Nat)
  BY DEF MirrorInv, MirrorTypes, Holder, File, Journal
<1>1. MirrorTypes'
  BY <1>0 DEF MirrorTypes
<1>2. /\ \A m \in Holder : Journal(m)' = IF m = n THEN j ELSE Journal(m)
      /\ Journal(lead)' = Journal(lead) /\ Leadership' = Leadership
  BY <1>0 DEF Journal, Leadership
<1>3. Stamped'
  BY <1>0, <1>2 DEF Stamped
<1>4. PassesKnow'
  <2>1. ~pass'[lead].on
    BY <1>0 DEF PassesKnow
  <2>2. ASSUME NEW m \in Holder, pass'[m].on, pass'[m].next = 1
        PROVE  pass'[m].mine["events"].size = Len(Journal(m)')
    <3>1. CASE m = n
      BY <1>2, <2>2, <3>1
    <3>2. CASE m # n
      BY <1>0, <1>2, <2>2, <3>2 DEF PassesKnow
    <3> QED BY <3>1, <3>2
  <2>3. ASSUME NEW m \in Holder, last'[m]["events"].size > 0 PROVE sources'[m] # {}
    BY <1>0, <2>3 DEF PassesKnow
  <2> QED BY <2>1, <2>2, <2>3 DEF PassesKnow
<1>5. SourcesArePast'
  BY <1>0 DEF SourcesArePast
<1>6. Copied'
  <2> SUFFICES ASSUME NEW m \in Holder \ {lead}, sources'[m] = {Leadership}, Unpruned(m)'
               PROVE  IsPrefix(Journal(m)', Journal(lead))
    BY <1>2 DEF Copied
  <2>1. Unpruned(m)' <=> (Journal(m)' # <<>> => Journal(lead) # <<>> /\ Head(Journal(lead)) = Head(Journal(m)'))
    BY <1>2 DEF Unpruned, Journal
  <2>2. CASE m # n
    <3>1. Unpruned(m) /\ sources[m] = {Leadership}
      BY <1>2, <2>1, <2>2 DEF Unpruned, Journal
    <3> QED BY <1>0, <1>2, <2>2, <3>1 DEF Copied
  <2>3. CASE m = n /\ j # <<>>
    BY <1>2, <2>1, <2>3
  <2>4. CASE m = n /\ j = <<>>
    <3>1. Len(j) = 0 /\ Len(Journal(lead)) \in Nat
      BY <1>0, <2>4
    <3>2. IsPrefix(j, Journal(lead))
      <4>1. Len(j) <= Len(Journal(lead)) /\ \A i \in 1 .. Len(j) : j[i] = Journal(lead)[i]
        BY <3>1
      <4> QED BY <1>0, <4>1, PrefixElements
    <3> QED BY <1>2, <2>4, <3>2
  <2> QED BY <2>2, <2>3, <2>4
<1> QED BY <1>1, <1>3, <1>4, <1>5, <1>6 DEF MirrorInv

LEMMA StandbyFacts ==
    ASSUME MirrorInv, NEW n \in Holder
    PROVE  /\ Journal(n) \in Seq(Nat) /\ Journal(lead) \in Seq(Nat) /\ Len(Journal(n)) \in Nat
           /\ "events" \in File /\ lead \in Holder /\ clock \in Nat
           /\ files \in [Holder -> [File -> Seq(Nat)]] /\ mtime \in [Holder -> [File -> Nat]] /\ last \in [Holder -> [File -> Info]]
           /\ pass \in [Holder -> PassRec] /\ sources \in [Holder -> SUBSET (Holder \X Nat)]
           /\ \A i \in DOMAIN Journal(n) : Journal(n)[i] <= clock
           /\ pass[n].on => n # lead
           /\ pass[n].on /\ pass[n].next = 1 => pass[n].mine["events"].size = Len(Journal(n))
           /\ last[n]["events"].size > 0 => sources[n] # {}
           /\ \A s \in sources[n] : s[2] <= failovers
           /\ n # lead /\ sources[n] = {Leadership} /\ Journal(n) # <<>>
              /\ Journal(lead) # <<>> /\ Head(Journal(lead)) = Head(Journal(n))
                => IsPrefix(Journal(n), Journal(lead))
           /\ [Resting EXCEPT !.from = n] \in PassRec /\ ~[Resting EXCEPT !.from = n].on /\ Resting \in PassRec /\ ~Resting.on
<1>0. MirrorTypes /\ Stamped /\ PassesKnow /\ SourcesArePast /\ Copied
  BY DEF MirrorInv
<1>1. /\ Journal(n) \in Seq(Nat) /\ Journal(lead) \in Seq(Nat) /\ "events" \in File /\ lead \in Holder /\ clock \in Nat
      /\ files \in [Holder -> [File -> Seq(Nat)]] /\ mtime \in [Holder -> [File -> Nat]] /\ last \in [Holder -> [File -> Info]]
      /\ pass \in [Holder -> PassRec] /\ sources \in [Holder -> SUBSET (Holder \X Nat)]
  BY <1>0 DEF MirrorTypes, Journal, File, Holder
<1>2. /\ \A i \in DOMAIN Journal(n) : Journal(n)[i] <= clock
      /\ pass[n].on => n # lead
      /\ pass[n].on /\ pass[n].next = 1 => pass[n].mine["events"].size = Len(Journal(n))
      /\ last[n]["events"].size > 0 => sources[n] # {}
      /\ \A s \in sources[n] : s[2] <= failovers
  BY <1>0 DEF Stamped, PassesKnow, SourcesArePast
<1>3. n # lead /\ sources[n] = {Leadership} /\ Journal(n) # <<>>
      /\ Journal(lead) # <<>> /\ Head(Journal(lead)) = Head(Journal(n))
        => IsPrefix(Journal(n), Journal(lead))
  BY <1>0 DEF Copied, Unpruned, Journal
<1>4. NoInfo \in Info
  BY DEF NoInfo, Info
<1>5. [f \in File |-> NoInfo] \in [File -> Info]
  BY <1>4
<1>6. \A h \in Holder : [on |-> FALSE, from |-> h, remote |-> [f \in File |-> NoInfo],
                        mine |-> [f \in File |-> NoInfo], next |-> 1, changed |-> {}] \in PassRec
  BY <1>5 DEF PassRec
<1>7. Resting \in PassRec /\ ~Resting.on /\ [Resting EXCEPT !.from = n] \in PassRec /\ ~[Resting EXCEPT !.from = n].on
  <2>1. Resting \in PassRec /\ ~Resting.on
    BY <1>1, <1>6 DEF Resting
  <2>2. \A r \in PassRec : [r EXCEPT !.from = n] \in PassRec /\ [r EXCEPT !.from = n].on = r.on
    BY DEF PassRec
  <2> QED BY <2>1, <2>2
<1>8. Len(Journal(n)) \in Nat
  BY <1>1
<1> QED BY <1>1, <1>2, <1>3, <1>7, <1>8

\* A pass begins, or passes over a file.
LEMMA PassKeeps == ASSUME MirrorInv, NEW n \in Holder, PassBegin(n) \/ Skip(n) PROVE MirrorInv'
<1> DEFINE j == Journal(n)
<1>1. /\ UNCHANGED <<lead, files, mtime, last, sources, clock, failovers>>
      /\ n # lead
  BY StandbyFacts DEF PassBegin, Skip, AtFile
<1>2. /\ j \in Seq(Nat) /\ files[n]["events"] = j
      /\ \A i \in DOMAIN j : j[i] <= clock
      /\ sources[n] = {Leadership} /\ j # <<>> /\ Journal(lead) # <<>> /\ Head(Journal(lead)) = Head(j)
               => IsPrefix(j, Journal(lead))
  BY <1>1, StandbyFacts DEF Journal
<1>3. PICK p \in PassRec : pass' = [pass EXCEPT ![n] = p] /\ (p.on /\ p.next = 1 => p.mine["events"].size = Len(j))
  <2>1. CASE PassBegin(n)
    <3> DEFINE p == [on |-> TRUE, from |-> lead, remote |-> Manifest(lead),
                     mine |-> Manifest(n), next |-> 1, changed |-> {}]
    <3>1. \A m \in Holder : Manifest(m) \in [File -> Info]
      <4> SUFFICES ASSUME NEW m \in Holder, NEW f \in File
                   PROVE  [size |-> Len(files[m][f]), mtime |-> mtime[m][f]] \in Info
        BY DEF Manifest
      <4>1. files[m][f] \in Seq(Nat) /\ mtime[m][f] \in Nat
        BY DEF MirrorInv, MirrorTypes
      <4> QED BY <4>1 DEF Info
    <3>2. Manifest(n)["events"].size = Len(j)
      BY StandbyFacts DEF Manifest, Journal
    <3>3. p \in PassRec
      <4>1. lead \in Holder /\ Manifest(lead) \in [File -> Info] /\ Manifest(n) \in [File -> Info]
        BY <3>1, StandbyFacts
      <4> QED BY <4>1 DEF PassRec
    <3>4. pass' = [pass EXCEPT ![n] = p]
      BY <2>1 DEF PassBegin
    <3> QED BY <3>2, <3>3, <3>4
  <2>2. CASE Skip(n)
    <3> DEFINE p == [pass[n] EXCEPT !.next = @ + 1]
    <3>1. pass' = [pass EXCEPT ![n].next = @ + 1]
      BY <2>2 DEF Skip
    <3>2. pass[n] \in PassRec
      BY StandbyFacts
    <3>3. pass' = [pass EXCEPT ![n] = p]
      BY <3>1, StandbyFacts
    <3>4. p \in PassRec /\ p.next # 1
      BY <3>2 DEF PassRec
    <3> QED BY <3>3, <3>4
  <2> QED BY <2>1, <2>2
<1>4. pass \in [Holder -> PassRec]
  BY StandbyFacts
<1>5. pass' \in [Holder -> PassRec] /\ pass'[n] = p /\ \A m \in Holder : m # n => pass'[m] = pass[m]
  BY <1>3, <1>4
<1> HIDE DEF j
<1>6. pass'[n].on /\ pass'[n].next = 1 => pass'[n].mine["events"].size = Len(j)
  BY <1>3, <1>5
<1>7. /\ files' \in [Holder -> [File -> Seq(Nat)]] /\ mtime' \in [Holder -> [File -> Nat]]
      /\ last' \in [Holder -> [File -> Info]] /\ sources' \in [Holder -> SUBSET (Holder \X Nat)]
      /\ files'[n]["events"] = j
      /\ last'[n]["events"].size > 0 => sources'[n] # {}
      /\ \A s \in sources'[n] : s[2] <= failovers
  BY <1>1, <1>2, StandbyFacts
<1>8. \A m \in Holder : m # n => /\ files'[m] = files[m] /\ last'[m] = last[m]
                                 /\ pass'[m] = pass[m] /\ sources'[m] = sources[m]
  BY <1>1, <1>5
<1> QED BY <1>1, <1>2, <1>5, <1>6, <1>7, <1>8, StandbyKeeps

\* What is left of two journals when a part of t from where s ends is put to s.
Grown(s, t, j) ==
    /\ j \in Seq(Nat)
    /\ \A i \in DOMAIN j : (i \in DOMAIN s /\ j[i] = s[i]) \/ (i \in DOMAIN t /\ j[i] = t[i])
    /\ s # <<>> => j # <<>> /\ Head(j) = Head(s)
    /\ IsPrefix(s, t) => IsPrefix(j, t)

LEMMA TailPut ==
    ASSUME NEW s \in Seq(Nat), NEW t \in Seq(Nat), NEW m \in Nat, m <= Len(t)
    PROVE  Grown(s, t, s \o SubSeq(t, Len(s) + 1, m))
<1>0. Len(s) \in Nat /\ Len(t) \in Nat
  OBVIOUS
<1>3. PICK u : u = SubSeq(t, Len(s) + 1, m)
  OBVIOUS
<1>1. CASE m <= Len(s)
  <2>1. u = <<>>
    BY <1>0, <1>1, <1>3, SubSeqEmpty
  <2>2. s \o u = s
    BY <2>1, ConcatEmptySeq
  <2>3. Grown(s, t, s)
    BY DEF Grown
  <2> QED BY <1>3, <2>2, <2>3
<1>2. CASE ~(m <= Len(s))
  <2>1. u \in Seq(Nat) /\ Len(u) = m - Len(s) /\ \A i \in 1 .. Len(u) : u[i] = t[Len(s) + i]
    <3>1. PICK k : k = Len(s) + 1
      OBVIOUS
    <3>2. k \in Int /\ m \in Int /\ k <= m /\ m - k + 1 = m - Len(s)
      BY <1>0, <1>2, <3>1
    <3>3. \A i \in k .. m : t[i] \in Nat
      BY <1>0, <3>1
    <3>4. /\ SubSeq(t, k, m) \in Seq(Nat) /\ Len(SubSeq(t, k, m)) = m - k + 1
          /\ \A i \in 1 .. m - k + 1 : SubSeq(t, k, m)[i] = t[k + i - 1]
      BY <3>2, <3>3, SubSeqProperties
    <3>5. \A i \in 1 .. m - Len(s) : k + i - 1 = Len(s) + i
      BY <1>0, <3>1
    <3>6. u = SubSeq(t, k, m)
      BY <1>3, <3>1
    <3> QED BY <3>2, <3>4, <3>5, <3>6
  <2>0. PICK j : j = s \o u
    OBVIOUS
  <2>2. /\ j \in Seq(Nat) /\ Len(j) = m /\ DOMAIN j = 1 .. m
        /\ \A i \in 1 .. m : j[i] = IF i <= Len(s) THEN s[i] ELSE u[i - Len(s)]
    <3>1. /\ s \o u \in Seq(Nat) /\ Len(s \o u) = Len(s) + Len(u)
          /\ \A i \in 1 .. Len(s) + Len(u) : (s \o u)[i] = IF i <= Len(s) THEN s[i] ELSE u[i - Len(s)]
      <4>1. u \in Seq(Nat)
        BY <2>1
      <4> QED BY <4>1, ConcatProperties, Zenon
    <3>2. Len(s) + Len(u) = m
      BY <1>0, <1>2, <2>1
    <3>4. j \in Seq(Nat) /\ Len(j) = m
      BY <2>0, <3>1, <3>2
    <3>3. DOMAIN j = 1 .. m
      BY <3>4
    <3> QED BY <2>0, <3>1, <3>2, <3>3, <3>4
  <2>3. \A i \in 1 .. m : IF i <= Len(s) THEN i \in DOMAIN s /\ j[i] = s[i] ELSE i \in DOMAIN t /\ j[i] = t[i]
    <3> SUFFICES ASSUME NEW i \in 1 .. m
                 PROVE  IF i <= Len(s) THEN i \in DOMAIN s /\ j[i] = s[i] ELSE i \in DOMAIN t /\ j[i] = t[i]
      OBVIOUS
    <3>1. CASE i <= Len(s)
      BY <1>0, <2>2, <3>1
    <3>2. CASE ~(i <= Len(s))
      <4>1. i - Len(s) \in 1 .. Len(u) /\ i \in 1 .. Len(t) /\ Len(s) + (i - Len(s)) = i
        BY <1>0, <2>1, <3>2
      <4>2. j[i] = u[i - Len(s)]
        BY <2>2, <3>2
      <4>3. u[i - Len(s)] = t[i]
        BY <2>1, <4>1
      <4>4. i \in DOMAIN t
        BY <4>1
      <4> QED BY <3>2, <4>2, <4>3, <4>4
    <3> QED BY <3>1, <3>2
  <2>4. s # <<>> => j # <<>> /\ Head(j) = Head(s)
    <3> SUFFICES ASSUME s # <<>> PROVE j # <<>> /\ Head(j) = Head(s)
      OBVIOUS
    <3>1. Len(s) >= 1 /\ m >= 1
      BY <1>0, <1>2
    <3>2. j[1] = s[1]
      BY <1>0, <2>3, <3>1
    <3> QED BY <2>2, <3>1, <3>2
  <2>5. ASSUME IsPrefix(s, t) PROVE IsPrefix(j, t)
    <3>1. \A i \in 1 .. Len(s) : s[i] = t[i]
      BY <2>5, PrefixElements
    <3>2. \A i \in 1 .. m : j[i] = t[i]
      <4> SUFFICES ASSUME NEW i \in 1 .. m PROVE j[i] = t[i]
        OBVIOUS
      <4>1. CASE i <= Len(s)
        <5>1. i \in 1 .. Len(s)
          BY <1>0, <4>1
        <5> QED BY <2>3, <3>1, <4>1, <5>1
      <4>2. CASE ~(i <= Len(s))
        BY <2>3, <4>2
      <4> QED BY <4>1, <4>2
    <3> QED BY <2>2, <3>2, PrefixElements
  <2>6. \A i \in DOMAIN j : (i \in DOMAIN s /\ j[i] = s[i]) \/ (i \in DOMAIN t /\ j[i] = t[i])
    BY <2>2, <2>3
  <2>7. Grown(s, t, j)
    BY <2>2, <2>4, <2>5, <2>6 DEF Grown
  <2> QED BY <1>3, <2>0, <2>7
<1> QED BY <1>1, <1>2

\* A tail is put only to a journal, at its end, and one that was fetched before.
LEMMA OffsetFacts ==
    ASSUME MirrorInv, NEW n \in Holder, AtFile(n)
    PROVE  /\ Current(n) \in File
           /\ Offset(n, Current(n)) \in Nat
           /\ Current(n) = "events" => pass[n].next = 1
           /\ Offset(n, Current(n)) > 0 => /\ Current(n) = "events" /\ sources[n] # {}
                                           /\ Offset(n, Current(n)) = Len(Journal(n))
<1>1. pass[n] \in PassRec /\ pass[n].on /\ pass[n].next \in Nat \ {0} /\ pass[n].next <= 3
  BY StandbyFacts DEF AtFile, InOrder, PassRec
<1>2. pass[n].next \in {1, 2, 3}
  BY <1>1
<1>3. /\ pass[n].next = 1 => Current(n) = "events"
      /\ pass[n].next = 2 => Current(n) = "state"
      /\ pass[n].next = 3 => Current(n) = "tsdb"
  BY DEF Current, InOrder
<1>4. Current(n) \in File /\ (Current(n) = "events" => pass[n].next = 1)
  BY <1>2, <1>3 DEF File
<1>5. pass[n].mine[Current(n)].size \in Nat
  BY <1>1, <1>4 DEF PassRec, Info
<1>6. Offset(n, Current(n)) \in {0, pass[n].mine[Current(n)].size}
  BY DEF Offset
<1>7. ASSUME Offset(n, Current(n)) > 0
      PROVE  /\ Current(n) = "events" /\ sources[n] # {}
             /\ Offset(n, Current(n)) = Len(Journal(n))
  <2>1. /\ Current(n) \in Tailed /\ last[n][Current(n)].size = pass[n].mine[Current(n)].size
        /\ Offset(n, Current(n)) = pass[n].mine[Current(n)].size
    BY <1>7 DEF Offset
  <2>2. Current(n) = "events"
    BY <2>1 DEF Tailed
  <2>3. pass[n].mine["events"].size = Len(Journal(n))
    BY <1>1, <1>4, <2>2, StandbyFacts
  <2>4. last[n]["events"].size > 0
    BY <1>7, <2>1, <2>2
  <2> QED BY <2>1, <2>2, <2>3, <2>4, StandbyFacts
<1> QED BY <1>4, <1>5, <1>6, <1>7

LEMMA TailOf ==
    ASSUME NEW t \in Seq(Nat), NEW o \in Nat
    PROVE  SubSeq(t, o + 1, Len(t)) \in Seq(Nat) /\ (o = 0 => SubSeq(t, o + 1, Len(t)) = t)
<1>1. Len(t) \in Int /\ o + 1 \in Int
  OBVIOUS
<1>2. \A i \in o + 1 .. Len(t) : t[i] \in Nat
  OBVIOUS
<1>3. SubSeq(t, o + 1, Len(t)) \in Seq(Nat)
  BY <1>1, <1>2, SubSeqProperties
<1>4. SubSeq(t, 1, Len(t)) = t
  BY SubSeqFull
<1> QED BY <1>3, <1>4

\* The copy of a file arrives: the whole, or a tail of the journal.
LEMMA FetchKeeps == ASSUME MirrorInv, NEW n \in Holder, Fetch(n) PROVE MirrorInv'
<1> PICK f : f = Current(n)
  OBVIOUS
<1> PICK src : src = pass[n].from
  OBVIOUS
<1> PICK off : off = Offset(n, f)
  OBVIOUS
<1> PICK t : t = files[src][f]
  OBVIOUS
<1>1. /\ AtFile(n) /\ UNCHANGED <<lead, clock, failovers>>
      /\ files' = [files EXCEPT ![n][f] = IF off > 0 THEN @ \o SubSeq(t, off + 1, Len(t)) ELSE SubSeq(t, off + 1, Len(t))]
      /\ mtime' = [mtime EXCEPT ![n][f] = pass[n].remote[f].mtime]
      /\ last'  = [last EXCEPT ![n][f] = pass[n].remote[f]]
      /\ pass'  = [pass EXCEPT ![n].next = @ + 1, ![n].changed = @ \union {f}]
      /\ sources' = IF f = "events"
                    THEN [sources EXCEPT ![n] = (IF off > 0 THEN @ ELSE {}) \union {<<src, failovers>>}]
                    ELSE sources
  BY DEF Fetch
<1>2. /\ f \in File /\ off \in Nat
      /\ off > 0 => f = "events" /\ sources[n] # {} /\ off = Len(Journal(n))
  BY <1>1, OffsetFacts
<1>3. /\ pass[n] \in PassRec /\ pass[n].on /\ n # lead /\ "events" \in File /\ lead \in Holder
      /\ files \in [Holder -> [File -> Seq(Nat)]] /\ mtime \in [Holder -> [File -> Nat]]
      /\ last \in [Holder -> [File -> Info]] /\ pass \in [Holder -> PassRec]
      /\ sources \in [Holder -> SUBSET (Holder \X Nat)]
  BY <1>1, StandbyFacts DEF AtFile
<1>4. pass[n].remote[f] \in Info /\ pass[n].remote[f].mtime \in Nat /\ src \in Holder /\ failovers \in Nat
  BY <1>2, <1>3 DEF PassRec, Info, MirrorInv, MirrorTypes
<1>5. t \in Seq(Nat) /\ Len(t) \in Nat /\ Journal(n) \in Seq(Nat) /\ Journal(lead) \in Seq(Nat)
  BY <1>2, <1>3, <1>4 DEF Journal
<1> DEFINE new == IF off > 0 THEN files[n][f] \o SubSeq(t, off + 1, Len(t)) ELSE t
<1>6. SubSeq(t, off + 1, Len(t)) \in Seq(Nat) /\ (off = 0 => SubSeq(t, off + 1, Len(t)) = t)
  BY <1>2, <1>5, TailOf
<1>7. new \in Seq(Nat)
  BY <1>2, <1>3, <1>5, <1>6
<1>8. files' = [files EXCEPT ![n][f] = new]
  <2>1. new = IF off > 0 THEN files[n][f] \o SubSeq(t, off + 1, Len(t)) ELSE SubSeq(t, off + 1, Len(t))
    <3>1. CASE off > 0
      BY <3>1
    <3>2. CASE off = 0
      BY <1>6, <3>2
    <3> QED BY <1>2, <3>1, <3>2
  <2>2. files' = [files EXCEPT ![n][f] = IF off > 0 THEN files[n][f] \o SubSeq(t, off + 1, Len(t)) ELSE SubSeq(t, off + 1, Len(t))]
    BY <1>1
  <2> HIDE DEF new
  <2> QED BY <2>1, <2>2
<1> DEFINE j == IF f = "events" THEN new ELSE Journal(n)
<1>9. j \in Seq(Nat)
  BY <1>5, <1>7
<1>10. files[n]["events"] = Journal(n) /\ (f = "events" => new = IF off > 0 THEN Journal(n) \o SubSeq(t, off + 1, Len(t)) ELSE t)
  BY DEF Journal
<1> HIDE DEF new
<1>11. files' \in [Holder -> [File -> Seq(Nat)]] /\ files'[n]["events"] = j
  <2>1. PICK row : row = [files[n] EXCEPT ![f] = new]
    OBVIOUS
  <2>2. row \in [File -> Seq(Nat)] /\ row["events"] = j
    BY <1>2, <1>3, <1>7, <1>10, <2>1
  <2>3. files' = [files EXCEPT ![n] = row]
    BY <1>8, <2>1
  <2> QED BY <1>3, <2>2, <2>3
<1>12. /\ mtime' \in [Holder -> [File -> Nat]] /\ last' \in [Holder -> [File -> Info]]
       /\ last'[n]["events"] = IF f = "events" THEN pass[n].remote[f] ELSE last[n]["events"]
  <2>1. PICK row : row = [last[n] EXCEPT ![f] = pass[n].remote[f]]
    OBVIOUS
  <2>2. row \in [File -> Info] /\ row["events"] = IF f = "events" THEN pass[n].remote[f] ELSE last[n]["events"]
    BY <1>2, <1>3, <1>4, <2>1
  <2>3. last' = [last EXCEPT ![n] = row]
    BY <1>1, <2>1
  <2>4. mtime' \in [Holder -> [File -> Nat]]
    BY <1>1, <1>2, <1>3, <1>4
  <2> QED BY <1>3, <2>2, <2>3, <2>4
<1>13. /\ sources' \in [Holder -> SUBSET (Holder \X Nat)]
       /\ sources'[n] = IF f = "events" THEN (IF off > 0 THEN sources[n] ELSE {}) \union {<<src, failovers>>} ELSE sources[n]
  <2>1. PICK now : now = (IF off > 0 THEN sources[n] ELSE {}) \union {<<src, failovers>>}
    OBVIOUS
  <2>2. now \in SUBSET (Holder \X Nat)
    BY <1>3, <1>4, <2>1
  <2>3. sources' = IF f = "events" THEN [sources EXCEPT ![n] = now] ELSE sources
    BY <1>1, <2>1
  <2> QED BY <1>3, <2>1, <2>2, <2>3
<1>14. pass' \in [Holder -> PassRec] /\ pass'[n].next # 1 /\ \A m \in Holder : m # n => pass'[m] = pass[m]
  <2> DEFINE p == [pass[n] EXCEPT !.next = @ + 1, !.changed = @ \union {f}]
  <2>1. pass' = [pass EXCEPT ![n] = p]
    BY <1>1, <1>3
  <2>2. p \in PassRec /\ p.next = pass[n].next + 1 /\ pass[n].next \in Nat \ {0}
    <3> PICK q : q = pass[n]
      OBVIOUS
    <3>1. q \in PassRec /\ p = [q EXCEPT !.next = @ + 1, !.changed = @ \union {f}] /\ f \in File
      BY <1>2, <1>3
    <3>0. q.changed \union {f} \in SUBSET File /\ q.next + 1 \in Nat \ {0} /\ q.next \in Nat \ {0}
      BY <3>1 DEF PassRec
    <3> PICK c : c = q.changed \union {f}
      OBVIOUS
    <3> PICK x : x = q.next + 1
      OBVIOUS
    <3> DEFINE further == [q EXCEPT !.next = x]
    <3>3. p = [further EXCEPT !.changed = c]
      BY <3>1
    <3>4. further \in PassRec /\ further.next = x
      BY <3>0, <3>1 DEF PassRec
    <3> HIDE DEF p, further
    <3>5. \A r \in PassRec : [r EXCEPT !.changed = c] \in PassRec /\ [r EXCEPT !.changed = c].next = r.next
      BY <3>0 DEF PassRec
    <3>2. p \in PassRec /\ p.next = q.next + 1 /\ q.next \in Nat \ {0}
      BY <3>0, <3>3, <3>4, <3>5
    <3> QED BY <3>1, <3>2 DEF p
  <2> HIDE DEF p
  <2> QED BY <1>3, <2>1, <2>2
<1>15. \A m \in Holder : m # n => files'[m] = files[m] /\ last'[m] = last[m] /\ sources'[m] = sources[m]
  BY <1>1, <1>3, <1>8
<1>16. \A i \in DOMAIN j : j[i] <= clock
  <2>1. \A m \in Holder : \A i \in DOMAIN Journal(m) : Journal(m)[i] <= clock
    BY DEF MirrorInv, Stamped
  <2>2. CASE f # "events"
    BY <2>1, <2>2
  <2>3. CASE f = "events"
    <3>1. t = Journal(src) /\ \A i \in DOMAIN t : t[i] <= clock
      BY <1>4, <2>1, <2>3 DEF Journal
    <3>2. CASE off = 0
      BY <1>10, <2>3, <3>1, <3>2
    <3>3. CASE off > 0
      <4>1. j = Journal(n) \o SubSeq(t, Len(Journal(n)) + 1, Len(t))
        BY <1>2, <1>10, <2>3, <3>3
      <4> HIDE DEF j
      <4>2. \A i \in DOMAIN j : (i \in DOMAIN Journal(n) /\ j[i] = Journal(n)[i]) \/ (i \in DOMAIN t /\ j[i] = t[i])
        <5>1. Grown(Journal(n), t, j)
          BY <1>5, <4>1, TailPut, SMTT(30)
        <5> QED BY <5>1 DEF Grown
      <4> QED BY <2>1, <3>1, <4>2
    <3> QED BY <1>2, <3>2, <3>3
  <2> QED BY <2>2, <2>3
<1>17. ASSUME sources'[n] = {Leadership}, j # <<>>, Journal(lead) # <<>>, Head(Journal(lead)) = Head(j)
       PROVE  IsPrefix(j, Journal(lead))
  <2>1. CASE f # "events"
    BY <1>3, <1>13, <1>17, <2>1, StandbyFacts
  <2>2. CASE f = "events"
    <3>1. <<src, failovers>> = <<lead, failovers>>
      BY <1>13, <1>17, <2>2 DEF Leadership
    <3>2. src = lead /\ t = Journal(lead)
      BY <2>2, <3>1 DEF Journal
    <3>3. CASE off = 0
      <4>1. j = Journal(lead)
        BY <1>10, <2>2, <3>2, <3>3
      <4>2. IsPrefix(Journal(lead), Journal(lead))
        BY <1>5, PrefixElements
      <4> QED BY <4>1, <4>2
    <3>4. CASE off > 0
      <4>1. j = Journal(n) \o SubSeq(t, Len(Journal(n)) + 1, Len(t))
        BY <1>2, <1>10, <2>2, <3>4
      <4>2. Journal(n) # <<>>
        BY <1>2, <1>5, <3>4
      <4> HIDE DEF j
      <4>3. Head(j) = Head(Journal(n)) /\ (IsPrefix(Journal(n), t) => IsPrefix(j, t))
        <5>1. Grown(Journal(n), t, j)
          BY <1>5, <4>1, TailPut, SMTT(30)
        <5> QED BY <4>2, <5>1 DEF Grown
      <4>4. sources[n] = {Leadership}
        BY <1>2, <1>13, <1>17, <2>2, <3>4
      <4>5. IsPrefix(Journal(n), Journal(lead))
        BY <1>3, <1>17, <4>2, <4>3, <4>4, StandbyFacts
      <4> QED BY <3>2, <4>3, <4>5
    <3> QED BY <1>2, <3>3, <3>4
  <2> QED BY <2>1, <2>2
<1> HIDE DEF j
<1>18. last'[n]["events"].size > 0 => sources'[n] # {}
  BY <1>12, <1>13, StandbyFacts
<1>19. \A s \in sources'[n] : s[2] <= failovers
  <2>1. \A s \in sources[n] : s[2] <= failovers
    BY StandbyFacts
  <2>2. <<src, failovers>>[2] <= failovers
    BY <1>4
  <2> QED BY <1>13, <2>1, <2>2
<1>20. pass'[n].on /\ pass'[n].next = 1 => pass'[n].mine["events"].size = Len(j)
  BY <1>14
<1>21. \A m \in Holder : m # n => /\ files'[m] = files[m] /\ last'[m] = last[m]
                                  /\ pass'[m] = pass[m] /\ sources'[m] = sources[m]
  BY <1>14, <1>15
<1>22. sources'[n] = {Leadership} /\ j # <<>> /\ Journal(lead) # <<>> /\ Head(Journal(lead)) = Head(j)
         => IsPrefix(j, Journal(lead))
  BY <1>17
<1>23. UNCHANGED <<lead, clock, failovers>> /\ n # lead
  BY <1>1, <1>3
<1>24. /\ files' \in [Holder -> [File -> Seq(Nat)]] /\ mtime' \in [Holder -> [File -> Nat]]
       /\ last' \in [Holder -> [File -> Info]] /\ pass' \in [Holder -> PassRec]
       /\ sources' \in [Holder -> SUBSET (Holder \X Nat)] /\ files'[n]["events"] = j
  BY <1>11, <1>12, <1>13, <1>14
<1> QED BY <1>9, <1>16, <1>18, <1>19, <1>20, <1>21, <1>22, <1>23, <1>24, StandbyKeeps

\* The fetch breaks off: of a tail the first k lines may be there.
LEMMA FetchFailsKeeps == ASSUME MirrorInv, NEW n \in Holder, NEW k \in Nat, FetchFails(n, k) PROVE MirrorInv'
<1>24. PICK f : f = Current(n)
  OBVIOUS
<1>25. PICK src : src = pass[n].from
  OBVIOUS
<1>26. PICK off : off = Offset(n, f)
  OBVIOUS
<1>27. PICK t : t = files[src][f]
  OBVIOUS
<1>1. /\ AtFile(n) /\ UNCHANGED <<lead, last, clock, failovers>>
      /\ k \in 0 .. (IF off > 0 /\ Len(t) > off THEN Len(t) - off ELSE 0)
      /\ files' = [files EXCEPT ![n][f] = @ \o SubSeq(t, off + 1, off + k)]
      /\ mtime' = IF k = 0 THEN mtime ELSE [mtime EXCEPT ![n][f] = clock]
      /\ pass'  = [pass EXCEPT ![n] = Resting]
      /\ sources' = [sources EXCEPT ![n] = IF k = 0 THEN @ ELSE @ \union {<<src, failovers>>}]
  BY <1>24, <1>25, <1>26, <1>27 DEF FetchFails
<1>2. /\ f \in File /\ off \in Nat
      /\ off > 0 => f = "events" /\ sources[n] # {} /\ off = Len(Journal(n))
  BY <1>1, <1>24, <1>26, OffsetFacts
<1>3. /\ pass[n] \in PassRec /\ pass[n].on /\ n # lead /\ "events" \in File /\ lead \in Holder
      /\ files \in [Holder -> [File -> Seq(Nat)]] /\ mtime \in [Holder -> [File -> Nat]]
      /\ last \in [Holder -> [File -> Info]] /\ pass \in [Holder -> PassRec]
      /\ sources \in [Holder -> SUBSET (Holder \X Nat)] /\ clock \in Nat
      /\ Resting \in PassRec /\ ~Resting.on
  BY <1>1, StandbyFacts DEF AtFile
<1>4. src \in Holder /\ failovers \in Nat
  BY <1>3, <1>25 DEF PassRec, MirrorInv, MirrorTypes
<1>5. t \in Seq(Nat) /\ Len(t) \in Nat /\ Journal(n) \in Seq(Nat) /\ Journal(lead) \in Seq(Nat)
  BY <1>2, <1>3, <1>4, <1>27 DEF Journal
<1>6. k > 0 => off > 0 /\ off + k <= Len(t) /\ f = "events" /\ off = Len(Journal(n))
  BY <1>1, <1>2, <1>5
<1>7. k = 0 => files' = files
  <2> SUFFICES ASSUME k = 0 PROVE files' = files
    OBVIOUS
  <2>1. SubSeq(t, off + 1, off + k) = <<>>
    BY <1>2, <1>5
  <2>2. files[n][f] \in Seq(Nat)
    BY <1>2, <1>3
  <2>3. files[n][f] \o <<>> = files[n][f]
    BY <2>2, ConcatEmptySeq
  <2>4. files' = [files EXCEPT ![n][f] = files[n][f]]
    BY <1>1, <2>1, <2>3
  <2> QED BY <1>2, <1>3, <2>4
<1>23. PICK j : j = IF k = 0 THEN Journal(n) ELSE Journal(n) \o SubSeq(t, Len(Journal(n)) + 1, Len(Journal(n)) + k)
  OBVIOUS
<1>8. k > 0 =>
         /\ j \in Seq(Nat)
         /\ \A i \in DOMAIN j : (i \in DOMAIN Journal(n) /\ j[i] = Journal(n)[i]) \/ (i \in DOMAIN t /\ j[i] = t[i])
         /\ Head(j) = Head(Journal(n))
         /\ IsPrefix(Journal(n), t) => IsPrefix(j, t)
  <2> SUFFICES ASSUME k > 0
               PROVE  /\ j \in Seq(Nat)
                      /\ \A i \in DOMAIN j : (i \in DOMAIN Journal(n) /\ j[i] = Journal(n)[i]) \/ (i \in DOMAIN t /\ j[i] = t[i])
                      /\ Head(j) = Head(Journal(n))
                      /\ IsPrefix(Journal(n), t) => IsPrefix(j, t)
    OBVIOUS
  <2>1. PICK m : m = off + k
    OBVIOUS
  <2>2. m \in Nat /\ m <= Len(t) /\ m = Len(Journal(n)) + k /\ Journal(n) # <<>>
    <3>1. k \in Nat /\ k > 0 /\ off > 0 /\ off + k <= Len(t) /\ off = Len(Journal(n))
      BY <1>6
    <3> QED BY <1>2, <1>5, <2>1, <3>1
  <2>3. j = Journal(n) \o SubSeq(t, Len(Journal(n)) + 1, m)
    BY <1>23, <2>2
  <2>4. Grown(Journal(n), t, j)
    BY <1>5, <2>2, <2>3, TailPut
  <2> QED BY <2>2, <2>4 DEF Grown
<1>9. j \in Seq(Nat)
  <2>1. CASE k = 0
    BY <1>5, <1>23, <2>1
  <2>2. CASE k # 0
    <3>1. k > 0
      BY <2>2
    <3> QED BY <1>8, <3>1
  <2> QED BY <2>1, <2>2
<1>10. files' \in [Holder -> [File -> Seq(Nat)]] /\ files'[n]["events"] = j /\ \A m \in Holder : m # n => files'[m] = files[m]
  <2>1. CASE k = 0
    BY <1>3, <1>7, <1>23, <2>1 DEF Journal
  <2>2. CASE k > 0
    <3>1. files' = [files EXCEPT ![n]["events"] = j]
      <4>1. files[n]["events"] = Journal(n) /\ f = "events" /\ j = Journal(n) \o SubSeq(t, off + 1, off + k)
        <5>1. off = Len(Journal(n)) /\ f = "events" /\ k # 0
          BY <1>6, <2>2
        <5> QED BY <1>23, <5>1 DEF Journal
      <4> QED BY <1>1, <4>1
    <3> QED BY <1>3, <1>9, <3>1
  <2> QED BY <2>1, <2>2
<1>11. mtime' \in [Holder -> [File -> Nat]] /\ last' = last
  BY <1>1, <1>2, <1>3
<1>12. /\ sources' \in [Holder -> SUBSET (Holder \X Nat)]
       /\ sources'[n] = IF k = 0 THEN sources[n] ELSE sources[n] \union {<<src, failovers>>}
       /\ \A m \in Holder : m # n => sources'[m] = sources[m]
  <2>1. PICK now : now = IF k = 0 THEN sources[n] ELSE sources[n] \union {<<src, failovers>>}
    OBVIOUS
  <2>2. now \in SUBSET (Holder \X Nat)
    BY <1>3, <1>4, <2>1
  <2>3. sources' = [sources EXCEPT ![n] = now]
    BY <1>1, <1>3, <2>1
  <2> QED BY <1>3, <2>1, <2>2, <2>3
<1>13. pass' \in [Holder -> PassRec] /\ ~pass'[n].on /\ \A m \in Holder : m # n => pass'[m] = pass[m]
  BY <1>1, <1>3
<1>14. \A i \in DOMAIN j : j[i] <= clock
  <2>1. \A m \in Holder : \A i \in DOMAIN Journal(m) : Journal(m)[i] <= clock
    BY DEF MirrorInv, Stamped
  <2>2. CASE k = 0
    BY <1>23, <2>1, <2>2
  <2>3. CASE k > 0
    <3>1. t = Journal(src) /\ \A i \in DOMAIN t : t[i] <= clock
      BY <1>4, <1>6, <1>27, <2>1, <2>3 DEF Journal
    <3> QED BY <1>8, <2>1, <2>3, <3>1
  <2> QED BY <2>2, <2>3
<1>15. ASSUME sources'[n] = {Leadership}, j # <<>>, Journal(lead) # <<>>, Head(Journal(lead)) = Head(j)
       PROVE  IsPrefix(j, Journal(lead))
  <2>1. CASE k = 0
    BY <1>3, <1>12, <1>15, <1>23, <2>1, StandbyFacts
  <2>2. CASE k > 0
    <3>5. sources[n] # {}
      BY <1>2, <1>6, <2>2
    <3>1. <<src, failovers>> = <<lead, failovers>> /\ sources[n] # {}
      <4>1. <<src, failovers>> \in sources'[n]
        BY <1>12, <2>2
      <4> QED BY <1>15, <3>5, <4>1 DEF Leadership
    <3>2. src = lead /\ t = Journal(lead) /\ sources[n] = {Leadership}
      BY <1>6, <1>12, <1>15, <1>27, <2>2, <3>1 DEF Journal
    <3>3. Journal(n) # <<>>
      BY <1>5, <1>6, <2>2
    <3>4. IsPrefix(Journal(n), Journal(lead))
      BY <1>3, <1>8, <1>15, <2>2, <3>2, <3>3, StandbyFacts
    <3> QED BY <1>8, <2>2, <3>2, <3>4
  <2> QED BY <2>1, <2>2
<1>16. last'[n]["events"].size > 0 => sources'[n] # {}
  BY <1>11, <1>12, StandbyFacts
<1>17. \A s \in sources'[n] : s[2] <= failovers
  <2>1. \A s \in sources[n] : s[2] <= failovers
    BY StandbyFacts
  <2>2. <<src, failovers>>[2] <= failovers
    BY <1>4
  <2> QED BY <1>12, <2>1, <2>2
<1>18. pass'[n].on /\ pass'[n].next = 1 => pass'[n].mine["events"].size = Len(j)
  BY <1>13
<1>19. \A m \in Holder : m # n => /\ files'[m] = files[m] /\ last'[m] = last[m]
                                  /\ pass'[m] = pass[m] /\ sources'[m] = sources[m]
  BY <1>10, <1>11, <1>12, <1>13
<1>20. sources'[n] = {Leadership} /\ j # <<>> /\ Journal(lead) # <<>> /\ Head(Journal(lead)) = Head(j)
         => IsPrefix(j, Journal(lead))
  BY <1>15
<1>21. UNCHANGED <<lead, clock, failovers>> /\ n # lead
  BY <1>1, <1>3
<1>22. last' \in [Holder -> [File -> Info]]
  BY <1>3, <1>11
<1> QED BY <1>9, <1>10, <1>11, <1>12, <1>13, <1>14, <1>16, <1>17, <1>18, <1>19, <1>20, <1>21, <1>22, StandbyKeeps

\* The pass ends: the journal may go, with what is remembered of it.
LEMMA PassEndKeeps == ASSUME MirrorInv, NEW n \in Holder, PassEnd(n) PROVE MirrorInv'
<1>2. PICK gone : gone = {f \in File : Wanted(n, f) /\ ~Listed(n, f) /\ pass[n].mine[f].size > 0}
  OBVIOUS
<1>1. /\ UNCHANGED <<lead, mtime, sources, clock, failovers>> /\ pass[n].on
      /\ files' = [files EXCEPT ![n] = [f \in File |-> IF f \in gone THEN <<>> ELSE @[f]]]
      /\ last'  = [last EXCEPT ![n] = [f \in File |-> IF f \in gone THEN NoInfo ELSE @[f]]]
      /\ pass'  = [pass EXCEPT ![n] = Resting]
  BY <1>2 DEF PassEnd
<1>3. /\ n # lead /\ "events" \in File /\ lead \in Holder
      /\ files \in [Holder -> [File -> Seq(Nat)]] /\ mtime \in [Holder -> [File -> Nat]]
      /\ last \in [Holder -> [File -> Info]] /\ pass \in [Holder -> PassRec]
      /\ sources \in [Holder -> SUBSET (Holder \X Nat)] /\ clock \in Nat
      /\ Resting \in PassRec /\ ~Resting.on
  BY <1>1, StandbyFacts
<1>4. NoInfo \in Info /\ NoInfo.size = 0 /\ <<>> \in Seq(Nat)
  BY DEF NoInfo, Info
<1>16. PICK j : j = IF "events" \in gone THEN <<>> ELSE Journal(n)
  OBVIOUS
<1>5. j \in Seq(Nat)
  BY <1>4, <1>16, StandbyFacts
<1>6. files' \in [Holder -> [File -> Seq(Nat)]] /\ files'[n]["events"] = j /\ \A m \in Holder : m # n => files'[m] = files[m]
  BY <1>1, <1>3, <1>4, <1>16 DEF Journal
<1>7. /\ last' \in [Holder -> [File -> Info]]
      /\ last'[n]["events"] = (IF "events" \in gone THEN NoInfo ELSE last[n]["events"])
      /\ \A m \in Holder : m # n => last'[m] = last[m]
  BY <1>1, <1>3, <1>4
<1>8. pass' \in [Holder -> PassRec] /\ ~pass'[n].on /\ \A m \in Holder : m # n => pass'[m] = pass[m]
  BY <1>1, <1>3
<1>9. \A i \in DOMAIN j : j[i] <= clock
  <2>1. CASE "events" \in gone
    BY <1>16, <2>1
  <2>2. CASE ~("events" \in gone)
    BY <1>16, <2>2, StandbyFacts
  <2> QED BY <2>1, <2>2
<1>10. sources'[n] = {Leadership} /\ j # <<>> /\ Journal(lead) # <<>> /\ Head(Journal(lead)) = Head(j)
         => IsPrefix(j, Journal(lead))
  BY <1>1, <1>3, <1>16, StandbyFacts
<1>11. last'[n]["events"].size > 0 => sources'[n] # {}
  <2>1. last[n]["events"].size > 0 => sources[n] # {}
    BY StandbyFacts
  <2> QED BY <1>1, <1>4, <1>7, <2>1
<1>12. \A s \in sources'[n] : s[2] <= failovers
  BY <1>1, StandbyFacts
<1>13. pass'[n].on /\ pass'[n].next = 1 => pass'[n].mine["events"].size = Len(j)
  BY <1>8
<1>14. \A m \in Holder : m # n => /\ files'[m] = files[m] /\ last'[m] = last[m]
                                  /\ pass'[m] = pass[m] /\ sources'[m] = sources[m]
  BY <1>1, <1>6, <1>7, <1>8
<1>15. UNCHANGED <<lead, clock, failovers>> /\ mtime' \in [Holder -> [File -> Nat]] /\ sources' \in [Holder -> SUBSET (Holder \X Nat)]
  BY <1>1, <1>3
<1> QED BY <1>3, <1>5, <1>6, <1>7, <1>8, <1>9, <1>10, <1>11, <1>12, <1>13, <1>14, <1>15, StandbyKeeps

\* After a failover no journal was fetched under the new leadership yet.
LEMMA FailoverKeeps == ASSUME MirrorInv, NEW n \in Holder, Failover(n) PROVE MirrorInv'
<1>1. /\ n \in Full \ {lead} /\ failovers' = failovers + 1 /\ lead' = n
      /\ last'    = [m \in Holder |-> IF m \in {n, lead} THEN [f \in File |-> NoInfo] ELSE last[m]]
      /\ pass'    = [m \in Holder |-> IF m \in {n, lead} THEN [Resting EXCEPT !.from = n] ELSE pass[m]]
      /\ sources' = [m \in Holder |-> IF m \in {n, lead} THEN {} ELSE sources[m]]
      /\ UNCHANGED <<files, mtime, clock>>
  BY DEF Failover
<1>2. /\ lead \in Full /\ clock \in Nat /\ failovers \in Nat
      /\ files \in [Holder -> [File -> Seq(Nat)]] /\ mtime \in [Holder -> [File -> Nat]]
      /\ last \in [Holder -> [File -> Info]] /\ pass \in [Holder -> PassRec]
      /\ sources \in [Holder -> SUBSET (Holder \X Nat)]
      /\ Stamped /\ PassesKnow /\ SourcesArePast /\ "events" \in File
  BY DEF MirrorInv, MirrorTypes, File
<1>3. NoInfo \in Info /\ NoInfo.size = 0
  BY DEF NoInfo, Info
<1>4. [Resting EXCEPT !.from = n] \in PassRec /\ ~[Resting EXCEPT !.from = n].on
  BY StandbyFacts
<1> PICK rest : rest = [Resting EXCEPT !.from = n]
  OBVIOUS
<1>5. pass' = [m \in Holder |-> IF m \in {n, lead} THEN rest ELSE pass[m]] /\ rest \in PassRec /\ ~rest.on
  BY <1>1, <1>4
<1>6. MirrorTypes'
  <2>1. pass' \in [Holder -> PassRec]
    BY <1>2, <1>5
  <2>2. last' \in [Holder -> [File -> Info]] /\ sources' \in [Holder -> SUBSET (Holder \X Nat)]
    BY <1>1, <1>2, <1>3
  <2>3. lead' \in Full /\ failovers' \in Nat
    BY <1>1, <1>2
  <2> QED BY <1>1, <1>2, <2>1, <2>2, <2>3 DEF MirrorTypes
<1>7. \A m \in Holder : Journal(m)' = Journal(m)
  BY <1>1 DEF Journal
<1>8. Stamped'
  BY <1>1, <1>2, <1>7 DEF Stamped
<1>9. PassesKnow'
  <2>1. ~pass'[n].on /\ lead' = n
    BY <1>1, <1>5
  <2>2. \A m \in Holder : pass'[m].on /\ pass'[m].next = 1 => pass'[m].mine["events"].size = Len(Journal(m)')
    BY <1>2, <1>5, <1>7 DEF PassesKnow
  <2>3. \A m \in Holder : last'[m]["events"].size > 0 => sources'[m] # {}
    BY <1>1, <1>2, <1>3 DEF PassesKnow
  <2> QED BY <2>1, <2>2, <2>3 DEF PassesKnow
<1>10. \A m \in Holder : \A s \in sources'[m] : s[2] <= failovers /\ s[2] \in Nat
  BY <1>1, <1>2 DEF SourcesArePast
<1>11. SourcesArePast'
  BY <1>1, <1>2, <1>10 DEF SourcesArePast
<1>12. Copied'
  <2>1. ASSUME NEW m \in Holder, sources'[m] = {Leadership'} PROVE FALSE
    <3>1. Leadership' \in sources'[m] /\ Leadership'[2] = failovers + 1
      BY <1>1, <2>1 DEF Leadership
    <3> QED BY <1>2, <1>10, <3>1
  <2> QED BY <2>1 DEF Copied
<1> QED BY <1>6, <1>8, <1>9, <1>11, <1>12 DEF MirrorInv

LEMMA MirrorStep == MirrorInv /\ [MirrorNext]_mirrorVars => MirrorInv'
<1> SUFFICES ASSUME MirrorInv, [MirrorNext]_mirrorVars PROVE MirrorInv'
  OBVIOUS
<1>1. CASE UNCHANGED mirrorVars
  <2>1. UNCHANGED <<lead, files, mtime, last, pass, sources, clock, failovers>>
    BY <1>1 DEF mirrorVars
  <2>2. MirrorTypes' /\ Stamped' /\ PassesKnow' /\ SourcesArePast'
    BY <2>1 DEF MirrorInv, MirrorTypes, Stamped, PassesKnow, SourcesArePast, Journal
  <2>3. Copied'
    BY <2>1 DEF MirrorInv, Copied, Leadership, Journal, Unpruned
  <2> QED BY <2>2, <2>3 DEF MirrorInv
<1>2. CASE AppendLine \/ (\E f \in File \ Tailed : WriteWhole(f)) \/ (\E f \in File \ {"state"} : RemoveFile(f))
  BY <1>2, LeaderWrites
<1>3. CASE \E n \in Holder : PassBegin(n) \/ Skip(n)
  BY <1>3, PassKeeps
<1>4. CASE \E n \in Holder : Fetch(n)
  BY <1>4, FetchKeeps
<1>5. CASE \E n \in Holder : PassEnd(n)
  BY <1>5, PassEndKeeps
<1>6. CASE \E n \in Holder, k \in 0 .. MaxClock : FetchFails(n, k)
  <2>1. MaxClock \in Nat
    BY MirrorAssumption
  <2>2. PICK n \in Holder, k \in 0 .. MaxClock : FetchFails(n, k)
    BY <1>6
  <2>3. k \in Nat
    BY <2>1
  <2> QED BY <2>2, <2>3, FetchFailsKeeps
<1>7. CASE \E n \in Holder : Failover(n)
  BY <1>7, FailoverKeeps
<1> QED BY <1>1, <1>2, <1>3, <1>4, <1>5, <1>6, <1>7 DEF MirrorNext

\* What a standby has fetched of the journal under the present leader, whole or by tails,
\* over passes that broke off, is what the leader's journal begins with (SyncOnce, fetch).
THEOREM JournalsAreCopied == MirrorSpec => []JournalIsCopied
<1>1. MirrorInv => JournalIsCopied
  BY DEF MirrorInv, Copied, JournalIsCopied, Leadership, Journal, Holder
<1> QED BY <1>1, MirrorInitInv, MirrorStep, PTL DEF MirrorSpec

-----------------------------------------------------------------------------
(* Types.                                                                  *)

\* What LastOf keeps of a sequence, and of three put together.
LEMMA LastOfTyped ==
    ASSUME NEW T, NEW s \in Seq(T), NEW n \in Nat
    PROVE  LastOf(s, n) \in Seq(T) /\ Len(LastOf(s, n)) <= n
<1> PICK from : from = IF Len(s) > n THEN Len(s) - n + 1 ELSE 1
  OBVIOUS
<1>1. Len(s) \in Nat /\ from \in Nat \ {0} /\ Len(s) - from + 1 <= n
  BY LenProperties
<1>2. LastOf(s, n) = SubSeq(s, from, Len(s))
  BY DEF LastOf
<1>3. SubSeq(s, from, Len(s)) \in Seq(T) /\ Len(SubSeq(s, from, Len(s))) = IF from <= Len(s) THEN Len(s) - from + 1 ELSE 0
  BY <1>1, SubSeqProperties
<1> QED BY <1>1, <1>2, <1>3

\* An event as this process numbers it, and the events with the bounds of the counters.
BoundedEvent == (1..MaxOpens) \X (1..MaxEvents) \X Day
EventBounds ==
    /\ evDay \in Day \cup {0} /\ linked \in BOOLEAN /\ opens \in 1..MaxOpens
    /\ synced \in Nat /\ synced <= Len(added) /\ Len(added) <= MaxEvents
    /\ evRing \in Seq(BoundedEvent) /\ evBuf \in Seq(BoundedEvent) /\ added \in Seq(BoundedEvent)
    /\ evFiles \in [Day -> Seq(BoundedEvent)]
    /\ Len(evRing) <= EvMax

LEMMA FlushedTyped == ASSUME EventBounds PROVE Flushed \in [Day -> Seq(BoundedEvent)]
<1>1. \A d \in Day : evFiles[d] \in Seq(BoundedEvent) /\ evFiles[d] \o evBuf \in Seq(BoundedEvent)
  BY ConcatProperties DEF EventBounds
<1> QED BY <1>1 DEF Flushed

LEMMA LoadedTyped ==
    ASSUME EventBounds
    PROVE  LoadRecentEvents \in Seq(BoundedEvent) /\ Len(LoadRecentEvents) <= EvMax
<1>1. ASSUME NEW k PROVE Newest(k) \in Seq(BoundedEvent)
  <2> PICK at : at = {d \in Day : evFiles[d] # <<>> /\ Cardinality({e \in Day : e > d /\ evFiles[e] # <<>>}) = k}
    OBVIOUS
  <2>1. Newest(k) = IF at = {} THEN <<>> ELSE evFiles[CHOOSE d \in at : TRUE]
    BY DEF Newest
  <2>2. CASE at = {}
    BY <2>1, <2>2, EmptySeq
  <2>3. CASE at # {}
    <3>1. (CHOOSE d \in at : TRUE) \in at
      BY <2>3
    <3>2. (CHOOSE d \in at : TRUE) \in Day
      BY <3>1
    <3> QED BY <2>1, <2>3, <3>2 DEF EventBounds
  <2> QED BY <2>2, <2>3
<1>2. Newest(2) \o Newest(1) \in Seq(BoundedEvent)
  BY <1>1, ConcatProperties
<1>3. (Newest(2) \o Newest(1)) \o Newest(0) \in Seq(BoundedEvent)
  BY <1>1, <1>2, ConcatProperties
<1>4. EvMax \in Nat
  BY EventAssumption
<1> QED BY <1>3, <1>4, LastOfTyped DEF LoadRecentEvents

LEMMA EventsTyped ==
    /\ EventInit => EventBounds
    /\ EventBounds /\ [EventNext]_eventVars => EventBounds'
    /\ EventBounds => EventTypeOK
<1>0. EvMax \in Nat \ {0} /\ MaxEvents \in Nat \ {0} /\ MaxOpens \in Nat \ {0}
  BY EventAssumption
<1>1. ASSUME EventInit PROVE EventBounds
  <2>1. <<>> \in Seq(BoundedEvent) /\ Len(<<>>) = 0
    BY EmptySeq
  <2> QED BY <1>0, <1>1, <2>1 DEF EventInit, EventBounds
<1>2. ASSUME EventBounds, [EventNext]_eventVars PROVE EventBounds'
  <2>1. CASE UNCHANGED eventVars
    BY <1>2, <2>1 DEF eventVars, EventBounds
  <2>2. ASSUME NEW d \in Day, AddEvent(d) PROVE EventBounds'
    <3> PICK e : e = <<opens, Len(added) + 1, d>>
      OBVIOUS
    <3>0. Len(added) \in Nat /\ Len(added) < MaxEvents /\ opens \in 1..MaxOpens
      BY <1>2, <2>2, LenProperties DEF EventBounds, AddEvent
    <3>1. e \in BoundedEvent
      BY <1>0, <3>0 DEF BoundedEvent
    <3>2. added' = Append(added, e) /\ evRing' = LastOf(Append(evRing, e), EvMax) /\ evDay' = d /\ linked' = (evDay = d => linked)
          /\ opens' = opens /\ synced' = synced
          /\ \/ evBuf' = Append(evBuf, e) /\ evFiles' = evFiles
             \/ evBuf' = <<e>> /\ evFiles' = Flushed
      BY <2>2 DEF AddEvent
    <3>3. Append(added, e) \in Seq(BoundedEvent) /\ Append(evRing, e) \in Seq(BoundedEvent) /\ Append(evBuf, e) \in Seq(BoundedEvent)
          /\ Len(Append(added, e)) = Len(added) + 1
      BY <1>2, <3>1, AppendProperties DEF EventBounds
    <3>4. evRing' \in Seq(BoundedEvent) /\ Len(evRing') <= EvMax
      BY <1>0, <3>2, <3>3, LastOfTyped
    <3>5. evBuf' \in Seq(BoundedEvent) /\ evFiles' \in [Day -> Seq(BoundedEvent)]
      <4>1. <<e>> \in Seq(BoundedEvent)
        BY <3>1
      <4> QED BY <1>2, <3>2, <3>3, <4>1, FlushedTyped DEF EventBounds
    <3>6. added' \in Seq(BoundedEvent) /\ Len(added') <= MaxEvents /\ synced' \in Nat /\ synced' <= Len(added')
      BY <1>0, <1>2, <3>0, <3>2, <3>3 DEF EventBounds
    <3>7. linked' \in BOOLEAN
      BY <1>2, <3>2 DEF EventBounds
    <3> QED BY <3>0, <3>2, <3>4, <3>5, <3>6, <3>7 DEF EventBounds
  <2>3. ASSUME NEW d \in Day, PruneJournals(d) PROVE EventBounds'
    <3>1. <<>> \in Seq(BoundedEvent)
      BY EmptySeq
    <3>2. evFiles' \in [Day -> Seq(BoundedEvent)] /\ linked' \in BOOLEAN
      BY <1>2, <2>3, <3>1 DEF PruneJournals, EventBounds
    <3> QED BY <1>2, <2>3, <3>2 DEF PruneJournals, EventBounds
  <2>4. CASE FlushEvents \/ CloseEvents
    <3>1. <<>> \in Seq(BoundedEvent) /\ Len(added) \in Nat
      BY <1>2, EmptySeq, LenProperties DEF EventBounds
    <3>2. /\ evFiles' = Flushed /\ evBuf' = <<>> /\ synced' = Len(added) /\ evDay' \in {evDay, 0}
          /\ UNCHANGED <<evRing, linked, added, opens>>
      BY <2>4 DEF FlushEvents, CloseEvents
    <3> QED BY <1>2, <3>1, <3>2, FlushedTyped DEF EventBounds
  <2>5. CASE OpenEvents
    <3>1. <<>> \in Seq(BoundedEvent) /\ Len(<<>>) = 0
      BY EmptySeq
    <3>2. opens' \in 1..MaxOpens
      BY <1>0, <1>2, <2>5 DEF OpenEvents, EventBounds
    <3>3. evRing' \in Seq(BoundedEvent) /\ Len(evRing') <= EvMax
      BY <1>2, <2>5, LoadedTyped DEF OpenEvents
    <3> QED BY <1>0, <1>2, <2>5, <3>1, <3>2, <3>3 DEF OpenEvents, EventBounds
  <2> QED BY <1>2, <2>1, <2>2, <2>3, <2>4, <2>5 DEF EventNext
<1>3. ASSUME EventBounds PROVE EventTypeOK
  <2>1. Len(added) \in Nat
    BY <1>3, LenProperties DEF EventBounds
  <2> QED BY <1>0, <1>3, <2>1 DEF EventBounds, EventTypeOK, BoundedEvent
<1> QED BY <1>1, <1>2, <1>3

\* The head, the files and the roll-ups have the samples of the hours there are.
TsdbTyped == TsdbTypes /\ headDirty \in BOOLEAN /\ running \in BOOLEAN /\ excused \subseteq Point

LEMMA SamplesTyped ==
    /\ TsdbInit => TsdbTyped
    /\ TsdbInv /\ TsdbTyped /\ [TsdbNext]_tsdbVars => TsdbTyped'
    /\ TsdbTyped => TsdbTypeOK
<1>1. TsdbInit => TsdbTyped
  BY TsdbInitInv DEF TsdbInit, TsdbInv, TsdbTyped
<1>2. ASSUME TsdbInv, TsdbTyped, [TsdbNext]_tsdbVars PROVE TsdbTyped'
  <2>1. TsdbTypes /\ TsdbTypes'
    BY <1>2, TsdbStep DEF TsdbInv
  <2>2. headDirty' \in BOOLEAN /\ running' \in BOOLEAN
    BY <1>2 DEF TsdbTyped, TsdbNext, tsdbVars, AppendSample, Rollover, Checkpoint, CheckpointWritten, Compact,
                CompactRemove, Expire, HourPasses, CloseDB, CrashDB, OpenDB
  <2>3. Overtaken \subseteq Point /\ \A d \in 0 .. DayOf(MaxHour) : rollup[d] \subseteq Point
    BY <2>1 DEF TsdbTypes, Overtaken
  <2>4. Raws(Hour) \subseteq Point
    BY <2>1 DEF TsdbTypes, Raws
  <2>5. excused' \subseteq Point
    <3>1. \/ excused' = excused \/ excused' = excused \cup Overtaken
          \/ \E d \in 0 .. DayOf(MaxHour) : excused' = excused \cup rollup[d]
          \/ excused' = excused \cup (head \ raw[hour])
          \/ excused' = excused \cup {p \in Raws(Hour) : p[1] > dbClock}
      BY <1>2 DEF TsdbNext, tsdbVars, AppendSample, Rollover, Checkpoint, CheckpointWritten, Compact,
                CompactRemove, Expire, HourPasses, CloseDB, CrashDB, OpenDB
    <3> QED BY <1>2, <2>1, <2>3, <2>4, <3>1 DEF TsdbTyped, TsdbTypes
  <2> QED BY <2>1, <2>2, <2>5 DEF TsdbTyped
<1>3. TsdbTyped => TsdbTypeOK
  BY DEF TsdbTyped, TsdbTypes, TsdbTypeOK
<1> QED BY <1>1, <1>2, <1>3

\* The lines of a copy, the times of the files and the leaderships are those there were.
Instant == 0 .. MaxClock
Lines == Seq(1 .. MaxClock)
FromLeader(r) == r.from \in Full /\ \A f \in File : r.remote[f].mtime \in Instant
MirrorBounds ==
    /\ clock \in 0 .. MaxClock /\ failovers \in 0 .. MaxFailovers
    /\ files \in [Holder -> [File -> Lines]]
    /\ mtime \in [Holder -> [File -> Instant]]
    /\ view \in [Holder -> Lines]
    /\ sources \in [Holder -> SUBSET (Full \X (0 .. MaxFailovers))]
    /\ \A n \in Holder : FromLeader(pass[n])

LEMMA RestingFromLeader ==
    ASSUME MirrorInv, NEW n \in Full
    PROVE  FromLeader(Resting) /\ FromLeader([Resting EXCEPT !.from = n])
<1>1. lead \in Full
  BY DEF MirrorInv, MirrorTypes
<1>2. 0 \in Instant
  BY MirrorAssumption DEF Instant
<1>3. Resting.from = lead /\ \A f \in File : Resting.remote[f].mtime = 0
  BY DEF Resting, NoInfo
<1>4. [Resting EXCEPT !.from = n].from = n /\ [Resting EXCEPT !.from = n].remote = Resting.remote
  BY DEF Resting
<1> QED BY <1>1, <1>2, <1>3, <1>4 DEF FromLeader

\* A tail, and what a part of it makes of the file it is put to.
LEMMA TailTyped ==
    ASSUME NEW s \in Lines, NEW t \in Lines, NEW o \in Nat, NEW e \in Nat, e <= Len(t)
    PROVE  SubSeq(t, o + 1, e) \in Lines /\ s \o SubSeq(t, o + 1, e) \in Lines
<1>1. Len(t) \in Nat /\ \A i \in 1 .. Len(t) : t[i] \in 1 .. MaxClock
  <2>1. Len(t) \in Nat /\ t \in [1 .. Len(t) -> 1 .. MaxClock]
    BY LenProperties DEF Lines
  <2> QED BY <2>1
<1>2. \A i \in o + 1 .. e : t[i] \in 1 .. MaxClock
  BY <1>1
<1>3. SubSeq(t, o + 1, e) \in Lines
  BY <1>2, SubSeqProperties DEF Lines
<1> QED BY <1>3, ConcatProperties DEF Lines

\* The passes of one standby go on.
LEMMA PassesTyped ==
    ASSUME NEW n \in Holder, NEW r, FromLeader(r), pass' = [pass EXCEPT ![n] = r],
           \A m \in Holder : FromLeader(pass[m]), pass \in [Holder -> PassRec]
    PROVE  \A m \in Holder : FromLeader(pass'[m])
OBVIOUS

LEMMA WritesTyped ==
    ASSUME MirrorInv, MirrorBounds,
           AppendLine \/ (\E f \in File \ Tailed : WriteWhole(f)) \/ (\E f \in File \ {"state"} : RemoveFile(f))
    PROVE  MirrorBounds'
<1>0. lead \in Holder /\ "events" \in File /\ MaxClock \in Nat
  BY MirrorAssumption DEF MirrorInv, MirrorTypes, Holder, File
<1>1. PICK f, s : f \in File /\ Write(f, s) /\ s \in {Append(files[lead]["events"], clock + 1), <<clock + 1>>, <<>>}
  BY <1>0 DEF AppendLine, WriteWhole, RemoveFile
<1>2. clock < MaxClock /\ clock' = clock + 1 /\ files' = [files EXCEPT ![lead][f] = s]
      /\ mtime' = [mtime EXCEPT ![lead][f] = clock + 1] /\ UNCHANGED <<pass, view, sources, failovers>>
  BY <1>1 DEF Write
<1>3. clock + 1 \in 1 .. MaxClock /\ clock + 1 \in Instant /\ clock' \in 0 .. MaxClock
  BY <1>0, <1>2 DEF MirrorBounds, Instant
<1>4. files[lead]["events"] \in Lines
  BY <1>0 DEF MirrorBounds
<1>5. Append(files[lead]["events"], clock + 1) \in Lines /\ <<clock + 1>> \in Lines /\ <<>> \in Lines
  BY <1>3, <1>4, AppendProperties, EmptySeq DEF Lines
<1>6. s \in Lines
  BY <1>1, <1>5
<1>7. files' \in [Holder -> [File -> Lines]] /\ mtime' \in [Holder -> [File -> Instant]]
  BY <1>0, <1>2, <1>3, <1>6 DEF MirrorBounds
<1> QED BY <1>2, <1>3, <1>7 DEF MirrorBounds

LEMMA CopiesTyped ==
    ASSUME MirrorInv, MirrorBounds, NEW n \in Holder, Fetch(n) \/ (\E k \in 0 .. MaxClock : FetchFails(n, k))
    PROVE  MirrorBounds'
<1> PICK f : f = Current(n)
  OBVIOUS
<1> PICK src : src = pass[n].from
  OBVIOUS
<1> PICK off : off = Offset(n, f)
  OBVIOUS
<1> PICK t : t = files[src][f]
  OBVIOUS
<1>1. f \in File /\ off \in Nat /\ pass \in [Holder -> PassRec]
  BY OffsetFacts, StandbyFacts DEF Fetch, FetchFails
<1>2. src \in Full /\ src \in Holder /\ pass[n].remote[f].mtime \in Instant
  BY <1>1 DEF MirrorBounds, FromLeader, Holder
<1>3. t \in Lines /\ files[n][f] \in Lines /\ Len(t) \in Nat
  BY <1>1, <1>2, LenProperties DEF MirrorBounds, Lines
<1>4. failovers \in 0 .. MaxFailovers /\ clock \in Instant
  BY DEF MirrorBounds, Instant
<1>5. <<src, failovers>> \in Full \X (0 .. MaxFailovers)
  BY <1>2, <1>4
<1>6. CASE Fetch(n)
  <2>1. /\ files' = [files EXCEPT ![n][f] = IF off > 0 THEN @ \o SubSeq(t, off + 1, Len(t)) ELSE SubSeq(t, off + 1, Len(t))]
        /\ mtime' = [mtime EXCEPT ![n][f] = pass[n].remote[f].mtime]
        /\ pass'  = [pass EXCEPT ![n].next = @ + 1, ![n].changed = @ \union {f}]
        /\ sources' = IF f = "events"
                      THEN [sources EXCEPT ![n] = (IF off > 0 THEN @ ELSE {}) \union {<<src, failovers>>}]
                      ELSE sources
        /\ UNCHANGED <<view, clock, failovers>>
    BY <1>6 DEF Fetch
  <2>2. SubSeq(t, off + 1, Len(t)) \in Lines /\ files[n][f] \o SubSeq(t, off + 1, Len(t)) \in Lines
    BY <1>1, <1>3, TailTyped
  <2>3. files' \in [Holder -> [File -> Lines]]
    BY <1>1, <2>1, <2>2 DEF MirrorBounds
  <2>4. mtime' \in [Holder -> [File -> Instant]]
    BY <1>1, <1>2, <2>1 DEF MirrorBounds
  <2>5. sources' \in [Holder -> SUBSET (Full \X (0 .. MaxFailovers))]
    BY <1>5, <2>1 DEF MirrorBounds
  <2>6. pass'[n].from = pass[n].from /\ pass'[n].remote = pass[n].remote /\ \A m \in Holder : m # n => pass'[m] = pass[m]
    BY <1>1, <2>1 DEF PassRec
  <2>7. \A m \in Holder : FromLeader(pass'[m])
    BY <2>6 DEF MirrorBounds, FromLeader
  <2> QED BY <2>1, <2>3, <2>4, <2>5, <2>7 DEF MirrorBounds
<1>7. CASE \E k \in 0 .. MaxClock : FetchFails(n, k)
  <2>1. PICK k \in 0 .. MaxClock : FetchFails(n, k)
    BY <1>7
  <2>2. /\ k \in 0 .. (IF off > 0 /\ Len(t) > off THEN Len(t) - off ELSE 0)
        /\ files' = [files EXCEPT ![n][f] = @ \o SubSeq(t, off + 1, off + k)]
        /\ mtime' = IF k = 0 THEN mtime ELSE [mtime EXCEPT ![n][f] = clock]
        /\ pass'  = [pass EXCEPT ![n] = Resting]
        /\ sources' = [sources EXCEPT ![n] = IF k = 0 THEN @ ELSE @ \union {<<src, failovers>>}]
        /\ UNCHANGED <<view, clock, failovers>>
    BY <2>1 DEF FetchFails
  <2>3. files[n][f] \o SubSeq(t, off + 1, off + k) \in Lines
    <3>1. CASE k = 0
      <4>1. SubSeq(t, off + 1, off + k) = <<>>
        BY <1>1, <1>3, <3>1
      <4>2. files[n][f] \o <<>> = files[n][f]
        BY <1>3, ConcatEmptySeq DEF Lines
      <4> QED BY <1>3, <4>1, <4>2
    <3>2. CASE k # 0
      <4>1. off + k \in Nat /\ off + k <= Len(t)
        BY <1>1, <1>3, <2>2, <3>2
      <4> QED BY <1>1, <1>3, <4>1, TailTyped
    <3> QED BY <3>1, <3>2
  <2>4. files' \in [Holder -> [File -> Lines]]
    BY <1>1, <2>2, <2>3 DEF MirrorBounds
  <2>5. mtime' \in [Holder -> [File -> Instant]]
    BY <1>1, <1>4, <2>2 DEF MirrorBounds
  <2>6. sources' \in [Holder -> SUBSET (Full \X (0 .. MaxFailovers))]
    BY <1>5, <2>2 DEF MirrorBounds
  <2>7. FromLeader(Resting)
    BY <1>2, RestingFromLeader
  <2>8. \A m \in Holder : FromLeader(pass'[m])
    BY <1>1, <2>2, <2>7, PassesTyped DEF MirrorBounds
  <2> QED BY <2>2, <2>4, <2>5, <2>6, <2>8 DEF MirrorBounds
<1> QED BY <1>6, <1>7

LEMMA PassesBeginAndEnd ==
    ASSUME MirrorInv, MirrorBounds, NEW n \in Holder, PassBegin(n) \/ Skip(n) \/ PassEnd(n)
    PROVE  MirrorBounds'
<1>0. lead \in Full /\ lead \in Holder /\ pass \in [Holder -> PassRec] /\ "state" \in File
  BY StandbyFacts DEF MirrorInv, MirrorTypes, Holder, File
<1>1. CASE PassBegin(n)
  <2> PICK r : r = [on |-> TRUE, from |-> lead, remote |-> Manifest(lead),
                    mine |-> Manifest(n), next |-> 1, changed |-> {}]
    OBVIOUS
  <2>1. pass' = [pass EXCEPT ![n] = r] /\ UNCHANGED <<files, mtime, view, sources, clock, failovers>>
    BY <1>1 DEF PassBegin
  <2>2. \A f \in File : Manifest(lead)[f].mtime = mtime[lead][f] /\ mtime[lead][f] \in Instant
    BY <1>0 DEF Manifest, MirrorBounds
  <2>3. FromLeader(r)
    BY <1>0, <2>2 DEF FromLeader
  <2>4. \A m \in Holder : FromLeader(pass'[m])
    BY <1>0, <2>1, <2>3, PassesTyped DEF MirrorBounds
  <2> QED BY <2>1, <2>4 DEF MirrorBounds
<1>2. CASE Skip(n)
  <2>1. pass' = [pass EXCEPT ![n].next = @ + 1] /\ UNCHANGED <<files, mtime, view, sources, clock, failovers>>
    BY <1>2 DEF Skip
  <2>2. pass'[n].from = pass[n].from /\ pass'[n].remote = pass[n].remote /\ \A m \in Holder : m # n => pass'[m] = pass[m]
    BY <1>0, <2>1 DEF PassRec
  <2>3. \A m \in Holder : FromLeader(pass'[m])
    BY <2>2 DEF MirrorBounds, FromLeader
  <2> QED BY <2>1, <2>3 DEF MirrorBounds
<1>3. CASE PassEnd(n)
  <2> PICK gone : gone = {f \in File : Wanted(n, f) /\ ~Listed(n, f) /\ pass[n].mine[f].size > 0}
    OBVIOUS
  <2>1. /\ files' = [files EXCEPT ![n] = [f \in File |-> IF f \in gone THEN <<>> ELSE @[f]]]
        /\ view' \in {view, [view EXCEPT ![n] = files[n]["state"]]}
        /\ pass'  = [pass EXCEPT ![n] = Resting]
        /\ UNCHANGED <<mtime, sources, clock, failovers>>
    BY <1>3 DEF PassEnd
  <2>2. <<>> \in Lines
    BY EmptySeq DEF Lines
  <2>3. files' \in [Holder -> [File -> Lines]]
    BY <2>1, <2>2 DEF MirrorBounds
  <2>4. view' \in [Holder -> Lines]
    BY <1>0, <2>1 DEF MirrorBounds
  <2>5. \A m \in Holder : FromLeader(pass'[m])
    BY <1>0, <2>1, RestingFromLeader, PassesTyped DEF MirrorBounds
  <2> QED BY <2>1, <2>3, <2>4, <2>5 DEF MirrorBounds
<1> QED BY <1>1, <1>2, <1>3

LEMMA FailoverTyped ==
    ASSUME MirrorInv, MirrorBounds, NEW n \in Holder, Failover(n)
    PROVE  MirrorBounds'
<1> PICK rest : rest = [Resting EXCEPT !.from = n]
  OBVIOUS
<1>1. /\ n \in Full /\ failovers < MaxFailovers /\ failovers' = failovers + 1
      /\ pass'    = [m \in Holder |-> IF m \in {n, lead} THEN rest ELSE pass[m]]
      /\ sources' = [m \in Holder |-> IF m \in {n, lead} THEN {} ELSE sources[m]]
      /\ view'    = [m \in Holder |-> IF m \in {n, lead} THEN files[m]["state"] ELSE view[m]]
      /\ UNCHANGED <<files, mtime, clock>>
  BY DEF Failover
<1>2. failovers' \in 0 .. MaxFailovers
  BY <1>1, MirrorAssumption DEF MirrorBounds
<1>3. \A m \in Holder : FromLeader(pass'[m])
  BY <1>1, RestingFromLeader DEF MirrorBounds
<1>4. sources' \in [Holder -> SUBSET (Full \X (0 .. MaxFailovers))]
  BY <1>1 DEF MirrorBounds
<1>5. view' \in [Holder -> Lines]
  BY <1>1 DEF MirrorBounds, File
<1> QED BY <1>1, <1>2, <1>3, <1>4, <1>5 DEF MirrorBounds

LEMMA MirrorTyped ==
    /\ MirrorInit => MirrorBounds
    /\ MirrorInv /\ MirrorBounds /\ [MirrorNext]_mirrorVars => MirrorBounds'
    /\ MirrorInv /\ MirrorBounds => MirrorTypeOK
<1>1. ASSUME MirrorInit PROVE MirrorBounds
  <2>1. MaxClock \in Nat /\ MaxFailovers \in Nat
    BY MirrorAssumption
  <2>2. <<>> \in Lines /\ 0 \in Instant
    BY <2>1, EmptySeq DEF Lines, Instant
  <2>3. MirrorInv /\ lead \in Full
    BY <1>1, MirrorInitInv DEF MirrorInit
  <2>4. FromLeader(Resting)
    BY <2>3, RestingFromLeader
  <2> QED BY <1>1, <2>1, <2>2, <2>4 DEF MirrorInit, MirrorBounds
<1>2. ASSUME MirrorInv, MirrorBounds, [MirrorNext]_mirrorVars PROVE MirrorBounds'
  <2>1. CASE UNCHANGED mirrorVars
    BY <1>2, <2>1 DEF mirrorVars, MirrorBounds
  <2>2. CASE AppendLine \/ (\E f \in File \ Tailed : WriteWhole(f)) \/ (\E f \in File \ {"state"} : RemoveFile(f))
    BY <1>2, <2>2, WritesTyped
  <2>3. CASE \E n \in Holder : PassBegin(n) \/ Skip(n) \/ PassEnd(n)
    BY <1>2, <2>3, PassesBeginAndEnd
  <2>4. CASE \E n \in Holder : Fetch(n) \/ \E k \in 0 .. MaxClock : FetchFails(n, k)
    BY <1>2, <2>4, CopiesTyped
  <2>5. CASE \E n \in Holder : Failover(n)
    BY <1>2, <2>5, FailoverTyped
  <2> QED BY <1>2, <2>1, <2>2, <2>3, <2>4, <2>5 DEF MirrorNext
<1>3. ASSUME MirrorInv, MirrorBounds PROVE MirrorTypeOK
  BY <1>3 DEF MirrorInv, MirrorTypes, MirrorBounds, MirrorTypeOK, Lines, Instant
<1> QED BY <1>1, <1>2, <1>3

\* The receiver's tokens, lines and crashes stay within their bounds.
ReceiverTypes ==
    /\ tokens \in 0 .. 2 * Rate /\ flood \in BOOLEAN /\ attached \in BOOLEAN /\ crossed \in BOOLEAN
    /\ handler \in [Handler -> {NoLine, Unstamped} \cup LogDays]
    /\ kills \in 0 .. MaxKills

LEMMA ReceiverTyped ==
    /\ SyslogInit => ReceiverTypes
    /\ SyslogInv /\ ReceiverTypes /\ [SyslogNext]_syslogVars => ReceiverTypes'
    /\ SyslogInv /\ ReceiverTypes => SyslogTypeOK
<1>0. Rate \in Nat \ {0} /\ MaxKills \in Nat
  BY SyslogAssumption
<1>1. ASSUME SyslogInit PROVE ReceiverTypes
  <2>1. Rate \in 0 .. 2 * Rate /\ 0 \in 0 .. MaxKills
    BY <1>0
  <2>2. tokens = Rate /\ flood = FALSE /\ attached = TRUE /\ crossed = FALSE /\ kills = 0
        /\ handler = [h \in Handler |-> NoLine]
    BY <1>1 DEF SyslogInit
  <2>3. handler \in [Handler -> {NoLine, Unstamped} \cup LogDays]
    BY <2>2
  <2> QED BY <2>1, <2>2, <2>3 DEF ReceiverTypes
<1>2. ASSUME SyslogInv, ReceiverTypes, [SyslogNext]_syslogVars PROVE ReceiverTypes'
  <2>1. tokens' \in 0 .. 2 * Rate
    <3>1. \/ tokens' = tokens \/ tokens' = Rate \/ (tokens >= 1 /\ tokens' = tokens - 1)
          \/ tokens < 2 * Rate /\ tokens' = IF tokens + Rate > 2 * Rate THEN 2 * Rate ELSE tokens + Rate
      BY <1>2, Zenon DEF SyslogNext, syslogVars, packVars, Second, Flush, Prune, NextDay, StopAndStart, Crash, Begins, HandleDropped,
                  HandleAllowed, Stamp, AppendLog, AppendRefused, Glob, PackEnds, PackCopy, PackRename, PackFails, PackRemove
    <3> QED BY <1>0, <1>2, <3>1 DEF ReceiverTypes
  <2>2. kills' \in 0 .. MaxKills
    <3>1. kills' = kills \/ (kills < MaxKills /\ kills' = kills + 1)
      BY <1>2, Zenon DEF SyslogNext, syslogVars, packVars, Second, Flush, Prune, NextDay, StopAndStart, Crash, Begins, HandleDropped,
                  HandleAllowed, Stamp, AppendLog, AppendRefused, Glob, PackEnds, PackCopy, PackRename, PackFails, PackRemove
    <3> QED BY <1>0, <1>2, <3>1 DEF ReceiverTypes
  <2>3. handler' \in [Handler -> {NoLine, Unstamped} \cup LogDays]
    <3>0. today \in LogDays
      BY <1>2 DEF SyslogInv, SyslogTypes
    <3>1. \/ handler' = handler \/ handler' = [h \in Handler |-> NoLine]
          \/ \E h \in Handler : \/ handler' = [handler EXCEPT ![h] = Unstamped]
                                \/ handler' = [handler EXCEPT ![h] = today]
                                \/ handler' = [handler EXCEPT ![h] = NoLine]
      BY <1>2, Zenon DEF SyslogNext, syslogVars, packVars, fileVars, Second, Flush, Prune, NextDay, StopAndStart, Crash, Begins, HandleDropped,
                  HandleAllowed, Stamp, AppendLog, AppendRefused, Glob, PackEnds, PackCopy, PackRename, PackFails, PackRemove
    <3> QED BY <1>2, <3>0, <3>1 DEF ReceiverTypes
  <2>4. flood' \in BOOLEAN
    <3>1. \/ flood' = flood \/ flood' = FALSE \/ flood' = TRUE \/ flood' = (flood /\ ~(tokens - 1 > Rate))
      BY <1>2, Zenon DEF SyslogNext, syslogVars, packVars, Second, Flush, Prune, NextDay, StopAndStart, Crash, Begins, HandleDropped,
                  HandleAllowed, Stamp, AppendLog, AppendRefused, Glob, PackEnds, PackCopy, PackRename, PackFails, PackRemove
    <3> QED BY <1>2, <3>1 DEF ReceiverTypes
  <2>5. attached' \in BOOLEAN
    <3>1. \/ attached' = attached \/ attached' = TRUE
          \/ \E h \in Handler : attached' = (attached \/ ~SameDay(handler[h]))
          \/ \E k \in Packer : attached' = (attached /\ logDay # NextOf(k))
          \/ attached' = (attached /\ (logDay # 0 => Retained(logDay)))
      BY <1>2, Zenon DEF SyslogNext, syslogVars, packVars, fileVars, Second, Flush, Prune, NextDay, StopAndStart, Crash, Begins, HandleDropped,
                  HandleAllowed, Stamp, AppendLog, AppendRefused, Glob, PackEnds, PackCopy, PackRename, PackFails, PackRemove
    <3> QED BY <1>2, <3>1, Zenon DEF ReceiverTypes
  <2>6. crossed' \in BOOLEAN
    <3>1. \/ crossed' = crossed \/ \E d : crossed' = (crossed \/ Crosses(d))
      BY <1>2, Zenon DEF SyslogNext, syslogVars, packVars, fileVars, Second, Flush, Prune, NextDay, StopAndStart, Crash, HandleDropped,
                  HandleAllowed, Stamp, AppendLog, AppendRefused, Glob, PackEnds, PackCopy, PackRename, PackFails, PackRemove
    <3> QED BY <1>2, <3>1, Zenon DEF ReceiverTypes
  <2> QED BY <2>1, <2>2, <2>3, <2>4, <2>5, <2>6 DEF ReceiverTypes
<1>3. ASSUME SyslogInv, ReceiverTypes PROVE SyslogTypeOK
  <2>1. {flood, attached, crossed} \subseteq BOOLEAN
    BY <1>3, Zenon DEF ReceiverTypes
  <2>2. \A k \in Packer : packer[k].todo \subseteq LogDays
    BY <1>3 DEF SyslogInv, SyslogTypes, PackerRec
  <2> QED BY <1>3, <2>1, <2>2 DEF SyslogInv, SyslogTypes, ReceiverTypes, SyslogTypeOK
<1> QED BY <1>1, <1>2, <1>3

-----------------------------------------------------------------------------
(* The six components in one.                                              *)

\* MCData explores six components side by side (one moves, the others stand); each of
\* them is then a behaviour of its own specification.
LEMMA OneOfSixMoves ==
    ASSUME [DataNext]_dataVars
    PROVE  /\ [StoreNext]_storeVars /\ [EventNext]_eventVars /\ [TsdbNext]_tsdbVars
           /\ [MirrorNext]_mirrorVars /\ [MemberNext]_memberVars /\ [SyslogNext]_syslogVars
           /\ part' = part
BY DEF DataNext, dataVars

THEOREM DataPartsBehave ==
    DataSpec => StoreSpec /\ EventSpec /\ TsdbSpec /\ MirrorSpec /\ MemberSpec /\ SyslogSpec
<1>1. DataInit => StoreInit /\ EventInit /\ TsdbInit /\ MirrorInit /\ MemberInit /\ SyslogInit
  BY DEF DataInit
<1>2. [DataNext]_dataVars =>
         /\ [StoreNext]_storeVars /\ [EventNext]_eventVars /\ [TsdbNext]_tsdbVars
         /\ [MirrorNext]_mirrorVars /\ [MemberNext]_memberVars /\ [SyslogNext]_syslogVars
  BY OneOfSixMoves
<1> QED BY <1>1, <1>2, PTL DEF DataSpec, StoreSpec, EventSpec, TsdbSpec, MirrorSpec, MemberSpec, SyslogSpec

\* Every component's variables keep their types.
THEOREM DataTypes == DataSpec => []DataTypeOK
<1> DEFINE Name == part \in {"store", "events", "tsdb", "mirror", "members", "syslog"}
<1>1. DataInit => Name
  BY DEF DataInit
<1>2. Name /\ [DataNext]_dataVars => Name'
  BY OneOfSixMoves
<1>3. EventSpec => []EventTypeOK
  BY EventsTyped, PTL DEF EventSpec
<1>4. TsdbSpec => []TsdbTypeOK
  BY TsdbInitInv, TsdbStep, SamplesTyped, PTL DEF TsdbSpec
<1>5. MirrorSpec => []MirrorTypeOK
  BY MirrorInitInv, MirrorStep, MirrorTyped, PTL DEF MirrorSpec
<1>6. SyslogSpec => []SyslogTypeOK
  BY SyslogInitInv, SyslogStep, ReceiverTyped, PTL DEF SyslogSpec
<1>7. Name /\ StoreTypeOK /\ EventTypeOK /\ TsdbTypeOK /\ MirrorTypeOK /\ MemberTypeOK /\ SyslogTypeOK
         => DataTypeOK
  BY Zenon DEF DataTypeOK
<1> HIDE DEF Name
<1> QED BY <1>1, <1>2, <1>3, <1>4, <1>5, <1>6, <1>7, StoreTypeCorrect, MembersTypeCorrect, DataPartsBehave, PTL
        DEF DataSpec
==============================================================================
