----------------------------- MODULE Membership -----------------------------
(***************************************************************************)
(* Who is in the cluster and who polls what (internal/cluster/identity.go, *)
(* transport.go, node.go reshard and beat).  A join token admits one node  *)
(* at the node that minted it; the leader's heartbeats carry the member    *)
(* list, the pins and each member's devices; a removal is a mark in the    *)
(* leader's own list.  Every beat first reassigns the devices over the     *)
(* members that answered lately: a pinned site goes to its node when that  *)
(* is alive, any other device to the node with the greatest hash.          *)
(*                                                                         *)
(* The election is reduced to its outcome (Elect; see Election).           *)
(***************************************************************************)
EXTENDS Naturals, FiniteSets

CONSTANTS
    FullNode, PollNode,   \* nodes that join as full members, and as collectors
    Device,               \* monitored devices
    SiteOf,               \* SiteOf[d]: the site of a device
    Hash,                 \* Hash[n][d]: the place of n in the order of fnv64(n|d); of two
                          \* nodes with the same hash the one that sorts first is ahead
    Token,                \* join tokens
    Unpinned,             \* no node
    PinTo,                \* the nodes an administrator pins a site to
    MaxTroubles           \* bound: nodes that go away, removals, changes of pins, elections

ASSUME MemberAssumption ==
    /\ FullNode # {} /\ FullNode \intersect PollNode = {}
    /\ Unpinned \notin FullNode \union PollNode
    /\ PinTo \subseteq FullNode \union PollNode
    /\ IsFiniteSet(FullNode) /\ IsFiniteSet(PollNode)
    /\ \A n \in FullNode \union PollNode, d \in Device :
          /\ Hash[n][d] \in 1 .. Cardinality(FullNode \union PollNode)
          /\ \A o \in FullNode \union PollNode : Hash[o][d] = Hash[n][d] => o = n
    /\ MaxTroubles \in Nat

ClusterNode == FullNode \union PollNode
Site        == {SiteOf[d] : d \in Device}

VARIABLES
    boss,      \* the leader
    members,   \* members[n][m]: "unknown", "member" or "removed" in n's list
    pins,      \* pins[n][s]: SitePins
    token,     \* token[t]: [at, used]: minted at a node (or Unpinned), redeemed
    invited,   \* nodes whose join was granted and has not answered yet
    joined,    \* nodes that are part of the cluster
    up,        \* nodes that run and can be reached
    among,     \* the nodes of the last assignment
    live,      \* members the leader heard of less than memberDeadAfter ago, and itself
    shard,     \* n.assign of the leader: the devices of each node
    beat,      \* the last beat: [to, told, list, pins]: members it waits for, members
               \* that answered it and still run, and what it sends
    polls,     \* polls[n]: the devices n's poller is restricted to; Device if it is not
    troubles

memberVars == <<boss, members, pins, token, invited, joined, up, live, among, shard, beat, polls, troubles>>

MembersOf(n) == {m \in ClusterNode : members[n][m] = "member"}   \* MemberList
Voters(n)    == MembersOf(n) \intersect FullNode

Trouble == troubles < MaxTroubles /\ troubles' = troubles + 1
Quiet   == [to |-> {}, told |-> {}, list |-> {}, pins |-> [s \in Site |-> Unpinned]]

\* SetAssigned: nil, which an empty list becomes in reshard's map and in JSON, lifts
\* the restriction.
Restriction(ds) == IF ds = {} THEN Device ELSE ds

-----------------------------------------------------------------------------
(* Joining.                                                                *)

\* clusterToken, NewToken: the console runs on the leader.
MintToken(t) ==
    /\ token[t].at = Unpinned
    /\ token' = [token EXCEPT ![t].at = boss]
    /\ UNCHANGED <<boss, members, pins, invited, joined, up, live, among, shard, beat, polls, troubles>>

\* handleJoin, at the node that minted the token: redeem it, issue the certificate,
\* enter the node in the list.
HandleJoin(t, m) ==
    LET n == token[t].at
    IN  /\ n \in up /\ m \in up \ joined
        /\ ~token[t].used
        /\ token' = [token EXCEPT ![t].used = TRUE]
        /\ members' = [members EXCEPT ![n][m] = "member"]
        /\ invited' = invited \union {m}
        /\ UNCHANGED <<boss, pins, joined, up, live, among, shard, beat, polls, troubles>>

\* Join: the answer arrives with the members and the pins of the node that admitted
\* it; the process restarts as a standby that polls nothing.
Join(t, m) ==
    LET n == token[t].at
    IN  /\ m \in invited /\ n \in ClusterNode /\ members[n][m] = "member"
        /\ joined' = joined \union {m} /\ invited' = invited \ {m}
        /\ members' = [members EXCEPT ![m] = [o \in ClusterNode |->
                          IF o = m \/ members[n][o] = "member" THEN "member" ELSE "unknown"]]
        /\ pins' = [pins EXCEPT ![m] = pins[n]]
        /\ polls' = [polls EXCEPT ![m] = {}]
        /\ UNCHANGED <<boss, token, up, live, among, shard, beat, troubles>>

\* The answer is lost: the token is spent, and the node is in the list all the same.
JoinLost(m) ==
    /\ m \in invited
    /\ invited' = invited \ {m}
    /\ UNCHANGED <<boss, members, pins, token, joined, up, live, among, shard, beat, polls, troubles>>

-----------------------------------------------------------------------------
(* Administration, at the leader's console (clusterMembers).               *)

RemoveMember(m) ==
    /\ m # boss /\ members[boss][m] = "member"
    /\ Trouble
    /\ members' = [members EXCEPT ![boss][m] = "removed"]
    /\ UNCHANGED <<boss, pins, token, invited, joined, up, live, among, shard, beat, polls>>

SetPin(s, m) ==
    /\ pins[boss][s] # m
    /\ Trouble
    /\ pins' = [pins EXCEPT ![boss][s] = m]
    /\ UNCHANGED <<boss, members, token, invited, joined, up, live, among, shard, beat, polls>>

-----------------------------------------------------------------------------
(* Heartbeats.                                                             *)

\* Mutant: a pin counts whether its node is alive or not.
TargetPinned(d, over) ==
    LET pin == pins[boss][SiteOf[d]]
    IN  IF pin # Unpinned THEN pin
        ELSE CHOOSE n \in over : \A o \in over : Hash[o][d] <= Hash[n][d]

\* Mutant: devices are dealt out by the number of live nodes.
TargetDealt(d, over) ==
    LET pin  == pins[boss][SiteOf[d]]
        rank == [n \in over |-> Cardinality({o \in over : Hash[o][d] < Hash[n][d]})]
        turn == Hash[boss][d] % Cardinality(over)
    IN  IF pin \in over THEN pin ELSE CHOOSE n \in over : rank[n] = turn

\* reshard, for one device.
Target(d, over) ==
    LET pin == pins[boss][SiteOf[d]]
    IN  IF pin \in over THEN pin
        ELSE CHOOSE n \in over : \A o \in over : Hash[o][d] <= Hash[n][d]

\* beat: reshard, then a heartbeat to every member of the list as it is now.
Beat ==
    /\ beat.to = {}
    /\ among' = live \intersect MembersOf(boss)
    /\ shard' = [n \in ClusterNode |-> {d \in Device : Target(d, among') = n}]
    /\ polls' = [polls EXCEPT ![boss] = Restriction(shard'[boss])]
    /\ beat' = [to |-> MembersOf(boss) \ {boss}, told |-> {boss}, list |-> MembersOf(boss),
                pins |-> pins[boss]]
    /\ UNCHANGED <<boss, members, pins, token, invited, joined, up, live, troubles>>

\* auth: a node that has marked the sender as removed refuses.
Hears(m) == m \in up \intersect joined /\ members[m][boss] # "removed"

\* handleHeartbeat: members, pins and devices follow the leader.
HandleHeartbeat(m) ==
    /\ m \in beat.to /\ Hears(m)
    /\ members' = [members EXCEPT ![m] =
                      [o \in ClusterNode |-> IF o \in beat.list THEN "member" ELSE @[o]]]
    /\ pins'  = [pins EXCEPT ![m] = beat.pins]
    /\ polls' = [polls EXCEPT ![m] = Restriction(shard[m])]
    /\ live'  = live \union {m}
    /\ beat'  = [beat EXCEPT !.to = @ \ {m}, !.told = @ \union {m}]
    /\ UNCHANGED <<boss, token, invited, joined, up, among, shard, troubles>>

HeartbeatFails(m) ==
    /\ m \in beat.to /\ ~Hears(m)
    /\ beat' = [beat EXCEPT !.to = @ \ {m}]
    /\ UNCHANGED <<boss, members, pins, token, invited, joined, up, live, among, shard, polls, troubles>>

\* memberDeadAfter has passed without an answer.
Silent(m) ==
    /\ m \in live \ {boss} /\ ~Hears(m)
    /\ live' = live \ {m}
    /\ UNCHANGED <<boss, members, pins, token, invited, joined, up, among, shard, beat, polls, troubles>>

-----------------------------------------------------------------------------
(* Processes.                                                              *)

GoesAway(m) ==
    /\ m \in up \ {boss}
    /\ Trouble
    /\ up' = up \ {m}
    /\ invited' = invited \ {m}
    /\ beat' = [beat EXCEPT !.told = @ \ {m}]
    /\ UNCHANGED <<boss, members, pins, token, joined, live, among, shard, polls>>

\* A standby that starts polls nothing until the leader assigns.
ComesBack(m) ==
    /\ m \notin up
    /\ up' = up \union {m}
    /\ polls' = [polls EXCEPT ![m] = {}]
    /\ UNCHANGED <<boss, members, pins, token, invited, joined, live, among, shard, beat, troubles>>

\* Another full node wins a majority of the voters it knows and starts as the leader,
\* unrestricted until its first beat; the old one starts as a standby.
Elect(n) ==
    LET votes == {v \in Voters(n) \intersect up : v = n \/ members[v][n] # "removed"}
    IN  /\ n \in (FullNode \intersect joined \intersect up) \ {boss}
        /\ Cardinality(votes) * 2 > Cardinality(Voters(n))
        /\ Trouble
        /\ boss' = n /\ live' = {n} /\ beat' = Quiet
        /\ among' = {} /\ shard' = [m \in ClusterNode |-> {}]
        /\ polls' = [polls EXCEPT ![n] = Device, ![boss] = {}]
        /\ UNCHANGED <<members, pins, token, invited, joined, up>>

\* Enable: one node makes itself the first member and leads.
MemberInit ==
    /\ boss \in FullNode
    /\ members = [n \in ClusterNode |-> [m \in ClusterNode |->
                     IF n = boss /\ m = boss THEN "member" ELSE "unknown"]]
    /\ pins = [n \in ClusterNode |-> [s \in Site |-> Unpinned]]
    /\ token = [t \in Token |-> [at |-> Unpinned, used |-> FALSE]]
    /\ invited = {} /\ joined = {boss} /\ up = ClusterNode /\ live = {boss} /\ among = {}
    /\ shard = [n \in ClusterNode |-> {}]
    /\ beat = Quiet
    /\ polls = [n \in ClusterNode |-> IF n = boss THEN Device ELSE {}]
    /\ troubles = 0

MemberNext ==
    \/ \E t \in Token : MintToken(t)
    \/ \E t \in Token, m \in ClusterNode : HandleJoin(t, m) \/ Join(t, m)
    \/ \E m \in ClusterNode : JoinLost(m) \/ RemoveMember(m)
    \/ \E s \in Site, m \in PinTo \union {Unpinned} : SetPin(s, m)
    \/ Beat
    \/ \E m \in ClusterNode : HandleHeartbeat(m) \/ HeartbeatFails(m) \/ Silent(m)
    \/ \E m \in ClusterNode : GoesAway(m) \/ ComesBack(m) \/ Elect(m)

MemberSpec == MemberInit /\ [][MemberNext]_memberVars

-----------------------------------------------------------------------------
(* Properties.                                                             *)

MemberTypeOK ==
    /\ boss \in FullNode
    /\ members \in [ClusterNode -> [ClusterNode -> {"unknown", "member", "removed"}]]
    /\ pins \in [ClusterNode -> [Site -> PinTo \union {Unpinned}]]
    /\ token \in [Token -> [at : FullNode \union {Unpinned}, used : BOOLEAN]]
    /\ {invited, joined, up, live, among} \subseteq SUBSET ClusterNode
    /\ polls \in [ClusterNode -> SUBSET Device]

\* When every node a beat gives devices to has answered it, each device is polled by
\* one of them; and a node that was silent for memberDeadAfter, or was removed, is
\* given none, pinned to it or not (reshard, beat, handleHeartbeat).
Owners == {n \in ClusterNode : shard[n] # {}}
EveryDevicePolled ==
    /\ beat.list # {} /\ Owners \subseteq beat.told
            => \A d \in Device : \E n \in beat.told : d \in polls[n]
    /\ Owners \subseteq among

\* node.go, reshard: "stable: adding a node moves only ~1/N of the devices".  A beat
\* moves a device only away from a node that left, to a node that came, or because of
\* a pin: never between two nodes that were there before and still are.
OnlyTheFairShareMoves ==
    [][\A d \in Device, n, o \in ClusterNode :
          n # o /\ d \in shard[n] /\ d \in shard'[o]
              => \/ n \notin live \/ members[boss][n] # "member"
                 \/ o \notin among
                 \/ \E p \in {beat.pins, pins[boss]} : p[SiteOf[d]] \in {n, o}]_shard

\* node.go, Hooks.OnAssign: "the device ids this node must poll (nil = all, when
\* standalone)": a member that has answered a beat polls what it was given, no more.
\* It does not hold of a member that is given nothing (README).
OnlyItsDevices == \A m \in beat.told \ {boss} : polls[m] \subseteq shard[m]
=============================================================================
