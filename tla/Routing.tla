------------------------------- MODULE Routing -------------------------------
(***************************************************************************)
(* The routing and layer-2 walk of one device (internal/poller/routing.go): *)
(* every five minutes the BGP, OSPF, VLAN, spanning-tree and link          *)
(* aggregation tables are read, kept in the store, and compared with the    *)
(* last ones kept.  The differences are events for the engine, which opens  *)
(* and resolves the alerts.  A table whose walk fails is an empty table: an *)
(* entry that is "absent".                                                 *)
(***************************************************************************)
EXTENDS Integers, Sequences, FiniteSets, Functions

CONSTANTS
    Peer,           \* BGP peers
    Nbr,            \* OSPF neighbours
    WalkResult,         \* what the walks of one cycle can give
    BusCap,         \* cap(Poller.Events)
    MaxWalks        \* bound on the walks

\* What one cycle reads of each table.  A peer that is not established is "idle",
\* whichever of the five other states it is in; a neighbour that is not Full is
\* "partial"; an entry that was not read is "absent".
PeerEntry == [state : {"absent", "idle", "established"}, prefixes : Nat]
NbrEntry == {"absent", "partial", "full"}
StpEntry == [root : Nat, changes : Nat]             \* root 0: no spanning tree was read
LagEntry == {l \in [up : 0 .. 8, members : 0 .. 8] : l.up <= l.members}    \* members 0: not read
OtherEntry == BOOLEAN                               \* VLANs or routes were read

NoWalk == [bgp |-> [p \in Peer |-> [state |-> "absent", prefixes |-> 0]], ospf |-> [n \in Nbr |-> "absent"],
           lag |-> [up |-> 0, members |-> 0], stp |-> [root |-> 0, changes |-> 0], other |-> FALSE]

ASSUME RoutingAssumption ==
    /\ IsFiniteSet(Peer) /\ IsFiniteSet(Nbr) /\ Peer \cap Nbr = {} /\ BusCap \in Nat \ {0} /\ MaxWalks \in Nat
    /\ \A t \in WalkResult : /\ DOMAIN t = DOMAIN NoWalk
                             /\ t.bgp \in [Peer -> PeerEntry] /\ t.ospf \in [Nbr -> NbrEntry]
                             /\ t.lag \in LagEntry /\ t.stp \in StpEntry /\ t.other \in OtherEntry

VARIABLES
    kept,           \* Store.Routing, NoWalk when there is none
    bus,            \* Poller.Events: a sequence of [key, raise]
    opened,         \* the dedup keys with an open alert
    everUp,         \* peers ever read established and neighbours ever read Full
    walks,
    strayed         \* keys of which an event was lost, or an entry left its table

routingVars == <<kept, bus, opened, everUp, walks, strayed>>

----------------------------------------------------------------------------
(* The dedup keys, and what the tables say.                                *)

BgpKey(p) == <<"bgp", p>>
PrefixKey(p) == <<"bgp_prefixes", p>>
OspfKey == <<"ospf", "device">>
RootKey == <<"stp_root", "device">>
ChangeKey == <<"stp_tc", "device">>
LagKey == <<"lag", "device">>
\* Rules with ForCycles: the engine resolves these alerts after a time.
Expiring == {PrefixKey(p) : p \in Peer} \cup {RootKey, ChangeKey}
AlertKeys == {BgpKey(p) : p \in Peer} \cup {OspfKey, LagKey} \cup Expiring

Up(t, p) == t.bgp[p].state = "established"
NothingFound(t) == t = NoWalk

\* What a peer's two states give: it left Established, or the table; it is back;
\* or it is up and sends less than a quarter of its prefixes.
BgpChange(old, new, p) ==
    LET known == old.bgp[p].state # "absent" IN
    IF Up(old, p) /\ ~Up(new, p) THEN <<[key |-> BgpKey(p), raise |-> TRUE]>>
    ELSE IF known /\ ~Up(old, p) /\ Up(new, p) THEN <<[key |-> BgpKey(p), raise |-> FALSE]>>
    ELSE IF Up(old, p) /\ Up(new, p) /\ new.bgp[p].prefixes * 4 < old.bgp[p].prefixes
    THEN <<[key |-> PrefixKey(p), raise |-> TRUE]>>
    ELSE <<>>

\* The peers come in the order of the tables, which is any order.
BgpEvents(old, new) ==
    LET changed == {p \in Peer : BgpChange(old, new, p) # <<>>}
        orders == {q \in [1 .. Cardinality(changed) -> changed] : Range(q) = changed}
    IN  {[i \in DOMAIN q |-> Head(BgpChange(old, new, q[i]))] : q \in orders}

LostNbrs(old, new) == {n \in Nbr : old.ospf[n] = "full" /\ new.ospf[n] # "full"}
BackNbrs(old, new) == {n \in Nbr : old.ospf[n] = "partial" /\ new.ospf[n] = "full"}
AllFull(t) == \A n \in Nbr : t.ospf[n] # "partial"

\* Mutant: the first neighbour that is back ends the alert.
OspfEventsAnyBack(old, new) ==
    IF LostNbrs(old, new) # {}
    THEN [i \in 1 .. Cardinality(LostNbrs(old, new)) |-> [key |-> OspfKey, raise |-> TRUE]]
    ELSE IF BackNbrs(old, new) # {} THEN <<[key |-> OspfKey, raise |-> FALSE]>>
    ELSE <<>>

\* One alert for the device: it is lost with any neighbour, and is over when one
\* is back and none is short of Full.
OspfEvents(old, new) ==
    IF LostNbrs(old, new) # {}
    THEN [i \in 1 .. Cardinality(LostNbrs(old, new)) |-> [key |-> OspfKey, raise |-> TRUE]]
    ELSE IF BackNbrs(old, new) # {} /\ AllFull(new) THEN <<[key |-> OspfKey, raise |-> FALSE]>>
    ELSE <<>>

StpEvents(old, new) ==
    IF old.stp.root = 0 \/ new.stp.root = 0 THEN <<>>
    ELSE IF old.stp.root # new.stp.root THEN <<[key |-> RootKey, raise |-> TRUE]>>
    ELSE IF new.stp.changes > old.stp.changes THEN <<[key |-> ChangeKey, raise |-> TRUE]>>
    ELSE <<>>

LagEvents(old, new) ==
    IF old.lag.members = 0 \/ new.lag.members = 0 THEN <<>>
    ELSE IF new.lag.up < old.lag.up THEN <<[key |-> LagKey, raise |-> TRUE]>>
    ELSE IF new.lag.up > old.lag.up /\ new.lag.up = new.lag.members THEN <<[key |-> LagKey, raise |-> FALSE]>>
    ELSE <<>>

RoutingEvents(old, new) ==
    {bgp \o OspfEvents(old, new) \o StpEvents(old, new) \o LagEvents(old, new) : bgp \in BgpEvents(old, new)}

----------------------------------------------------------------------------
(* The poller and the engine.                                              *)

\* emitEvent: what finds the channel full is dropped.
Sent(evs) == {i \in DOMAIN evs : i <= BusCap - Len(bus)}
Emitted(evs) == [i \in Sent(evs) |-> evs[i]]
Unsent(evs) == {evs[i].key : i \in DOMAIN evs \ Sent(evs)}

\* The alerts no event speaks for any more: of a peer that left the table and is
\* back established, of a neighbour or a group that is no longer read as before.
LeftOut(old, new) ==
    {BgpKey(p) : p \in {p \in Peer : p \in everUp /\ old.bgp[p].state = "absent" /\ Up(new, p)}}
    \cup {OspfKey : n \in {n \in Nbr : old.ospf[n] # "absent" /\ new.ospf[n] = "absent"}}
    \cup (IF old.lag.members \in {0, new.lag.members} THEN {} ELSE {LagKey})

\* pollRouting: nothing found leaves the last walk as it is; the first walk kept
\* gives no event.
PollRouting(t) ==
    /\ walks < MaxWalks /\ walks' = walks + 1
    /\ IF NothingFound(t) THEN UNCHANGED <<kept, bus, everUp, strayed>>
       ELSE /\ kept' = t
            /\ \E evs \in IF kept = NoWalk THEN {<<>>} ELSE RoutingEvents(kept, t) :
                 /\ bus' = bus \o Emitted(evs)
                 /\ strayed' = strayed \cup Unsent(evs) \cup LeftOut(kept, t)
            /\ everUp' = everUp \cup {p \in Peer : Up(t, p)} \cup {n \in Nbr : t.ospf[n] = "full"}
    /\ UNCHANGED opened

\* Engine.onEvent.
TakeEvent ==
    /\ bus # <<>> /\ bus' = Tail(bus)
    /\ opened' = IF Head(bus).raise THEN opened \cup {Head(bus).key} ELSE opened \ {Head(bus).key}
    /\ UNCHANGED <<kept, everUp, walks, strayed>>

\* housekeeping: an alert of a rule with ForCycles has had its time.
AlertExpires(k) ==
    /\ k \in opened \cap Expiring
    /\ opened' = opened \ {k}
    /\ UNCHANGED <<kept, bus, everUp, walks, strayed>>

\* A stop saves the store; the events on their way are lost.
RoutingRestarts ==
    /\ bus # <<>> /\ bus' = <<>>
    /\ strayed' = strayed \cup {bus[i].key : i \in DOMAIN bus}
    /\ UNCHANGED <<kept, opened, everUp, walks>>

RoutingInit ==
    /\ kept = NoWalk /\ bus = <<>> /\ opened = {} /\ everUp = {} /\ walks = 0 /\ strayed = {}

RoutingNext ==
    \/ \E t \in WalkResult : PollRouting(t)
    \/ TakeEvent \/ RoutingRestarts
    \/ \E k \in Expiring : AlertExpires(k)

RoutingSpec == RoutingInit /\ [][RoutingNext]_routingVars

RoutingTypeOK ==
    /\ kept \in WalkResult \cup {NoWalk} /\ Len(bus) <= BusCap
    /\ opened \subseteq AlertKeys /\ strayed \subseteq AlertKeys
    /\ everUp \subseteq Peer \cup Nbr /\ walks \in 0 .. MaxWalks

(* Once the events are taken, the BGP alert of a peer is open exactly when  *)
(* the peer was established in some walk and is not in the last one, out of *)
(* the table or in it; the OSPF alert is open while a neighbour that was    *)
(* Full is not, and only while some neighbour is short of Full; the         *)
(* aggregation alert only while a member is down (routingEvents, onEvent).  *)
(* Except where an event was lost at a full channel or in a stop, a peer    *)
(* came back into the table established, or a neighbour or a group member   *)
(* left its table: no event is sent for those (README).                     *)
RoutingAlertsAgree ==
    bus = <<>> =>
        /\ \A p \in Peer : BgpKey(p) \notin strayed =>
              (BgpKey(p) \in opened <=> p \in everUp /\ ~Up(kept, p))
        /\ OspfKey \notin strayed =>
              /\ (\E n \in everUp \cap Nbr : kept.ospf[n] # "full") => OspfKey \in opened
              /\ OspfKey \in opened => \E n \in Nbr : kept.ospf[n] # "full"
        /\ LagKey \notin strayed /\ LagKey \in opened => kept.lag.up < kept.lag.members

=============================================================================
