------------------------------ MODULE Topology ------------------------------
(***************************************************************************)
(* The topology builder (internal/topology/topology.go) on the inventory   *)
(* of the store.  Neighbour tables are collected device by device; Rebuild *)
(* reads the devices, the tables and the old links one after the other,    *)
(* synthesises the new links and replaces the old ones, then derives the   *)
(* important interfaces, the roles and the layout from what it read at the *)
(* beginning.  Collect runs once at a time, but the console's DELETE of a  *)
(* device calls Rebuild too, and devices, links and roles are edited while *)
(* a Rebuild runs.                                                         *)
(*                                                                         *)
(* One site.  A device is its number, which orders ids and names.  An      *)
(* observation names the remote device and a reference to a port, which    *)
(* is the name the inventory has for it only once the interfaces of that   *)
(* device are known (ifName).                                              *)
(***************************************************************************)
EXTENDS Naturals, FiniteSets, FiniteSetsExt

CONSTANTS
    Unit,          \* devices, by number
    Edge,          \* those whose profile makes them routers
    Sight,         \* Sight[d]: the neighbour tables device d may report
    PortOf,        \* PortOf[ref]: the interface a reference stands for
    ManualLink,    \* <<a, aIf, b, bIf>>: links an administrator draws
    LockRole,      \* roles an administrator gives by hand
    MaxTopo        \* bound: operations begun

\* A neighbour nobody has inventoried is a number too, one that is not among the devices.
ASSUME TopoAssumption ==
    /\ Unit \subseteq Nat /\ Edge \subseteq Unit /\ MaxTopo \in Nat
    /\ \A d \in Unit : \A table \in Sight[d] : \A o \in table : o.rem \in Unit

Builder == {"collect", "console"}

VARIABLES
    units,      \* devices of the inventory
    known,      \* those whose interfaces are inventoried
    role,       \* role[d]
    locked,     \* devices whose RoleLocked is set
    sights,     \* st.Neighbors
    links,      \* st.Links
    important,  \* interfaces with Important set: <<device, port>>
    placed,     \* devices of the layout
    collecting, \* devices whose tables are being walked
    drawing,    \* manual links whose ends the console has checked
    build,      \* the Rebuild of each builder
    ghosts,     \* devices deleted while a walk or a Rebuild was running
    hand,       \* hand[d]: the role last given by hand, "none" if never
    ops

topoVars == <<units, known, role, locked, sights, links, important, placed, collecting,
              drawing, build, ghosts, hand, ops>>

Op == ops < MaxTopo /\ ops' = ops + 1

IsSwitch(r) == r \in {"access", "dist", "core"}
NotBuilding     == [at |-> "idle", devs |-> {}, role |-> [d \in Unit |-> "none"], locked |-> {},
                known |-> {}, sights |-> [d \in Unit |-> {}], old |-> {}]
InFlight    == collecting # {} \/ drawing # {} \/ \E b \in Builder : build[b].at # "idle"

-----------------------------------------------------------------------------
(* Synthesis (Rebuild).                                                    *)

IfName(inventoried, d, ref) == IF d \in inventoried THEN PortOf[ref] ELSE ref

\* The link an observation of d speaks for; its ends in the order of the devices, an
\* unknown remote as an external end.
LinkKey(r, d, o) ==
    LET near == IfName(r.known, d, o.lif)  far == IfName(r.known, o.rem, o.rif)
    IN  IF o.rem \notin r.devs THEN <<d, near, o.rem, o.rif, TRUE>>
        ELSE IF d < o.rem THEN <<d, near, o.rem, far, FALSE>> ELSE <<o.rem, far, d, near, FALSE>>

Observed(r) == {s \in Unit \X UNION {r.sights[d] : d \in Unit} : s[2] \in r.sights[s[1]] /\ s[2].rem # s[1]}
LinkKeys(r) == {LinkKey(r, s[1], s[2]) : s \in Observed(r)}

KeyOf(l) == <<l.a, l.aIf, l.b, l.bIf, l.ext>>

\* Confidence: 60 for an external end, 80 for one side's word, 100 for both, 5 more
\* for two protocols.
Confidence(k, mine) ==
    LET base   == IF k[5] THEN 60
                  ELSE IF {k[1], k[3]} \subseteq {s[1] : s \in mine} THEN 100 ELSE 80
        extra  == IF Cardinality({s[2].src : s \in mine}) > 1 THEN 5 ELSE 0
    IN  IF base + extra > 100 THEN 100 ELSE base + extra

Fresh(r) ==
    {LET mine == {s \in Observed(r) : LinkKey(r, s[1], s[2]) = k}
     IN  [a |-> k[1], aIf |-> k[2], b |-> k[3], bIf |-> k[4], ext |-> k[5], manual |-> FALSE,
          conf |-> Confidence(k, mine), stale |-> FALSE, aged |-> FALSE] : k \in LinkKeys(r)}

\* Links that are not observed any more stay for seven days as stale ones.
Kept(r) == {l \in r.old : l.manual}
Stale(r) == {[l EXCEPT !.stale = TRUE] :
                l \in {o \in r.old : ~o.manual /\ KeyOf(o) \notin LinkKeys(r) /\ ~o.aged}}

Ends(l) == {<<l.a, l.aIf>>, <<l.b, l.bIf>>}

\* Mutant: nothing is dropped.
OnePeerOff(ls) == ls

\* A port with a confirmed link carries no stale or weaker one.
OnePeer(ls) ==
    LET best(e) == Max({0} \union {l.conf : l \in {x \in ls : e \in Ends(x) /\ ~x.stale /\ ~x.ext}})
    IN  {l \in ls : l.manual \/ l.ext \/
            \A e \in Ends(l) : best(e) < 100 \/ (~l.stale /\ l.conf >= best(e))}

NewLinks(r) == OnePeer(Fresh(r) \union Kept(r) \union Stale(r))

-----------------------------------------------------------------------------
(* Roles.                                                                  *)

Cabled(ls) == {l \in ls : ~l.ext /\ ~l.stale}
Peers(ls, d) == {l.b : l \in {x \in Cabled(ls) : x.a = d}} \union {l.a : l \in {x \in Cabled(ls) : x.b = d}}

\* The one or two best connected switches, those next to a router first.
Cores(r, ls) ==
    LET deg(d)   == Cardinality(Peers(ls, d))
        switches == {d \in r.devs : IsSwitch(r.role[d])}
        top      == Max({0} \union {deg(d) : d \in switches})
        near     == {d \in switches : deg(d) + 1 >= top /\ deg(d) >= 2}
        atEdge   == {d \in near : \E p \in Peers(ls, d) \intersect r.devs : r.role[p] = "router"}
        pick     == IF atEdge # {} THEN atEdge ELSE near
        before(d, e) == deg(d) > deg(e) \/ (deg(d) = deg(e) /\ d < e)
    IN  IF top < 2 THEN {} ELSE {d \in pick : Cardinality({e \in pick : before(e, d)}) < 2}

InferRole(r, ls, d) ==
    LET top == Cores(r, ls)
        down == {p \in Peers(ls, d) \intersect r.devs : p \notin top /\ IsSwitch(r.role[p])}
    IN  IF d \in top THEN "core"
        ELSE IF Peers(ls, d) \intersect top # {} /\ down # {} THEN "dist" ELSE "access"

\* inferRoles decides by the devices read at the beginning and updates those that are
\* still there.
InferRoles(r, ls) ==
    [d \in Unit |-> IF d \in (units \intersect r.devs) \ r.locked /\ IsSwitch(r.role[d])
                       /\ r.role[d] # InferRole(r, ls, d)
                    THEN InferRole(r, ls, d) ELSE role[d]]

\* markImportant: both ends are infrastructure; the interface has to be in the store.
MarkImportant(r, ls) ==
    important \union {e \in UNION {Ends(l) : l \in {x \in Cabled(ls) : {x.a, x.b} \subseteq r.devs}} :
                         e[1] \in known /\ \E ref \in DOMAIN PortOf : PortOf[ref] = e[2]}

-----------------------------------------------------------------------------
(* Steps of Rebuild.                                                       *)

At(b, at) == build[b].at = at

BeginRebuild(b) == [NotBuilding EXCEPT !.at = "indexed", !.devs = units, !.role = role,
                                   !.locked = locked, !.known = known]

\* b.index(), in the Rebuild of Collect: after the walks.
Index ==
    /\ At("collect", "walk") /\ collecting = {}
    /\ build' = [build EXCEPT !["collect"] = BeginRebuild("collect")]
    /\ UNCHANGED <<units, known, role, locked, sights, links, important, placed, collecting, drawing, ghosts, hand, ops>>

\* AllNeighbors, then Links.
ReadNeighbors(b) ==
    /\ At(b, "indexed")
    /\ build' = [build EXCEPT ![b].at = "sighted", ![b].sights = sights]
    /\ UNCHANGED <<units, known, role, locked, sights, links, important, placed, collecting, drawing, ghosts, hand, ops>>

ReadLinks(b) ==
    /\ At(b, "sighted")
    /\ build' = [build EXCEPT ![b].at = "ready", ![b].old = links]
    /\ UNCHANGED <<units, known, role, locked, sights, links, important, placed, collecting, drawing, ghosts, hand, ops>>

\* ReplaceLinks keeps the manual links that are there now.
ReplaceLinks(b) ==
    LET new == NewLinks(build[b])
    IN  /\ At(b, "ready")
        /\ links' = new \union {l \in links : l.manual}
        /\ build' = [build EXCEPT ![b].at = "linked", ![b].old = new]
        /\ UNCHANGED <<units, known, role, locked, sights, important, placed, collecting, drawing, ghosts, hand, ops>>

\* markImportant, inferRoles and Layout.
FinishRebuild(b) ==
    LET r == build[b]
    IN  /\ At(b, "linked")
        /\ important' = MarkImportant(r, r.old)
        /\ role' = InferRoles(r, r.old)
        /\ placed' = units
        /\ build' = [build EXCEPT ![b] = NotBuilding]
        /\ UNCHANGED <<units, known, locked, sights, links, collecting, drawing, ghosts, hand, ops>>

-----------------------------------------------------------------------------
(* Collection.                                                             *)

\* Collect returns when one is running; otherwise it walks every device.
Collect ==
    /\ At("collect", "idle") /\ collecting = {}
    /\ Op
    /\ collecting' = units
    /\ build' = [build EXCEPT !["collect"].at = "walk"]
    /\ UNCHANGED <<units, known, role, locked, sights, links, important, placed, drawing, ghosts, hand>>

\* collectDevice: an empty table, a failed walk included, keeps the last one for two hours.
CollectDevice(d, table, expired) ==
    /\ d \in collecting /\ table \in Sight[d]
    /\ expired => table = {}
    /\ sights' = IF table # {} \/ expired THEN [sights EXCEPT ![d] = table] ELSE sights
    /\ collecting' = collecting \ {d}
    /\ UNCHANGED <<units, known, role, locked, links, important, placed, drawing, build, ghosts, hand, ops>>

-----------------------------------------------------------------------------
(* Everybody else.                                                         *)

\* PutDevice by discovery or the console.
PutDevice(d) ==
    /\ d \notin units
    /\ Op
    /\ units' = units \union {d}
    /\ role' = [role EXCEPT ![d] = IF d \in Edge THEN "router" ELSE "access"]
    /\ UNCHANGED <<known, locked, sights, links, important, placed, collecting, drawing, build, ghosts, hand>>

\* PutInterfaces by the poller.
PutInterfaces(d) ==
    /\ d \in units \ known
    /\ Op
    /\ known' = known \union {d}
    /\ UNCHANGED <<units, role, locked, sights, links, important, placed, collecting, drawing, build, ghosts, hand>>

\* Mutant: the links of the device are forgotten, its neighbour table is not.
DeleteDeviceKeepsTable(d) ==
    /\ d \in units /\ At("console", "idle")
    /\ Op
    /\ units' = units \ {d} /\ known' = known \ {d} /\ locked' = locked \ {d}
    /\ role' = [role EXCEPT ![d] = "none"] /\ hand' = [hand EXCEPT ![d] = "none"]
    /\ UNCHANGED sights
    /\ links' = {l \in links : l.a # d /\ (l.ext \/ l.b # d)}
    /\ important' = {e \in important : e[1] # d} /\ placed' = placed \ {d}
    /\ ghosts' = IF InFlight THEN ghosts \union {d} ELSE ghosts
    /\ build' = [build EXCEPT !["console"] =
                    [BeginRebuild("console") EXCEPT !.devs = units', !.known = known', !.role = role']]
    /\ UNCHANGED <<collecting, drawing>>

\* The console's DELETE: DeleteDevice with all that hangs on it, then Rebuild.
DeleteDevice(d) ==
    /\ d \in units /\ At("console", "idle")
    /\ Op
    /\ units' = units \ {d} /\ known' = known \ {d} /\ locked' = locked \ {d}
    /\ role' = [role EXCEPT ![d] = "none"] /\ hand' = [hand EXCEPT ![d] = "none"]
    /\ sights' = [sights EXCEPT ![d] = {}]
    /\ links' = {l \in links : l.a # d /\ (l.ext \/ l.b # d)}
    /\ important' = {e \in important : e[1] # d} /\ placed' = placed \ {d}
    /\ ghosts' = IF InFlight THEN ghosts \union {d} ELSE ghosts
    /\ build' = [build EXCEPT !["console"] =
                    [BeginRebuild("console") EXCEPT !.devs = units', !.known = known', !.role = role']]
    /\ UNCHANGED <<collecting, drawing>>

\* addLink: the ends are checked, then the link is put and the layout made anew.
AddLink(m) ==
    /\ {m[1], m[3]} \subseteq units
    /\ Op
    /\ drawing' = drawing \union {m}
    /\ UNCHANGED <<units, known, role, locked, sights, links, important, placed, collecting, build, ghosts, hand>>

PutLink(m) ==
    /\ m \in drawing
    /\ drawing' = drawing \ {m}
    /\ links' = links \union {[a |-> m[1], aIf |-> m[2], b |-> m[3], bIf |-> m[4], ext |-> FALSE,
                               manual |-> TRUE, conf |-> 100, stale |-> FALSE, aged |-> FALSE]}
    /\ placed' = units
    /\ UNCHANGED <<units, known, role, locked, sights, important, collecting, build, ghosts, hand, ops>>

\* A computed link that is deleted by hand comes back when it is observed.
DeleteLink(l) ==
    /\ l \in links
    /\ Op
    /\ links' = links \ {l}
    /\ UNCHANGED <<units, known, role, locked, sights, important, placed, collecting, drawing, build, ghosts, hand>>

\* updateDevice with a role.
SetRole(d, r) ==
    /\ d \in units
    /\ Op
    /\ role' = [role EXCEPT ![d] = r] /\ hand' = [hand EXCEPT ![d] = r]
    /\ locked' = locked \union {d}
    /\ UNCHANGED <<units, known, sights, links, important, placed, collecting, drawing, build, ghosts>>

\* Seven days without an observation.
WeekPasses ==
    /\ \E l \in links : l.stale /\ ~l.aged
    /\ links' = {[l EXCEPT !.aged = l.stale] : l \in links}
    /\ UNCHANGED <<units, known, role, locked, sights, important, placed, collecting, drawing, build, ghosts, hand, ops>>

TopoInit ==
    /\ units = Unit /\ known = {} /\ locked = {} /\ links = {} /\ important = {} /\ placed = {}
    /\ role = [d \in Unit |-> IF d \in Edge THEN "router" ELSE "access"]
    /\ sights = [d \in Unit |-> {}]
    /\ collecting = {} /\ drawing = {} /\ ghosts = {} /\ ops = 0
    /\ build = [b \in Builder |-> NotBuilding]
    /\ hand = [d \in Unit |-> "none"]

TopoNext ==
    \/ Collect \/ Index \/ WeekPasses
    \/ \E d \in Unit : \E table \in Sight[d], expired \in BOOLEAN : CollectDevice(d, table, expired)
    \/ \E b \in Builder : ReadNeighbors(b) \/ ReadLinks(b) \/ ReplaceLinks(b) \/ FinishRebuild(b)
    \/ \E d \in Unit : PutDevice(d) \/ PutInterfaces(d) \/ DeleteDevice(d)
    \/ \E m \in ManualLink : AddLink(m) \/ PutLink(m)
    \/ \E l \in links : DeleteLink(l)
    \/ \E d \in Unit, r \in LockRole : SetRole(d, r)

TopoSpec == TopoInit /\ [][TopoNext]_topoVars

-----------------------------------------------------------------------------
(* Properties.                                                             *)

TopoTypeOK ==
    /\ {units, known, locked, placed, collecting, ghosts} \subseteq SUBSET Unit
    /\ role \in [Unit -> {"none", "router", "access", "dist", "core"} \cup LockRole]
    /\ \A l \in links : {l.a, l.b} \subseteq Unit /\ l.conf \in 60..100

\* Computed and drawn links alike join devices of the inventory: a device that was
\* deleted is not the end of a link, unless its deletion overlapped a walk, a
\* Rebuild or an addLink, which write what they read before (DeleteDevice, Rebuild).
LinksJoinDevices ==
    \A l \in links : {l.a} \union (IF l.ext THEN {} ELSE {l.b}) \subseteq units \union ghosts

\* topology.go, Rebuild: "a physical port has one peer": beside a link that both sides
\* confirm there is no stale and no weaker computed link on either port.
OnePeerPerPort ==
    \A k, l \in links : ~k.manual /\ ~l.manual /\ ~k.ext /\ ~l.ext /\ ~k.stale /\ k.conf = 100
                        /\ Ends(k) \intersect Ends(l) # {}
        => ~l.stale /\ l.conf = 100

\* topology.go, inferRoles: "A role edited by hand (RoleLocked) is kept."
\* It does not hold of a role edited while a Rebuild runs (README).
LockedRoleIsKept == \A d \in units : d \in locked => role[d] = hand[d]
=============================================================================
