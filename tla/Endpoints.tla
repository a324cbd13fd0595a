------------------------------ MODULE Endpoints ------------------------------
(***************************************************************************)
(* The endpoint table (internal/endpoint): each poll of a switch replaces  *)
(* what was known from that switch, every address in the new table is      *)
(* placed on the least busy port that now sees it, and a change of port is *)
(* reported as a move when the old port no longer sees the address.  The   *)
(* table is snapshotted to disk; the sightings are not.                    *)
(***************************************************************************)
EXTENDS Integers, FiniteSets, FiniteSetsExt

CONSTANTS
    Switch, Router,     \* devices that answer with a forwarding or an ARP table
    Mac, Port,
    Trunk,              \* ports that may be known as uplinks at a poll
    MaxMACs             \* Store.MaxMACs

ASSUME EndpointsAssumption ==
    IsFiniteSet(Switch) /\ IsFiniteSet(Router) /\ IsFiniteSet(Mac) /\ Port \subseteq Nat \ {0} /\ Trunk \subseteq Port /\ MaxMACs \in Nat \ {0}

VARIABLES
    eps,            \* Store.eps: MAC -> [dev, port, silent]; silent: 0 just seen, 1 since, 2 for long
    sight,          \* Store.sight: MAC -> switch -> [port, count]
    lastMove        \* the moves the last ObserveFDB returned: {<<MAC, from, to>>}

epVars == <<eps, sight, lastMove>>

NoDevice == "none"
Nowhere == [dev |-> NoDevice, port |-> 0]
Tables == {{r \in Mac \X Port : f[r[1]] = r[2]} : f \in [Mac -> Port \cup {0}]}
Place(e) == [dev |-> e.dev, port |-> e.port]
Placement == [dev : Switch, port : Port] \cup {Nowhere}
Known(f, m) == m \in DOMAIN f
SightsOf(st, m) == IF Known(st, m) THEN st[m] ELSE [d \in {} |-> Nowhere]

----------------------------------------------------------------------------
(* ObserveFDB: the counts of the new table, the sightings it replaces.     *)

Busy(rows, p) == Cardinality({r \in rows : r[2] = p})

\* The port of the switch on which it keeps an address: the least busy that is no uplink.
KeptOn(rows, up, m) == {r[2] : r \in {x \in rows : x[1] = m /\ x[2] \notin up}}
Sighting(rows, up, m) ==
    LET p == CHOOSE p \in KeptOn(rows, up, m) : \A q \in KeptOn(rows, up, m) : Busy(rows, p) <= Busy(rows, q)
    IN  [port |-> p, count |-> Busy(rows, p)]
Touched(rows, up) == {m \in Mac : KeptOn(rows, up, m) # {}}

Sighted(d, rows, up) ==
    LET others(m) == DOMAIN SightsOf(sight, m) \ {d}
        seen(m) == others(m) \cup (IF m \in Touched(rows, up) THEN {d} ELSE {})
    IN  [m \in {x \in Mac : seen(x) # {}} |->
            [x \in seen(m) |-> IF x = d THEN Sighting(rows, up, m) ELSE sight[m][x]]]

(* placeLocked: the least busy sighting, of equals the one just read.      *)

\* Mutant: the busiest.
BestSightBusiest(st, m, d) ==
    CHOOSE x \in DOMAIN st[m] : \A y \in DOMAIN st[m] : st[m][x].count >= st[m][y].count

BestSight(st, m, d) ==
    CHOOSE x \in DOMAIN st[m] : \A y \in DOMAIN st[m] :
        st[m][x].count < st[m][y].count \/ (st[m][x].count = st[m][y].count /\ (x = d \/ y # d))

Placed(st, m, d) == LET b == BestSight(st, m, d) IN [dev |-> b, port |-> st[m][b].port]

Moved(st, m, d) ==
    /\ Known(eps, m) /\ eps[m].dev # NoDevice /\ eps[m].silent < 2
    /\ Place(eps[m]) # Placed(st, m, d)
    /\ ~ (eps[m].dev \in DOMAIN st[m] /\ st[m][eps[m].dev].port = eps[m].port)

\* capLocked: beyond MaxMACs the longest silent go, with their sightings.
Capped(es, drop) ==
    /\ Cardinality(drop) = (IF Cardinality(DOMAIN es) > MaxMACs THEN Cardinality(DOMAIN es) - MaxMACs ELSE 0)
    /\ \A m \in drop, k \in DOMAIN es \ drop : es[m].silent >= es[k].silent

Without(f, drop) == [m \in DOMAIN f \ drop |-> f[m]]
Heard(S, m) == IF m \in S THEN 0 ELSE Max({eps[m].silent, 1})

ObserveFDB(d, rows, up) ==
    LET st == Sighted(d, rows, up)
        now == Touched(rows, up)
        es == [m \in DOMAIN eps \cup now |->
                  LET p == IF m \in now THEN Placed(st, m, d) ELSE Place(eps[m])
                  IN  [dev |-> p.dev, port |-> p.port, silent |-> Heard(now, m)]]
    IN  /\ lastMove' = {<<m, Place(eps[m]), Placed(st, m, d)>> : m \in {x \in now : Moved(st, x, d)}}
        /\ \E drop \in SUBSET DOMAIN es :
              /\ Capped(es, drop)
              /\ eps' = Without(es, drop)
              /\ sight' = Without(st, drop)

\* ObserveARP: an address is heard of, and is not placed by it.
ObserveARP(r, S) ==
    LET es == [m \in DOMAIN eps \cup S |->
                  IF Known(eps, m) THEN [eps[m] EXCEPT !.silent = Heard(S, m)]
                                   ELSE [dev |-> NoDevice, port |-> 0, silent |-> 0]]
    IN  /\ S # {}
        /\ \E drop \in SUBSET DOMAIN es :
              /\ Capped(es, drop)
              /\ eps' = Without(es, drop)
              /\ sight' = Without(sight, drop)
        /\ lastMove' = {}

DayPasses ==
    /\ \E m \in DOMAIN eps : eps[m].silent < 2
    /\ eps' = [m \in DOMAIN eps |-> [eps[m] EXCEPT !.silent = 2]]
    /\ lastMove' = {}
    /\ UNCHANGED sight

PruneEndpoints(drop) ==
    /\ drop # {} /\ \A m \in drop : eps[m].silent = 2
    /\ eps' = Without(eps, drop) /\ sight' = Without(sight, drop)
    /\ lastMove' = {}

\* Forget: a deleted switch's sightings and placements; the others' sightings place nothing yet.
ForgetSwitch(d) ==
    /\ sight' = [m \in {x \in DOMAIN sight : DOMAIN sight[x] # {d}} |-> [x \in DOMAIN sight[m] \ {d} |-> sight[m][x]]]
    /\ eps' = [m \in DOMAIN eps |-> IF eps[m].dev = d THEN [eps[m] EXCEPT !.dev = NoDevice, !.port = 0] ELSE eps[m]]
    /\ lastMove' = {}

\* Open: the snapshot may be minutes old, and Flush encodes endpoints after the unlock that
\* others go on changing, so a placement may be an earlier one or of two halves: any is read back.
EndpointsReopened ==
    \E S \in {X \in SUBSET Mac : Cardinality(X) <= MaxMACs} : \E p \in [S -> Placement] :
        /\ eps' = [m \in S |-> [dev |-> p[m].dev, port |-> p[m].port, silent |-> 1]]
        /\ sight' = [m \in {} |-> [d \in {} |-> Nowhere]]
        /\ lastMove' = {}

EndpointsInit ==
    /\ eps = [m \in {} |-> Nowhere] /\ sight = [m \in {} |-> [d \in {} |-> Nowhere]]
    /\ lastMove = {}

EndpointsNext ==
    \/ \E d \in Switch, rows \in Tables, up \in SUBSET Trunk : ObserveFDB(d, rows, up)
    \/ \E r \in Router, S \in SUBSET Mac : ObserveARP(r, S)
    \/ DayPasses
    \/ \E drop \in SUBSET DOMAIN eps : PruneEndpoints(drop)
    \/ \E d \in Switch : ForgetSwitch(d)
    \/ EndpointsReopened

EndpointsSpec == EndpointsInit /\ [][EndpointsNext]_epVars

EndpointsTypeOK ==
    /\ DOMAIN eps \subseteq Mac /\ Cardinality(DOMAIN eps) <= MaxMACs
    /\ \A m \in DOMAIN eps : Place(eps[m]) \in Placement /\ eps[m].silent \in 0 .. 2
    /\ DOMAIN sight \subseteq DOMAIN eps /\ \A m \in DOMAIN sight : DOMAIN sight[m] \subseteq Switch

(* placeLocked runs only for the addresses of the table just read, yet an   *)
(* address whose port still sees it never sits on a busier port than        *)
(* another that sees it: tables read since, a deleted switch, the cap, a    *)
(* prune and a restart leave it on the least busy of its sightings.         *)
PlacedOnLeastBusyPort ==
    \A m \in DOMAIN eps \cap DOMAIN sight :
        LET e == eps[m] IN
        (e.dev \in DOMAIN sight[m] /\ sight[m][e.dev].port = e.port) =>
            \A d \in DOMAIN sight[m] : sight[m][e.dev].count <= sight[m][d].count

=============================================================================
