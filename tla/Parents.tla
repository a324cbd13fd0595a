------------------------------ MODULE Parents ------------------------------
(***************************************************************************)
(* The parent map of the state engine (internal/state/engine.go,           *)
(* computeParents, upstreamLocked, impactOf): a breadth-first search over  *)
(* the links that are neither external nor stale, from the configured root *)
(* and the best device of every site.  Outage suppression follows the map  *)
(* upwards and impactOf walks it downwards without a visited set, so a     *)
(* loop in it would keep the engine's lock for ever.                       *)
(*                                                                         *)
(* The map is kept for a minute, so the links change under it.             *)
(***************************************************************************)
EXTENDS Naturals, Sequences, FiniteSets, SequencesExt

CONSTANTS
    Box,        \* devices, by number (the order of ids and of names)
    BoxSite,    \* BoxSite[d]: the site of a device
    Rank,       \* Rank[d]: 4 core, 3 router, 2 distribution, 1 access, 0 other
    NoRoot,     \* no device
    MaxGraphs   \* bound: times the links change

ASSUME ParentsAssumption ==
    /\ Box \subseteq Nat /\ IsFiniteSet(Box) /\ NoRoot \notin Box
    /\ MaxGraphs \in Nat

VARIABLES
    cable,      \* the links that count: sets of two devices
    rootDevice, \* e.RootDevice
    queue, visited, parents,   \* the search
    counted,    \* impactOf: [dev, n, stack], or Nothing
    graphs,
    basis       \* the links the search was made on

parentVars == <<cable, rootDevice, queue, visited, parents, counted, graphs, basis>>

Wire == {w \in SUBSET Box : Cardinality(w) = 2}
Near(ws, d) == {e \in Box : {d, e} \in ws}

\* A set in any order, as a map is ranged over, and by name, as it is sorted.
Orders(S) == Injection(1..Cardinality(S), S)
ByName(S) == {q \in Orders(S) : \A i, j \in DOMAIN q : i < j => q[i] < q[j]}

Nothing == [dev |-> NoRoot, n |-> 0, stack |-> <<>>]

\* The best device of a site: the highest rank, then the most links, then the first
\* by name; a device without links is no root.
Best(ws, s) ==
    LET ds == {d \in Box : BoxSite[d] = s}
        deg(d) == Cardinality(Near(ws, d))
        better(d, e) == \/ Rank[d] > Rank[e]
                        \/ Rank[d] = Rank[e] /\ deg(d) > deg(e)
                        \/ Rank[d] = Rank[e] /\ deg(d) = deg(e) /\ d < e
    IN  {d \in ds : deg(d) > 0 /\ \A e \in ds \ {d} : better(d, e)}

Roots(ws) == ({rootDevice} \ {NoRoot}) \union UNION {Best(ws, BoxSite[d]) : d \in Box}

\* computeParents is made when the map is a minute old or invalidated.
Compute ==
    /\ queue = <<>> /\ counted = Nothing /\ basis # cable
    /\ basis' = cable
    /\ queue' \in Orders(Roots(cable))
    /\ visited' = Roots(cable) /\ parents' = [d \in Box |-> NoRoot]
    /\ UNCHANGED <<cable, rootDevice, counted, graphs>>

\* Mutant: a neighbour is taken again as long as it was not dequeued.
VisitTwice ==
    LET cur == Head(queue)
        new == Near(basis, cur) \ {d \in visited : d \notin {queue[i] : i \in DOMAIN queue}}
    IN  /\ queue # <<>>
        /\ parents' = [d \in Box |-> IF d \in new THEN cur ELSE parents[d]]
        /\ visited' = visited \union new
        /\ \E q \in ByName(new \ visited) : queue' = Tail(queue) \o q
        /\ UNCHANGED <<cable, rootDevice, counted, graphs, basis>>

\* One turn of the loop over the queue.
Visit ==
    LET cur == Head(queue)
        new == Near(basis, cur) \ visited
    IN  /\ queue # <<>>
        /\ parents' = [d \in Box |-> IF d \in new THEN cur ELSE parents[d]]
        /\ visited' = visited \union new
        /\ \E q \in ByName(new) : queue' = Tail(queue) \o q
        /\ UNCHANGED <<cable, rootDevice, counted, graphs, basis>>

\* ReplaceLinks: a link comes or goes.
Recable(w) ==
    /\ graphs < MaxGraphs
    /\ graphs' = graphs + 1
    /\ cable' = (cable \ {w}) \union ({w} \ cable)
    /\ UNCHANGED <<rootDevice, queue, visited, parents, counted, basis>>

\* impactOf: the devices downstream of dev.
Children(d) == {c \in Box : parents[c] = d}
ImpactOf(d) ==
    /\ queue = <<>> /\ counted = Nothing
    /\ counted' = [dev |-> d, n |-> 0, stack |-> <<d>>]
    /\ UNCHANGED <<cable, rootDevice, queue, visited, parents, graphs, basis>>
ImpactStep ==
    /\ counted.stack # <<>>
    /\ LET cs == Children(Last(counted.stack))
       IN  \E q \in Orders(cs) :
               counted' = [counted EXCEPT !.n = @ + Cardinality(cs), !.stack = Front(@) \o q]
    /\ UNCHANGED <<cable, rootDevice, queue, visited, parents, graphs, basis>>
ImpactEnd ==
    /\ counted # Nothing /\ counted.stack = <<>>
    /\ counted' = Nothing
    /\ UNCHANGED <<cable, rootDevice, queue, visited, parents, graphs, basis>>

ParentInit ==
    /\ cable \in SUBSET Wire
    /\ rootDevice \in Box \union {NoRoot}
    /\ queue = <<>> /\ visited = {} /\ parents = [d \in Box |-> NoRoot]
    /\ counted = Nothing /\ graphs = 0 /\ basis = {}

ParentNext ==
    \/ Compute \/ Visit \/ ImpactStep \/ ImpactEnd
    \/ \E w \in Wire : Recable(w)
    \/ \E d \in Box : ImpactOf(d)

ParentSpec == ParentInit /\ [][ParentNext]_parentVars

-----------------------------------------------------------------------------
(* Properties.                                                             *)

ParentTypeOK ==
    /\ cable \subseteq Wire /\ basis \subseteq Wire
    /\ visited \subseteq Box /\ queue \in Seq(Box)
    /\ parents \in [Box -> Box \union {NoRoot}]

Mapped == {d \in Box : parents[d] # NoRoot}

\* h is at most the distance from the roots, since it is 0 there and no link changes it
\* by more than one, and a device is one further than its parent.
Levels(h, roots) ==
    /\ \A d \in Mapped : h[d] = h[parents[d]] + 1
    /\ \A r \in roots : h[r] = 0
    /\ \A w \in basis : \A d, e \in w : h[e] <= h[d] + 1

\* Going from parent to parent leads every device that has one to a root, along links the
\* map was made on, and as no way to a root is shorter than the levels say, on a shortest
\* one: at every moment of the search and however the links change meanwhile.  So no
\* device is its own ancestor, and impactOf ends: it counts at most the other devices
\* (computeParents, impactOf).
ParentsLeadToRoot ==
    /\ Mapped # {} =>
           LET roots == Roots(basis)
           IN  /\ \A d \in Mapped : {d, parents[d]} \in basis /\ parents[d] \in roots \union Mapped
               /\ \E h \in [Box -> 0..Cardinality(Box) - 1] : Levels(h, roots)
    /\ counted # Nothing => counted.n < Cardinality(Box)
=============================================================================
