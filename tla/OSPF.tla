------------------------------- MODULE OSPF -------------------------------
(***************************************************************************)
(* Phase 3 of Simulate: installOSPFRoutesVRF of internal/engine/           *)
(* controlplane.  It reads the interfaces' areas and costs, collects what  *)
(* every router advertises, enumerates paths from every router with a      *)
(* priority queue (per area and over all areas), and installs one route    *)
(* per advertisement and path, whose condition is that the path is up.     *)
(* No route is computed for a given failure: the enumerated paths have to  *)
(* contain the best one of every failure.                                  *)
(*                                                                         *)
(* One network instance (the code repeats this for each).  Nodes are       *)
(* numbers and prefixes sequences of numbers, compared as the code         *)
(* compares their names.  The prefixes of a node's interfaces differ.      *)
(***************************************************************************)
EXTENDS Conditions, Integers, SequencesExt

CONSTANTS MaxPathsPerDestination,
          Nets      \* the OSPF networks simulated

VARIABLES
    net,        \* the network; never changes
    advs,       \* the advertisements, in the order of their installation
    keys,       \* the path enumerations <<source, area>> still to make
    key,        \* the one under way, <<>> if none
    queue,      \* pathQueue: partial paths of the enumeration under way
    frontier,   \* node -> the frontier entries of that enumeration
    out,        \* node -> the paths recorded by that enumeration
    table,      \* <<source, area>> -> node -> paths, sorted
    sources,    \* the nodes whose routes are still to be installed
    rib,        \* node -> sequence of OSPF routes
    phase       \* "advertise", "paths", "install" or "done"

vars == <<net, advs, keys, key, queue, frontier, out, table, sources, rib, phase>>

\* The elements of a set in some order.
Listed(S) == FoldSet(LAMBDA x, list : Append(list, x), <<>>, S)

\* Lexicographic order.
Lex(s, t) ==
    \/ IsStrictPrefix(s, t)
    \/ \E i \in DOMAIN s \cap DOMAIN t :
         s[i] < t[i] /\ \A j \in 1..(i - 1) : s[j] = t[j]

BackboneArea == "0"
AnyArea      == "any"     \* the enumeration that follows all areas
DefaultRoute == <<>>      \* the prefix 0.0.0.0/0

ASSUME OSPFAssumption ==
    /\ Node \subseteq Nat /\ IsFiniteSet(Node)
    /\ MaxPathsPerDestination \in Nat \ {0}

---------------------------------------------------------------------------
(***************************************************************************)
(* Interfaces.  net.iface maps <<n, m>> to the configuration of n's        *)
(* interface on the link to m, and <<n, n>> to n's loopback.               *)
(***************************************************************************)
\* The area of the interface statement, or else of the first network
\* statement that contains the address; "" when there is neither.
InterfaceArea(i) ==
    IF i.area # "" \/ i.networks = <<>> THEN i.area ELSE Head(i.networks)

Configured(x) == x \in DOMAIN net.iface /\ x[1] \in DOMAIN net.process

\* ospfInterfaceStates: the interfaces that take part.
Interfaces == {x \in DOMAIN net.iface : Configured(x) /\ InterfaceArea(net.iface[x]) # ""}

InterfaceState(x) ==
    LET i == net.iface[x]
    IN  [prefix |-> i.prefix, area |-> InterfaceArea(i), type |-> i.type,
         cost |-> IF x[1] = x[2] THEN 0 ELSE IF i.cost > 0 THEN i.cost ELSE 1,
         passive |-> i.passive \/ i.listedPassive]

NodeAreas(n) == {InterfaceState(x).area : x \in {x \in Interfaces : x[1] = n}}

ABRs == {n \in Node : Cardinality(NodeAreas(n)) > 1 /\ BackboneArea \in NodeAreas(n)}

\* The routers through which node n leaves or is entered from the backbone.
AreaBoundaries(n, area) ==
    IF area = BackboneArea /\ BackboneArea \in NodeAreas(n) THEN {n}
    ELSE {m \in ABRs : area \in NodeAreas(m)}

NetworkTypesMatchForAdjacency(a, b) == a = "" \/ b = "" \/ a = b

Adjacent(n, m, area) ==
    /\ n # m /\ {<<n, m>>, <<m, n>>} \subseteq Interfaces
    /\ LET from == InterfaceState(<<n, m>>)
           to   == InterfaceState(<<m, n>>)
       IN  /\ ~from.passive /\ ~to.passive
           /\ from.area = to.area
           /\ area \in {AnyArea, from.area}
           /\ NetworkTypesMatchForAdjacency(from.type, to.type)

---------------------------------------------------------------------------
(***************************************************************************)
(* Advertisements.  net.process[n].areas gives the kinds of the areas      *)
(* listed in n's process, .originate those with default-information-       *)
(* originate, .redistribute the statements and .candidates the routes n    *)
(* could redistribute, in the order of the code: local ones with the       *)
(* node's condition, BGP ones with the condition they were propagated      *)
(* with (nothing is selected yet in phase 3).                              *)
(***************************************************************************)
Kind(n, area) ==
    IF n \in DOMAIN net.process /\ area \in DOMAIN net.process[n].areas
    THEN net.process[n].areas[area] ELSE ""

ExternalMetric(redist, r) ==
    CASE redist.metric > 0 -> redist.metric
      [] redist.metric <= 0 /\ r.med > 0 -> r.med
      [] redist.metric <= 0 /\ r.med <= 0 /\ r.metric > 0 -> r.metric
      [] OTHER -> 20

ExternalMetricType(t) == IF t = 1 THEN 1 ELSE 2

\* Connected routes of links are left out, and BGP routes n itself
\* originated; the rest has to pass the statement's route-map.
Redistributed(redist, r) ==
    /\ redist.kind = r.kind
    /\ ~(r.kind = "connected" /\ r.link)
    /\ ~(r.kind = "bgp" /\ r.local)
    /\ r.prefix \notin redist.denies

\* What the statement's route-map makes of an accepted route: "meds" gives the
\* MED its rules set per prefix, the one attribute an advertisement reads.
Rewritten(redist, r) ==
    [r EXCEPT !.med = IF r.prefix \in DOMAIN redist.meds THEN redist.meds[r.prefix] ELSE @]

\* ExternalArea: an NSSA n is attached to, in map order.
ExternalAreas(n) ==
    LET nssa == {a \in NodeAreas(n) : Kind(n, a) = "nssa"}
    IN  IF nssa = {} THEN {""} ELSE nssa

InterfaceAdvertisements ==
    {[node |-> x[1], prefix |-> InterfaceState(x).prefix, cost |-> InterfaceState(x).cost,
      area |-> InterfaceState(x).area, external |-> 0, externalArea |-> "", defaultArea |-> "",
      source |-> TrueCond] : x \in Interfaces}

ExternalAdvertisements(n, area) ==
    {[node |-> n, prefix |-> x[2].prefix, cost |-> ExternalMetric(x[1], Rewritten(x[1], x[2])), area |-> "",
      external |-> ExternalMetricType(x[1].type), externalArea |-> area, defaultArea |-> "",
      source |-> x[2].cond] :
        x \in {x \in net.process[n].redistribute \X net.process[n].candidates : Redistributed(x[1], x[2])}}

\* Mutant: a router inside the stub area announces the default route too.
DefaultAreasAnywhere(n) ==
    {a \in NodeAreas(n) : \/ Kind(n, a) = "stub"
                          \/ Kind(n, a) = "nssa" /\ a \in net.process[n].originate}

DefaultAreas(n) ==
    {a \in NodeAreas(n) : \/ Kind(n, a) = "stub" /\ NodeAreas(n) # {a}
                          \/ Kind(n, a) = "nssa" /\ a \in net.process[n].originate}

DefaultAdvertisements(n) ==
    {[node |-> n, prefix |-> DefaultRoute, cost |-> 1, area |-> "", external |-> 0,
      externalArea |-> "", defaultArea |-> a, source |-> TrueCond] : a \in DefaultAreas(n)}

\* Sorted by node and prefix.  Ties keep no order of their own: the cheaper
\* or the dearer one may come first.
Advertise ==
    /\ phase = "advertise"
    /\ \E areas \in {f \in [DOMAIN net.process -> UNION {ExternalAreas(n) : n \in DOMAIN net.process}] :
                       \A n \in DOMAIN f : f[n] \in ExternalAreas(n)},
          cheaperFirst \in BOOLEAN :
         LET all == InterfaceAdvertisements
                      \cup UNION {ExternalAdvertisements(n, areas[n]) : n \in DOMAIN net.process}
                      \cup UNION {DefaultAdvertisements(n) : n \in DOMAIN net.process}
         IN  advs' = SortSeq(Listed(all), LAMBDA a, b :
                       \/ a.node < b.node
                       \/ a.node = b.node /\ Lex(a.prefix, b.prefix)
                       \/ a.node = b.node /\ a.prefix = b.prefix /\ cheaperFirst = (a.cost < b.cost))
    /\ phase' = IF advs' = <<>> THEN "done" ELSE "paths"
    /\ keys' = IF advs' = <<>> THEN {}
               ELSE {<<n, a>> \in (DOMAIN net.process) \X (net.areas \cup {AnyArea}) :
                       a \in NodeAreas(n) \cup {AnyArea}}
    /\ UNCHANGED <<net, key, queue, frontier, out, table, sources, rib>>

---------------------------------------------------------------------------
(***************************************************************************)
(* ospfCandidatePathsBounded: a partial path is taken from the queue,      *)
(* cheapest first, recorded unless its end already has its maximum of      *)
(* paths, and extended unless an earlier path to the same node, no dearer  *)
(* and over no other nodes, was.                                           *)
(***************************************************************************)
PathLess(p, q) ==
    \/ p.cost < q.cost
    \/ p.cost = q.cost /\ Len(p.nodes) < Len(q.nodes)
    \/ p.cost = q.cost /\ Len(p.nodes) = Len(q.nodes) /\ Lex(p.nodes, q.nodes)

PathLinks(nodes) == {{nodes[i], nodes[i + 1]} : i \in 1..(Len(nodes) - 1)}

\* PathCondition.
PathCondition(nodes) ==
    AndAll({NodeVar(n) : n \in ToSet(nodes)} \cup {LinkVar(l) : l \in PathLinks(nodes)})

\* p continued over the adjacency to m.
Extend(p, m) ==
    LET i == InterfaceState(<<Last(p.nodes), m>>)
    IN  [cost |-> p.cost + i.cost, nodes |-> Append(p.nodes, m), areas |-> Append(p.areas, i.area)]

\* Mutant: cheaper is enough.
DominatesByCost(a, b) == a.cost <= b.cost

FrontierDominates(a, b) == a.cost <= b.cost /\ a.visited \subseteq b.visited

Start(n) == [cost |-> 0, nodes |-> <<n>>, areas |-> <<>>]

Extensions(p, area) ==
    {Extend(p, m) : m \in {m \in Node \ ToSet(p.nodes) : Adjacent(Last(p.nodes), m, area)}}

NoPaths == [n \in Node |-> <<>>]

\* The enumerations are independent of each other.
StartPaths ==
    /\ phase = "paths" /\ key = <<>>
    /\ key' = CHOOSE k \in keys : TRUE
    /\ queue' = Extensions(Start(key'[1]), key'[2])
    /\ frontier' = [n \in Node |-> {}]
    /\ out' = NoPaths
    /\ UNCHANGED <<net, advs, keys, table, sources, rib, phase>>

Record(p) ==
    IF Len(out[Last(p.nodes)]) < MaxPathsPerDestination
    THEN [out EXCEPT ![Last(p.nodes)] =
            Append(@, [cost |-> p.cost, nodes |-> p.nodes, areas |-> p.areas, cond |-> PathCondition(p.nodes)])]
    ELSE out

PopPath ==
    /\ key # <<>> /\ queue # {}
    /\ LET p       == CHOOSE p \in queue : \A q \in queue \ {p} : PathLess(p, q)
           n       == Last(p.nodes)
           current == [cost |-> p.cost, visited |-> ToSet(p.nodes)]
           expand  == /\ Len(p.nodes) < Cardinality(Node)
                      /\ ~\E e \in frontier[n] : FrontierDominates(e, current)
       IN  /\ out' = Record(p)
           /\ queue' = (queue \ {p}) \cup IF expand THEN Extensions(p, key[2]) ELSE {}
           /\ frontier' = IF expand
                          THEN [frontier EXCEPT ![n] =
                                  {current} \cup {e \in @ : ~FrontierDominates(current, e)}]
                          ELSE frontier
    /\ UNCHANGED <<net, advs, keys, key, table, sources, rib, phase>>

\* Mutant: by names only.
SortPathsByName(ps) == SortSeq(ps, LAMBDA p, q : Lex(p.nodes, q.nodes))

SortPaths(ps) ==
    SortSeq(ps, LAMBDA p, q : p.cost < q.cost \/ (p.cost = q.cost /\ Lex(p.nodes, q.nodes)))

FinishPaths ==
    /\ key # <<>> /\ queue = {}
    /\ table' = (key :> [n \in Node |-> SortPaths(out[n])]) @@ table
    /\ keys' = keys \ {key}
    /\ key' = <<>>
    /\ phase' = IF keys' = {} THEN "install" ELSE "paths"
    /\ UNCHANGED <<net, advs, queue, frontier, out, sources, rib>>

---------------------------------------------------------------------------
(***************************************************************************)
(* Routes between areas: to a border router of one of the source's areas,  *)
(* over the backbone, and from a border router of the destination's area;  *)
(* each part is the first of the enumerated paths.                         *)
(***************************************************************************)
Trivial(n) == [cost |-> 0, nodes |-> <<n>>, areas |-> <<>>, cond |-> TrueCond]

\* ZeroPath: the empty or the first path, if there is one.
ZeroPath(m, n, area) ==
    IF m = n THEN {Trivial(n)}
    ELSE {table[m, area][n][i] : i \in {i \in DOMAIN table[m, area][n] : i = 1}}

ConcatPaths(p, q, r) ==
    {c \in {[cost |-> p.cost + q.cost + r.cost, nodes |-> p.nodes \o Tail(q.nodes) \o Tail(r.nodes),
             areas |-> p.areas \o q.areas \o r.areas, cond |-> AndAll({p.cond, q.cond, r.cond})]} :
        IsInjective(c.nodes)}

\* src is not attached to the advertisement's area; the paths are sorted and
\* cut to the maximum.
InterAreaPaths(src, adv) ==
    LET chains == {<<area, m, n>> \in NodeAreas(src) \X Node \X Node :
                     m \in AreaBoundaries(src, area) /\ n \in AreaBoundaries(adv.node, adv.area)}
        joined == UNION {{<<x, c>> : c \in UNION {ConcatPaths(p, q, r) :
                              p \in ZeroPath(src, x[2], x[1]),
                              q \in ZeroPath(x[2], x[3], BackboneArea),
                              r \in ZeroPath(x[3], adv.node, adv.area)}} : x \in chains}
        list   == Listed(joined)
        sorted == SortPaths([i \in DOMAIN list |-> list[i][2]])
    IN  IF adv.area \in NodeAreas(src) THEN <<>>
        ELSE SubSeq(sorted, 1, Min({Len(sorted), MaxPathsPerDestination}))

---------------------------------------------------------------------------
(***************************************************************************)
(* Installation.                                                           *)
(***************************************************************************)
\* AreaForPathArea: the kind the first node of the path gives the area.
AreaKind(p, area) ==
    LET kinds == SelectSeq([i \in DOMAIN p.nodes |-> Kind(p.nodes[i], area)], LAMBDA k : k # "")
    IN  IF kinds = <<>> THEN "normal" ELSE Head(kinds)

NodeInStubOrNSSA(n) == \E a \in DOMAIN net.process[n].areas : Kind(n, a) \in {"stub", "nssa"}

AdvertisementAllowed(src, adv, p) ==
    IF adv.defaultArea # "" THEN p.areas # <<>> /\ ToSet(p.areas) = {adv.defaultArea}
    ELSE adv.external # 0 =>
           /\ \A a \in ToSet(p.areas) : /\ AreaKind(p, a) # "stub"
                                        /\ AreaKind(p, a) = "nssa" => adv.externalArea = a
           /\ adv.externalArea = "" => ~NodeInStubOrNSSA(src)

Route(adv, nodes, type, metric, c) ==
    [prefix |-> adv.prefix, origin |-> adv.node, path |-> nodes, type |-> type,
     metric |-> metric, cond |-> c]

\* addRIB: what the slot already holds is dropped.
AddRIB(routes, r) ==
    IF \E i \in DOMAIN routes : /\ routes[i].prefix = r.prefix
                                /\ routes[i].origin = r.origin
                                /\ routes[i].type = r.type
                                /\ routes[i].path = r.path
    THEN routes ELSE Append(routes, r)

InstallLocalOSPFRoute(adv) ==
    Route(adv, <<adv.node>>, "intra-area", adv.cost, NodeVar(adv.node))

InstallRemoteOSPFRoute(adv, p, type) ==
    Route(adv, p.nodes,
          CASE adv.external = 1 -> "external-type-1"
            [] adv.external = 2 -> "external-type-2"
            [] OTHER -> type,
          IF adv.external = 2 THEN adv.cost ELSE p.cost + adv.cost,
          And(p.cond, adv.source))

\* The routes an advertisement gives src, in the order they are added.
RoutesFor(src, adv) ==
    LET Remote(paths, type) ==
          LET allowed == SelectSeq(paths, LAMBDA p : AdvertisementAllowed(src, adv, p))
          IN  [i \in DOMAIN allowed |-> InstallRemoteOSPFRoute(adv, allowed[i], type)]
        special == adv.external # 0 \/ adv.defaultArea # ""
    IN  CASE adv.node = src /\ special -> <<>>
          [] adv.node = src /\ ~special -> <<InstallLocalOSPFRoute(adv)>>
          [] adv.node # src /\ special -> Remote(table[src, AnyArea][adv.node], "")
          [] OTHER -> (IF adv.area \in NodeAreas(src)
                       THEN Remote(table[src, adv.area][adv.node], "intra-area") ELSE <<>>)
                      \o Remote(InterAreaPaths(src, adv), "inter-area")

InstallSource ==
    /\ phase = "install"
    /\ \E src \in sources :
         /\ \A n \in sources : src <= n
         /\ rib' = [rib EXCEPT ![src] =
                      FoldLeft(AddRIB, @, FlattenSeq([i \in DOMAIN advs |-> RoutesFor(src, advs[i])]))]
         /\ sources' = sources \ {src}
         /\ phase' = IF sources' = {} THEN "done" ELSE phase
    /\ UNCHANGED <<net, advs, keys, key, queue, frontier, out, table>>

Init ==
    /\ net \in Nets
    /\ advs = <<>> /\ keys = {} /\ key = <<>>
    /\ queue = {} /\ frontier = [n \in Node |-> {}] /\ out = NoPaths
    /\ table = <<>>
    /\ sources = DOMAIN net.process
    /\ rib = [n \in Node |-> <<>>]
    /\ phase = "advertise"

\* Phase 4 of Simulate follows.
Installed == phase = "done" /\ UNCHANGED vars

Next ==
    \/ Advertise
    \/ StartPaths
    \/ PopPath
    \/ FinishPaths
    \/ InstallSource
    \/ Installed

Spec == Init /\ [][Next]_vars

---------------------------------------------------------------------------
(***************************************************************************)
(* Properties.                                                             *)
(***************************************************************************)
\* The cost of the shortest path from m to every node over the adjacencies
\* of an area that are up in world w; Infinity when there is none.
Infinity == 1000

Distance(m, area, w) ==
    LET up == {x \in Node \X Node : /\ Adjacent(x[1], x[2], area)
                                    /\ LinkUp(w, {x[1], x[2]})}
        relaxed(d, k) == [n \in Node |-> Min({d[n]} \cup
                            {d[x[1]] + InterfaceState(x).cost : x \in {x \in up : x[2] = n}})]
    IN  FoldLeft(relaxed, [n \in Node |-> IF n = m /\ NodeUp(w, m) THEN 0 ELSE Infinity],
                 [k \in 1..Cardinality(Node) |-> k])

\* The cost of the best of the given routes or paths that are up in w.
Best(costs) == Min({Infinity} \cup costs)

Available(paths, w) == {paths[i] : i \in {i \in DOMAIN paths : w \in paths[i].cond.holds}}

\* In world w the paths enumerated from k[1] to any node include a shortest
\* one, unless the node had its maximum of paths.
Covered(k, w) ==
    LET dist == Distance(k[1], k[2], w)
    IN  \A n \in Node \ {k[1]} :
          LET best == Best({p.cost : p \in Available(table[k][n], w)})
          IN  best = Min({Infinity, dist[n]}) \/ Len(table[k][n]) = MaxPathsPerDestination

\* ospf_paths.go: pruning dominated paths misses no destination.  As long as
\* only nodes fail, the enumerated paths contain a shortest path of every
\* failure, in every area and over all of them, although the search never
\* looked at a failure.
NodeFailuresCovered ==
    phase = "done" => \A k \in DOMAIN table, w \in Worlds : w.links = {} => Covered(k, w)

\* frontierDominates: "b can be safely pruned without missing any destination
\* candidate".  The same for failures of links.
LinkFailuresCovered ==
    phase = "done" => \A k \in DOMAIN table, w \in Worlds : Covered(k, w)

\* The cheapest way between areas when nothing has failed: to a border router,
\* over the backbone, from a border router.
Hierarchical(src, adv) ==
    LET D(m, area, n) == IF m = n THEN 0 ELSE Distance(m, area, NoFailure)[n]
    IN  Best({D(src, x[1], x[2]) + D(x[2], BackboneArea, x[3]) + D(x[3], adv.area, adv.node) :
                x \in {<<area, m, n>> \in NodeAreas(src) \X Node \X Node :
                         m \in AreaBoundaries(src, area) /\ n \in AreaBoundaries(adv.node, adv.area)}})

\* ospf_test.go: routes between areas are joined from three separately chosen
\* paths, and joins that visit a node twice are thrown away.  The best one
\* left still has the cost of the shortest way through the hierarchy, and no
\* inter-area route exists where the hierarchy has no way, provided that
\* routers in several areas are attached to the backbone.
InterAreaShortest ==
    phase = "done" /\ (\A n \in Node : Cardinality(NodeAreas(n)) > 1 => n \in ABRs) =>
      \A src \in DOMAIN net.process, i \in DOMAIN advs :
        LET adv == advs[i]
            inter == {r \in ToSet(rib[src]) : /\ r.type = "inter-area"
                                              /\ r.origin = adv.node
                                              /\ r.prefix = adv.prefix}
            cost  == Hierarchical(src, adv)
        IN  adv.area \notin NodeAreas(src) \cup {""} =>
              Best({r.metric : r \in inter}) = IF cost < Infinity THEN cost + adv.cost ELSE Infinity

\* A node all of whose areas are stub areas, in its own and its neighbours' eyes.
Stub(n) == NodeAreas(n) # {} /\ \A a \in NodeAreas(n), m \in DOMAIN net.process :
               a \in NodeAreas(m) => Kind(m, a) = "stub"

\* ospf_test.go: a router inside a stub area gets no external route, and while
\* only nodes fail it has a default route in exactly the worlds in which a
\* border router can be reached inside the area; and an external route enters
\* an NSSA only if it comes from there.  The paths are enumerated over all
\* areas, without looking at their kinds, and filtered afterwards.
AreaTypesRespected ==
    phase = "done" => \A n \in DOMAIN net.process :
        LET externals == {r \in ToSet(rib[n]) : r.type \in {"external-type-1", "external-type-2"}}
        IN  /\ Stub(n) =>
                 /\ externals = {}
                 /\ \A w \in Worlds : w.links = {} /\ NodeUp(w, n) =>
                      ((\E r \in ToSet(rib[n]) : r.prefix = DefaultRoute /\ w \in r.cond.holds) <=>
                       (\E a \in NodeAreas(n), m \in Node \ {n} :
                          /\ a \in NodeAreas(m) /\ NodeAreas(m) # {a}
                          /\ Distance(n, a, w)[m] < Infinity))
            /\ \A r \in externals : \A i \in 1..(Len(r.path) - 1) :
                 LET area == InterfaceState(<<r.path[i], r.path[i + 1]>>).area
                 IN  Kind(r.path[i], area) = "nssa" => area \in ExternalAreas(r.origin)

===========================================================================
