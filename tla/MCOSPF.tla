------------------------------ MODULE MCOSPF ------------------------------
(***************************************************************************)
(* OSPF networks of four nodes: a mesh in one area with different costs, a *)
(* backbone with two border routers into a second area, and stub and       *)
(* not-so-stubby areas with redistribution.                                *)
(***************************************************************************)
EXTENDS OSPF

MCNode == 1..4
Mesh   == {{1, 2}, {2, 3}, {3, 4}, {1, 4}, {1, 3}, {2, 4}}

\* Up to two failures.
MCWorlds ==
    {w \in [nodes : SUBSET MCNode, links : SUBSET Mesh] :
        Cardinality(w.nodes) + Cardinality(w.links) <= 2}

External == <<0>>

Areas == {"0", "1", "2"}

Iface(prefix, area, cost) ==
    [prefix |-> prefix, area |-> area, networks |-> <<>>, cost |-> cost,
     passive |-> FALSE, listedPassive |-> FALSE, type |-> ""]

Plain == [areas |-> <<>>, originate |-> {}, redistribute |-> {}, candidates |-> {}]

\* Links with their area, loopbacks with the area of the node.
Network(area, cost, loopback, process) ==
    LET links == {x \in MCNode \X MCNode : {x[1], x[2]} \in DOMAIN area}
    IN  [areas |-> Areas,
         iface |-> [x \in links |-> Iface(<<Min({x[1], x[2]}), Max({x[1], x[2]})>>, area[{x[1], x[2]}], cost[{x[1], x[2]}])]
                     @@ [x \in {<<n, n>> : n \in MCNode} |-> Iface(<<x[1]>>, loopback[x[1]], 5)],
         process |-> process]

AllPlain == [n \in MCNode |-> Plain]
Zero     == [n \in MCNode |-> "0"]

\* One area, meshes with and without a diagonal; an unconfigured cost (0) is 1.
MeshNets ==
    {Network([l \in links |-> "0"], [l \in Mesh |-> IF l \in dear THEN 3 ELSE 0], Zero, AllPlain) :
        links \in {Mesh, Mesh \ {{1, 3}}}, dear \in SUBSET {{1, 2}, {2, 3}, {3, 4}, {2, 4}}}

\* One end passive, another network type, an area by network statement, a node without OSPF.
Odd ==
    LET g == Network([l \in Mesh |-> "0"], [l \in Mesh |-> 1], Zero, AllPlain)
    IN  {[g EXCEPT !.iface[<<1, 2>>].passive = TRUE, !.iface[<<3, 4>>].listedPassive = TRUE],
         [g EXCEPT !.iface[<<1, 2>>].type = "broadcast", !.iface[<<2, 1>>].type = "point-to-point",
                   !.iface[<<1, 3>>].type = "broadcast"],
         [g EXCEPT !.iface[<<1, 2>>].area = "", !.iface[<<1, 2>>].networks = <<"0", "1">>,
                   !.iface[<<1, 4>>].area = ""],
         [g EXCEPT !.process = [n \in 1..3 |-> Plain]],
         [g EXCEPT !.process = <<>>]}

\* 1 and 2 in the backbone with border routers; the rest in areas 1 and 2.
Split(area, cost) == Network(area, cost, <<"0", area[{2, 3}], area[{3, 4}], area[{3, 4}]>>, AllPlain)

AreaNets ==
    {Split(area, cost) :
        area \in {({1, 2} :> "0") @@ ({2, 3} :> a) @@ ({1, 4} :> b) @@ ({3, 4} :> c) @@ ({1, 3} :> d) :
                    a \in {"0", "1"}, b \in Areas, c \in {"1", "2"}, d \in {"0", "1"}},
        cost \in {[l \in Mesh |-> IF l = {1, 2} THEN 5 ELSE 1], [l \in Mesh |-> IF l = {1, 4} THEN 5 ELSE 2]}}

Static(p, med, c) == [kind |-> "static", prefix |-> p, link |-> FALSE, local |-> FALSE, med |-> med,
                      metric |-> 0, cond |-> c]
FromBGP(p, local) == [Static(p, 7, And(NodeVar(2), LinkVar({1, 2}))) EXCEPT !.kind = "bgp", !.local = local]
Statement(kind, metric, type) == [kind |-> kind, metric |-> metric, type |-> type, denies |-> {}, meds |-> <<>>]

\* Node 1 or 4 redistributes; area 1 is normal, stub or NSSA, at its border 2
\* and 3 and inside, or only at some of them.
Externals(kinds, origin, redistribute) ==
    [n \in MCNode |-> [Plain EXCEPT
       !.areas = ("1" :> kinds[n]),
       !.originate = {"1"},
       !.redistribute = IF n = origin THEN redistribute ELSE {},
       !.candidates = {Static(External, 0, NodeVar(n)), FromBGP(External, FALSE), FromBGP(<<n>>, TRUE),
                       [Static(<<1, 2>>, 0, NodeVar(n)) EXCEPT !.kind = "connected", !.link = TRUE]}]]

\* 1 - 2 and 1 - 3 in the backbone, 2 - 4, 3 - 4 and 2 - 3 in area 1.
Diamond ==
    ({1, 2} :> "0") @@ ({1, 3} :> "0") @@ ({2, 4} :> "1") @@ ({3, 4} :> "1") @@ ({2, 3} :> "1")

\* Area 1 behind one border router, with a triangle of its own.
Kite ==
    ({1, 2} :> "0") @@ ({2, 4} :> "1") @@ ({3, 4} :> "1") @@ ({2, 3} :> "1")

ExternalNets ==
    {Network(area, [l \in Mesh |-> IF l = {2, 4} THEN 3 ELSE 1], <<"0", "1", "1", "1">>,
             Externals(kinds, origin, redistribute)) :
        area \in {Diamond, Kite},
        kinds \in {[n \in MCNode |-> IF n = 1 THEN "" ELSE k] : k \in {"normal", "stub", "nssa"}}
                    \cup {<<"", "", "stub", "stub">>, <<"", "nssa", "nssa", "">>},
        origin \in {1, 4},
        redistribute \in {{Statement("static", 0, 1)}, {Statement("bgp", 0, 2), Statement("static", 30, 2)},
                          {[Statement("bgp", 0, 1) EXCEPT !.meds = (External :> 3)]},
                          {Statement("connected", 0, 2), [Statement("static", 0, 1) EXCEPT !.denies = {External}]}}}

MCNets == MeshNets \cup Odd \cup AreaNets \cup ExternalNets

\* s = 1, x = 2, y = 3, d = 4: the way over y is dominated by the direct one.
PruningNets ==
    {Network([l \in {{1, 2}, {1, 3}, {2, 3}, {2, 4}} |-> "0"], [l \in Mesh |-> 1], Zero, AllPlain)}

===========================================================================
