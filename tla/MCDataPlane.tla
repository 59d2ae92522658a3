---------------------------- MODULE MCDataPlane ---------------------------
(***************************************************************************)
(* Packet queries on rings of four nodes, for a prefix with one origin and *)
(* for a destination nobody originates, and on triangles with nested       *)
(* prefixes: node 1 announces "net" and node 2 "sub" inside it, static     *)
(* routes and aggregates cover both.                                       *)
(***************************************************************************)
EXTENDS DataPlane, MCNetworks

MCNode     == 1..4
MCWorlds   == FailuresUpTo(Ring, MCNode, 2) \cup FailuresUpTo(Triangle, 1..3, 2)
MCPrefix   == {"p", "x", "all", "net", "sub"}
MCWithin   == {<<"sub", "net">>, <<"sub", "all">>, <<"net", "all">>}
MCAddr     == MCPrefix
MCProtocol == {"icmp", "tcp"}

Base(asn, kind) == PlainNet(Ring, asn, kind, <<<<"p">>, <<>>, <<>>, <<>>>>)

EBGP == <<1, 2, 3, 4>>

\* Every device has a backup path; generic nodes balance over both.
KindNets ==
    {Base(EBGP, [n \in Node |-> kind]) : kind \in DeviceKind}
      \cup {WithImport(Base(EBGP, [n \in Node |-> kind]), {<<3, 2>>, <<4, 3>>}, LocalPref(200)) :
              kind \in {"frr", "generic"}}

\* 2, 3 and 4 in one AS: without next-hop-self node 3 has a next-hop that is
\* not its neighbour.
IBGPNets ==
    {[Base(<<1, 2, 2, 2>>, [n \in Node |-> kind]) EXCEPT
        !.session = [x \in DOMAIN @ |-> [@[x] EXCEPT !.nextHopSelf = nhs]]] :
        kind \in {"ceos", "generic"}, nhs \in BOOLEAN}

\* Static routes at 2 and 3 that win over BGP, or lose by their distance: towards
\* each other (a loop), to an address of no neighbour, without next-hop, and a
\* black hole.
Static(nextHop) == [Configured("static", "p") EXCEPT !.nextHop = nextHop]

StaticNets ==
    {[Base(EBGP, [n \in Node |-> "generic"]) EXCEPT !.routes = <<<<>>, <<atTwo>>, atThree, <<>>>>] :
        atTwo \in {Static(3), [Static(3) EXCEPT !.distance = 250], Configured("blackhole", "p")},
        atThree \in {<<>>, <<Static(2)>>, <<Static(AddressOnly)>>, <<Static(0), Static(4)>>}}

\* Filters at node 2: by protocol and destination, unnumbered rules last,
\* on one interface or all, with either default.
Rule(seq, deny, protocol, dst) == [seq |-> seq, deny |-> deny, protocol |-> protocol, dst |-> dst]

Filters == {<<Rule(10, TRUE, "tcp", {})>>, <<Rule(0, FALSE, "", {}), Rule(10, TRUE, "", {"p"})>>}

ACLNets ==
    {[Base(EBGP, [n \in Node |-> "generic"]) EXCEPT
        !.acls = <<[node |-> 2, stage |-> stage, peer |-> peer, rules |-> rules, defaultDeny |-> default]>>] :
        stage \in {"ingress", "egress"}, peer \in {0, 1, 3}, rules \in Filters, default \in BOOLEAN}

Nested(asn, kind) == PlainNet(Triangle, asn, [n \in Node |-> kind], <<<<"net">>, <<"sub">>, <<>>, <<>>>>)

Local(nextHop) ==
    <<[Configured("static", "net") EXCEPT !.nextHop = nextHop], Configured("blackhole", "all"),
      Configured("aggregate", "all")>>

NestedNets ==
    {[Nested(asn, kind) EXCEPT !.routes[3] = routes, !.routes[2] = <<Configured("bgp", "net")>>] :
        asn \in {<<1, 2, 3, 4>>, <<1, 2, 2, 4>>}, kind \in {"frr", "ceos", "generic"},
        routes \in {<<>>, Local(1), Local(0)}}

MCNets == KindNets \cup IBGPNets \cup StaticNets \cup ACLNets \cup NestedNets

NetOnly   == {"net"}

===========================================================================
