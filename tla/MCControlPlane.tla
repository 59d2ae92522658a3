-------------------------- MODULE MCControlPlane --------------------------
(***************************************************************************)
(* Three nodes of every mix of device kinds, and four nodes in a ring or a *)
(* mesh, where routes have three alternatives and selections depend on     *)
(* each other over three hops.                                             *)
(*                                                                         *)
(* Three nodes with route-maps: local preferences that pull against the    *)
(* AS-path length (some of them without a stable state), MEDs, prepending, *)
(* communities, next-hop-self, redistribution of local routes, aggregates, *)
(* and a line of SR Linux devices, which keep routes that come back.       *)
(***************************************************************************)
EXTENDS MCNetworks

\* "a" covers "b" and "p", "b" covers "p".
MCNode   == 1..4
MCWorlds == FailuresUpTo(Triangle, 1..3, 6) \cup FailuresUpTo(Mesh, MCNode, 2)
MCPrefix == {"a", "b", "p", "q"}
MCWithin == {<<"b", "a">>, <<"p", "a">>, <<"p", "b">>}

\* A network of the nodes 1 to 3: node 4 has no neighbour.
ThreeNodes(links, asn, kind, networks) ==
    PlainNet(links, Append(asn, 4), Append(kind, "generic"), Append(networks, <<>>))

\* One prefix, announced by node 1 or by 1 and 3 (anycast); eBGP everywhere,
\* or two of the nodes in one AS.
ThreeNodeNets ==
    {ThreeNodes(links, asn, kind, networks) :
        links \in {Triangle, Line},
        asn \in {<<1, 2, 3>>, <<1, 2, 2>>, <<1, 1, 2>>, <<1, 2, 1>>},
        kind \in [1..3 -> {"frr", "ceos", "srlinux"}],
        networks \in {<<<<"p">>, <<>>, <<>>>>, <<<<"p">>, <<>>, <<"p">>>>}}

MeshNets ==
    {PlainNet(links, asn, kind, <<<<"p">>, <<>>, <<>>, <<>>>>) :
        links \in {Ring, Mesh \ {{1, 3}}, Mesh},
        asn \in {<<1, 2, 3, 4>>, <<1, 2, 2, 3>>},
        kind \in {<<"frr", "frr", "frr", "frr">>, <<"srlinux", "ceos", "frr", "generic">>,
                  <<"ceos", "ceos", "ceos", "srlinux">>}}

Base(asn, kind) == ThreeNodes(Triangle, asn, kind, <<<<"p">>, <<>>, <<>>>>)

Kinds == {<<"frr", "frr", "frr">>, <<"ceos", "srlinux", "generic">>, <<"srlinux", "ceos", "ceos">>}

\* Nodes 2 and 3 may each prefer the other: the two of them together have
\* two stable states, and the conditions do not converge.
PreferNets ==
    {WithImport(Base(<<1, 2, 3>>, kind), pairs, LocalPref(200)) :
        kind \in Kinds, pairs \in SUBSET {<<2, 3>>, <<3, 2>>}}

\* Node 1 tags what it sends to 2; 3 acts on the tag.
CommunityList(permit, deny, exact) == {[permit |-> permit, deny |-> deny, exact |-> exact]}

Tag     == <<[Permit(Prefix) EXCEPT !.setComms = {7, 8}, !.med = {5}]>>
NoTag   == <<[Permit(Prefix) EXCEPT !.deny = TRUE, !.comms = CommunityList({8}, {}, FALSE)],
             [Permit(Prefix) EXCEPT !.localPrefDelta = {50}, !.nextHopSelf = TRUE]>>
Prepend == <<[Permit({"p"}) EXCEPT !.prepend = <<7, 7>>, !.medDelta = {1}, !.originCode = {EGP}]>>

TagNets ==
    {WithExport(WithImport(Base(asn, kind), {<<3, 2>>}, import), {<<1, 2>>}, Tag) :
        asn \in {<<1, 2, 3>>, <<1, 2, 2>>}, kind \in Kinds, import \in {NoTag, Prepend}}

\* Node 3 takes what names 1 as next-hop, or came through the AS of 1 alone,
\* or carries two marks, at a higher preference; the rest as it is.
Mark == <<[Permit(Prefix) EXCEPT !.setComms = {7, 8}]>>
Prefer(rule) == <<[rule EXCEPT !.localPref = {200}], Permit(Prefix)>>

Elsewhere == <<AddressOnly, AddressOnly>>

MatchNets ==
    {WithExport(WithImport([ThreeNodes(links, asn, kind, <<<<"p">>, <<>>, <<>>>>)
                              EXCEPT !.session[2, 3].nextHopSelf = nhs],
                           {<<3, 1>>, <<3, 2>>}, Prefer(rule)), {<<1, 2>>}, Mark) :
        links \in {Triangle, Line}, asn \in {<<1, 2, 3>>, <<1, 2, 2>>}, kind \in Kinds, nhs \in BOOLEAN,
        rule \in {[Permit(Prefix) EXCEPT !.nextHops = {{<<2, 3>>}}],
                  [Permit(Prefix) EXCEPT !.nextHops = {{<<1, 2>>, Elsewhere}}],
                  [Permit(Prefix) EXCEPT !.asPaths = {{<<1>>, <<1, 1>>}}],
                  [Permit(Prefix) EXCEPT !.comms = CommunityList({7, 8}, {}, TRUE)],
                  [Permit(Prefix) EXCEPT !.comms = CommunityList({7}, {8}, TRUE)],
                  [Permit(Prefix) EXCEPT !.comms = CommunityList({8}, {7}, FALSE)]}}

\* Node 2, between 1 and 3 of its AS, sets a next-hop: an address of 1, of 3 or
\* of nobody, with and without next-hop-self.
NextHopNets ==
    {WithImport(WithExport(Base(asn, kind), {<<2, 3>>},
                           <<[Permit(Prefix) EXCEPT !.setNextHop = {addr}, !.nextHopSelf = self]>>),
                {<<3, 2>>}, Prefer([Permit(Prefix) EXCEPT !.nextHops = {{<<1, 3>>, Elsewhere}}])) :
        asn \in {<<1, 2, 3>>, <<1, 2, 2>>}, kind \in Kinds, self \in BOOLEAN,
        addr \in {<<1, 2>>, <<3, 2>>, Elsewhere}}

\* Node 3 redistributes its static and connected routes; 2 has statics only.
RedistributeNets ==
    {[Base(<<1, 2, 3>>, kind) EXCEPT
        !.routes = <<<<Configured("bgp", "q")>>, <<Configured("static", "p")>>,
                     <<Configured("connected", "p"), Configured("blackhole", "q")>>, <<>>>>,
        !.redistribute[3] = <<[kind |-> "static", policy |-> policy],
                              [kind |-> "connected", policy |-> <<>>]>>] :
        kind \in Kinds, policy \in {<<>>, MED(3), <<Permit({})>>}}

LineNets ==
    {ThreeNodes(Line, asn, kind, <<<<"p">>, <<>>, <<>>>>) :
        asn \in {<<1, 2, 3>>, <<1, 2, 1>>}, kind \in {"frr", "srlinux"} \X {"srlinux"} \X {"frr", "srlinux"}}

Aggregate(p, only) == [Configured("aggregate", p) EXCEPT !.summaryOnly = only]

AggregateNet(links, kind, networks, aggregates) ==
    [ThreeNodes(links, <<1, 2, 3>>, kind, networks) EXCEPT !.routes[1] = aggregates]

\* Node 1 aggregates.  Each contributor reaches it over one path, and it keeps no
\* AS-loop copies of its own announcements (SR Linux would).
AggregateNets ==
    {AggregateNet(Star, kind, networks, aggregates) :
        kind \in {"frr", "ceos"} \X {"frr", "srlinux"} \X {"ceos", "srlinux"},
        networks \in {<<<<>>, <<"p">>, <<>>>>, <<<<>>, <<"p">>, <<"b">>>>, <<<<"b">>, <<"p">>, <<>>>>,
                      <<<<>>, <<>>, <<>>>>},
        aggregates \in {<<Aggregate("a", only)>> : only \in BOOLEAN}
                          \cup {<<Aggregate("a", TRUE), Aggregate("b", only)>> : only \in BOOLEAN}}

\* Node 1 aggregates and hears of "p" from 2 and, longer, from 3.
BackupNets ==
    {AggregateNet(Triangle, kind, <<<<>>, <<"p">>, <<>>>>, <<Aggregate("a", FALSE)>>) :
        kind \in {"frr", "ceos"} \X {"frr"} \X {"frr", "srlinux"}}

MCNets ==
    ThreeNodeNets \cup MeshNets \cup PreferNets \cup TagNets \cup MatchNets \cup NextHopNets \cup RedistributeNets
      \cup LineNets \cup AggregateNets

===========================================================================
