-------------------------- MODULE MCTrafficGraph --------------------------
(***************************************************************************)
(* A customer, node 5, behind node 1 or 2, and destinations behind node 4: *)
(* a diamond of equal paths, a shortcut of another length, a loop between  *)
(* two nodes, black holes and missing routes.                              *)
(***************************************************************************)
EXTENDS TrafficGraph

MCNode == 1..5

\* Link names as the traffic engine spells them, or as topologies do.
Arrow(a, b) == <<a, b>>

Link(name, a, b, bandwidth, role) ==
    [name |-> name, a |-> a, b |-> b, bandwidth |-> bandwidth, role |-> role]

Links(arrows) ==
    LET Name(a, b, i) == IF arrows THEN Arrow(a, b) ELSE <<0, i>>
    IN  <<Link(Name(1, 2, 1), 1, 2, 0, "core"), Link(Name(1, 3, 2), 1, 3, 12, "core"),
          Link(Name(1, 5, 3), 1, 5, 0, "customer"), Link(Name(2, 4, 4), 2, 4, 10, "edge"),
          Link(Name(2, 5, 5), 2, 5, 0, ""), Link(Name(3, 4, 6), 3, 4, 0, "edge")>>

Role == <<"", "", "", "", "customer">>

\* FIB entries: one next-hop, an ECMP group, a black hole.
Via(n, bits, dsts)   == [bits |-> bits, covers |-> dsts, nextHop |-> n, group |-> <<>>]
ECMP(ns, bits, dsts) == [bits |-> bits, covers |-> dsts, nextHop |-> ns[1], group |-> ns]
Hole(bits, dsts)     == [bits |-> bits, covers |-> dsts, nextHop |-> 0, group |-> <<>>]

Both == {"d", "e"}

\* Node 1 balances over 2 and 3 (and, over two links, twice over 3), or
\* prefers a longer prefix; 2 and 3 lead to 4, to each other, or nowhere.
FIBs ==
    {<<one, two, three, <<>>, <<>>>> :
        one \in {<<ECMP(<<2, 3>>, 24, Both)>>, <<ECMP(<<2, 3, 4>>, 24, Both)>>,
                 <<ECMP(<<3, 3, 2>>, 24, Both)>>,
                 <<Via(3, 24, {"e"}), Hole(24, {"e"}), Via(2, 16, Both), Via(3, 16, Both)>>},
        two \in {<<Via(4, 24, Both)>>, <<ECMP(<<1, 3>>, 24, Both)>>, <<ECMP(<<3, 4>>, 16, {"d"})>>},
        three \in {<<Via(4, 24, Both)>>, <<Via(2, 24, {"d"}), Via(4, 16, Both)>>, <<>>}}

\* The commands give all classes the same number of bytes (buildECList).
Class(id, dst) == [id |-> id, dst |-> dst, bytes |-> 5]

Classes == <<Class(1, "d"), Class(2, "e"), Class(1, "d"), Class(3, NoAddr)>>

Network(fibs, arrows, command, fails, maxK) ==
    [fibs |-> fibs, links |-> Links(arrows), role |-> Role, custNamed |-> {}, classes |-> Classes,
     command |-> command, fails |-> fails, threshold |-> 80, maxK |-> maxK]

\* A second ingress: node 2 is named like a customer and sends through 1.
TwoIngresses(g) == [g EXCEPT !.custNamed = {2}]

Fails ==
    {[links |-> ls, nodes |-> ns] : ls \in SUBSET {Arrow(1, 2), Arrow(1, 3)}, ns \in {{}, {2}, {3, 4}}}

WhatIfNets ==
    {Network(fibs, TRUE, "what-if", fails, 0) : fibs \in FIBs, fails \in Fails}

\* The search visits 36 combinations per ingress, so it gets fewer FIBs.
KFailNets ==
    {Network(fibs, arrows, "kfail", NoFailure, maxK) :
        fibs \in {f \in FIBs : f[3] = <<Via(4, 24, Both)>>}, arrows \in BOOLEAN, maxK \in {0, 2}}

MCNets == WhatIfNets \cup {TwoIngresses(g) : g \in WhatIfNets} \cup KFailNets
            \cup {TwoIngresses(Network(fibs, TRUE, "kfail", NoFailure, 1)) : fibs \in FIBs}

\* Topology names: link 1 between nodes 1 and 2 fails.
NamedLinkNets ==
    {Network(fibs, FALSE, "what-if", [links |-> {<<0, 1>>}, nodes |-> {}], 0) : fibs \in FIBs}

===========================================================================
