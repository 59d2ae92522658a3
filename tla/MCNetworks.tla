---------------------------- MODULE MCNetworks ----------------------------
(***************************************************************************)
(* Building blocks for the networks the control-plane runs simulate: a     *)
(* network is made of links, AS numbers, device kinds and originations,    *)
(* and its BGP sessions follow the links.                                  *)
(***************************************************************************)
EXTENDS ControlPlane

\* All failure worlds of the given links and nodes with at most k failures.
FailuresUpTo(links, nodes, k) ==
    {w \in [nodes : SUBSET nodes, links : SUBSET links] :
        Cardinality(w.nodes) + Cardinality(w.links) <= k}

Star     == {{1, 2}, {1, 3}}
Line     == {{1, 2}, {2, 3}}
Triangle == {{1, 2}, {1, 3}, {2, 3}}
Ring     == {{1, 2}, {2, 3}, {3, 4}, {1, 4}}
Mesh     == Ring \cup {{1, 3}, {2, 4}}

PlainSession == [nextHopSelf |-> FALSE, export |-> <<>>, import |-> <<>>]

Sessions(links) ==
    [x \in {x \in Node \X Node : x[1] # x[2] /\ {x[1], x[2]} \in links} |-> PlainSession]

PlainNet(links, asn, kind, networks) ==
    [cost |-> [l \in links |-> 1], asn |-> asn, kind |-> kind,
     session |-> Sessions(links), networks |-> networks,
     routes |-> [n \in Node |-> <<>>], redistribute |-> [n \in Node |-> <<>>],
     acls |-> <<>>]

\* The sessions in "pairs" apply the given route-map on import.
WithImport(g, pairs, policy) ==
    [g EXCEPT !.session = [x \in DOMAIN g.session |->
        IF x \in pairs THEN [g.session[x] EXCEPT !.import = policy] ELSE g.session[x]]]

WithExport(g, pairs, policy) ==
    [g EXCEPT !.session = [x \in DOMAIN g.session |->
        IF x \in pairs THEN [g.session[x] EXCEPT !.export = policy] ELSE g.session[x]]]

LocalPref(v) == <<[Permit(Prefix) EXCEPT !.localPref = {v}]>>
MED(v)       == <<[Permit(Prefix) EXCEPT !.med = {v}]>>

Configured(kind, p) ==
    [kind |-> kind, prefix |-> p, nextHop |-> 0, iface |-> "", distance |-> 0, summaryOnly |-> FALSE]

===========================================================================
