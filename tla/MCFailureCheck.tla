--------------------------- MODULE MCFailureCheck ---------------------------
(***************************************************************************)
(* Three devices of different kinds in a triangle; the link between the    *)
(* first two fails, or the third node, or nothing.  Prefix "p" has a       *)
(* primary and a backup path at the first device and is held by two, "q"   *)
(* is held by the second alone, "o" is learned by OSPF and "s" is static.  *)
(***************************************************************************)
EXTENDS FailureCheck

MCNode        == {"r1", "r2", "r3"}
MCDeviceKind  == [n \in MCNode |-> CASE n = "r1" -> "frr" [] n = "r2" -> "srlinux" [] OTHER -> "ceos"]
MCTerminals   == {"r2"}
MCPrefixOrder == <<"p", "q", "o", "s">>
MCWorlds      == {"none", "link", "node"}
MCFailedNodes == [w \in MCWorlds |-> IF w = "node" THEN {"r3"} ELSE {}]

\* r1 addresses r3 as itself: the address is that of the next node's link.
MCPeerAddress ==
    [pair \in MCNode \X MCNode |->
        CASE pair = <<"r1", "r2">> -> "12.2" [] pair = <<"r2", "r1">> -> "12.1"
          [] pair = <<"r2", "r3">> -> "23.3" [] OTHER -> pair[2]]

Entry(prefix, kind, cond, sel) ==
    [prefix |-> prefix, kind |-> kind, cond |-> cond, sel |-> sel, valid |-> TRUE,
     addr |-> "", via |-> "", path |-> <<>>, asPath |-> <<>>, code |-> "", localPref |-> 0, med |-> 0,
     origin |-> "r3", class |-> "link", nextHop |-> "", ospfType |-> "intra_area"]

\* The same visible path under two conditions, selected in one of them; a
\* backup; routes the live tables do not show.
Table1 ==
    [n \in MCNode |->
        CASE n = "r1" ->
               <<[Entry("p", "bgp", {"none", "node"}, {"none"}) EXCEPT !.via = "r2", !.asPath = <<2, 3>>, !.med = 5],
                 [Entry("p", "bgp", {"none"}, {}) EXCEPT !.via = "r2", !.asPath = <<2, 3>>, !.med = 5, !.valid = FALSE],
                 [Entry("p", "bgp", MCWorlds, {"link", "node"}) EXCEPT
                      !.via = "r3", !.path = <<"r3", "r2">>, !.asPath = <<3>>, !.localPref = 50],
                 [Entry("s", "connected", MCWorlds, MCWorlds) EXCEPT !.class = "unknown"]>>
          [] n = "r2" ->
               <<[Entry("p", "bgp", {"none", "link"}, {"none", "link"}) EXCEPT !.via = "r3", !.asPath = <<3>>],
                 [Entry("q", "aggregate", {"link", "node"}, {"link"}) EXCEPT !.code = "egp"],
                 [Entry("q", "bgp", MCWorlds, {"none", "node"}) EXCEPT !.addr = "192.0.2.1", !.asPath = <<1>>],
                 [Entry("q", "bgp", MCWorlds, {}) EXCEPT !.addr = "192.0.2.1", !.asPath = <<1>>, !.valid = FALSE]>>
          [] OTHER -> <<>>]

\* With routes of other protocols.
Table2 ==
    [n \in MCNode |->
        CASE n = "r1" ->
               <<[Entry("o", "ospf", MCWorlds, {"none"}) EXCEPT !.via = "r2", !.ospfType = "inter_area"],
                 [Entry("o", "ospf", MCWorlds, {"link", "node"}) EXCEPT !.via = "r3"],
                 [Entry("s", "static", MCWorlds, MCWorlds) EXCEPT !.addr = "192.0.2.9", !.nextHop = "192.0.2.9"],
                 [Entry("q", "bgp", {"none", "link"}, {"none"}) EXCEPT !.via = "r2", !.asPath = <<2>>]>>
          [] n = "r2" ->
               <<[Entry("o", "ospf", MCWorlds, {}) EXCEPT !.origin = "r2"],
                 Entry("s", "blackhole", MCWorlds, MCWorlds)>>
          [] OTHER ->
               <<Entry("q", "connected", MCWorlds, MCWorlds), [Entry("s", "static", MCWorlds, MCWorlds) EXCEPT !.addr = "x"]>>]

MCTables == {Table1, Table2}

All == <<"r1", "r2", "r3">>

MCScenarios ==
    {[kind |-> "none", link |-> <<>>, node |-> "", world |-> "none", active |-> <<"r1", "r2">>],
     [kind |-> "link", link |-> <<"r1", "r2">>, node |-> "", world |-> "link", active |-> All],
     [kind |-> "node", link |-> <<>>, node |-> "r3", world |-> "node", active |-> <<"r1", "r2">>]}

MCOptions ==
    {[fields |-> fields, extraPrefixes |-> extra, extraPaths |-> extra] :
        fields \in {{}, {"best", "med"}}, extra \in BOOLEAN}

=============================================================================
