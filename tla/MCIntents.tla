----------------------------- MODULE MCIntents ----------------------------
(***************************************************************************)
(* Two snapshots of three devices, of which one has no routes; intents of  *)
(* every form, with clauses that are plainly written and clauses that are  *)
(* not.                                                                    *)
(***************************************************************************)
EXTENDS Intents

Row(device, protocol, prefix, nexthops, selected) ==
    [device |-> device, vrf |-> "default", protocol |-> protocol, prefix |-> prefix, nexthops |-> nexthops,
     selected |-> selected, communities |-> IF nexthops = <<"x">> THEN {"gold"} ELSE {}, weight |-> "0"]

MCDevices == <<"a", "b", "c">>

MCSnapshots ==
    [pre  |-> <<Row("a", "bgp", "p", <<"x">>, "true"), Row("a", "ospf", "q", <<"y", "xx">>, "true"), Row("b", "bgp", "p", <<"y">>, "true"),
                Row("b", "bgp", "q", <<"x">>, "false")>>,
     post |-> <<Row("a", "bgp", "p", <<"y">>, "true"), Row("a", "ospf", "q", <<"y", "xx">>, "true"), Row("b", "bgp", "p", <<"y">>, "true")>>]

\* q is inside p; r has the address of q and is shorter.
MCPrefixOf == [p |-> [addr |-> 0, bits |-> 1], q |-> [addr |-> 2, bits |-> 3], r |-> [addr |-> 2, bits |-> 2]]

MCPartOf == {<<"x", "xx">>}

\* c has the destination; a reaches it directly and over b, b directly and,
\* after the change, also over a.
MCEnds == [l1 |-> {"a", "c"}, l2 |-> {"a", "b"}, l3 |-> {"b", "c"}]

Via(link, nextHop, needs, group) == [needs |-> needs, group |-> group, nextHop |-> nextHop, link |-> link]

Graph(group, detour) ==
    [owner |-> "svc1" :> "c",
     fib   |-> (<<"a", "svc1">> :> <<Via("l1", "c", {"l1"}, group), Via("l2", "b", {"l2", "l3"}, group)>>)
                 @@ (<<"b", "svc1">> :> <<Via("l3", "c", {"l3", "c"}, "")>> \o detour)]

MCGraphs == [pre |-> Graph("g", <<>>), post |-> Graph("", <<Via("l2", "a", {"l1", "l2"}, "")>>)]

MCVarNames == {"e", "f", "edges", "svc", "none"}

MCLetDecls == {[name |-> "edges", val |-> List(<<"a", "b">>)], [name |-> "edges", val |-> List(<<"c", "b">>)],
               [name |-> "svc", val |-> Str("svc1")]}

Scenario(name, snapshot, max, elements) ==
    [name |-> name, def |-> [snapshot |-> snapshot, max |-> max, elements |-> elements]]

MCScenarioDecls ==
    {Scenario("normal", "pre", 0, {}), Scenario("failures", "post", 1, {"l1", "l3"}), Scenario("failures", "post", 2, {"l1", "b"}),
     Scenario("failures", "pre", 1, {}), Scenario("failures", "pre", 1, {"l1", "a"})}

Is(key, v) == Pred(key, "=", Str(v))

Clauses ==
    {<<Is("device", "a")>>, <<Is("protocol", "bgp"), Pred("device", "!=", Str("a"))>>,
     <<Compound("not", << <<Is("protocol", "bgp"), Is("device", "a")>> >>)>>,
     <<Is("protocol", "bgp"), Compound("or", << <<Is("device", "a")>>, <<Pred("prefix", "within", Str("r"))>> >>)>>,
     <<Compound("and", << <<Is("prefix", "p")>>, <<Pred("selected", "=", Bool("true"))>> >>)>>,
     <<Compound("if", << <<Is("device", "a")>>, <<Is("protocol", "bgp")>> >>)>>,
     <<Pred("device_in", "=", List(<<"b", "c">>)), Pred("communities", "contains", Str("gold"))>>,
     <<Is("nexthop", "x"), Is("weight", "0")>>, <<Pred("device", "contains", Str("a")), Is("prefix", "r")>>,
     <<Is("device", "$edges")>>, <<Is("local_pref", "100")>>, <<Is("device", "$none")>>,
     <<Is("device", "a"), Compound("if", << <<Is("device", "b")>>, <<Is("protocol", "bgp")>> >>)>>,
     <<Pred("device", "!=", Str("a")), Pred("device", "!=", Str("b"))>>}

Compare(op, n) == [NoCompare EXCEPT !.op = op, !.nums = <<n>>]

Agg(fn, field, cmp) == [Blank EXCEPT !.k = "aggregate", !.agg = fn, !.field = field, !.cmp = cmp]

AtLeast(n) == Agg("count", "", Compare(">=", n))

Rib(where, agg)     == [Blank EXCEPT !.k = "rib", !.where = where, !.args = <<agg>>]
When(where, block)  == [Blank EXCEPT !.k = "when", !.where = where, !.args = block]
Forall(binds, block) == [Blank EXCEPT !.k = "forall", !.binds = binds, !.args = block]
In(x, vals)         == [name |-> x, vals |-> vals]
Op(k, args)         == [Blank EXCEPT !.k = k, !.args = args]
Diff(where)         == [Blank EXCEPT !.k = "diff", !.left = "pre", !.right = "post", !.where = where]
Packet(from, to, expect) == [Blank EXCEPT !.k = "packet", !.from = from, !.to = to, !.expect = expect]

OfDevice(v) == Rib(<<Is("device", v), Is("protocol", "bgp")>>, AtLeast(1))

Distinct ==
    {Rib(<<Is("device", "b")>>, Agg("distCnt", "nexthop", c)) :
        c \in {Compare("==", 2), [Compare("==", 2) EXCEPT !.form = "list"], Compare("<", 2)}}
      \cup {Rib(<<Is("protocol", "bgp")>>, Agg("distVals", "nexthop", [NoCompare EXCEPT !.op = op, !.form = form, !.names = <<"x", "y">>])) :
              op \in {"==", "!="}, form \in {"one", "list"}}

Guards ==
    {When(w, <<OfDevice("b"), Agg("count", "", Compare("<=", 1))>>) : w \in Clauses}
      \cup {When(<<Is("protocol", "bgp")>>, <<When(w, <<AtLeast(2)>>)>>) : w \in Clauses}

Foralls ==
    {Forall(<<In("e", v)>>, <<OfDevice("$e")>>) : v \in {List(<<"a", "b">>), List(<<"a">>), Str("$edges"), List(<<>>)}}
      \cup {Forall(<<In("device", v)>>, <<b>>) :
              v \in {List(<<"a", "b">>), List(<<"c">>), List(<<>>)},
              b \in {AtLeast(1), When(<<Is("protocol", "bgp")>>, <<AtLeast(2)>>)}}
      \cup {Forall(<<In("e", List(<<"a", "b">>)), In("f", List(<<"bgp", "ospf">>))>>, <<b>>) :
              b \in {Rib(<<Is("device", "$e"), Is("protocol", "$f")>>, AtLeast(1)), AtLeast(4),
                     Op("or", <<OfDevice("$e"), Rib(<<Is("protocol", "$f")>>, AtLeast(3))>>)}}
      \cup {Forall(<<In("e", List(<<"a", "b">>))>>, <<Packet("$e", "$svc", x)>>) : x \in BOOLEAN}

Combined ==
    {Op("not", <<OfDevice("c")>>), Op("not", <<Diff(<<Is("device", "a")>>)>>), Op("or", <<OfDevice("c"), OfDevice("a")>>),
     Op("if", <<OfDevice("b"), OfDevice("c")>>), Op("if", <<OfDevice("c"), OfDevice("b")>>), Op("and", <<OfDevice("a")>>),
     Op("not", <<>>), Rib(<<>>, OfDevice("a")), Packet("a", "svc1", TRUE), Packet("a", "svc1", FALSE), OfDevice("c")}

MCSources ==
    {Rib(w, AtLeast(n)) : w \in Clauses, n \in {1, 3}} \cup {Diff(w) : w \in Clauses} \cup Distinct \cup Guards
      \cup Foralls \cup Combined

MCLaterSources == {OfDevice("c"), Packet("a", "svc1", TRUE)}

===========================================================================
