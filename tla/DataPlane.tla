----------------------------- MODULE DataPlane ----------------------------
(***************************************************************************)
(* The data-plane engine (internal/engine/dataplane) on top of the control *)
(* plane: DeriveFIB turns the RIB that Simulate returns into a FIB, and a  *)
(* packet query walks it, once symbolically for all failures               *)
(* (SymbolicPacketReachability) and once for a given one (PacketReachable).*)
(*                                                                         *)
(* An address is named by the longest prefix that contains it.  Replacing  *)
(* a link variable by the link and its endpoints (ExpandLinkVars) does not *)
(* change what a condition means, and no constant appears or disappears by *)
(* it; it is left out here and checked in ConditionAlgebra.                *)
(***************************************************************************)
EXTENDS ControlPlane

CONSTANTS Addr,      \* the destination addresses asked for, as prefixes
          Protocol   \* the IP protocols asked for

ASSUME AddrAssumption == Addr \subseteq Prefix

\* Prefixes form a tree: those around a common one lie inside each other.
ASSUME PrefixTreeAssumption ==
    /\ IsFiniteSet(Prefix)
    /\ \A p \in Prefix : <<p, p>> \notin Within
    /\ \A p, q, o \in Prefix : <<p, q>> \in Within /\ <<q, o>> \in Within => <<p, o>> \in Within
    /\ \A a, p, q \in Prefix : <<a, p>> \in Within /\ <<a, q>> \in Within /\ p # q =>
          <<p, q>> \in Within \/ <<q, p>> \in Within

VARIABLES
    fib,      \* node -> sequence of FIB entries; <<>> before DeriveFIB
    query,    \* the packet query, {} or a singleton
    work,     \* symbolicForward's recursion: the states still to visit
    paths,    \* conditions of the paths that reach the destination
    reasons   \* why and when the packet is not delivered

dpVars  == <<fib, query, work, paths, reasons>>
allVars == <<vars, dpVars>>

---------------------------------------------------------------------------
(***************************************************************************)
(* DeriveFIB.                                                              *)
(***************************************************************************)
\* The configured distance, or that of the kind of route.
AdminDistance(r) ==
    CASE r.distance # 0 -> r.distance
      [] r.distance = 0 /\ r.kind = "connected" -> 0
      [] r.distance = 0 /\ r.kind \in {"static", "blackhole"} -> 1
      [] r.distance = 0 /\ r.kind = "ospf" -> 110
      [] OTHER -> 200

\* The kinds in the order of their names.
KindRank(r) == CASE r.kind = "aggregate" -> 1 [] r.kind = "bgp" -> 2 [] r.kind = "blackhole" -> 3
                 [] r.kind = "connected" -> 4 [] r.kind = "ospf" -> 5 [] OTHER -> 6

\* The pairs of elements of s of which the first comes before the second.
Precedence(s, Before(_, _)) == {x \in ToSet(s) \X ToSet(s) : Before(x[1], x[2])}

\* sort.SliceStable by the pairs in before: each element goes behind the last
\* one that it does not precede.
InsertSorted(out, x, before) ==
    InsertAt(out, Max({0} \cup {i \in 1..Len(out) : <<x, out[i]>> \notin before}) + 1, x)

StableSort(s, before) ==
    LET sorted[i \in 0..Len(s)] == IF i = 0 THEN <<>> ELSE InsertSorted(sorted[i - 1], s[i], before)
    IN  sorted[Len(s)]

FIBOrder(routes) ==
    StableSort(routes, Precedence(routes, LAMBDA a, b :
        \/ AdminDistance(a) < AdminDistance(b)
        \/ AdminDistance(a) = AdminDistance(b) /\ KindRank(a) < KindRank(b)))

\* Mutant: every device keeps one of several equivalent routes.
InstallableOnce(n, installed, r) ==
    /\ ~r.attrs.invalid
    /\ \A i \in DOMAIN installed : ~Equivalent(net.kind[n], n, installed[i].route, r)

RouteInstallableInFIB(n, installed, r) ==
    /\ ~r.attrs.invalid
    /\ net.kind[n] = "frr" =>
         \A i \in DOMAIN installed : ~Equivalent(net.kind[n], n, installed[i].route, r)

\* routeGroupFor: the rank of the first group whose first route r is
\* equivalent to, or the rank of a new group.
RouteGroupFor(n, installed, r) ==
    LET ranks   == {installed[i].rank : i \in DOMAIN installed}
        First(k) == installed[Min({i \in DOMAIN installed : installed[i].rank = k})].route
        same    == {k \in ranks : Equivalent(net.kind[n], n, First(k), r)}
    IN  IF same = {} THEN Cardinality(ranks) ELSE Min(same)

\* One route of the slot: skipped when a route with the same selected
\* condition is installed, or the device does not install it.
Install(n, installed, r) ==
    IF \/ \E i \in DOMAIN installed : Key(installed[i].route.sel) = Key(r.sel)
       \/ ~RouteInstallableInFIB(n, installed, r)
    THEN installed
    ELSE Append(installed, [route |-> r, rank |-> RouteGroupFor(n, installed, r)])

FIBEntry(x) ==
    [prefix |-> x.route.prefix, nextHop |-> x.route.nextHop, discard |-> x.route.kind = "blackhole",
     cond |-> x.route.sel, rank |-> x.rank]

SlotEntries(n, p) ==
    LET routes == FIBOrder(rib[<<n, p>>])
        installed[i \in 0..Len(routes)] ==
            IF i = 0 THEN <<>> ELSE Install(n, installed[i - 1], routes[i])
        slot == installed[Len(routes)]
    IN  [i \in DOMAIN slot |-> FIBEntry(slot[i])]

\* Prefix length: the number of prefixes around it.
Bits(p) == Cardinality({q \in Prefix : <<p, q>> \in Within})

\* A longer prefix, or a better group of the same length.
Better(a, b) == Bits(a.prefix) > Bits(b.prefix) \/ (Bits(a.prefix) = Bits(b.prefix) /\ a.rank < b.rank)

\* Among equals the prefixes' names decide, here the order of the slots.
NodeFIB(n) ==
    LET names   == SetToSeq(Prefix)
        entries == FlattenSeq([i \in DOMAIN names |-> SlotEntries(n, names[i])])
    IN  StableSort(entries, Precedence(entries, Better))

DeriveFIB ==
    /\ phase = "done"
    /\ fib = <<>>
    /\ fib' = [n \in Node |-> NodeFIB(n)]
    /\ UNCHANGED <<vars, query, work, paths, reasons>>

---------------------------------------------------------------------------
(***************************************************************************)
(* Lookup: an entry is used when it is selected and no entry of a better   *)
(* group is; members of one group do not suppress each other.              *)
(***************************************************************************)
\* Mutant: members of a group suppress each other.
SymbolicLookupSuppressing(entries) ==
    [i \in DOMAIN entries |->
       LET higher == {entries[j].cond : j \in 1..(i - 1)}
       IN  [entry |-> entries[i],
            cond  |-> IF higher = {} THEN entries[i].cond
                      ELSE And(entries[i].cond, Not(OrAll(higher)))]]

SymbolicLookup(entries) ==
    [i \in DOMAIN entries |->
       LET Group(e) == <<e.prefix, e.rank>>
           higher   == {entries[j].cond : j \in {j \in 1..(i - 1) : Group(entries[j]) # Group(entries[i])}}
       IN  [entry |-> entries[i],
            cond  |-> IF higher = {} THEN entries[i].cond
                      ELSE And(entries[i].cond, Not(OrAll(higher)))]]

Covers(p, a) == p = a \/ <<a, p>> \in Within
Overlaps(p, q) == Covers(p, q) \/ Covers(q, p)

SymbolicLookupFIB(n, a) ==
    SymbolicLookup(Only(fib[n], LAMBDA e : Covers(e.prefix, a)))

SymbolicLookupFIBForPrefixSet(n, dst) ==
    SymbolicLookup(Only(fib[n], LAMBDA e : Overlaps(e.prefix, dst)))

\* The first entry around the address that is selected in w, if any.
LookupFIB(n, a, w) ==
    LET selected == Only(fib[n], LAMBDA e : Covers(e.prefix, a) /\ w \in e.cond.holds)
    IN  {selected[i] : i \in {i \in DOMAIN selected : i = 1}}

---------------------------------------------------------------------------
(***************************************************************************)
(* Packet filters: the first binding of the stage and interface decides,   *)
(* by its first matching rule or its default.  An interface is named by    *)
(* the peer it leads to, 0 is no interface, and a binding to 0 holds for   *)
(* all of them.  Queries give no source and no ports, so rules match on    *)
(* protocol and destination; a binding without an ACL is skipped by the    *)
(* code and not listed.                                                    *)
(***************************************************************************)
RuleMatchesPacket(rule, q) ==
    /\ rule.protocol \in {"", q.protocol}
    /\ rule.dst # {} => \E p \in rule.dst : Overlaps(p, q.dst)

\* By sequence number; rules without one (0) come last.
ACLOrder(rules) ==
    StableSort(rules, Precedence(rules, LAMBDA a, b :
        a.seq # b.seq /\ a.seq # 0 /\ (b.seq = 0 \/ a.seq < b.seq)))

EvaluateACL(acl, q) ==
    LET matching == SelectSeq(ACLOrder(acl.rules), LAMBDA rule : RuleMatchesPacket(rule, q))
    IN  IF matching = <<>> THEN acl.defaultDeny ELSE Head(matching).deny

Denied(n, stage, peer, q) ==
    LET bound == Only(net.acls, LAMBDA b : /\ b.node = n
                                           /\ b.stage = stage
                                           /\ b.peer \in {0, peer})
    IN  bound # <<>> /\ EvaluateACL(Head(bound), q)

---------------------------------------------------------------------------
(***************************************************************************)
(* A query.  The origin of an address is looked for in the nodes' map, in  *)
(* any order; a node's own prefixes are tried in their order.              *)
(***************************************************************************)
NodePrefixes(n) ==
    LET connected == Only(net.routes[n], LAMBDA c : c.kind = "connected")
    IN  net.networks[n] \o [i \in DOMAIN connected |-> connected[i].prefix]

Originates(n, p) == p \in ToSet(NodePrefixes(n))
OriginatesPrefixSet(n, dst) == \E p \in ToSet(NodePrefixes(n)) : Overlaps(p, dst)

OriginForIP(a) ==
    {x \in Node \X Prefix :
        LET around == Only(NodePrefixes(x[1]), LAMBDA p : Covers(p, a))
        IN  around # <<>> /\ x[2] = Head(around)}

Reason(kind, c) == IF Key(c) = Key(FalseCond) THEN {} ELSE {[kind |-> kind, cond |-> c]}

SourceOrDestinationDown(from, dst) ==
    UNION {Reason("node_failed", Not(NodeVar(n))) :
             n \in {from} \cup {n \in Node : OriginatesPrefixSet(n, dst)}}

Ready == fib # <<>> /\ query = {}

SymbolicPacketReachability ==
    /\ Ready
    /\ \E from \in Node, a \in Addr, protocol \in Protocol : \E x \in OriginForIP(a) :
         /\ query' = {[from |-> from, to |-> a, protocol |-> protocol, dst |-> x[2]]}
         /\ work' = <<[node |-> from, peer |-> 0, path |-> <<from>>,
                       cond |-> And(NodeVar(from), NodeVar(x[1]))]>>
         /\ reasons' = SourceOrDestinationDown(from, x[2])
    /\ UNCHANGED <<vars, fib, paths>>

\* No node originates the address: the query is answered at once.
DestinationNotAdvertised ==
    /\ Ready
    /\ \E from \in Node, a \in Addr, protocol \in Protocol :
         /\ OriginForIP(a) = {}
         /\ query' = {[from |-> from, to |-> a, protocol |-> protocol, dst |-> a]}
    /\ reasons' = Reason("destination_not_advertised", TrueCond)
    /\ UNCHANGED <<vars, fib, work, paths>>

---------------------------------------------------------------------------
(***************************************************************************)
(* symbolicForward: what becomes of a candidate of state s.                *)
(***************************************************************************)
\* Why the candidate cannot be used whatever is up, "" if it can.  DeriveFIB
\* never yields the status "management fallback".
Unusability(n, e) ==
    CASE e.discard -> "discard"
      [] ~e.discard /\ e.nextHop = AddressOnly -> "recursive_next_hop_unresolved"
      [] ~e.discard /\ e.nextHop = 0 -> "no_next_hop"
      [] OTHER -> ""

CandidateReasons(q, s, c) ==
    LET e      == c.entry
        here   == And(s.cond, c.cond)
        adjacent == {s.node, e.nextHop} \in Links
    IN  IF Unusability(s.node, e) # "" THEN Reason(Unusability(s.node, e), here)
        ELSE Reason("node_failed", And(here, Not(NodeVar(e.nextHop)))) \cup
             IF ~adjacent THEN Reason("next_hop_not_adjacent", And(here, NodeVar(e.nextHop)))
             ELSE Reason("link_failed", AndAll({here, NodeVar(e.nextHop), Not(LinkVar({s.node, e.nextHop}))}))
                    \cup IF Denied(s.node, "egress", e.nextHop, q) THEN Reason("egress_policy", here) ELSE {}

Usable(q, s, c) ==
    /\ Unusability(s.node, c.entry) = ""
    /\ {s.node, c.entry.nextHop} \in Links
    /\ ~Denied(s.node, "egress", c.entry.nextHop, q)

\* Mutant: the link to the next hop is not part of the condition.
ForwardedUnlinked(s, c) ==
    [node |-> c.entry.nextHop, peer |-> s.node, path |-> Append(s.path, c.entry.nextHop),
     cond |-> And(s.cond, c.cond)]

Forwarded(s, c) ==
    [node |-> c.entry.nextHop, peer |-> s.node, path |-> Append(s.path, c.entry.nextHop),
     cond |-> AndAll({s.cond, c.cond, LinkVar({s.node, c.entry.nextHop})})]

\* Leave the topmost state, with what it adds to the result.
Visit(next, delivered, because) ==
    /\ work' = next \o Tail(work)
    /\ paths' = paths \cup delivered
    /\ reasons' = reasons \cup because
    /\ UNCHANGED <<vars, fib, query>>

NoRoute(s, candidates) ==
    Reason("no_route", And(s.cond, Not(OrAll({candidates[i].cond : i \in DOMAIN candidates}))))

\* Mutant: the walk does not remember where it has been.
VisitedNever(s) == FALSE

Visited(s) == s.node \in ToSet(Front(s.path))

\* Candidates of a state in which the packet is neither delivered nor
\* stopped.  maxHops is the number of nodes.
ForwardToCandidates(q, s) ==
    LET candidates == SymbolicLookupFIBForPrefixSet(s.node, q.dst)
        usable     == Only(candidates, LAMBDA c : Usable(q, s, c))
    IN  Visit([i \in DOMAIN usable |-> Forwarded(s, usable[i])], {},
              NoRoute(s, candidates)
                \cup UNION {CandidateReasons(q, s, candidates[i]) : i \in DOMAIN candidates})

SymbolicForward ==
    /\ work # <<>>
    /\ \E q \in query :
       LET s == Head(work)
       IN  IF Key(s.cond) = Key(FalseCond) THEN Visit(<<>>, {}, {})
           ELSE IF Visited(s) THEN Visit(<<>>, {}, Reason("loop", s.cond))
           ELSE IF OriginatesPrefixSet(s.node, q.dst)
             THEN Visit(<<>>, {And(s.cond, NodeVar(s.node))}, {})
           ELSE IF Len(s.path) > Cardinality(Node) THEN Visit(<<>>, {}, {})
           ELSE IF Denied(s.node, "ingress", s.peer, q)
             THEN Visit(<<>>, {}, Reason("ingress_policy", s.cond))
           ELSE ForwardToCandidates(q, s)

Answered == query # {} /\ work = <<>>

Reachable == OrAll(paths)

---------------------------------------------------------------------------
(***************************************************************************)
(* PacketReachable: the walk of one packet in failure world w.  It tries   *)
(* the active candidates in order, and returns to the next one when a      *)
(* candidate does not lead to the destination.  The origin is looked up    *)
(* again, and may be another one than the symbolic query found.            *)
(***************************************************************************)
Attempt(q, w, n, e) ==
    CASE Unusability(n, e) # "" -> Unusability(n, e)
      [] Unusability(n, e) = "" /\ ~NodeUp(w, e.nextHop) -> "node_failed"
      [] Unusability(n, e) = "" /\ NodeUp(w, e.nextHop) /\ {n, e.nextHop} \notin Links -> "next_hop_not_adjacent"
      [] Unusability(n, e) = "" /\ {n, e.nextHop} \in Links /\ NodeUp(w, e.nextHop) ->
            IF ~LinkUp(w, {n, e.nextHop}) THEN "link_failed"
            ELSE IF Denied(n, "egress", e.nextHop, q) THEN "egress_policy"
            ELSE "forward"

PacketReachableFrom(q, w) ==
    LET walk[at \in Node \X (Node \cup {0}) \X SUBSET Node] ==
          LET n == at[1]  peer == at[2]  visited == at[3]
              active == Only(SymbolicLookupFIB(n, q.to), LAMBDA c : w \in c.cond.holds)
              Try(e) == IF Attempt(q, w, n, e) = "forward"
                        THEN walk[<<e.nextHop, n, visited \cup {n}>>] ELSE Attempt(q, w, n, e)
              results == [i \in DOMAIN active |-> Try(active[i].entry)]
          IN  IF ~NodeUp(w, n) THEN "node_failed"
              ELSE IF n \in visited THEN "loop"
              ELSE IF Originates(n, q.dst) THEN "reached"
              ELSE IF Denied(n, "ingress", peer, q) THEN "ingress_policy"
              ELSE IF active = <<>> THEN "no_route"
              ELSE IF "reached" \in ToSet(results) THEN "reached"
              ELSE results[1]
    IN  walk[<<q.from, 0, {}>>]

\* What PacketReachable may answer.
PacketReachable(q, w) ==
    IF OriginForIP(q.to) = {} THEN {"destination_not_advertised"}
    ELSE {IF NodeUp(w, q.from) /\ NodeUp(w, x[1])
          THEN PacketReachableFrom([q EXCEPT !.dst = x[2]], w)
          ELSE "node_failed" : x \in OriginForIP(q.to)}

\* The first selected route of the RIB answers a route query.
RouteReachable(from, p, w) ==
    NodeUp(w, from) /\ \E i \in DOMAIN rib[<<from, p>>] : w \in rib[<<from, p>>][i].sel.holds

SymbolicRouteReachability(from, p) ==
    OrAll({And(NodeVar(from), r.sel) : r \in {r \in ToSet(rib[<<from, p>>]) : r.sel # NoCond}})

\* A query for a set of prefixes is answered from the FIB.
SymbolicRouteReachabilityForPrefixSet(from, dst) ==
    LET candidates == SymbolicLookupFIBForPrefixSet(from, dst)
    IN  OrAll({And(NodeVar(from), candidates[i].cond) : i \in DOMAIN candidates})

---------------------------------------------------------------------------
DPInit ==
    /\ Init
    /\ fib = <<>>
    /\ query = {}
    /\ work = <<>>
    /\ paths = {}
    /\ reasons = {}

Simulate == Next /\ fib = <<>> /\ UNCHANGED dpVars

\* The answer stands.
AnswerReturned == Answered /\ UNCHANGED allVars

DPNext ==
    \/ Simulate
    \/ DeriveFIB
    \/ SymbolicPacketReachability
    \/ DestinationNotAdvertised
    \/ SymbolicForward
    \/ AnswerReturned

DPSpec == DPInit /\ [][DPNext]_allVars

---------------------------------------------------------------------------
(***************************************************************************)
(* Properties.                                                             *)
(***************************************************************************)
\* DeriveFIB has returned and no query has been asked yet (none changes fib).
FIBDerived == fib # <<>> /\ query = {}

\* README.md: entries of one group "do not suppress each other", and
\* "lower-rank or shorter-prefix candidates remain suppressed while a
\* higher-priority group is selected".  In every failure world the candidates
\* that symbolicLookupFIBEntries leaves active are exactly the selected
\* entries of the best group around the address: longest prefix, then rank.
\* LookupFIB's entry, found without groups, is one of them.
LongestPrefixMatch ==
    FIBDerived => \A n \in Node, a \in Addr, w \in Worlds :
        LET matching == {e \in ToSet(fib[n]) : Covers(e.prefix, a) /\ w \in e.cond.holds}
            best == {f \in matching : \A e \in matching : ~Better(e, f)}
        IN  /\ {c.entry : c \in {c \in ToSet(SymbolicLookupFIB(n, a)) : w \in c.cond.holds}} = best
            /\ LookupFIB(n, a, w) \subseteq best
            /\ best # {} => LookupFIB(n, a, w) # {}

Parity(q) ==
    \A w \in Worlds : \A outcome \in PacketReachable(q, w) :
        w \in Reachable.holds <=> outcome = "reached"

\* No other prefix lies inside p or around it.
Disjoint(p) == \A o \in Prefix : <<o, p>> \notin Within /\ <<p, o>> \notin Within

\* dataplane_reachability_test.go and parity_test.go: one symbolic walk
\* answers for every failure.  The disjunction of its path conditions holds
\* in exactly the worlds in which the concrete walk delivers the packet.
SymbolicMatchesConcrete == Answered => \A q \in query : Disjoint(q.dst) => Parity(q)

\* symbolic_reasons_test.go: whenever the concrete walk fails, the symbolic
\* result has a reason of that very kind whose condition holds there
\* (destinations in disjoint prefixes).
ReasonsExplain ==
    Answered => \A q \in query : Disjoint(q.dst) =>
        \A w \in Worlds : \A outcome \in PacketReachable(q, w) \ {"reached"} :
            \E r \in reasons : r.kind = outcome /\ w \in r.cond.holds

\* FRR drops routes equivalent to an installed one for good.
HasEquivalents(n, p) ==
    \E i, j \in DOMAIN rib[<<n, p>>] :
        i # j /\ net.kind[n] = "frr" /\ Equivalent("frr", n, rib[<<n, p>>][i], rib[<<n, p>>][j])

\* DeriveFIB drops entries it has seen the condition of, and regroups the
\* rest by rank.  A query for a disjoint prefix answered from the FIB still holds in the same
\* worlds as one answered from the RIB, unless the device is an FRR that holds
\* equivalent routes.
FIBFollowsRIB ==
    FIBDerived => \A n \in Node, p \in Prefix :
        Disjoint(p) /\ ~HasEquivalents(n, p) =>
            SymbolicRouteReachabilityForPrefixSet(n, p).holds = SymbolicRouteReachability(n, p).holds

\* Networks of eBGP sessions only, without filters and local routes.
PurelyEBGP ==
    /\ \A m, n \in Node : m # n => net.asn[m] # net.asn[n]
    /\ net.acls = <<>>
    /\ \A n \in Node : net.routes[n] = <<>>

\* Routes carry packets: forwarding decides hop by hop, each node for itself,
\* and yet in every world in which the source and the destination are up a
\* packet arrives exactly when the source has selected a route.  There is no
\* transient loop or black hole in what Simulate computed.
RoutesCarryPackets ==
    Answered /\ PurelyEBGP => \A q \in query :
        (\A n \in Node : ~HasEquivalents(n, q.dst)) =>
            Reachable.holds = {w \in Worlds : RouteReachable(q.from, q.dst, w)}

===========================================================================
