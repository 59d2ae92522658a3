--------------------------- MODULE TrafficGraph ---------------------------
(***************************************************************************)
(* "hoyan traffic what-if" and "hoyan traffic kfail": traffic distribution *)
(* graphs (TDGs) built from the FIBs, their cache, the pruning of failed   *)
(* links and nodes, the traversal that yields link loads, and the search   *)
(* for the smallest set of failures that overloads a link.                 *)
(*                                                                         *)
(* Nodes and links are numbered in the order of their names, which is      *)
(* taken to be their order in the topology too.  A load is recorded for    *)
(* a pair <<from, to>>, the key "from->to" of the code; a topology link    *)
(* has a name of its own, which is such a pair only if it is spelled that  *)
(* way and otherwise <<0, i>>.  Weights are exact fractions: the rounding  *)
(* of floating-point numbers is left out.                                  *)
(***************************************************************************)
EXTENDS Integers, FiniteSets, SequencesExt

CONSTANTS Node,     \* 1..N
          Nets      \* the networks and command lines to run

\* Packet classes with the same PrefixClassID have the same destinations: the
\* ID is the index of a class of the prefix universe, and DstSet is that class.
ASSUME ClassAssumption ==
    \A g \in Nets : \A i, j \in DOMAIN g.classes :
        g.classes[i].id = g.classes[j].id => g.classes[i].dst = g.classes[j].dst

\* A topology lists its nodes and links; --max-k takes any integer.
ASSUME TopologyAssumption ==
    /\ IsFiniteSet(Node) /\ Node = 1..Cardinality(Node)
    /\ \A g \in Nets : g.maxK \in Int /\ g.links \in Seq(ToSet(g.links))

VARIABLES net,      \* the network, the command and its options
          roots,    \* ingress nodes still to be simulated
          stage,    \* where the loop over the roots stands
          cache,    \* TDGCache.entries
          base,     \* what-if: loads without the failure, over all roots
          failed,   \* what-if: loads under the failure
          combo,    \* kfail: the last combination of failures simulated
          findings, \* kfail: KFailResult.Findings for the current root
          report    \* kfail: findings of all roots

vars == <<net, roots, stage, cache, base, failed, combo, findings, report>>

NoAddr    == "none"
NoFailure == [links |-> {}, nodes |-> {}]

---------------------------------------------------------------------------
(***************************************************************************)
(* Fractions <<numerator, denominator>>.                                   *)
(***************************************************************************)
One == <<1, 1>>

Plus(v, w)  == <<v[1] * w[2] + w[1] * v[2], v[2] * w[2]>>
Div(v, w)   == <<v[1] * w[2], v[2] * w[1]>>
Scale(b, w) == (b * w[1]) \div w[2]

---------------------------------------------------------------------------
(***************************************************************************)
(* Breadth-first order of the nodes reachable from root: both BuildTDG and *)
(* TopologicalOrder visit a node when it first leaves the queue.           *)
(***************************************************************************)
BreadthFirst(root, successors) ==
    LET visit[queue \in Seq(Node), seen \in Seq(Node)] ==
          IF queue = <<>> THEN seen
          ELSE LET n    == Head(queue)
                   now  == Append(seen, n)
                   next == SelectSeq(successors[n], LAMBDA m : m \notin ToSet(now))
               IN  IF n \in ToSet(seen) THEN visit[Tail(queue), seen]
                   ELSE visit[Tail(queue) \o next, now]
    IN  visit[<<root>>, <<>>]

\* A FIB entry has a prefix (its length and the destinations it covers) and
\* either the next-hops of an ECMP group or one next-hop (0: none).
ConvertNextHops(e) ==
    IF e.group # <<>> THEN [i \in DOMAIN e.group |-> [node |-> e.group[i], w |-> <<1, Len(e.group)>>]]
    ELSE IF e.nextHop # 0 THEN <<[node |-> e.nextHop, w |-> One]>>
    ELSE <<>>

\* Entries without a next-hop do not make it into the traffic FIB.
FIBTableFromGraph(fibs, n) == SelectSeq(fibs[n], LAMBDA e : ConvertNextHops(e) # <<>>)

\* The next-hops of the first entry with the longest prefix around dst.
NextHops(fibs, n, dst) ==
    LET fib      == FIBTableFromGraph(fibs, n)
        matching == {i \in DOMAIN fib : dst \in fib[i].covers}
        Better(i, j) == fib[i].bits > fib[j].bits \/ (fib[i].bits = fib[j].bits /\ i <= j)
    IN  IF matching = {} THEN <<>>
        ELSE ConvertNextHops(fib[CHOOSE i \in matching : \A j \in matching : Better(i, j)])

\* BuildTDG.  A node without a route or a next-hop is a sink.
BuildTDG(fibs, root, dst) ==
    LET hops  == [n \in Node |-> NextHops(fibs, n, dst)]
        order == BreadthFirst(root, [n \in Node |-> [i \in DOMAIN hops[n] |-> hops[n][i].node]])
        Edges(n) == [i \in DOMAIN hops[n] |-> [from |-> n, to |-> hops[n][i].node,
                        w |-> IF Len(hops[n]) = 1 THEN One ELSE hops[n][i].w]]
    IN  IF dst = NoAddr THEN [root |-> root, edges |-> <<>>, sinks |-> {}]
        ELSE [root  |-> root,
              edges |-> FlattenSeq([i \in DOMAIN order |-> Edges(order[i])]),
              sinks |-> {n \in ToSet(order) : hops[n] = <<>>}]

OutEdges(g, n) == SelectSeq(g.edges, LAMBDA e : e.from = n)

TopologicalOrder(g) ==
    BreadthFirst(g.root, [n \in Node |-> [i \in DOMAIN OutEdges(g, n) |-> OutEdges(g, n)[i].to]])

\* ApplyFailure compares the names of failed links with the keys of edges.
EdgeFailed(e, fails) ==
    \/ <<e.from, e.to>> \in fails.links
    \/ e.from \in fails.nodes
    \/ e.to \in fails.nodes

\* Mutant: the share of a failed edge is lost.
NotRebalanced(edges, n) == edges

\* Weights of the surviving edges of n are divided by their sum.
\* SetEdgeWeight finds edges by their ends: of several parallel edges it
\* updates the first, once for each of them.
Rebalanced(edges, n) ==
    LET out  == {i \in DOMAIN edges : edges[i].from = n}
        rest == FoldLeft(LAMBDA sum, e : IF e.from = n THEN Plus(sum, e.w) ELSE sum, <<0, 1>>, edges)
        Parallel(i) == {j \in out : edges[j].to = edges[i].to}
        last(i)     == CHOOSE j \in Parallel(i) : \A k \in Parallel(i) : k <= j
    IN  IF rest[1] > 0 /\ rest[1] < rest[2]
        THEN [i \in DOMAIN edges |->
                IF i \in out /\ \A j \in Parallel(i) : i <= j
                THEN [edges[i] EXCEPT !.w = Div(edges[last(i)].w, rest)] ELSE edges[i]]
        ELSE edges

ApplyFailure(g, fails) ==
    LET lost == {e.from : e \in {e \in ToSet(g.edges) : EdgeFailed(e, fails)}}
        kept == SelectSeq(g.edges, LAMBDA e : ~EdgeFailed(e, fails))
    IN  [root  |-> g.root,
         edges |-> FoldLeft(Rebalanced, kept, SetToSeq(lost)),
         sinks |-> g.sinks \cup {n \in lost : \A e \in ToSet(kept) : e.from # n}]

\* Traverse.  A node's edges are filled once, at its place in the order, with
\* what has arrived there by then.
Traverse(g, total) ==
    LET order == TopologicalOrder(g)
        Carried(e, bytes) == Scale(bytes, e.w)
        Between(u, v) == {i \in DOMAIN g.edges : g.edges[i].from = u /\ g.edges[i].to = v}
        arrived[i \in DOMAIN order] ==
          (IF i = 1 THEN total ELSE 0)
            + MapThenSumSet(LAMBDA j : MapThenSumSet(LAMBDA x : Carried(g.edges[x], arrived[j]),
                                                     Between(order[j], order[i])), 1..(i - 1))
        Place(u) == {i \in DOMAIN order : order[i] = u}
    IN  [l \in Node \X Node |->
            MapThenSumSet(LAMBDA i : MapThenSumSet(LAMBDA x : Carried(g.edges[x], arrived[i]),
                                                   Between(l[1], l[2])), Place(l[1]))]

Idle == [l \in Node \X Node |-> 0]

Sum(f, g) == [l \in Node \X Node |-> f[l] + g[l]]

---------------------------------------------------------------------------
(***************************************************************************)
(* WhatIfSimulator.Simulate, on top of the cache.                          *)
(***************************************************************************)
\* Mutant: the graphs of all ingress nodes share an entry.
KeyOfClass(root, class) == <<1, class.id>>

Key(root, class) == <<root, class.id>>

\* GetOrBuild for all classes: one of those with a new key builds the graph,
\* and by ClassAssumption it does not matter which.
GetOrBuild(entries, root) ==
    LET keys == {Key(root, net.classes[i]) : i \in DOMAIN net.classes}
        Builder(key) == net.classes[CHOOSE i \in DOMAIN net.classes : Key(root, net.classes[i]) = key]
    IN  [key \in DOMAIN entries \cup keys |->
            IF key \in DOMAIN entries THEN entries[key]
            ELSE BuildTDG(net.fibs, root, Builder(key).dst)]

LinkLoads(entries, root, fails) ==
    LET Graph(class) == IF fails = NoFailure THEN entries[Key(root, class)]
                        ELSE ApplyFailure(entries[Key(root, class)], fails)
        loads == [i \in DOMAIN net.classes |->
                    Traverse(Graph(net.classes[i]), net.classes[i].bytes)]
    IN  FoldLeft(Sum, Idle, loads)

---------------------------------------------------------------------------
(***************************************************************************)
(* The topology: ingress nodes, elements that may fail, bandwidths.        *)
(***************************************************************************)
LinkIndices == DOMAIN net.links

\* The first neighbour of a customer in the order of the links, or itself.
FindUpstreamNode(n) ==
    LET at == {i \in LinkIndices : n \in {net.links[i].a, net.links[i].b}}
    IN  IF at = {} THEN n
        ELSE LET l == net.links[CHOOSE i \in at : \A j \in at : i <= j]
             IN  IF l.a = n THEN l.b ELSE l.a

\* Customers have the role or a name that starts with "cust-".
Customers ==
    SelectSeq([n \in 1..Cardinality(Node) |-> n], LAMBDA n : net.role[n] = "customer" \/ n \in net.custNamed)

ResolveUpstreamNodes ==
    IF Customers = <<>> THEN <<1>>
    ELSE [i \in DOMAIN Customers |-> FindUpstreamNode(Customers[i])]

\* DefaultWANFailureDomain excludes customers and their links.
LinkEligible(l) == "customer" \notin {l.role, net.role[l.a], net.role[l.b]}
NodeEligible(n) == net.role[n] # "customer"

SearchElements ==
    FlattenSeq([i \in LinkIndices |->
        IF LinkEligible(net.links[i]) THEN <<[kind |-> "link", name |-> net.links[i].name]>> ELSE <<>>])
      \o FlattenSeq([n \in 1..Cardinality(Node) |->
            IF NodeEligible(n) THEN <<[kind |-> "node", name |-> <<n>>]>> ELSE <<>>])

SetFromElements(elements) ==
    [links |-> {e.name : e \in {e \in elements : e.kind = "link"}},
     nodes |-> {e.name[1] : e \in {e \in elements : e.kind = "node"}}]

LinkBandwidth(l) ==
    IF l.bandwidth > 0 THEN l.bandwidth
    ELSE CASE l.role = "core"               -> 40
           [] l.role \in {"edge", "border"} -> 10
           [] l.role = "customer"           -> 1
           [] OTHER                         -> 0

\* By name, or else by the ends of the link; 0 means unconstrained.
LinkBandwidthForName(key) ==
    LET named  == {i \in LinkIndices : net.links[i].name = key}
        ending == {i \in LinkIndices : {net.links[i].a, net.links[i].b} = {key[1], key[2]}}
        First(is) == CHOOSE i \in is : \A j \in is : i <= j
    IN  IF named # {} THEN LinkBandwidth(net.links[First(named)])
        ELSE IF ending # {} THEN LinkBandwidth(net.links[First(ending)])
        ELSE 0

OverloadedLinks(loads) ==
    {l \in Node \X Node :
        /\ loads[l] > 0
        /\ LinkBandwidthForName(l) > 0
        /\ loads[l] * 100 >= net.threshold * LinkBandwidthForName(l)}

---------------------------------------------------------------------------
(***************************************************************************)
(* FindElementCombo: for k = 1, 2, ... the combinations of k elements, in  *)
(* lexicographic order of their positions.                                 *)
(***************************************************************************)
\* Mutant: the largest size is not tried.
CombosBelowMax ==
    UNION {{c \in [1..k -> DOMAIN SearchElements] : \A i, j \in 1..k : i < j => c[i] < c[j]} :
             k \in 1..(net.maxK - 1)}

Combos ==
    UNION {{c \in [1..k -> DOMAIN SearchElements] : \A i, j \in 1..k : i < j => c[i] < c[j]} :
             k \in 1..net.maxK}

Before(c, d) ==
    \/ Len(c) < Len(d)
    \/ /\ Len(c) = Len(d)
       /\ \E i \in DOMAIN c : c[i] < d[i] /\ \A j \in 1..(i - 1) : c[j] = d[j]

LaterCombos == {c \in Combos : Before(combo, c)}

NextCombo == CHOOSE c \in LaterCombos : \A d \in LaterCombos : d = c \/ Before(c, d)

Elements(c) == {SearchElements[c[i]] : i \in DOMAIN c}

---------------------------------------------------------------------------
Init ==
    /\ net \in Nets
    /\ roots = ResolveUpstreamNodes
    /\ stage = "base"
    /\ cache = <<>>
    /\ base = Idle
    /\ failed = Idle
    /\ combo = <<>>
    /\ findings = {}
    /\ report = {}

\* runWhatIf: for each root the base case, then the failure.
WhatIfBase ==
    /\ net.command = "what-if" /\ roots # <<>> /\ stage = "base"
    /\ cache' = GetOrBuild(cache, Head(roots))
    /\ base' = Sum(base, LinkLoads(cache', Head(roots), NoFailure))
    /\ stage' = "failed"
    /\ UNCHANGED <<net, roots, failed, combo, findings, report>>

WhatIfFailed ==
    /\ net.command = "what-if" /\ stage = "failed"
    /\ cache' = GetOrBuild(cache, Head(roots))
    /\ failed' = Sum(failed, LinkLoads(cache', Head(roots), net.fails))
    /\ roots' = Tail(roots)
    /\ stage' = "base"
    /\ UNCHANGED <<net, base, combo, findings, report>>

\* KFailAnalyzer.Analyze starts with a cache of its own and the base case.
AnalyzeBase ==
    /\ net.command = "kfail" /\ roots # <<>> /\ stage = "base"
    /\ cache' = GetOrBuild(<<>>, Head(roots))
    /\ findings' = {[link |-> l, k |-> 0, failures |-> {}] :
                      l \in OverloadedLinks(LinkLoads(cache', Head(roots), NoFailure))}
    /\ combo' = <<>>
    /\ stage' = "search"
    /\ UNCHANGED <<net, roots, base, failed, report>>

\* A link is reported once, with the first combination that overloads it.
AnalyzeCombo ==
    /\ stage = "search" /\ LaterCombos # {}
    /\ combo' = NextCombo
    /\ LET fails == SetFromElements(Elements(NextCombo))
           found == {f.link : f \in findings}
       IN  /\ cache' = GetOrBuild(cache, Head(roots))
           /\ findings' = findings \cup
                {[link |-> l, k |-> Len(NextCombo), failures |-> Elements(NextCombo)] :
                    l \in OverloadedLinks(LinkLoads(cache', Head(roots), fails)) \ found}
    /\ UNCHANGED <<net, roots, stage, base, failed, report>>

\* runKFail merges the findings of a root, dropping exact duplicates.
MergeFindings ==
    /\ stage = "search" /\ LaterCombos = {}
    /\ report' = report \cup findings
    /\ roots' = Tail(roots)
    /\ stage' = "base"
    /\ UNCHANGED <<net, cache, base, failed, combo, findings>>

Done == roots = <<>>

Finished == Done /\ UNCHANGED vars

Next ==
    \/ WhatIfBase
    \/ WhatIfFailed
    \/ AnalyzeBase
    \/ AnalyzeCombo
    \/ MergeFindings
    \/ Finished

Spec == Init /\ [][Next]_vars

---------------------------------------------------------------------------
(***************************************************************************)
(* Properties.                                                             *)
(***************************************************************************)
\* tdg_cache.go: "the cached TDG is cloned and edges for failed links/nodes
\* are pruned".  However many failures were simulated on top of it, the cache
\* holds for each ingress and class the graph of the network without failures.
CachePristine ==
    \A i \in DOMAIN net.classes : \A root \in Node :
        Key(root, net.classes[i]) \in DOMAIN cache =>
            cache[Key(root, net.classes[i])] = BuildTDG(net.fibs, root, net.classes[i].dst)

\* The loads of one ingress under a failure, computed from scratch.
LoadsUnder(root, fails) == LinkLoads(GetOrBuild(<<>>, root), root, fails)

\* kfail.go: "it finds the minimum number of additional failures that would
\* cause overload on any link".  When the search for an ingress ends, a link
\* is reported if and only if it is overloaded anyway or some set of at most
\* maxK failures overloads it, once, with a smallest such set.
FindsMinimum ==
    stage = "search" /\ LaterCombos = {} =>
        LET sets      == {F \in SUBSET ToSet(SearchElements) : F = {} \/ Cardinality(F) <= net.maxK}
            overloads == [F \in sets |-> OverloadedLinks(LoadsUnder(Head(roots), SetFromElements(F)))]
        IN  \A l \in Node \X Node :
              LET sizes == {Cardinality(F) : F \in {F \in sets : l \in overloads[F]}}
                  found == {f \in findings : f.link = l}
              IN  /\ found = {} <=> sizes = {}
                  /\ Cardinality(found) <= 1
                  /\ \A f \in found : l \in overloads[f.failures] /\ \A k \in sizes : f.k <= k

\* Every edge of the graph leads to a later node of the order.
OrderIsTopological(g) ==
    LET order == TopologicalOrder(g)
    IN  \A i, j \in DOMAIN order : \A e \in ToSet(g.edges) :
            e.from = order[i] /\ e.to = order[j] => i < j

HasParallelEdges(g) ==
    \E i, j \in DOMAIN g.edges : i # j /\ g.edges[i].from = g.edges[j].from /\ g.edges[i].to = g.edges[j].to

\* Traffic is neither lost nor created on its way, whatever fails: a node that
\* is no sink passes on what arrives, up to less than one byte per edge
\* (ApplyFailure spreads the share of a failed edge over the others).  This
\* needs a graph whose breadth-first order is topological and, when edges
\* were pruned, one without parallel edges.
TrafficConserved ==
    net.command = "what-if" => \A root \in Node : \A class \in ToSet(net.classes) :
        Key(root, class) \in DOMAIN cache /\ class.dst # NoAddr => \A fails \in {NoFailure, net.fails} :
            LET g     == IF fails = NoFailure THEN cache[Key(root, class)]
                         ELSE ApplyFailure(cache[Key(root, class)], fails)
                loads == Traverse(g, class.bytes)
                In(n)  == (IF n = root THEN class.bytes ELSE 0)
                            + MapThenSumSet(LAMBDA m : loads[m, n], Node)
                Out(n) == MapThenSumSet(LAMBDA m : loads[n, m], Node)
            IN  OrderIsTopological(g) /\ (fails = NoFailure \/ ~HasParallelEdges(g)) =>
                  \A n \in ToSet(TopologicalOrder(g)) \ g.sinks :
                      In(n) - Out(n) \in 0..(Len(OutEdges(g, n)) - 1)

\* traffic.go, the command's example "--fail-link l2-core-bj" under "Simulate
\* traffic under link/node failures": a failed link carries nothing.
FailedLinksCarryNothing ==
    net.command = "what-if" =>
        \A i \in LinkIndices : net.links[i].name \in net.fails.links =>
            LET l == net.links[i] IN failed[l.a, l.b] = 0 /\ failed[l.b, l.a] = 0

===========================================================================
