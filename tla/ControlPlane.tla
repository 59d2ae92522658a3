--------------------------- MODULE ControlPlane ---------------------------
(***************************************************************************)
(* The control-plane engine (internal/engine/controlplane/engine.go and    *)
(* internal/domain/routing/bgp): Simulate() installs the configured        *)
(* routes, propagates every BGP route depth first over the adjacencies,    *)
(* ranks the candidates of every prefix, and then strengthens each route's *)
(* condition by "my parent is selected" until nothing changes.  Aggregates *)
(* are originated afterwards and the last two steps are repeated.          *)
(*                                                                         *)
(* A route of the RIB stands for one path of one prefix.  Its conditions   *)
(* say in which failure worlds the path is available ("cond") and in which *)
(* of them the device selects it ("sel"), so one run of the engine answers *)
(* for every failure at once.                                              *)
(*                                                                         *)
(* One network instance; BGP, aggregate, static, connected and blackhole   *)
(* routes.  OSPF candidates (phase 3) and failure-bounded pruning          *)
(* (WithMaxFailures, off by default) are not part of this module.          *)
(***************************************************************************)
EXTENDS Conditions, BGPDecision, RoutePolicy

CONSTANTS Prefix,   \* the prefixes of the networks
          Within,   \* <<p, q>>: p is more specific than q and inside it
          Nets      \* the networks (topology and configuration) simulated

VARIABLES
    net,     \* the network under simulation; never changes
    rib,     \* <<node, prefix>> -> sequence of routes
    todo,    \* the origination steps Simulate has still to execute
    stack,   \* WalkRoute's call stack: route and peers still to visit
    phase,   \* "originate", "select", "apply", "done" or "error"
    round,   \* 1: before the aggregates, 2: after them
    iter     \* iterations of ConvergeAdvertisementConditions with a change

vars == <<net, rib, todo, stack, phase, round, iter>>

DeviceKind == {"frr", "ceos", "srlinux", "generic"}

ASSUME NodeAssumption   == Node \subseteq Nat \ {0} /\ IsFiniteSet(Node)
ASSUME WithinAssumption == Within \subseteq Prefix \X Prefix
ASSUME NetsAssumption ==
    \A g \in Nets :
        /\ DOMAIN g.cost \subseteq LinkID
        /\ g.asn \in [Node -> Nat]
        /\ g.kind \in [Node -> DeviceKind]
        /\ DOMAIN g.session \subseteq Node \X Node
        /\ g.networks \in [Node -> Seq(Prefix)]
        /\ \A n \in Node : /\ g.routes[n] \in Seq(ToSet(g.routes[n]))
                            /\ g.redistribute[n] \in Seq(ToSet(g.redistribute[n]))

---------------------------------------------------------------------------
(***************************************************************************)
(* The topology index.                                                     *)
(***************************************************************************)
Links == DOMAIN net.cost

\* BuildTopologyIndex sorts a node's adjacencies by cost, then by name.
Adjacencies(m) ==
    SetToSortSeq({n \in Node : {m, n} \in Links /\ n # m},
                 LAMBDA a, b : \/ net.cost[{m, a}] < net.cost[{m, b}]
                               \/ net.cost[{m, a}] = net.cost[{m, b}] /\ a < b)

IsMoreSpecificWithin(p, q) == <<p, q>> \in Within

\* The elements of s that Keep selects, in their order (SelectSeq in terms
\* that proofs can unfold).
Only(s, Keep(_)) == FlattenSeq([i \in DOMAIN s |-> IF Keep(s[i]) THEN <<s[i]>> ELSE <<>>])

---------------------------------------------------------------------------
(***************************************************************************)
(* RIB entries.  nextHop is the node of the forwarding next-hop, 0 if it   *)
(* is empty and AddressOnly if it is an address of no neighbour; from 0 is *)
(* an empty FromNode.  Only connected routes name an interface; distance 0 *)
(* leaves the administrative distance to the kind of route.                *)
(* Weight, IGP cost, cluster list and originator-id exist on the entry but *)
(* no code of the engine assigns them.                                     *)
(***************************************************************************)
NoCond == [term |-> [nil |-> TRUE], holds |-> {}]

Attributes(originCode, localPref) ==
    [asPath |-> <<>>, comms |-> {}, originCode |-> originCode, originator |-> 0,
     cluster |-> 0, localPref |-> localPref, med |-> 0, weight |-> 0,
     learnedIBGP |-> FALSE, invalid |-> FALSE]

LocalRoute(n, p, kind, attrs, nextHop, c) ==
    [prefix |-> p, kind |-> kind, attrs |-> attrs, origin |-> n, from |-> 0,
     path |-> <<n>>, nextHop |-> nextHop, ospfType |-> "", metric |-> 0,
     iface |-> "", distance |-> 0, igpCost |-> 0, base |-> c, cond |-> c, sel |-> NoCond]

\* r with the configured route c as its RouteSource.
Sourced(r, c) == [r EXCEPT !.iface = c.iface, !.distance = c.distance]

NextHopNode(r) == IF r.nextHop = AddressOnly THEN 0 ELSE r.nextHop

RouteKey(r) ==
    <<r.prefix, r.kind, r.ospfType, r.origin, NextHopNode(r), r.iface, r.path, r.attrs.invalid>>

\* addRIB: a route whose key the slot already holds is dropped.
AddRIB(table, n, r) ==
    IF \E i \in DOMAIN table[<<n, r.prefix>>] :
          RouteKey(table[<<n, r.prefix>>][i]) = RouteKey(r)
    THEN table
    ELSE [table EXCEPT ![<<n, r.prefix>>] = Append(@, r)]

IsBGP(r) == r.kind \in {"bgp", "aggregate"}

---------------------------------------------------------------------------
(***************************************************************************)
(* Device behaviour.                                                       *)
(***************************************************************************)
RouteValidForRIB(n, r) ==
    /\ ~r.attrs.invalid
    /\ net.kind[n] = "ceos" /\ r.kind = "bgp" => NextHopNode(r) \in {0, r.from}

\* Embedding in Go does not dispatch to the cEOS check: only the flag counts.
RouteEligibleForAdvertisement(n, r) == ~r.attrs.invalid

IsIBGP(m, n) == net.asn[m] = net.asn[n]

ExportAccepts(m, n, r) == ~(IsIBGP(m, n) /\ r.attrs.learnedIBGP)

ExportRoute(m, n, r) ==
    [r EXCEPT
       !.attrs.asPath      = IF IsIBGP(m, n) THEN @ ELSE <<net.asn[m]>> \o @,
       !.nextHop           = IF \/ ~IsIBGP(m, n)
                                \/ net.session[m, n].nextHopSelf
                                \/ r.nextHop = 0
                             THEN m ELSE @,
       !.attrs.learnedIBGP = IsIBGP(m, n)]

HasASLoop(n, r) == net.asn[n] \in ToSet(r.attrs.asPath)

ImportAccepts(n, r) == HasASLoop(n, r) => net.kind[n] = "srlinux"

ImportRoute(n, m, r) ==
    CASE HasASLoop(n, r) -> [r EXCEPT !.attrs.invalid = TRUE]
      [] ~HasASLoop(n, r) /\ ~IsIBGP(m, n) -> [r EXCEPT !.attrs.localPref = 0]
      [] OTHER -> r

---------------------------------------------------------------------------
(***************************************************************************)
(* Aggregates: the condition under which all contributors are selected,    *)
(* and the conditions a summary-only aggregate of m adds to what m         *)
(* exports.                                                                *)
(***************************************************************************)
Contributors(table, n, q) ==
    UNION {{r \in ToSet(table[<<n, p>>]) : r.kind # "aggregate"} :
             p \in {p \in Prefix : IsMoreSpecificWithin(p, q)}}

AggregateContributorCond(table, n, q) ==
    AndAll({IF r.sel = NoCond THEN r.cond ELSE r.sel : r \in Contributors(table, n, q)})

Aggregates(n) == Only(net.routes[n], LAMBDA c : c.kind = "aggregate")

ApplyAggregateSuppression(m, r) ==
    LET nots == {Not(AggregateContributorCond(rib, m, a.prefix)) :
                   a \in {a \in ToSet(Aggregates(m)) :
                            /\ a.summaryOnly
                            /\ IsMoreSpecificWithin(r.prefix, a.prefix)
                            /\ Contributors(rib, m, a.prefix) # {}}}
    IN  [r EXCEPT !.base = AndAll({@} \cup nots),
                  !.cond = AndAll({@} \cup nots)]

---------------------------------------------------------------------------
(***************************************************************************)
(* One adjacency of WalkRoute: what n stores when m, which holds r, talks  *)
(* to it.  The result is {} when a session is missing or a check rejects   *)
(* the route, and the set of the one new entry otherwise.                  *)
(***************************************************************************)
\* Mutant: the link is not added to the condition.
ExtendedWithoutLink(m, n, r) ==
    LET c == AndAll({r.cond, NodeVar(n)})
    IN  [r EXCEPT !.from = m, !.path = Append(@, n), !.base = c, !.cond = c,
                  !.attrs.localPref = DefaultLocalPref(@)]

Extended(m, n, r) ==
    LET c == AndAll({r.cond, LinkVar({m, n}), NodeVar(n)})
    IN  [r EXCEPT !.from = m, !.path = Append(@, n), !.base = c, !.cond = c,
                  !.attrs.localPref = DefaultLocalPref(@)]

\* Where a route-map of g's node n runs.
BindingAt(g, n, peer) == [node |-> n, peer |-> peer, links |-> DOMAIN g.cost]

Advertisement(m, n, r) ==
    LET out      == ExportRoute(m, n, r)
        exported == PolicyRoute(net.session[m, n].export, BindingAt(net, m, n), out)
        in       == ImportRoute(n, m, exported)
        imported == PolicyRoute(net.session[n, m].import, BindingAt(net, n, m), in)
    IN  IF /\ {<<m, n>>, <<n, m>>} \subseteq DOMAIN net.session
           /\ ExportAccepts(m, n, r)
           /\ PolicyAccepts(net.session[m, n].export, BindingAt(net, m, n), out)
           /\ ImportAccepts(n, exported)
           /\ PolicyAccepts(net.session[n, m].import, BindingAt(net, n, m), in)
           /\ n \in ToSet(r.path) => imported.attrs.invalid
        THEN {Extended(m, n, imported)}
        ELSE {}

Frame(r) == [route |-> r, peers |-> Adjacencies(Last(r.path))]

---------------------------------------------------------------------------
(***************************************************************************)
(* Simulate's program: phases 1 and 2 as a list of steps.  "add" installs  *)
(* a route at a node, "walk" propagates it, "aggregate" computes a node's  *)
(* aggregates (phase 5).                                                   *)
(***************************************************************************)
NodeOrder == Only([i \in 1..Max({0} \cup Node) |-> i], LAMBDA n : n \in Node)

Step(op, n, rs)   == [i \in DOMAIN rs |-> [op |-> op, node |-> n, route |-> rs[i]]]
AddAndWalk(n, rs) == FlattenSeq([i \in DOMAIN rs |-> Step("add", n, <<rs[i]>>)
                                                     \o Step("walk", n, <<rs[i]>>)])

\* routes[n] starts with the connected routes of n's interfaces.
ConfiguredRoutes(g, n) ==
    LET cs == Only(g.routes[n], LAMBDA c : c.kind \notin {"aggregate", "bgp"})
    IN  [i \in DOMAIN cs |->
           Sourced(LocalRoute(n, cs[i].prefix, cs[i].kind, Attributes(Incomplete, 0),
                              cs[i].nextHop, NodeVar(n)), cs[i])]

BGPRoute(n, p, originCode) ==
    LocalRoute(n, p, "bgp", Attributes(originCode, DefaultLocalPreference), 0, NodeVar(n))

BGPEnabled(g, n) ==
    \/ g.asn[n] # 0
    \/ \E x \in DOMAIN g.session : x[1] = n
    \/ g.redistribute[n] # <<>>

\* "network" statements: Prefixes, then routes of kind bgp.
NetworkRoutes(g, n) ==
    LET cs == Only(g.routes[n], LAMBDA c : c.kind = "bgp")
        ps == g.networks[n]
    IN  IF BGPEnabled(g, n)
        THEN [i \in DOMAIN ps |-> BGPRoute(n, ps[i], IGP)]
               \o [i \in DOMAIN cs |-> Sourced(BGPRoute(n, cs[i].prefix, IGP), cs[i])]
        ELSE <<>>

\* The kinds of routes a redistribution takes, and what it makes of them.
RedistributionSource(kind) ==
    CASE kind = "static"    -> {"static", "blackhole"}
      [] kind = "connected" -> {"connected"}
      [] OTHER              -> {}

RedistributedFrom(g, n, redist) ==
    LET cs == Only(g.routes[n], LAMBDA c : c.kind \in RedistributionSource(redist.kind))
        rs == [i \in DOMAIN cs |-> BGPRoute(n, cs[i].prefix, Incomplete)]
        ok == Only(rs, LAMBDA r : PolicyAccepts(redist.policy, BindingAt(g, n, 0), r))
    IN  [i \in DOMAIN ok |-> PolicyRoute(redist.policy, BindingAt(g, n, 0), ok[i])]

RedistributedRoutes(g, n) ==
    FlattenSeq([i \in DOMAIN g.redistribute[n] |-> RedistributedFrom(g, n, g.redistribute[n][i])])

\* Phase 1 for all nodes, then phase 2.
ConfiguredSteps(g, n) == Step("add", n, ConfiguredRoutes(g, n))
AnnouncedSteps(g, n)  == AddAndWalk(n, NetworkRoutes(g, n))
                           \o Step("add", n, RedistributedRoutes(g, n))
                           \o Step("walk", n, RedistributedRoutes(g, n))

Origination(g) ==
    FlattenSeq([i \in DOMAIN NodeOrder |-> ConfiguredSteps(g, NodeOrder[i])])
      \o FlattenSeq([i \in DOMAIN NodeOrder |-> AnnouncedSteps(g, NodeOrder[i])])

AggregateSteps == [i \in DOMAIN NodeOrder |-> [op |-> "aggregate", node |-> NodeOrder[i]]]

Init ==
    /\ net \in Nets
    /\ rib = [s \in Node \X Prefix |-> <<>>]
    /\ todo = Origination(net)
    /\ stack = <<>>
    /\ phase = "originate"
    /\ round = 1
    /\ iter = 0

---------------------------------------------------------------------------
(***************************************************************************)
(* Origination and propagation.                                            *)
(***************************************************************************)
NextStep(op) == phase = "originate" /\ stack = <<>> /\ todo # <<>> /\ Head(todo).op = op

AddRoute ==
    /\ NextStep("add")
    /\ rib' = AddRIB(rib, Head(todo).node, Head(todo).route)
    /\ todo' = Tail(todo)
    /\ UNCHANGED <<net, stack, phase, round, iter>>

StartWalk ==
    /\ NextStep("walk")
    /\ stack' = <<Frame(Head(todo).route)>>
    /\ todo' = Tail(todo)
    /\ UNCHANGED <<net, rib, phase, round, iter>>

WalkRoute ==
    /\ stack # <<>>
    /\ Head(stack).peers # <<>>
    /\ LET r    == Head(stack).route
           m    == Last(r.path)
           n    == Head(Head(stack).peers)
           rest == <<[Head(stack) EXCEPT !.peers = Tail(@)]>> \o Tail(stack)
           adv  == Advertisement(m, n, ApplyAggregateSuppression(m, r))
       IN  \/ /\ adv = {}
              /\ stack' = rest
              /\ UNCHANGED rib
           \/ \E e \in adv :
              /\ rib' = AddRIB(rib, n, e)
              /\ stack' = IF RouteEligibleForAdvertisement(n, e)
                          THEN <<Frame(e)>> \o rest ELSE rest
    /\ UNCHANGED <<net, todo, phase, round, iter>>

ReturnFromWalk ==
    /\ stack # <<>>
    /\ Head(stack).peers = <<>>
    /\ stack' = Tail(stack)
    /\ UNCHANGED <<net, rib, todo, phase, round, iter>>

\* aggregateRoutes: all aggregates of the node, then their contributors made
\* exclusive with them; installation and propagation follow as steps.
AggregateRoute(n, c) ==
    Sourced(LocalRoute(n, c.prefix, "aggregate", Attributes(IGP, DefaultLocalPreference), 0,
                       AggregateContributorCond(rib, n, c.prefix)), c)

\* Mutant: the contributors stay available.
NoExclusion(n, cs) == rib

ExcludeAggregates(n, cs) ==
    [s \in DOMAIN rib |->
       LET nots == {Not(AggregateContributorCond(rib, n, c.prefix)) :
                      c \in {c \in ToSet(cs) : IsMoreSpecificWithin(s[2], c.prefix)}}
       IN  IF s[1] # n THEN rib[s]
           ELSE [i \in DOMAIN rib[s] |->
                   IF rib[s][i].kind = "aggregate" THEN rib[s][i]
                   ELSE [rib[s][i] EXCEPT !.base = AndAll({@} \cup nots),
                                          !.cond = AndAll({@} \cup nots)]]]

AggregateRoutes ==
    /\ NextStep("aggregate")
    /\ LET n  == Head(todo).node
           cs == Only(Aggregates(n), LAMBDA c : Contributors(rib, n, c.prefix) # {})
           rs == [i \in DOMAIN cs |-> AggregateRoute(n, cs[i])]
       IN  /\ rib' = ExcludeAggregates(n, cs)
           /\ todo' = AddAndWalk(n, rs) \o Tail(todo)
    /\ UNCHANGED <<net, stack, phase, round, iter>>

Originated ==
    /\ phase = "originate"
    /\ stack = <<>>
    /\ todo = <<>>
    /\ phase' = "select"
    /\ iter' = 0
    /\ UNCHANGED <<net, rib, todo, stack, round>>

---------------------------------------------------------------------------
(***************************************************************************)
(* Selection and convergence.                                              *)
(***************************************************************************)
SelectionFamily(r) ==
    CASE IsBGP(r) -> "bgp"
      [] r.kind = "ospf" -> "ospf"
      [] OTHER -> ""

SelectedCond(n, ranked, i) ==
    LET higher == {ranked[j].cond : j \in
                     {j \in 1..(i - 1) :
                        /\ RouteValidForRIB(n, ranked[j])
                        /\ SelectionFamily(ranked[j]) = SelectionFamily(ranked[i])
                        /\ ~Equivalent(net.kind[n], n, ranked[j], ranked[i])}}
    IN  CASE ~RouteValidForRIB(n, ranked[i]) -> FalseCond
          [] RouteValidForRIB(n, ranked[i]) /\ higher = {} -> ranked[i].cond
          [] OTHER -> And(ranked[i].cond, Not(OrAll(higher)))

SelectSlot(n, routes) ==
    LET ranked == RankRoutes(net.kind[n], n, routes)
    IN  [i \in DOMAIN ranked |-> [ranked[i] EXCEPT !.sel = SelectedCond(n, ranked, i)]]

MaxRouteDepth ==
    LET depths == UNION {{Len(rib[s][i].path) : i \in DOMAIN rib[s]} : s \in DOMAIN rib}
    IN  IF depths = {} THEN 0 ELSE Max(depths)

\* Mutant: one iteration is taken to be enough.
OneIteration == 1

MaxIterations == MaxRouteDepth + 1

\* SelectRoutes, then the loop condition of ConvergeAdvertisementConditions.
SelectRoutes ==
    /\ phase = "select"
    /\ rib' = [s \in DOMAIN rib |-> SelectSlot(s[1], rib[s])]
    /\ phase' = IF iter = MaxIterations THEN "error" ELSE "apply"
    /\ UNCHANGED <<net, todo, stack, round, iter>>

\* The indices of the routes of r's sender that r extends.
ParentIndices(r) ==
    {i \in DOMAIN rib[<<r.from, r.prefix>>] :
        /\ rib[<<r.from, r.prefix>>][i].kind = r.kind
        /\ rib[<<r.from, r.prefix>>][i].path = Front(r.path)}

\* Mutant: a parent is advertised whether or not it is selected.
ParentAvailable(r) == rib[<<r.from, r.prefix>>][Min(ParentIndices(r))].cond

\* A parent at its origin is advertised whether or not it is selected there.
ParentSelected(r) ==
    LET parent == rib[<<r.from, r.prefix>>][Min(ParentIndices(r))]
    IN  IF (Len(parent.path) = 1 /\ IsBGP(parent)) \/ parent.sel = NoCond
        THEN parent.cond ELSE parent.sel

AdvertisedCond(r) ==
    CASE r.kind = "ospf" \/ Len(r.path) = 1 -> r.base
      [] r.kind # "ospf" /\ Len(r.path) > 1 /\ ParentIndices(r) = {} -> FalseCond
      [] OTHER -> And(r.base, ParentSelected(r))

\* What ApplyAdvertisementConditions writes.  Only selected conditions and
\* the conditions of origin routes are read, and neither is written with
\* another value, so the map's iteration order does not matter.
Advertised ==
    [s \in DOMAIN rib |->
       [i \in DOMAIN rib[s] |-> [rib[s][i] EXCEPT !.cond = AdvertisedCond(rib[s][i])]]]

Changed(table) ==
    \E s \in DOMAIN rib : \E i \in DOMAIN rib[s] :
        /\ rib[s][i].kind # "ospf"
        /\ Key(rib[s][i].cond) # Key(table[s][i].cond)

ApplyAdvertisementConditions ==
    /\ phase = "apply"
    /\ Changed(Advertised)
    /\ rib' = Advertised
    /\ iter' = iter + 1
    /\ phase' = "select"
    /\ UNCHANGED <<net, todo, stack, round>>

\* Mutant: Simulate forgets that the aggregates have been added.
ConvergedAgain ==
    /\ phase = "apply"
    /\ ~Changed(Advertised)
    /\ rib' = Advertised
    /\ phase' = "originate"
    /\ todo' = AggregateSteps
    /\ UNCHANGED <<net, stack, round, iter>>

Converged ==
    /\ phase = "apply"
    /\ ~Changed(Advertised)
    /\ rib' = Advertised
    /\ IF round = 1
       THEN phase' = "originate" /\ round' = 2 /\ todo' = AggregateSteps
       ELSE phase' = "done" /\ UNCHANGED <<round, todo>>
    /\ UNCHANGED <<net, stack, iter>>

\* Simulate has returned.
Returned == phase \in {"done", "error"} /\ UNCHANGED vars

Next ==
    \/ AddRoute
    \/ StartWalk
    \/ WalkRoute
    \/ ReturnFromWalk
    \/ AggregateRoutes
    \/ Originated
    \/ SelectRoutes
    \/ ApplyAdvertisementConditions
    \/ Converged
    \/ Returned

Spec == Init /\ [][Next]_vars

\* Simulate is one sequential call that never blocks: as long as it has not
\* returned it takes another step.  Next is enabled in every such state, so
\* this is WF_vars(Next), spelled out to spare TLC the test of ENABLED.
Fairness == []<>(phase \in {"done", "error"}) \/ []<><<TRUE>>_vars

FairSpec == Spec /\ Fairness

---------------------------------------------------------------------------
(***************************************************************************)
(* Properties.                                                             *)
(***************************************************************************)
Entries(n, p) == ToSet(rib[<<n, p>>])

\* The nodes and links of a path are all up.
PathUp(w, path) ==
    /\ \A i \in DOMAIN path : NodeUp(w, path[i])
    /\ \A i \in 1..(Len(path) - 1) : LinkUp(w, {path[i], path[i + 1]})

(***************************************************************************)
(* The RIB seen as conditioned paths: protocol, policy and ranking gone.   *)
(***************************************************************************)
ConditionedPath(r) ==
    [key |-> RouteKey(r), path |-> r.path, base |-> r.base.holds,
     cond |-> r.cond.holds, sel |-> r.sel.holds]

PathsOf(table) == {ConditionedPath(r) : r \in UNION {ToSet(table[s]) : s \in DOMAIN table}}
InProgress(fs) == {[path |-> f.route.path, worlds |-> f.route.cond.holds] : f \in ToSet(fs)}

Paths == INSTANCE ConditionedPaths WITH routes <- PathsOf(rib), announced <- InProgress(stack)

\* Simulate implements ConditionedPaths: whatever policies, aggregates and
\* the two convergence rounds do, a new entry extends an announcement in
\* progress by one hop and holds in no world in which that hop or the
\* announcement is down, and recomputed conditions never gain a world.
ImplementsConditionedPaths == Paths!Spec

\* AS-loop paths (SR Linux) and BGP paths with unresolved next-hops (cEOS),
\* which stay in the RIB: a path through the device's own AS, and on cEOS one
\* whose next-hop is not the neighbour it came from.
Unusable(n, r) ==
    \/ net.asn[n] \in ToSet(r.attrs.asPath)
    \/ net.kind[n] = "ceos" /\ r.kind = "bgp" /\ r.nextHop \notin {0, AddressOnly, r.from}

(***************************************************************************)
(* What the symbolic result has to mean: in a given world w, the routes    *)
(* selected form a stable state of BGP run on the network as w leaves it.  *)
(* Sent(m, p, w) is what m announces: its selected routes and its own      *)
(* networks.  Heard is everything n then has to choose from, and Best what *)
(* the decision process keeps of it.                                       *)
(***************************************************************************)
Sent(m, p, w) ==
    {r \in Entries(m, p) : /\ IsBGP(r)
                           /\ \/ w \in r.sel.holds
                              \/ Len(r.path) = 1 /\ NodeUp(w, m)}

Heard(n, p, w) ==
    {r \in Entries(n, p) : IsBGP(r) /\ Len(r.path) = 1 /\ NodeUp(w, n)}
      \cup UNION {UNION {Advertisement(m, n, r) : r \in Sent(m, p, w)} :
                    m \in {m \in Node : {m, n} \in Links /\ LinkUp(w, {m, n})}}

Best(n, rs) ==
    {r \in rs : /\ ~Unusable(n, r)
                /\ \A q \in rs \ {r} :
                                 /\ ~Unusable(n, q)
                                 /\ Less(net.kind[n], n, q, r)
                                 => Equivalent(net.kind[n], n, q, r)}

\* The main claim of the engine: one symbolic run answers for every failure.
\* When Simulate returns without an error, then in each failure world the
\* routes whose SelectedCond holds are exactly the best usable ones of what
\* the neighbours announce in that world (networks without aggregates, whose
\* more-specific routes are deliberately made unavailable).
StableInEveryWorld ==
    phase = "done" /\ (\A n \in Node : Aggregates(n) = <<>>) =>
        \A w \in Worlds, n \in Node, p \in Prefix :
            {RouteKey(r) : r \in {r \in Entries(n, p) : IsBGP(r) /\ w \in r.sel.holds}}
              = {RouteKey(r) : r \in Best(n, Heard(n, p, w))}

\* The aggregates n is configured with that have contributors in its RIB.
ActiveAggregates(n) ==
    {a \in ToSet(Aggregates(n)) : \E p \in Prefix :
        <<p, a.prefix>> \in Within /\ \E r \in Entries(n, p) : r.kind # "aggregate"}

\* The comment in aggregateRoutes ("making the aggregate and individuals
\* mutually exclusive"): no failure lets a device select both its aggregate
\* and a more specific route that is not an aggregate.  And sim_test.go,
\* "summary-only aggregate should suppress active more-specific
\* advertisement": while a summary-only aggregate is available at n, no other
\* device has a more specific route that it learned through n.
AggregateExclusive ==
    phase = "done" =>
        \A n \in Node : \A a \in ActiveAggregates(n) :
            \A s \in Entries(n, a.prefix), p \in Prefix :
                s.kind = "aggregate" /\ s.origin = n /\ <<p, a.prefix>> \in Within =>
                    /\ \A r \in Entries(n, p) :
                         r.kind # "aggregate" => r.sel.holds \cap s.sel.holds = {}
                    /\ a.summaryOnly => \A m \in Node : \A q \in Entries(m, p) :
                         q.kind # "aggregate" /\ n \in ToSet(Front(q.path))
                         => q.cond.holds \cap s.cond.holds = {}

\* sim_test.go: "aggregate should exist with contributor present".  Whenever
\* for each contributing prefix the device has a usable path that the
\* failure leaves up, its aggregate is available.  It is not: the condition
\* asks for all candidates of a prefix to be selected, the primary path and the
\* backup that is selected only without it.
AggregateExistsWithContributors ==
    phase = "done" =>
        \A n \in Node : \A a \in ActiveAggregates(n) : \A w \in Worlds :
            (\A p \in Prefix :
                LET rs == {r \in Entries(n, p) : r.kind # "aggregate"}
                IN  <<p, a.prefix>> \in Within /\ rs # {} =>
                      \E r \in rs : RouteValidForRIB(n, r) /\ PathUp(w, r.path))
            => \E r \in Entries(n, a.prefix) :
                 r.kind = "aggregate" /\ r.origin = n /\ w \in r.cond.holds

\* Simulate does not give up: MaxRouteDepth()+1 iterations are enough for
\* the conditions to reach a fixed point, unless two neighbours prefer each
\* other's routes (then there are two stable states, and none is reached).
Prefers(x)   == \E rule \in ToSet(net.session[x].import) : rule.localPref # {}
NeverGivesUp ==
    phase = "error" => \E x \in DOMAIN net.session : Prefers(x) /\ Prefers(<<x[2], x[1]>>)

\* Simulate returns: propagation over a finite topology ends although
\* WalkRoute is recursive, and convergence is bounded.
SimulateReturns == <>(phase \in {"done", "error"})

===========================================================================
