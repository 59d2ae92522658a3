# Verification of hoyan-lab

This directory holds TLA+ models of hoyan-lab, the TLC configurations that
check them on small networks, and TLAPS proofs. `PROJECT.json` maps every
definition to the source lines it models and lists runs, mutants, findings,
hazards and theorems.

hoyan-lab predicts how a network of FRR, cEOS and SR Linux devices behaves under
failures. It does not simulate failure by failure. Every route carries
a *condition*, a Boolean formula over "link l is up" and "node n is up", and one
symbolic run is meant to answer for all failures at once. That claim is what the
core of this project is about.

## 1. Inventory

| Component | State | Operations | Interacts with | What makes it correct |
|---|---|---|---|---|
| Conditions (`domain/failure`) | none (immutable formulas) | And, Or, Not, Eval, SimplifyCond, ExpandLinkVars, NegatedLinkCount | everything; compared by `Key()` | every rewriting preserves the meaning in every failure world |
| BGP decision, policy, propagation (`domain/routing`) | none | Less, Equivalent, SelectRoutes, ApplyRoutePolicy, WalkRoute | called back by the engine (`PropagationContext`) | a route is available only where its path is up; loops end |
| Control-plane engine (`engine/controlplane`) | the RIB per node, instance, prefix | Simulate: connected and configured routes, BGP origination and propagation, OSPF candidates, selection, advertisement conditions, aggregates | topology index, device behaviours | in each failure world the selected routes are a stable BGP state |
| Data-plane engine (`engine/dataplane`) | the FIB | DeriveFIB, lookups, concrete and symbolic forwarding | the RIB | symbolic and concrete answers agree; the FIB follows the RIB |
| Simulation facade, racing (`engine/sim`) | both engines | queries, failure search, racing | solver back ends | a failure set reported refutes the query |
| Traffic (`engine/traffic`) | cache of distribution graphs | classify flows, build and traverse graphs, k-failure and what-if analysis, SimulateParallel | FIB | the parallel result is the sequential sum; loads are conserved |
| Solvers (`domain/solver`, `adapter/solver`) | none | satisfiability and optimal failure sets | conditions after ExpandLinkVars | complete up to the bound |
| OSPF (`engine/controlplane/ospf*.go`) | the routes it adds to the RIB | advertise, enumerate paths, install, redistribute | topology, other protocols' candidates | a shortest path of every failure is among the enumerated ones; areas get what their kind allows |
| Prefixes and header spaces (`domain/model`) | none | prefix sets, prefix universe, packet classes | RIB, FIB, filters | a class stands for everything in it |
| Intents (`usecase/intent`, `adapter/intentdsl`) | snapshots loaded | parse, expand, validate, evaluate | simulation, failure search | a verdict is what the text of the intent means |
| Observation (`domain/observation`, `usecase/collect`) | none | expected tables; compare RIB, FIB, snapshots | live collectors | no difference is masked, agreement is not reported as a difference |
| Live check (`usecase/livecheck`, `adapter/live`, `adapter/cli/labs.go`) | the lab's containers | build, deploy, wait, poll, compare, destroy; failure scenarios | containerlab, devices | a pass means the devices agree; labs are cleaned up; it ends |
| Parsers, CLI, files | none | text in, values out | | round trips |

Hard behaviours: mutual dependence of the conditions of all devices in the
convergence loop; recursion of WalkRoute without a visited set; comparison of
formulas by their normal form; ranking by a relation that is not an order;
paths pruned before a failure is known; where clauses kept in Go maps; goroutines around
two bounded channels; deadlines, retries, polls and partial failures of the live checks,
against devices that change while their tables are read. `hazards` in `PROJECT.json` names the lines.

## 2. Modules

| Module | Models |
|---|---|
| `Conditions` | formulas in normal form together with the worlds in which they hold |
| `ConditionAlgebra` | the recursive functions over formulas, and a caller of the API |
| `BGPDecision` | `less`, `Equivalent`, the vendor processes, the insertion sort behind `sort.Slice` |
| `RoutePolicy` | `ApplyRoutePolicy` |
| `ControlPlane` | `Engine.Simulate` as a state machine, with `WalkRoute`'s call stack |
| `DataPlane` | `DeriveFIB`, lookups, packet filters, the symbolic and the concrete packet walk |
| `ConditionedPaths` | abstract: routes are paths with conditions that only grow stronger |
| `ConditionedPathsProofs` | proof that such routes are covered by their paths |
| `ControlPlaneProofs` | proofs that `ControlPlane` implements `ConditionedPaths`, keeps aggregates exclusive, compares conditions soundly and ends in a fixed point |
| `DataPlaneProofs` | proofs that lookups are longest-prefix matches, that the FIB follows the RIB and that the symbolic walk agrees with the concrete one |
| `TrafficParallel`, `TrafficSum` | `SimulateParallel` and what it promises |
| `TrafficParallelProofs` | its inductive invariant and the refinement |
| `TrafficGraph` | `hoyan traffic what-if` and `kfail`: distribution graphs, their cache, pruning, traversal, the search for overloads |
| `TrafficGraphProofs` | proofs that the cache keeps the graphs of the intact network, and that the search finds smallest causes |
| `OSPF` | `installOSPFRoutesVRF`: adjacencies, advertisements, bounded path enumeration, area rules, redistribution |
| `PrefixSpace` | prefix sets, `BuildPrefixUniverse`, `BuildHeaderSpace` |
| `IntentLanguage` | what the parser, `Validate` and `Expand` make of the syntax tree of an intent |
| `IntentEval` | where clauses, guards, foralls, rib, diff and packet expressions, the failure search |
| `Intents` | `hoyan intent verify`, and what an intent means |
| `LiveCheck` | `hoyan labs check`, `livecheck.Run` and the containerlab runtime |
| `Observation` | the RIB the simulator expects, `CompareRoutes` |
| `FailureCheck` | `CompareRIBsWithFailures`, `WaitForMatchingRIBs`, the collectors' commands, `ExecJSON` |
| `LiveCheckProofs`, `FailureCheckProofs` | their inductive invariants and what follows from them |
| `SequenceFacts` | lemmas on sequences, filters, bounded induction and recursion |
| `MC*` | networks, failure worlds, flags for TLC |

**Conditions.** A condition is `[term, holds]`. `term` is what `Key()` compares:
`flattenAnd` and `flattenOr` sort and deduplicate their operands, so a set of
operands is the same thing. `holds` is the set of failure worlds in which `Eval`
is true. The engine's control flow looks at `term`, as the code does; properties
look at `holds`. `ConditionAlgebra` shows that the two agree.

**ControlPlane.** `rib` is `Engine.rib` with one network instance. `todo` is the
program of `Simulate`'s phases 1 and 2 (and 5), one entry per route to
install or to walk; `stack` is the recursion of `WalkRoute`: one step visits one
adjacency of the topmost route and does everything the loop body does. `SelectRoutes`,
`ApplyAdvertisementConditions` and `Converged` are the convergence loop, executed
once before and once after the aggregates. Nodes are numbers, in the order of
their names. Connected and blackhole routes, statics, network statements,
redistribution, aggregates, import and export policies, the
vendors' validity rules and AS-loop handling are modelled.

**RoutePolicy.** Rules match prefixes, next hops, AS paths and communities and set all
attributes, the next hop included. Prefix, next-hop and AS-path lists stand for the set they
permit (first match, ranges and patterns are abstracted to that set); a community list keeps
its permits and denies, since it judges a whole set of communities in their order. An
interface address is the pair of its node and the neighbour; all addresses of nobody's
interface are one value, `AddressOnly`.

**DataPlane** continues where `Simulate` returns. `DeriveFIB` sorts each slot by
administrative distance, drops routes whose selected condition was seen before and,
on FRR, routes equivalent to an installed one, and groups the rest. A query is
one call: `work` is the recursion of `symbolicForward`, one step per state it
visits; `paths` and `reasons` are its result. `PacketReachable` is the
concrete walk, a recursive function; since the origin of an address is looked
up in a Go map, it is a set of possible answers. The administrative distance is the
configured one or, if that is 0, that of the kind of route; entries carry the configured
interface, which is part of the key under which the RIB drops duplicates. An address is named by the longest
prefix around it, an interface by the neighbour it leads to. A query names
protocol and destination; sources, ports, ECMP weights and prefix classes are left
out. Link variables are not expanded here: `ConditionAlgebra` shows that this does
not change their meaning.

**ConditionedPaths** forgets protocol, policy and ranking. A new entry extends an
announcement by one hop and holds at most where the announcement, the link and
the node are up; conditions may be recomputed but never gain a world.

**TrafficParallel** has one action per channel or WaitGroup operation. The load
of a class is opaque: addition is commutative and associative also modulo 2^64,
so the total is determined by how often each class was added.

**TrafficGraph** has one action per simulation: the base case and the failed case of
`what-if` for each ingress, and for `kfail` the base case, each combination of
failures and the merging of an ingress's findings. FIBs are inputs. A graph is a sequence
of weighted edges in the order `BuildTDG` adds them, since `SetEdgeWeight` and the
breadth-first order depend on it; weights are exact fractions, and `Traverse` truncates
to whole bytes. A load belongs to a pair of nodes, the code's key `from->to`; a link of
the topology has a name of its own. That the loads of an ingress do not depend on
the order of the classes is what `ClassAssumption` is for: classes with one
`PrefixClassID` share a destination set, because the ID is an index into the prefix
universe.

**LiveCheck** has one action per external command, per poll and per table collected (RIB and,
with `checkFIB`, FIB of each device). Any command may fail; after the deadline it must.
`live` is the set of tables that match the model *now*: before and during a collection every
table may begin and cease to match at any moment, so devices flap, and a collection combines
tables of different moments. At other times nobody looks at the tables, and `live` does not
change. `shown` is a history variable: the
tables that matched at some moment since the current collection began. Errors of building
the model, the snapshot, deployment or waiting end one check and go through its report and
`--continue-on-error`; a topology that does not load ends the command.

**OSPF.** `PopPath` is one turn of the priority queue's loop; `frontier` and `out` are
the code's maps, `table` collects one enumeration per source and area (and one over
all areas). `InstallSource` installs the routes of one source. Costs, passive and
unnumbered interfaces, network statements, ABR rules, stub areas, NSSAs, default
origination and redistribution with filters, which may also set the MED that becomes
the external metric, are modelled for one network instance.

**PrefixSpace.** Addresses have `Width` bits instead of 32; every bound the code
computes from 32 is computed from it. Predicates and rules are collected in any order,
then `BuildPrefixUniverse` and `BuildHeaderSpace` are one action each. What the classes
mean is stated with sets of addresses and packets. The source of a packet is no
dimension of the code's classes: `headerPredicateMatchesClass` does not look at the source of
a rule, so a class lists a rule if the rule matches its packets from *some* source, and
`FiltersUniform` says that, not more.

**Intents.** A file is parsed declaration by declaration into what `intentdsl` produces:
where clauses become maps in which a later entry of a key replaces an earlier one,
foralls become conjunctions or row filters. Go visits a map in any order and
`matchWhere` returns from within the loop, so evaluation yields the *set* of outcomes that
some order gives. `Holds` is the meaning of the syntax tree; it knows nothing of maps,
rewriting or filters that are handed down. For packets the evaluation goes through the
symbolic condition of `symbolicForward`, with links expanded into their ends, and the
enumeration of failures behind `SolveSymbolic`; the meaning is the concrete walk in each
failure. The graphs have no filters or discard routes (those are `DataPlane`'s), and Z3's
answer is taken to be that of the enumeration. `Plain` says which intents are written
so that the two have to agree (section 6 lists what it excludes).

**Observation and FailureCheck.** `ExpectedRIB` is the table the simulator answers for
a node in a failure world, `CompareRoutes` the comparison with its options. The devices
are external: a device shows in the world it has converged to one path per
next hop and AS path, with its own spelling of the origin and routes the
simulator leaves out; `odd` makes one device differ from the model. One action
is one command on one device; any command may fail, after the deadline it must. On SR Linux
a failing or malformed answer is asked for again and, after three attempts, once with a
terminal if the session has one (`Terminals`; `DockerSession` always does, other executors
may not), while valid JSON that the collector does not understand ends the collection at once
(`ParseFails`).

## 3. Runs

| Run | Instance | Question |
|---|---|---|
| `control_plane` | 789 networks: 3 nodes in all 64 failure worlds, with every mix of device kinds, route-maps with every kind of match, redistribution, nested aggregates; rings and meshes of 4 nodes with up to 2 failures | is the symbolic result a stable state in each world? does it refine `ConditionedPaths`? are aggregates and more-specifics exclusive? does Simulate return, and when does it give up? |
| `ospf` | 165 networks of 4 nodes, up to 2 failures | do the enumerated paths contain a shortest one of every failure of nodes? are joined inter-area paths shortest? do stub areas and NSSAs get what they should? |
| `data_plane` | rings of 4 nodes, all device kinds, iBGP, static loops, a floating static, black holes, filters; 3 nested prefixes, aggregates; up to 2 failures | does lookup find the longest prefix and best group in every world? do the symbolic and the concrete walk agree, with reasons? does a selected route carry packets? |
| `functions` | 3-bit addresses, lists of predicates and rules, with sources and interfaces on both sides; conditions over 2 links and 3 nodes after 5 calls, all 32 worlds | do the classes partition the space, and is every predicate and rule constant on them? do the rewritings of conditions preserve their meaning? |
| `traffic_parallel` | 4 classes, 2 workers | all interleavings |
| `traffic_graph` | 5 nodes, 36 FIBs, 12 failures of links and nodes, 1 or 2 ingress nodes; up to 2 failures searched | is the cache reusable? does the search report what can be overloaded, with a smallest cause? is traffic conserved? |
| `intents` | 3 declarations over 3 devices and 2 snapshots, every form of expression | is the verdict what the text means, the same every time, and is every accepted document reported on? |
| `live_check` | 2 labs, 2 devices with RIB and FIB that change while they are read, 2 polls, all flags | does a pass rest on the last collection alone? verdicts, cleanup, termination |
| `failure_check` | 3 devices of different kinds, a link, a node or nothing fails, 2 polls | does a match mean agreement, and a converged lab a match? is packet loss taken away? is the reason of a failure that of the last poll? |
| `ospf_pruning`, `aggregate_backup`, `what_if_link` | a few networks each | disagreements, section 6 |

*Bounds.* Three nodes are the smallest networks with a backup path, a transit AS,
an iBGP pair and an AS loop; four nodes add dependencies that need several
iterations, and packets that take two different ways at one node. Two failures
break both ways. Four prefixes, of which three are nested, are what aggregates
of aggregates need; slots of prefixes that are not nested never interact. Four OSPF routers
give a backbone, two border routers and a router behind both; with eight paths per
destination the cap is never what loses a path. Three address bits have
prefixes at both ends of the space and neighbours that merge; three predicates or rules
meet in every way two boundaries can. Three declarations are an intent with a
variable and a scenario, or two intents. Two workers and four classes make the semaphore and
the result channel block and let workers be reused. Five nodes give a diamond with a
customer on each side, one shortcut and one loop; two classes of one ID make the
cache hit within a simulation, two ingress nodes across simulations. Two labs are needed for the
loop over labs, two devices for a collection that is not atomic, two polls for a
retry. Three devices have one of each kind, so that collections are interrupted between
commands and, on SR Linux, between prefixes; a prefix held by two devices and one held by
one show what merging their tables hides.

`functions` runs two modules side by side: a behaviour calls the functions on conditions or
builds classes, and the other module stays at its start, since they share no state.

*Deadlock* is checked everywhere.

*Fairness.* `SimulateReturns` assumes that Simulate, one sequential call, takes
its next step until it has returned (weak fairness of `Next`, written without
`ENABLED`, which is slow to evaluate here). `NoGoroutineLeak` assumes weak fairness for each goroutine: the Go
scheduler runs what is not blocked. `CheckReturns` assumes that an external command
ends (its context kills it at the deadline; `containerlab destroy`, which runs under
`context.Background()`, is assumed to end by itself) and that time passes; it
assumes nothing about the devices. When timer and deadline are both ready, Go's `select`
takes either; `SF_vars(TimesOut)` says that it does not take the timer for ever, which holds
with probability one and because the timer has to be waited for while the deadline stays
ready.

## 4. Proofs

All theorems hold for every value of the constants that satisfies the named
assumptions; TLC evaluates these on every instance.

*ConditionedPathsProofs.* `Covered` says that no route is available or selected
where its path is broken. The inductive invariant adds the same for the
announcements on WalkRoute's stack (a route's condition is inherited from the
announcement it extends) and for the base condition, to which the condition may
be reset in each iteration. The proof holds for any set of nodes and worlds.

*ControlPlaneProofs.* `SimulateImplements`: for every network, `Simulate` implements
`ConditionedPaths` under the refinement mapping the run checks. The abstract steps say
nothing of well-formed states, so the invariant `IInv` does: RIB slots are
sequences of routes that exist only where their node is up, the origination program
contains local routes that have not been selected, and each frame of WalkRoute's
stack holds a route that has not been selected either. One lemma per action shows
that the step keeps `IInv` and is an abstract step or a stutter; aggregates need the
first part (their condition is made from entries of the same node), ranking needs that the
insertion sort makes up no route. With `PathsCovered` it follows that in no failure world a
RIB holds, or a device selects, a path over something that is down (`NoBrokenPath`).
Assumptions: nodes are finitely many positive numbers, worlds fail nodes and links, and
`NetsAssumption`, the shape of a configuration.

Three invariants build on `IInv`. `AInv` proves `AggregatesExclusive`. An aggregate holds
where all selected contributors do, and its contributors are given the negation of that; but
the aggregate is then announced and recomputed while other nodes aggregate, so the invariant
follows the exclusion along every descendant of a route: what an entry is available or
selected in never exceeds what it had when it was made, contributors that appear between the
two rounds are themselves aggregates, and an announcement past a summary-only aggregate
carries the negation from the first hop on.
`KInv` says that the conditions of all routes (in the RIB, on the stack, in the
program) are built from a common set of terms closed under subterms, on which one function
maps each term to its worlds. Every operation (`AndAll`, `OrAll`, `Not`, the variables)
leads to a larger such set, because flattening and collapsing keep the meaning.
`KeysAreSound` follows: equal keys, equal worlds. This is what the engine relies on when it
compares keys instead of conditions, in `Changed`, in `Install` and in the test for FALSE.
`FInv` uses it: the convergence loop stops when no *key* changes, and `ReachesFixedPoint` says that
then no *world* changes: availability and selection satisfy the equations of
`AdvertisedCond` and `SelectedCond`. `SelectsEquivalent` is a consequence that needs no
transitive order: of two selected routes of a family the lower one is not suppressed by the
higher one, so they are equivalent.

*DataPlaneProofs.* `MatchesLongestPrefix` is `LongestPrefixMatch` for every network. What has
to be known of `DeriveFIB` is that it leaves the entries of a node sorted by prefix
length and rank (`FIBOK`), whatever the RIB: the stable sort is proved to sort by any strict
weak order. Candidates are suppressed by earlier entries of *another prefix or rank*, the
best group is defined by *length* and rank; that this is the same among entries around one
address is where `PrefixTreeAssumption` is used (prefixes around a common one are
nested, so two of one length are equal). The control plane's invariants are part of this
one (`DPInv`).

`FIBKeepsRoutes` is `FIBFollowsRIB`: `DPInv` also says that each FIB entry stands for a route
of the RIB, and that each route is installed, invalid, has the key of an installed
condition or (FRR) is equivalent to an installed one (`FollowsRIB`). An invalid route is selected
nowhere (`FInv`) and a key tells the worlds (`KInv`), so nothing selected is lost.

`WalkIsExact` and `ReasonsAreComplete` are `SymbolicMatchesConcrete` and `ReasonsExplain` for
every network, every number of nodes and every failure world, for destinations that one node
originates (`OneOriginOnly`; section 6 says what happens otherwise). First, the concrete walk is
a recursive function, and TLA+ guarantees nothing of one unless it is shown to
exist: `WalkUnfolds` does that by iterating the body, since each step leaves fewer nodes
unvisited. Then `WInv` is the invariant of the depth-first search: the packet is delivered in
world w exactly if a path found so far holds in w, or the walk in w reaches the destination
from a state still to be visited whose condition holds in w; and if it is not delivered, a
reason found so far has the kind of the outcome and holds in w, or such a state leads to that
outcome. `ForwardReaches` and `ForwardExplains` show that expanding a state keeps this: the
candidates that hold in w are the active ones, the first of them decides the outcome, and
each that is not forwarded leaves its own reason. The bound on hops is never reached before a
node repeats (`PathVisits`), and states dropped for a FALSE condition hold nowhere (`KInv`
extended to the conditions of the search).

*TrafficParallelProofs.* The invariant ties the counters to the goroutines: the
WaitGroup counts those that have not called Done, the semaphore those alive plus the
token the producer holds; a class's result is in the channel, or merged, or still to
be sent, exactly once. From it follow `TypeOK`, `NoSendOnClosed`,
`BoundedBySemaphore` and `EveryClassOnce`, and that each step is a step of
`TrafficSum` or a stutter, for every number of classes and workers (`N \in Nat`,
`Workers \in Nat \ {0}`).

*TrafficGraphProofs.* `CachePristine` compares an entry with the graph of *each* class
that has its key; it is inductive together with `net \in Nets`, which makes the
assumption apply. `GetOrBuild` stores the graph of some class with the
key, and `ClassAssumption` makes that the graph of all of them. No action
writes a pruned graph back: `ApplyFailure` returns a new value, as `cloneTDG` does.
`MinimumFound` is `FindsMinimum` for every topology, traffic and bound. Its invariant
`Searched` says that during the search the cache is what a fresh one would be, that
every link overloaded by a combination tried so far has exactly one finding, and that no
combination tried overloads it with fewer elements. Combinations are tried by size and,
within a size, in lexicographic order; the proof needs that no combination lies between
one and the next, and that each set of at most k elements is a combination
(`TopologyAssumption`: nodes are `1..N`, links are a sequence).

*LiveCheckProofs.* The invariant follows the containers (`ContainersTracked`: which labs
may be running at which step, and which were reached), the result of a check between
`Run` and its report (`Accounted`), and that what the collection under way found to match,
or would find now, matched at some moment since it began (`matched` and `live` lie in
`shown`). It implies `DestroyedUnlessWanted`, `OkMeansAllPassed` and, as
`PassesOnCurrentTables`, `PassIsCurrent`, for any number of labs, devices and polls. What a pass
does *not* mean is that all tables matched at one moment, or match now: collections are torn,
and the model has the behaviours in which they are.

*FailureCheckProofs.* The invariant records what a collection has gathered so far
(sequences of routes, per device and command), that a match was found by `CompareRoutes` on
the tables in hand, and where packet loss is set (`Impaired`). `MatchMeansAgreement` then is
a fact about `CompareRoutes`: the index keeps the last route of a key in the
concatenation of all tables, so a prefix one node alone holds is compared with that node's
route, on both sides. `LossRemoved` follows from the same invariant, and so does
`ReasonOfLastPoll` (`ReasonIsCurrent`): `lastErr` outlives its poll, so the invariant says at
each step of a poll whether it stands for a table of *this* poll that was not read. Assumptions: `ScenariosAssumption` (a scenario fails nothing, a
node, or a link with two ends, and has a nonempty list of active nodes) and
`PrefixOrderAssumption`.

*SequenceFacts* holds what these proofs have in common: `FlattenSeq` of any sequences,
filtering (which keeps elements and order), greatest elements, functions defined by
recursion up to a bound. The library's induction theorems take a predicate, which the
installed provers cannot instantiate; here induction is over a *set* (`Induction`,
`BoundedInduction`, from the least element of a set of numbers), and recursion over a function of
step and value (`BoundedRecursion`). So that they apply, the models write filters as
`Only` and loops as recursive functions.

*Only model-checked.* Liveness: `SimulateReturns`, `NoGoroutineLeak`, `CheckReturns`, the liveness
part of `ImplementsSum` (fairness is out of the prover's reach). `ConditionAlgebra`,
`IntentLanguage`, `IntentEval` and `Intents` (recursive operators). `StableInEveryWorld`,
`NeverGivesUp` and `RoutesCarryPackets` depend on the
network and are not true of all: `less` is not transitive when MEDs differ, a prefix that is both
announced and redistributed has two routes of one key of which the second is walked but not
stored (section 6). What is proved instead for
every network is the fixed point that the first of them starts from. `ConvergedPasses`: true of the
devices in the instance (their spelling of a route is an input). `OSPF` (optimality of
enumerated paths, by induction over graphs); `PrefixSpace` (the provers know nothing of
`2^k`); `TrafficConserved` (sums over sets).

## 5. What is not modelled

- Several network instances (VRFs); failure-bounded pruning during propagation.
- Route racing: `RacingPropagate` announces every BGP entry again without the eligibility
  check, which is what ends `WalkRoute` where SR Linux keeps looped routes.
- OSPF helpers only tests use (`ShortestPathTree`, `RepresentativePath`, `SPFCondition`).
- ECMP weights and queries for prefix classes in the data plane.
- Flow classification, the ECMP hash, traffic snapshots and their differences: no
  command uses the first two, the others are file handling.
- Intents: tokens and syntax errors, patterns (`matches`), BGP attributes other than
  communities, next hop and weight, racing intents, unresolved lab directories.
- Comparison of FIBs and of whole snapshots; `LiveCheck` abstracts a comparison to
  whether a device shows what the model expects.
- Parsers of configurations and vendor output, CLI rendering and file formats: sequential
  text processing without state worth a model.

## 6. Disagreements found

Three are shown by runs that expect a violation.

1. *Dominated OSPF paths* (`ospf_pruning`). A path to a transit node is pruned when
   another one is cheaper and visits a subset of its nodes. The other one may use a
   link the pruned one does not; when that link fails, what lies behind the transit node
   has no path. The comment of `frontierDominates` says that pruning misses no destination
   candidate. As long as only nodes fail it does not (`NodeFailuresCovered`).
2. *Failed links in traffic analysis* (`what_if_link`). `ApplyFailure` compares names
   of failed links with `from->to` keys. Links named as in the labs match nothing:
   `--fail-link` changes no load, and `kfail` tries link failures without effect.
3. *Aggregates with a backup* (`aggregate_backup`). `aggregateContributorCond` conjoins the
   selected conditions of all candidates of a contributing prefix. Those of a primary and its
   backup exclude each other, so with a backup path (or with an AS-loop copy on SR Linux)
   the aggregate exists in no world, also in the one without failures, although
   sim_test.go:261 expects it "with contributor present".

The others were met while modelling; the properties exclude the case or are stated so
that they hold of what the code does.

*Control plane.* README.md:405 of the
repository says the default compares MED across neighbouring ASNs; the default options do
not, which makes `less` intransitive: with a route of another AS between two of one AS, the
higher MED of the two can be selected. With local preferences that pull against the path
length, Simulate often ends in "did not converge" (of 384 four-node networks with one pair
of preferences, 211), in two ring networks although only the form of the conditions still
changes. Whenever it returned without an error the result was stable in every world.

*Data plane.* The symbolic walk compares prefixes by overlap, the concrete one by address
and exact prefix: a node that originates a part of the destination's prefix counts as
the destination for the former only, a mismatch parity_test.go:24 would report
(`SymbolicMatchesConcrete` and `ReasonsExplain` are about prefixes that are not nested).
`originForIPVRF` takes the first origin of an address it meets in a Go map, and
a packet is lost if that node is down even when another origin is up; the runs use one
origin per prefix. FRR keeps one of several equivalent routes in the FIB once and for all, so
in a world in which the kept route is down and its equivalent is up the RIB has a route
and the FIB has none (excluded in `FIBFollowsRIB` and `RoutesCarryPackets`; README.md:262 of the
repository announces the single route, not the consequence).

*Packet classes.* A packet whose protocol or port no rule mentions is in no class while
another rule mentions one; overlapping port sets give overlapping classes; without
filter rules there are no packet classes. Rules that differ in their source only are listed by the
same classes, so a class does not tell which of them applies to a packet.

*Traffic.* `SetEdgeWeight` updates only the first of several parallel edges, so rebalancing loses part
of the share of the others (`TrafficConserved` excludes this). `TopologicalOrder` is a breadth-first order, and `Traverse`
pushes each node's load once, at its place in it: where node 1 balances over 2 and 3 and node
3 sends through 2, what reaches 2 over 3 comes after its turn and goes no further. tdg.go:186
says that the order is topological; `TrafficConserved` is about the graphs for which it is
(`OrderIsTopological`). A failed case reuses the FIB
of the intact network: traffic whose next-hops have all failed ends there, also where the
control plane has a backup. `fibTableFromGraph` drops black holes, and their traffic
follows a shorter prefix instead.

*Intents.* `matchesPrefix` looks at the
address of a route and not at its length: `prefix = 10.0.0.0/24` selects the route to
10.0.0.0/8, where where_match.go:345 and docs/rcl-syntax.md:200 say equal or within
(`VerdictsAgree` is about tables without such routes, `NoShorterPrefix`). An `if` beside other
predicates ends `matchWhere`'s loop, so the others count or not depending on the order Go
visits the map in, where docs/rcl-syntax.md:191 and where_match.go:76 promise a conjunction
(`Plain` and `VerdictsRepeat` exclude it). Two `!=`
share the key `not`, and the first is lost. A guard or forall overwrites the filter of
an enclosing one with the same key. A forall over one value becomes a conjunction of one,
which `Validate` rejects; `forall x in []` ranges over all values; a list-valued variable in
`device = $edges` matches every row; a `let` after a forall is not seen by it; the `where`
of a `rib` inside the block of another is lost; `distCnt == [2]` compares with 0; keys that are
not known (the documented `local_pref` is one) are errors at evaluation only. `not` and `if`
turn evaluation errors of their operand into a pass. An
intent without a scenario is evaluated in "normal", which validation does not look up.

*Live checks.* `Start` may fail after `Deploy`, before the deferred `Stop` is
registered, and the lab is left running, although labs.go:102 makes that an option
(`DestroyedUnlessWanted` excludes it). `Inject` sets loss on one endpoint, then on the
other; when the second command fails, `Cleanup` is not deferred yet and the first endpoint
stays impaired (`LossRemoved` is about injections that succeeded). A stopped node is never
started again. A topology that does not load ends `labs check` even with
`--continue-on-error`, and the summary of earlier failures is lost.

*Comparison.* `collectRIBRoutes` concatenates the tables of all nodes and `CompareRoutes`
keys them by protocol and prefix: of the nodes that hold a prefix one is compared, so a
check may match although the table of another differs (`MatchMeansAgreement` is about
prefixes that one node alone holds). Options that only allow extra prefixes or paths are
replaced as a whole by `fillCompareDefaults`. Comparing peers never matches the simulator, which
knows none, and two live paths that differ in their peer only are a conflict. Routes are
sorted by an unstable sort, so with more than 12 of them which route of a key is compared is
not determined.

## 7. Plan

1. Done: conditions, decision process, policies, control plane, abstract paths, OSPF, data
   plane, prefix and packet classes, parallel traffic simulation, what-if and k-failure
   analysis, intents, live check, expected tables and their comparison, failure scenarios.
2. Proofs, done: the theorems of section 4. Next: `StableInEveryWorld` for networks whose
   candidates the decision process orders transitively (that propagation is complete, and
   that ranking sorts); that `OSPF`'s recorded paths are simple and cost what their links
   cost.
3. Models, later: racing as an extension of `ControlPlane`, several network instances,
   ECMP weights and queries for prefix classes, the comparison of FIBs and snapshots.
