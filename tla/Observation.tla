---------------------------- MODULE Observation ----------------------------
(***************************************************************************)
(* Routing tables as collectors report them, and their comparison.         *)
(*                                                                         *)
(* A table is a sequence of routes; a route has the paths of its protocol. *)
(* ExpectedRIB is the table the simulator answers for a node in a failure  *)
(* world, CompareRoutes what a live table is held against.  Routes are of  *)
(* one address family and one VRF.                                         *)
(*                                                                         *)
(* The code sorts tables by key before it indexes them by key.  Sorting is *)
(* left out: the index keeps the last route of a key, and Go's sort is an  *)
(* insertion sort for up to 12 routes, which keeps the order of equal      *)
(* keys.                                                                   *)
(***************************************************************************)
EXTENDS Integers, Sequences, SequencesExt

CONSTANTS
    Node,           \* the devices
    DeviceKind,     \* [Node -> {"frr", "ceos", "srlinux"}]
    PrefixOrder,    \* the prefixes, in the order of the simulator's table
    FailedNodes,    \* the nodes that are down in each failure world
    PeerAddress     \* [Node \X Node -> address]: how a node addresses a
                    \* neighbour; the neighbour itself when there is no link

ASSUME PrefixOrderAssumption == PrefixOrder \in Seq(Range(PrefixOrder))

NoAddress == ""

(***************************************************************************)
(* The simulator as a collector.  An entry of its table holds in the       *)
(* worlds entry.cond and is selected in entry.sel.                         *)
(***************************************************************************)

\* The first hop of the path beyond the next hop that has an address for it.
AddressOnPath(entry) ==
    LET at(i)   == entry.path[i] = entry.via /\ PeerAddress[entry.path[i + 1], entry.via] # entry.via
        found   == {i \in 1..(Len(entry.path) - 1) : at(i)}
    IN  IF found = {} THEN entry.via
        ELSE PeerAddress[entry.path[1 + CHOOSE i \in found : \A j \in found : i <= j], entry.via]

RouteNextHopAddress(n, entry) ==
    IF entry.addr # NoAddress \/ entry.via = NoAddress THEN entry.addr
    ELSE IF PeerAddress[n, entry.via] # entry.via THEN PeerAddress[n, entry.via]
    ELSE AddressOnPath(entry)

\* OSPF routes of the node itself are shown by FRR only.
RouteComparableInLiveRIB(n, entry) ==
    \/ entry.kind \in {"bgp", "aggregate", "blackhole"}
    \/ entry.kind = "connected" /\ entry.class \in {"link", "loopback", "service"}
    \/ entry.kind = "static" /\ entry.nextHop # NoAddress
    \/ entry.kind = "ospf" /\ IF entry.origin = n THEN DeviceKind[n] = "frr" ELSE entry.via # NoAddress

\* The groups of one prefix, in the order of routeGroupSortKey.
GroupOrder ==
    << <<"bgp", "">>,
       <<"ospf", "external_type_1">>, <<"ospf", "external_type_2">>,
       <<"ospf", "inter_area">>, <<"ospf", "intra_area">>, <<"ospf", "unknown">>,
       <<"connected", "">>, <<"static", "">>, <<"blackhole", "">> >>

ExpectedRouteGroup(entry) ==
    IF entry.kind = "ospf" THEN <<"ospf", entry.ospfType>>
    ELSE IF entry.kind \in {"connected", "static", "blackhole"} THEN <<entry.kind, "">>
    ELSE <<"bgp", "">>

\* The entries of a node that count in world w.
Visible(n, entries, w) ==
    SelectSeq(entries, LAMBDA entry :
        /\ w \in entry.cond
        /\ entry.kind = "ospf" /\ entry.origin # n => w \in entry.sel
        /\ RouteComparableInLiveRIB(n, entry))

DefaultLocalPref(v) == IF v = 0 THEN 100 ELSE v

ExpectedBGPPath(n, entry, w) ==
    [best |-> w \in entry.sel, valid |-> entry.valid, hop |-> RouteNextHopAddress(n, entry),
     asPath |-> entry.asPath, code |-> IF entry.code = "" THEN "igp" ELSE entry.code,
     localPref |-> DefaultLocalPref(entry.localPref), med |-> entry.med, comms |-> {}, peer |-> ""]

Paths(n, group, entries, w) ==
    LET hops == [i \in 1..Len(entries) |-> RouteNextHopAddress(n, entries[i])]
    IN  CASE group[1] = "bgp"    -> [i \in 1..Len(entries) |-> ExpectedBGPPath(n, entries[i], w)]
          [] group[1] = "ospf"   -> [i \in 1..Len(entries) |-> [hop |-> hops[i], cost |-> entries[i].med]]
          [] group[1] = "static" -> SelectSeq(hops, LAMBDA hop : hop # NoAddress)
          [] OTHER               -> <<>>

ExpectedRIBRoute(n, prefix, group, entries, w) ==
    [prefix   |-> prefix,
     protocol |-> group[1],
     eligible |-> \E i \in 1..Len(entries) : entries[i].valid,
     best     |-> \E i \in 1..Len(entries) : w \in entries[i].sel,
     paths    |-> Paths(n, group, entries, w)]

OfGroup(entries, prefix, group) ==
    SelectSeq(entries, LAMBDA entry : entry.prefix = prefix /\ ExpectedRouteGroup(entry) = group)

\* The route of a group, if it has entries.
GroupRoutes(n, prefix, group, held, w) ==
    IF OfGroup(held, prefix, group) = <<>> THEN <<>>
    ELSE <<ExpectedRIBRoute(n, prefix, group, OfGroup(held, prefix, group), w)>>

\* The simulator's table of node n in world w; a failed node has none.
ExpectedRIB(n, entries, w) ==
    IF n \in FailedNodes[w] THEN <<>>
    ELSE LET held == Visible(n, entries, w)
         IN  FlattenSeq([i \in 1..Len(PrefixOrder) |->
                 FlattenSeq([j \in 1..Len(GroupOrder) |->
                     GroupRoutes(n, PrefixOrder[i], GroupOrder[j], held, w)])])

(***************************************************************************)
(* Comparison.  Options are the attributes compared and what may be extra. *)
(***************************************************************************)

DefaultCompareOptions ==
    [fields |-> {"best", "valid", "hop", "asPath", "code", "localPref", "med"},
     extraPrefixes |-> FALSE, extraPaths |-> FALSE]

\* Options that name no attribute are replaced as a whole.
FillCompareDefaults(opts) == IF opts.fields = {} THEN DefaultCompareOptions ELSE opts

NormalizeOrigin(code) ==
    CASE code \in {"", "i", "igp"}        -> "igp"
      [] code \in {"e", "egp"}            -> "egp"
      [] code \in {"?", "incomplete"}     -> "incomplete"
      [] OTHER                            -> code

\* What a path of another protocol is compared as.
Plain(hop, med) ==
    [best |-> TRUE, valid |-> TRUE, hop |-> hop, asPath |-> <<>>, code |-> "igp",
     localPref |-> 100, med |-> med, comms |-> {}, peer |-> ""]

ComparablePaths(route) ==
    LET paths == route.paths
    IN  CASE route.protocol = "bgp"  -> [i \in 1..Len(paths) |-> [paths[i] EXCEPT !.code = NormalizeOrigin(@)]]
          [] route.protocol = "ospf" -> [i \in 1..Len(paths) |-> Plain(paths[i].hop, paths[i].cost)]
          [] route.protocol = "static" ->
                IF paths = <<>> THEN <<Plain(NoAddress, 0)>>
                ELSE [i \in 1..Len(paths) |-> Plain(paths[i], 0)]
          [] OTHER -> <<[Plain(NoAddress, 0) EXCEPT !.best = route.best, !.valid = route.eligible]>>

RouteKey(route) == <<route.protocol, route.prefix>>

\* indexByValue: a later route of a key replaces an earlier one.
RouteIndex(routes) ==
    LET last(key) == CHOOSE i \in 1..Len(routes) :
                        RouteKey(routes[i]) = key
                        /\ \A j \in (i + 1)..Len(routes) : RouteKey(routes[j]) # key
    IN  [key \in {RouteKey(routes[i]) : i \in 1..Len(routes)} |-> routes[last(key)]]

\* Next hop and AS path identify a path; the peer does when it is compared.
PathKey(path, opts) ==
    <<path.hop, path.asPath, IF "peer" \in opts.fields THEN path.peer ELSE "">>

\* Without leaving the state of a path out.
SamePath(p, q) == p = q

SamePathAttributes(p, q) == [p EXCEPT !.best = q.best, !.valid = q.valid] = q

\* buildPathIndex: paths of one key are one path when they differ in their
\* state only, else they are a conflict and the key is left out.
PathIndex(paths, opts) ==
    LET keys      == {PathKey(paths[i], opts) : i \in 1..Len(paths)}
        of(k)     == SelectSeq(paths, LAMBDA p : PathKey(p, opts) = k)
        conflicts == {k \in keys : \E i \in 1..Len(of(k)) : ~SamePathAttributes(of(k)[1], of(k)[i])}
        merged(k) == [of(k)[1] EXCEPT !.best  = \E i \in 1..Len(of(k)) : of(k)[i].best,
                                      !.valid = \E i \in 1..Len(of(k)) : of(k)[i].valid]
    IN  [index |-> [k \in keys \ conflicts |-> merged(k)], conflicts |-> conflicts]

\* Comparing the attributes of expected best paths only.
ComparePathsBest(expected, actual, opts) ==
    LET e == PathIndex(expected, opts)
        a == PathIndex(actual, opts)
        common == {k \in DOMAIN e.index \cap DOMAIN a.index : e.index[k].best}
    IN  [missing    |-> DOMAIN e.index \ DOMAIN a.index,
         unexpected |-> IF opts.extraPaths THEN {} ELSE DOMAIN a.index \ DOMAIN e.index,
         mismatched |-> {d \in common \X opts.fields : e.index[d[1]][d[2]] # a.index[d[1]][d[2]]},
         conflicts  |-> (e.conflicts \X {"expected"}) \cup (a.conflicts \X {"actual"})]

\* The differences between the paths of two routes.
ComparePaths(expected, actual, opts) ==
    LET e == PathIndex(expected, opts)
        a == PathIndex(actual, opts)
        common == DOMAIN e.index \cap DOMAIN a.index
    IN  [missing    |-> DOMAIN e.index \ DOMAIN a.index,
         unexpected |-> IF opts.extraPaths THEN {} ELSE DOMAIN a.index \ DOMAIN e.index,
         mismatched |-> {d \in common \X opts.fields : e.index[d[1]][d[2]] # a.index[d[1]][d[2]]},
         conflicts  |-> (e.conflicts \X {"expected"}) \cup (a.conflicts \X {"actual"})]

NoDiff(paths) ==
    paths.missing = {} /\ paths.unexpected = {} /\ paths.mismatched = {} /\ paths.conflicts = {}

\* compareRIBRoutes with routeKey.  A live route of another protocol than
\* BGP that is not expected is no difference.
CompareRoutes(expected, actual, options) ==
    LET opts   == FillCompareDefaults(options)
        e      == RouteIndex(expected)
        a      == RouteIndex(actual)
        common == DOMAIN e \cap DOMAIN a
        paths  == [k \in common |-> ComparePaths(ComparablePaths(e[k]), ComparablePaths(a[k]), opts)]
        missing    == DOMAIN e \ DOMAIN a
        unexpected == {k \in DOMAIN a \ DOMAIN e : a[k].protocol = "bgp" /\ ~opts.extraPrefixes}
    IN  [missingPrefixes |-> missing, unexpectedPrefixes |-> unexpected, paths |-> paths,
         ok |-> missing = {} /\ unexpected = {} /\ \A k \in common : NoDiff(paths[k])]

\* The routes of BGP, and those of the other protocols.
BGPOnly(routes) ==
    FlattenSeq([i \in 1..Len(routes) |-> IF routes[i].protocol = "bgp" THEN <<routes[i]>> ELSE <<>>])
OtherThanBGP(routes) ==
    FlattenSeq([i \in 1..Len(routes) |-> IF routes[i].protocol = "bgp" THEN <<>> ELSE <<routes[i]>>])

=============================================================================
