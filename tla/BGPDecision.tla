--------------------------- MODULE BGPDecision ----------------------------
(***************************************************************************)
(* The BGP decision process of internal/domain/routing/bgp: the order in   *)
(* which a device prefers the candidate routes of one prefix, which of     *)
(* them it treats as equivalent, and the sort that ranks them.             *)
(*                                                                         *)
(* A node is a natural number that stands for its name, in the names'      *)
(* lexical order (no name a prefix of another), so comparing two joined    *)
(* paths is comparing the sequences.  Origin codes are their rank: 0 IGP,  *)
(* 1 EGP, 2 incomplete, 3 unknown.  originator = 0 is an empty             *)
(* originator-id, cluster is the length of the cluster list.               *)
(***************************************************************************)
EXTENDS Naturals, SequencesExt

\* NormalizeBGPOriginCode and OriginCodeRank.
IGP        == 0
EGP        == 1
Incomplete == 2

DefaultDecisionOptions ==
    [alwaysCompareMED |-> FALSE, deterministicMED |-> FALSE,
     compareRouterID |-> FALSE, preferLowerRouterID |-> TRUE]

NeighboringAS(asPath) == IF asPath = <<>> THEN 0 ELSE Head(asPath)

ShouldCompareMED(a, b, opts) ==
    \/ ~opts.deterministicMED /\ opts.alwaysCompareMED
    \/ NeighboringAS(a.attrs.asPath) = NeighboringAS(b.attrs.asPath)

OspfRouteTypeRank(type) ==
    CASE type \in {"", "intra-area"} -> 0
      [] type = "inter-area"         -> 1
      [] type = "external-type-1"    -> 2
      [] type = "external-type-2"    -> 3
      [] OTHER                       -> 4

\* PathLinks grows with PathNodes: one link per hop.
PathLength(r) == Len(r.path) - 1

\* s sorts before t as a sequence of names.
LexLess(s, t) ==
    \E i \in 1..Len(t) :
        /\ \A j \in 1..(i - 1) : j <= Len(s) /\ s[j] = t[j]
        /\ i > Len(s) \/ (i <= Len(s) /\ s[i] < t[i])

PathTie(a, b, reverse) ==
    IF reverse THEN LexLess(b.path, a.path) ELSE LexLess(a.path, b.path)

LessOSPF(a, b, reverse) ==
    IF OspfRouteTypeRank(a.ospfType) # OspfRouteTypeRank(b.ospfType)
      THEN OspfRouteTypeRank(a.ospfType) < OspfRouteTypeRank(b.ospfType)
    ELSE IF a.metric # b.metric THEN a.metric < b.metric
    ELSE IF PathLength(a) # PathLength(b) THEN PathLength(a) < PathLength(b)
    ELSE PathTie(a, b, reverse)

\* The steps from the originator-id on only break ties.
LessTie(a, b, opts, reverse) ==
    IF /\ a.attrs.originator # 0
       /\ b.attrs.originator # 0
       /\ a.attrs.originator # b.attrs.originator
      THEN IF opts.preferLowerRouterID
             THEN a.attrs.originator < b.attrs.originator
             ELSE b.attrs.originator < a.attrs.originator
    ELSE IF opts.compareRouterID /\ a.from # b.from
      THEN IF opts.preferLowerRouterID THEN a.from < b.from
                                       ELSE a.from > b.from
    ELSE IF PathLength(a) # PathLength(b) THEN PathLength(a) < PathLength(b)
    ELSE PathTie(a, b, reverse)

LessBGP(n, a, b, opts, reverse) ==
    LET x == a.attrs
        y == b.attrs
    IN  IF x.weight # y.weight THEN x.weight > y.weight
        ELSE IF x.localPref # y.localPref THEN x.localPref > y.localPref
        ELSE IF a.origin = n \/ b.origin = n THEN a.origin = n
        ELSE IF Len(x.asPath) # Len(y.asPath) THEN Len(x.asPath) < Len(y.asPath)
        ELSE IF x.originCode # y.originCode THEN x.originCode < y.originCode
        ELSE IF ShouldCompareMED(a, b, opts) /\ x.med # y.med THEN x.med < y.med
        ELSE IF x.learnedIBGP # y.learnedIBGP THEN ~x.learnedIBGP
        ELSE IF a.igpCost # b.igpCost THEN a.igpCost < b.igpCost
        ELSE IF x.cluster # y.cluster THEN x.cluster < y.cluster
        ELSE LessTie(a, b, opts, reverse)

LessWith(n, a, b, opts, reverse) ==
    IF a.kind = "ospf" /\ b.kind = "ospf"
      THEN LessOSPF(a, b, reverse)
      ELSE LessBGP(n, a, b, opts, reverse)

EquivalentWith(n, a, b, opts) ==
    IF a.kind = "ospf" \/ b.kind = "ospf"
    THEN /\ a.kind = b.kind
         /\ a.ospfType = b.ospfType
         /\ a.metric = b.metric
    ELSE /\ a.attrs.weight = b.attrs.weight
         /\ a.attrs.localPref = b.attrs.localPref
         /\ (a.origin = n) <=> (b.origin = n)
         /\ Len(a.attrs.asPath) = Len(b.attrs.asPath)
         /\ a.attrs.originCode = b.attrs.originCode
         /\ ShouldCompareMED(a, b, opts) => a.attrs.med = b.attrs.med
         /\ a.igpCost = b.igpCost
         /\ a.attrs.learnedIBGP = b.attrs.learnedIBGP

(***************************************************************************)
(* The processes the registry installs per device kind, all with the       *)
(* default options: FRR reverses the lexical tie-break, cEOS and SR Linux  *)
(* never treat two routes as equivalent, any other kind is generic.        *)
(***************************************************************************)
Less(kind, n, a, b) ==
    LessWith(n, a, b, DefaultDecisionOptions, kind = "frr")

Equivalent(kind, n, a, b) ==
    /\ kind \notin {"ceos", "srlinux"}
    /\ EquivalentWith(n, a, b, DefaultDecisionOptions)

(***************************************************************************)
(* sort.Slice on at most 12 elements is an insertion sort: the next        *)
(* element moves left past every neighbour it is less than.                *)
(***************************************************************************)
InsertRanked(kind, n, out, r) ==
    LET stops == {i \in 1..Len(out) : ~Less(kind, n, r, out[i])}
    IN  InsertAt(out, IF stops = {} THEN 1 ELSE Max(stops) + 1, r)

RankRoutes(kind, n, routes) ==
    LET ranked[i \in 0..Len(routes)] ==
            IF i = 0 THEN <<>> ELSE InsertRanked(kind, n, ranked[i - 1], routes[i])
    IN  ranked[Len(routes)]

===========================================================================
