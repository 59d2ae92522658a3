----------------------------- MODULE IntentEval ---------------------------
(***************************************************************************)
(* The evaluation of an intent: internal/usecase/intent (where_match.go,   *)
(* guard_forall.go, rib_eval.go, rcl_eval.go, packet_eval.go) and the      *)
(* failure search it calls (sim.FindBreakingFailuresSymbolic and the       *)
(* solver behind it).                                                      *)
(*                                                                         *)
(* A where map is a Go map, whose entries are visited in any order, and    *)
(* evaluation returns from within the loop.  Evaluating therefore yields   *)
(* the set of outcomes that some order gives.                              *)
(***************************************************************************)
EXTENDS IntentLanguage

CONSTANTS Snapshots,    \* snapshot -> the rows of its RIBs, in order
          Devices,      \* the nodes of every snapshot, in order
          PrefixOf,     \* prefix as written -> [addr, bits]
          Width,        \* bits of an address
          PartOf,       \* <<a, b>>: the text of address a is part of that of b
          Ends,         \* link -> the nodes at its ends
          Graphs        \* snapshot -> [owner, fib]: owner[to] is the node that has the
                        \* destination, fib[<<node, to>>] the FIB entries for it, in order,
                        \* [needs, group, nextHop, link]

(***************************************************************************)
(* where_match.go: one key of a where map against a row.  A value of the   *)
(* wrong type lets every row pass.                                         *)
(***************************************************************************)
ValidWhereKeys ==
    {"device", "node", "device_in", "vrf", "protocol", "prefix", "prefix_within", "selected", "communities",
     "nexthop", "weight", "not", "and", "or", "imply"}

Covers(p, a) == a \div 2^(Width - p.bits) = p.addr \div 2^(Width - p.bits)

\* Whether the address of the row's prefix is inside; lengths do not matter.
MatchesPrefix(name, v) ==
    IF {name, v} \subseteq DOMAIN PrefixOf THEN Covers(PrefixOf[v], PrefixOf[name].addr) ELSE name = v

PrefixWithin(name, v) ==
    /\ {name, v} \subseteq DOMAIN PrefixOf
    /\ Covers(PrefixOf[v], PrefixOf[name].addr)
    /\ PrefixOf[name].bits >= PrefixOf[v].bits

\* Mutant: a match returns from the loop.
CheckReturns(typed, ok) == IF ~typed THEN "next" ELSE IF ok THEN "yes" ELSE "no"

Check(typed, ok) == IF typed /\ ~ok THEN "no" ELSE "next"

\* An entry written with contains or matches is a map, and has no such type.
Typed(e, t) == e.op = "=" /\ e.val.t = t

\* extractNextHops: the addresses as one string.
ExtractNextHops(row) == FoldLeft(LAMBDA out, a : IF out = "" THEN a ELSE out \o "," \o a, "", row.nexthops)

\* An address is looked for in that string, where it may be part of another.
NextHopContains(row, v) == \E i \in DOMAIN row.nexthops : row.nexthops[i] = v \/ <<v, row.nexthops[i]>> \in PartOf

\* The keys of the BGP attributes; the others are read like the weight.
\* Patterns are left out.
AttributeMatches(row, key, e) ==
    CASE key = "communities" -> Check(e.op = "contains", e.val.s \in row.communities)
      [] key = "nexthop"     -> Check(e.val.t = "str", NextHopContains(row, e.val.s))
      [] key = "weight"      -> Check(TRUE, e.op = "=" /\ row.weight = e.val.s)

Atom(row, key, e) ==
    CASE key \notin ValidWhereKeys -> "error"
      [] key \in {"device", "node"} -> Check(Typed(e, "str"), row.device = e.val.s)
      [] key \in {"vrf", "protocol"} -> Check(Typed(e, "str"), row[key] = e.val.s)
      [] key = "device_in" -> Check(Typed(e, "list"), row.device \in ToSet(e.val.l))
      [] key = "prefix" -> Check(Typed(e, "str"), MatchesPrefix(row.prefix, e.val.s))
      [] key = "prefix_within" -> Check(Typed(e, "str"), PrefixWithin(row.prefix, e.val.s))
      [] key = "selected" -> Check(Typed(e, "bool"), row.selected = e.val.s)
      [] key \in {"communities", "nexthop", "weight"} -> AttributeMatches(row, key, e)

\* The outcomes of the members of a sequence, as a set of pairs.
Mapped(F(_), seq) == {<<i, F(seq[i])>> : i \in DOMAIN seq}

\* The outcome o is met once the members before gave through.
Reached(of, through, o) == \E p \in of : o \in p[2] /\ \A q \in of : q[1] < p[1] => through \in q[2]
All(of, o)              == \A p \in of : o \in p[2]
At(of, i)               == UNION {p[2] : p \in {p \in of : p[1] = i}}

\* What an entry may do to the loop: "next" goes on, the others return.
RECURSIVE EntryOutcomes(_, _, _), MatchWhere(_, _)

EntryOutcomes(row, key, e) ==
    LET inner == Mapped(LAMBDA w : MatchWhere(row, w), e.args)
        Flip  == [o \in {"yes", "no", "error"} |-> CASE o = "yes" -> "no" [] o = "no" -> "next" [] o = "error" -> o]
    IN  CASE key = "not" -> {Flip[o] : o \in At(inner, 1)}
          [] key = "and" -> {o \in {"no", "error"} : Reached(inner, "yes", o)} \cup {o \in {"next"} : All(inner, "yes")}
          [] key = "or"  -> {o \in {"error"} : Reached(inner, "no", o)} \cup {o \in {"no"} : All(inner, "no")}
                              \cup {o \in {"next"} : Reached(inner, "no", "yes")}
          [] key = "imply" -> {o \in {"error"} : "error" \in At(inner, 1)} \cup {o \in {"yes"} : "no" \in At(inner, 1)}
                                \cup (IF "yes" \in At(inner, 1) THEN At(inner, 2) ELSE {})
          [] key \notin {"not", "and", "or", "imply"} -> {Atom(row, key, e)}

\* Any entry may be the first that is visited.
MatchWhere(row, w) ==
    LET of == {EntryOutcomes(row, key, w[key]) : key \in DOMAIN w}
    IN  (UNION of \ {"next"}) \cup {o \in {"yes"} : \A outcomes \in of : "next" \in outcomes}

\* matchAllWhere: the filters in turn.
MatchAllWhere(row, filters) ==
    LET of == Mapped(LAMBDA w : MatchWhere(row, w), filters)
    IN  {o \in {"no", "error"} : Reached(of, "yes", o)} \cup {o \in {"yes"} : All(of, "yes")}

\* matchingRows: the selections the orders allow, and whether one ends in an error.
MatchingRows(rows, filters) ==
    LET of == Mapped(LAMBDA row : MatchAllWhere(row, filters), rows)
        must == {p[1] : p \in {p \in of : "no" \notin p[2]}}
        may  == {p[1] : p \in {p \in of : "yes" \in p[2]}}
        Selected(chosen) == [i \in 1..Cardinality(chosen) |->
                               rows[CHOOSE n \in chosen : Cardinality({m \in chosen : m < n}) = i - 1]]
    IN  [error |-> \E p \in of : "error" \in p[2],
         rows  |-> IF must \subseteq may THEN {Selected(c) : c \in {c \in SUBSET may : must \subseteq c}} ELSE {}]

---------------------------------------------------------------------------
(***************************************************************************)
(* rib_eval.go.                                                            *)
(***************************************************************************)
\* routeFieldValue: device and vrf are not among its fields; an unknown
\* field yields its own name.
RouteFieldValue(row, field) ==
    CASE field = "nexthop"  -> ExtractNextHops(row)
      [] field = "best"     -> row.selected
      [] field \in {"protocol", "weight"} -> row[field]
      [] field \notin {"nexthop", "best", "protocol", "weight"} -> field

DistinctFieldValues(rows, field) ==
    FoldLeft(LAMBDA seen, row : IF RouteFieldValue(row, field) \in ToSet(seen) THEN seen
                                ELSE Append(seen, RouteFieldValue(row, field)), <<>>, rows)

CompareInt(c, n) ==
    CASE c.op = "==" -> \E i \in DOMAIN c.nums : c.nums[i] = n
      [] c.op = "!=" -> \A i \in DOMAIN c.nums : c.nums[i] # n
      [] c.op = ">=" -> n >= c.nums[1]
      [] c.op = ">"  -> n > c.nums[1]
      [] c.op = "<=" -> n <= c.nums[1]
      [] c.op = "<"  -> n < c.nums[1]

CompareValues(c, values) ==
    CASE c.op = "==" -> values = c.names
      [] c.op = "!=" -> values # c.names
      [] c.op \notin {"==", "!="} -> FALSE

AggregateHolds(e, rows) ==
    CASE e.agg = "count"    -> CompareInt(e.cmp, Len(rows))
      [] e.agg = "distCnt"  -> CompareInt(e.cmp, Len(DistinctFieldValues(rows, e.field)))
      [] e.agg = "distVals" -> CompareValues(e.cmp, DistinctFieldValues(rows, e.field))

\* buildRIBIndex: the first row of every key.
RIBIndex(rows) ==
    {rows[i] : i \in {i \in DOMAIN rows : \A j \in 1..(i - 1) :
        <<rows[j].device, rows[j].vrf, rows[j].protocol, rows[j].prefix>>
          # <<rows[i].device, rows[i].vrf, rows[i].protocol, rows[i].prefix>>}}

Verdict(b) == IF b THEN "pass" ELSE "fail"

---------------------------------------------------------------------------
(***************************************************************************)
(* The graph of a snapshot and a packet in it.  The candidates of a FIB    *)
(* lookup are tried in order; "needs" is what the route needs to be up.    *)
(* Filters and routes that discard are left to DataPlane.                  *)
(*                                                                         *)
(* Conditions are trees here, as symbolic.Expr is.                         *)
(***************************************************************************)
Var(x)   == [k |-> "var", element |-> x]
AndOf(S) == [k |-> "and", args |-> S]
OrOf(S)  == [k |-> "or",  args |-> S]
NotOf(c) == [k |-> "not", args |-> {c}]

\* An element that is not among the failed ones is up.
RECURSIVE EvalSymbolicGoal(_, _)
EvalSymbolicGoal(c, failed) ==
    CASE c.k = "var" -> c.element \notin failed
      [] c.k = "and" -> \A x \in c.args : EvalSymbolicGoal(x, failed)
      [] c.k = "or"  -> \E x \in c.args : EvalSymbolicGoal(x, failed)
      [] c.k = "not" -> \A x \in c.args : ~EvalSymbolicGoal(x, failed)

\* Mutant: the nodes at the ends of a link are not part of its condition.
LinkUpCondAlone(link) == Var(link)

LinkUpCond(link) == AndOf({Var(x) : x \in {link} \cup Ends[link]})

Expanded(needs) == AndOf({IF x \in DOMAIN Ends THEN LinkUpCond(x) ELSE Var(x) : x \in needs})

\* Each candidate with its condition: the ones before it, unless they share
\* its group, are not available.
SymbolicLookupFIB(g, n, to) ==
    LET entries   == IF <<n, to>> \in DOMAIN g.fib THEN g.fib[<<n, to>>] ELSE <<>>
        Higher(i) == {j \in 1..(i - 1) : entries[j].group = "" \/ entries[j].group # entries[i].group}
    IN  {[nextHop |-> entries[i].nextHop, link |-> entries[i].link,
          cond |-> AndOf({Expanded(entries[i].needs), NotOf(OrOf({Expanded(entries[j].needs) : j \in Higher(i)}))})] :
            i \in DOMAIN entries}

\* The conditions of the paths on which the packet arrives.
RECURSIVE SymbolicForward(_, _, _, _, _)
SymbolicForward(g, n, to, cond, visited) ==
    IF n \in visited THEN {}
    ELSE IF n = g.owner[to] THEN {AndOf({cond, Var(n)})}
    ELSE UNION {SymbolicForward(g, c.nextHop, to, AndOf({cond, c.cond, LinkUpCond(c.link)}), visited \cup {n}) :
                  c \in SymbolicLookupFIB(g, n, to)}

Unreachable(g, from, to) ==
    IF to \notin DOMAIN g.owner THEN AndOf({})
    ELSE NotOf(OrOf(SymbolicForward(g, from, to, AndOf({Var(from), Var(g.owner[to])}), {})))

\* PacketReachableSpec: the walk under a given failure.  In a failure context
\* a link is down with either of its ends.
Down(failed) == failed \cup {link \in DOMAIN Ends : Ends[link] \cap failed # {}}

RECURSIVE PacketReachableFrom(_, _, _, _, _)
PacketReachableFrom(g, n, to, failed, visited) ==
    /\ n \notin failed /\ n \notin visited
    /\ \/ n = g.owner[to]
       \/ \E c \in SymbolicLookupFIB(g, n, to) :
            /\ EvalSymbolicGoal(c.cond, Down(failed))
            /\ c.nextHop \notin failed /\ c.link \notin Down(failed)
            /\ PacketReachableFrom(g, c.nextHop, to, failed, visited \cup {n})

PacketReachable(g, from, to, failed) ==
    /\ to \in DOMAIN g.owner
    /\ {from, g.owner[to]} \cap failed = {}
    /\ PacketReachableFrom(g, from, to, failed, {})

(***************************************************************************)
(* packet_eval.go: the failure search gives the solver the condition under *)
(* which the packet does not arrive and asks for at most max failed        *)
(* elements that make it true.  Z3, or the enumeration if Z3 fails, says   *)
(* whether there are any.                                                  *)
(***************************************************************************)
SolveSymbolic(goal, elements, max) ==
    \E failed \in SUBSET elements : Cardinality(failed) <= max /\ EvalSymbolicGoal(goal, failed)

\* A search without elements is an error, whatever is expected.
EvalPacketReachable(e, scenario) ==
    LET g   == Graphs[scenario.snapshot]
        sat == SolveSymbolic(Unreachable(g, e.from, e.to), scenario.elements, scenario.max)
    IN  IF scenario.max > 0 THEN Verdict(scenario.elements # {} /\ sat # e.expect)
        ELSE Verdict(PacketReachable(g, e.from, e.to, {}) = e.expect)

---------------------------------------------------------------------------
(***************************************************************************)
(* guard_forall.go, rcl_eval.go.  filter is the where map inherited from   *)
(* the guards and foralls around; loads is the set of snapshots that load. *)
(***************************************************************************)
MergeWhereFilters(outer, inner) == inner @@ outer

\* collectDistinctValues; {} stands for a field it does not know.  The other
\* fields it knows are read from the rows as the protocol is.
CollectDistinctValues(rows, field) ==
    CASE field \in {"device", "node"} -> {Devices}
      [] field = "protocol" -> {DistinctFieldValues(rows, field)}
      [] field \notin {"device", "node", "protocol"} -> {}

\* Mutant: a guard that matches no row fails.
GuardOutcomesStrict(matching, inner) ==
    (IF matching.error \/ <<>> \in matching.rows THEN {"fail"} ELSE {})
      \cup (IF matching.rows \subseteq {<<>>} THEN {} ELSE inner)

GuardOutcomes(matching, inner) ==
    (IF matching.error THEN {"fail"} ELSE {})
      \cup (IF <<>> \in matching.rows THEN {"pass"} ELSE {})
      \cup (IF matching.rows \subseteq {<<>>} THEN {} ELSE inner)

RECURSIVE EvalRCLExpr(_, _, _, _)
EvalRCLExpr(e, scenario, filter, loads) ==
    LET Eval(x, f)    == EvalRCLExpr(x, scenario, f, loads)
        args          == Mapped(LAMBDA x : Eval(x, filter), e.args)
        Matching(s)   == MatchingRows(Snapshots[s], <<e.where, filter>>)
        matching      == Matching(scenario.snapshot)
        Conj(of)      == {v \in {"pass"} : All(of, v)} \cup {v \in {"fail"} : Reached(of, "pass", v)}
        here          == Snapshots[scenario.snapshot]
    IN  CASE e.k = "guard" ->
               GuardOutcomes(matching, Eval(e.args[1], MergeWhereFilters(filter, e.where)))
          [] e.k = "forall" ->
               LET values == IF e.in # <<>> THEN {e.in} ELSE CollectDistinctValues(here, e.var)
                   Bound(v) == Eval(e.args[1], MergeWhereFilters(filter, e.var :> Entry("=", Str(v), <<>>)))
               IN  IF values = {} THEN {"fail"}
                   ELSE UNION {Conj(Mapped(Bound, vs)) : vs \in values}
          [] e.k = "and" -> Conj(args)
          [] e.k = "or" ->
               {v \in {"fail"} : All(args, v)} \cup {v \in {"pass"} : Reached(args, "fail", v)}
          [] e.k = "not" -> {Verdict(v = "fail") : v \in At(args, 1)}
          [] e.k = "imply" -> {v \in {"pass"} : "fail" \in At(args, 1)} \cup (IF "pass" \in At(args, 1) THEN At(args, 2) ELSE {})
          [] e.k = "diff" ->
               IF {e.left, e.right} \subseteq loads
               THEN LET left == Matching(e.left) right == Matching(e.right)
                    IN  {v \in {"fail"} : left.error \/ right.error}
                          \cup {Verdict(RIBIndex(rows[1]) = RIBIndex(rows[2])) : rows \in left.rows \X right.rows}
               ELSE {"fail"}
          [] e.k = "rib" ->
               {v \in {"fail"} : matching.error}
                 \cup {Verdict(AggregateHolds(e, rows)) : rows \in matching.rows}
          [] e.k = "packet" -> {EvalPacketReachable(e, scenario)}

===========================================================================
