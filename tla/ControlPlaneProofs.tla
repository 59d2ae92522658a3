------------------------- MODULE ControlPlaneProofs -----------------------
(***************************************************************************)
(* Simulate implements ConditionedPaths for every network, and therefore   *)
(* no entry of a RIB is available or selected in a failure world that      *)
(* breaks its path.                                                        *)
(*                                                                         *)
(* The refinement needs to know more than the RIB's paths: that the        *)
(* origination program and the call stack hold well-formed routes, that a  *)
(* route on its way has never been selected, and that a device's entries   *)
(* exist only where the device is up (an aggregate takes its condition     *)
(* from them).                                                             *)
(*                                                                         *)
(* Three more invariants build on it.  AInv: entries that an aggregate is  *)
(* made of, and what is announced past a summary-only one, are kept apart  *)
(* from it.  KInv: all conditions are made of common terms that mean the   *)
(* worlds they hold in, so comparing keys is comparing meanings.  FInv:    *)
(* when the iteration ends, conditions and selection are a fixed point.    *)
(***************************************************************************)
EXTENDS ControlPlane, SequenceFacts

\* The worlds in which n is up.
Up(n) == {w \in Worlds : NodeUp(w, n)}

Shape(r) ==
    /\ {"path", "base", "cond", "sel", "kind", "prefix", "origin", "from", "attrs",
         "nextHop", "igpCost", "ospfType", "metric"} \subseteq DOMAIN r
    /\ IsSequence(r.path) /\ r.path # <<>>

\* What no policy and no recomputation changes about a route.
Same(q, r) == q.kind = r.kind /\ q.prefix = r.prefix /\ q.origin = r.origin

\* A route in a RIB of n: its path ends there, it is available only where
\* its base condition allows, and it names the neighbour it comes from.
EntryOK(n, r) ==
    /\ Shape(r) /\ Last(r.path) = n /\ r.cond.holds \subseteq r.base.holds
    /\ Len(r.path) = 1 \/ r.from \in Node
    /\ r.base.holds \cup r.sel.holds \subseteq Up(n)

\* A route that has not been selected anywhere yet, and one n originates.
FreshOK(r)    == Shape(r) /\ r.sel = NoCond /\ r.base = r.cond
LocalOK(n, r) == FreshOK(r) /\ r.path = <<n>> /\ r.cond.holds \subseteq Up(n)

RIBOK(table) ==
    /\ table = [s \in Node \X Prefix |-> table[s]]
    /\ \A s \in Node \X Prefix :
          IsSequence(table[s]) /\ \A r \in ToSet(table[s]) : EntryOK(s[1], r) /\ r.prefix = s[2]

StepOK(x)  == x.node \in Node /\ (x.op \in {"add", "walk"} => LocalOK(x.node, x.route))
TodoOK(xs) == IsSequence(xs) /\ \A x \in ToSet(xs) : StepOK(x)

FrameOK(f)  == {"route", "peers"} \subseteq DOMAIN f /\ FreshOK(f.route)
StackOK(fs) == IsSequence(fs) /\ \A f \in ToSet(fs) : FrameOK(f)

IInv == net \in Nets /\ RIBOK(rib) /\ TodoOK(todo) /\ StackOK(stack)

---------------------------------------------------------------------------
(***************************************************************************)
(* Routes on their way from one device to the next.                        *)
(***************************************************************************)

\* q has r's path and selection, and r's availability or less.
Keeps(q, r) ==
    /\ Shape(q) /\ Same(q, r) /\ q.path = r.path /\ q.sel = r.sel /\ q.from = r.from
    /\ q.cond.holds \subseteq r.cond.holds

\* The route of the next hop.
NextHop(q, m, n, r) ==
    /\ Shape(q) /\ Same(q, r) /\ q.path = Append(r.path, n) /\ q.sel = r.sel /\ q.base = q.cond
    /\ q.from = m
    /\ q.cond.holds \subseteq r.cond.holds
    /\ \A w \in q.cond.holds : w \in Worlds /\ LinkUp(w, {m, n}) /\ NodeUp(w, n)

\* Policies and session handling leave path and conditions alone.
LEMMA PolicyKeeps ==
    ASSUME NEW policy, NEW at, NEW r, Shape(r)
    PROVE  /\ Keeps(PolicyRoute(policy, at, r), r)
           /\ PolicyRoute(policy, at, r).base = r.base
           /\ PolicyRoute(policy, at, r).cond = r.cond
BY DEF PolicyRoute, Shape, Keeps, Same

\* Exporting a route, the announcing side's policy, keeps what the abstract specification reads.
LEMMA ExportKeeps ==
    ASSUME NEW m, NEW n, NEW r, Shape(r)
    PROVE  Keeps(ExportRoute(m, n, r), r) /\ ExportRoute(m, n, r).cond = r.cond
BY DEF ExportRoute, Shape, Keeps, Same

\* Importing a route, the receiving side's policy, keeps it too.
LEMMA ImportKeeps ==
    ASSUME NEW m, NEW n, NEW r, Shape(r)
    PROVE  Keeps(ImportRoute(n, m, r), r) /\ ImportRoute(n, m, r).cond = r.cond
BY DEF ImportRoute, Shape, Keeps, Same

\* An aggregate of the sender only takes worlds away.
LEMMA SuppressionKeeps ==
    ASSUME NEW m, NEW r, Shape(r)
    PROVE  Keeps(ApplyAggregateSuppression(m, r), r)
BY DEF ApplyAggregateSuppression, Shape, Keeps, Same, AndAll

\* The new entry is tied to the link and the receiver.
LEMMA ExtendedHop ==
    ASSUME NEW m, NEW n, NEW r, Shape(r)
    PROVE  /\ NextHop(Extended(m, n, r), m, n, r)
           /\ Extended(m, n, r).cond = AndAll({r.cond, LinkVar({m, n}), NodeVar(n)})
<1>1. IsSequence(Append(r.path, n)) /\ Append(r.path, n) # <<>>
  BY SequenceBasics, LastAndFront DEF Shape
<1> QED
  BY <1>1 DEF Extended, Shape, AndAll, LinkVar, NodeVar, NextHop, Same

\* What a neighbour stores: the same path and one hop more, in worlds in which
\* the link and the neighbour are up.
LEMMA AdvertisementHop ==
    ASSUME net \in Nets, NEW m, NEW n, NEW r, Shape(r),
           NEW e \in Advertisement(m, n, ApplyAggregateSuppression(m, r))
    PROVE  /\ m \in Node /\ n \in Node /\ NextHop(e, m, n, r)
           /\ e.cond.holds \subseteq ApplyAggregateSuppression(m, r).cond.holds
           /\ e.cond = AndAll({ApplyAggregateSuppression(m, r).cond, LinkVar({m, n}), NodeVar(n)})
<1> DEFINE start    == ApplyAggregateSuppression(m, r)
           out      == ExportRoute(m, n, start)
           export   == net.session[m, n].export
           import   == net.session[n, m].import
           exported == PolicyRoute(export, BindingAt(net, m, n), out)
           in       == ImportRoute(n, m, exported)
           imported == PolicyRoute(import, BindingAt(net, n, m), in)
<1>1. e = Extended(m, n, imported) /\ {<<m, n>>, <<n, m>>} \subseteq DOMAIN net.session
  BY DEF Advertisement
<1>2. m \in Node /\ n \in Node
  BY <1>1, NetsAssumption
<1> HIDE DEF export, import
<1>3. Keeps(start, r)
  BY SuppressionKeeps
<1> HIDE DEF start
<1>4. Keeps(out, start) /\ out.cond = start.cond
  BY <1>3, ExportKeeps DEF Keeps
<1> HIDE DEF out
<1>5. Keeps(exported, out) /\ exported.cond = out.cond
  BY <1>4, PolicyKeeps DEF Keeps
<1> HIDE DEF exported
<1>6. Keeps(in, exported) /\ in.cond = exported.cond
  BY <1>5, ImportKeeps DEF Keeps
<1> HIDE DEF in
<1>7. Keeps(imported, in) /\ imported.cond = in.cond
  BY <1>6, PolicyKeeps DEF Keeps
<1>8. Keeps(imported, r) /\ imported.cond = start.cond
  BY <1>3, <1>4, <1>5, <1>6, <1>7 DEF Keeps, Same
<1> HIDE DEF imported
<1>9. NextHop(e, m, n, imported) /\ e.cond = AndAll({start.cond, LinkVar({m, n}), NodeVar(n)})
  BY <1>1, <1>8, ExtendedHop DEF Keeps
<1> QED
  BY <1>2, <1>8, <1>9 DEF Keeps, NextHop, Same, start

---------------------------------------------------------------------------
(***************************************************************************)
(* The origination program.                                                *)
(***************************************************************************)

\* The nodes have a greatest one.
LEMMA NodeBound == Max({0} \cup Node) \in Nat
<1>1. {0} \cup Node \subseteq Nat /\ {0} \cup Node # {} /\ IsFiniteSet(Node)
  BY NodeAssumption
<1>2. PICK b \in Nat : \A n \in Node : n <= b
  BY <1>1, FiniteBound
<1>3. \A n \in {0} \cup Node : n <= b
  BY <1>2
<1> QED
  BY <1>1, <1>3, GreatestElement

\* NodeOrder lists nodes.
LEMMA NodeOrderOK == IsSequence(NodeOrder) /\ ToSet(NodeOrder) \subseteq Node
<1> DEFINE M == Max({0} \cup Node)
           s == [i \in 1..M |-> i]
           f == [i \in DOMAIN s |-> IF s[i] \in Node THEN <<s[i]>> ELSE <<>>]
<1>1. M \in Nat
  BY NodeBound
<1>2. NodeOrder = FlattenSeq(f)
  BY DEF NodeOrder, Only
<1> HIDE DEF M
<1>3. IsSequence(s)
  <2>1. s = [i \in 1..M |-> s[i]]
    OBVIOUS
  <2> HIDE DEF s
  <2> QED
    BY <1>1, <2>1, FunctionSequence
<1> HIDE DEF s
<1>4. f = [i \in DOMAIN s |-> f[i]] /\ \A i \in DOMAIN s : f[i] = <<>> \/ f[i] = <<s[i]>>
  OBVIOUS
<1>5. \A i \in DOMAIN s : f[i] # <<>> => s[i] \in Node
  OBVIOUS
<1> HIDE DEF f
<1>6. /\ IsSequence(FlattenSeq(f))
      /\ \A x \in ToSet(FlattenSeq(f)) : \E i \in DOMAIN s : x = s[i] /\ f[i] # <<>>
  BY <1>3, <1>4, FilterSequence
<1> QED
  BY <1>2, <1>5, <1>6

\* A sequence of routes of n.
LocalTo(n, rs) == IsSequence(rs) /\ \A r \in ToSet(rs) : LocalOK(n, r)

\* The step x does op with r at n.
Does(x, op, n, r) == x.op = op /\ x.node = n /\ x.route = r

\* The steps of a sequence of routes.
LEMMA StepsOK ==
    ASSUME NEW n \in Node, NEW rs, LocalTo(n, rs), NEW op \in {"add", "walk"}
    PROVE  /\ TodoOK(Step(op, n, rs)) /\ Len(Step(op, n, rs)) = Len(rs)
           /\ \A i \in 1..Len(rs) : Does(Step(op, n, rs)[i], op, n, rs[i])
           /\ \A x \in ToSet(Step(op, n, rs)) : x.op = op /\ x.route \in ToSet(rs)
<1>1. Len(rs) \in Nat /\ DOMAIN rs = 1..Len(rs) /\ ToSet(rs) = {rs[i] : i \in 1..Len(rs)}
  BY OwnElements DEF LocalTo
<1> DEFINE f == Step(op, n, rs)
<1>2. f = [i \in 1..Len(rs) |-> f[i]]
  BY <1>1 DEF Step
<1>3. IsSequence(f) /\ Len(f) = Len(rs)
  <2> HIDE DEF f
  <2> QED
    BY <1>1, <1>2, FunctionSequence
<1>4. ASSUME NEW i \in 1..Len(rs)
      PROVE  StepOK(f[i]) /\ Does(f[i], op, n, rs[i]) /\ rs[i] \in ToSet(rs)
  <2>1. f[i] = [op |-> op, node |-> n, route |-> rs[i]]
    BY <1>1 DEF Step
  <2>2. LocalOK(n, rs[i])
    BY <1>1 DEF LocalTo
  <2> QED
    BY <1>1, <2>1, <2>2 DEF StepOK, Does
<1>5. ToSet(f) = {f[i] : i \in 1..Len(rs)}
  BY <1>3, OwnElements
<1> HIDE DEF f
<1>6. \A x \in ToSet(f) : x.op = op /\ x.route \in ToSet(rs)
  BY <1>4, <1>5 DEF Does
<1> QED
  BY <1>3, <1>4, <1>5, <1>6 DEF TodoOK, f

\* Two agendas one after the other are an agenda.
LEMMA TodoConcat ==
    ASSUME NEW s, NEW t, TodoOK(s), TodoOK(t)
    PROVE  TodoOK(s \o t) /\ ToSet(s \o t) = ToSet(s) \cup ToSet(t)
<1>1. IsSequence(s \o t) /\ ToSet(s \o t) = ToSet(s) \cup ToSet(t)
  BY SequenceBasics, ElementsOf DEF TodoOK
<1> QED
  BY <1>1 DEF TodoOK

\* So is the concatenation of a sequence of agendas.
LEMMA TodoFlatten ==
    ASSUME NEW s, IsSequence(s), NEW f, f = [i \in DOMAIN s |-> f[i]], \A i \in DOMAIN s : TodoOK(f[i])
    PROVE  /\ TodoOK(FlattenSeq(f))
           /\ \A x \in ToSet(FlattenSeq(f)) : \E i \in DOMAIN s : x \in ToSet(f[i])
<1>1. Len(s) \in Nat /\ DOMAIN s = 1..Len(s)
  BY OwnElements
<1>2. /\ IsSequence(FlattenSeq(f))
      /\ \A x \in ToSet(FlattenSeq(f)) : \E i \in 1..Len(s) : x \in ToSet(f[i])
  BY <1>1, FlattenSequences DEF TodoOK
<1> QED
  BY <1>1, <1>2 DEF TodoOK

\* A route of p is installed at n, or will be, by the step x.
Known(rs, n, p)   == p \in Prefix => \E r \in rs : r.prefix = p /\ Last(r.path) = n
Installs(x, n, p) == x.op = "add" /\ x.node = n /\ x.route.prefix = p

\* No announcement comes before the installation of what it announces.
Prepared(xs, rs) ==
    \A i \in 1..Len(xs) : xs[i].op = "walk" =>
        \/ Known(rs, xs[i].node, xs[i].route.prefix)
        \/ \E j \in 1..(i - 1) : Installs(xs[j], xs[i].node, xs[i].route.prefix)

\* Two prepared agendas one after the other are prepared.
LEMMA PreparedConcat ==
    ASSUME NEW s, NEW t, IsSequence(s), IsSequence(t), NEW rs, Prepared(s, rs), Prepared(t, rs)
    PROVE  Prepared(s \o t, rs)
<1> DEFINE u == s \o t
<1>1. Len(s) \in Nat /\ Len(t) \in Nat
  BY OwnElements
<1>2. Len(u) = Len(s) + Len(t)
  BY Positions
<1>3. \A i \in 1..Len(s) : u[i] = s[i]
  BY Positions
<1>4. \A i \in 1..Len(t) : u[Len(s) + i] = t[i]
  BY Positions
<1> HIDE DEF u
<1> SUFFICES ASSUME NEW i \in 1..Len(u), u[i].op = "walk"
             PROVE  \/ Known(rs, u[i].node, u[i].route.prefix)
                    \/ \E j \in 1..(i - 1) : Installs(u[j], u[i].node, u[i].route.prefix)
  BY DEF Prepared, u
<1>5. CASE i <= Len(s)
  <2>1. i \in 1..Len(s) /\ u[i] = s[i] /\ \A j \in 1..(i - 1) : j \in 1..Len(s) /\ u[j] = s[j]
    BY <1>1, <1>3, <1>5
  <2> QED
    BY <2>1 DEF Prepared
<1>6. CASE i > Len(s)
  <2> DEFINE k == i - Len(s)
  <2>1. k \in 1..Len(t) /\ Len(s) + k = i
    BY <1>1, <1>2, <1>6
  <2>2. u[i] = t[k]
    BY <1>4, <2>1
  <2>3. \A j \in 1..(k - 1) : j \in 1..Len(t) /\ Len(s) + j \in 1..(i - 1)
    BY <1>1, <2>1
  <2> HIDE DEF k
  <2>4. CASE Known(rs, t[k].node, t[k].route.prefix)
    BY <2>2, <2>4
  <2>5. ASSUME NEW j \in 1..(k - 1), Installs(t[j], t[k].node, t[k].route.prefix)
        PROVE  \E x \in 1..(i - 1) : Installs(u[x], u[i].node, u[i].route.prefix)
    <3>1. u[Len(s) + j] = t[j] /\ Len(s) + j \in 1..(i - 1)
      BY <1>4, <2>3
    <3>2. Installs(u[Len(s) + j], u[i].node, u[i].route.prefix)
      BY <2>2, <2>5, <3>1
    <3> QED
      BY <3>1, <3>2
  <2> QED
    BY <2>1, <2>2, <2>4, <2>5 DEF Prepared
<1> QED
  BY <1>1, <1>2, <1>5, <1>6

\* So is the concatenation of a sequence of prepared agendas.
LEMMA PreparedFlatten ==
    ASSUME NEW s, IsSequence(s), NEW f, f = [i \in DOMAIN s |-> f[i]], NEW rs,
           \A i \in DOMAIN s : IsSequence(f[i]) /\ Prepared(f[i], rs)
    PROVE  Prepared(FlattenSeq(f), rs)
<1> DEFINE N == Len(s)
           S == UNION {ToSet(f[i]) : i \in 1..N}
<1>1. N \in Nat /\ DOMAIN s = 1..N
  BY OwnElements
<1>2. f \in Seq(Seq(S)) /\ Len(f) = N
  BY <1>1, CommonSet
<1> HIDE DEF N, S
<1>3. PICK F : FlattensUpTo(F, f, S, N) /\ FlattenSeq(f) = F[N]
  BY <1>2, FlattenSteps
<1>4. F \in [0..N -> Seq(S)] /\ F[0] = <<>> /\ \A i \in 1..N : F[i] = F[i - 1] \o f[i]
  BY <1>3 DEF FlattensUpTo
<1> DEFINE T == {i \in 0..N : Prepared(F[i], rs)}
<1>5. 0 \in T
  BY <1>1, <1>4 DEF Prepared
<1>6. ASSUME NEW i \in 1..N, i - 1 \in T PROVE i \in T
  <2>1. i \in 0..N /\ i - 1 \in 0..N
    BY <1>1
  <2>2. IsSequence(F[i - 1]) /\ IsSequence(f[i]) /\ Prepared(f[i], rs) /\ Prepared(F[i - 1], rs)
    BY <1>1, <1>4, <1>6, <2>1 DEF IsSequence
  <2>3. Prepared(F[i - 1] \o f[i], rs)
    BY <2>2, PreparedConcat
  <2> QED
    BY <1>4, <2>1, <2>3
<1> HIDE DEF T
<1>7. N \in 0..N /\ 0..N \subseteq T
  BY <1>1, <1>5, <1>6, BoundedInduction
<1> QED
  BY <1>3, <1>7 DEF T

\* Installing all routes of a node and walking them afterwards.
LEMMA AddsThenWalks ==
    ASSUME NEW n \in Node, NEW rs, LocalTo(n, rs), NEW known
    PROVE  /\ Prepared(Step("add", n, rs), known)
           /\ Prepared(Step("add", n, rs) \o Step("walk", n, rs), known)
<1> DEFINE adds == Step("add", n, rs)
           walks == Step("walk", n, rs)
           u == adds \o walks
<1>1. /\ IsSequence(adds) /\ Len(adds) = Len(rs)
      /\ \A i \in 1..Len(rs) : Does(adds[i], "add", n, rs[i])
  BY StepsOK DEF TodoOK
<1>2. /\ IsSequence(walks) /\ Len(walks) = Len(rs)
      /\ \A i \in 1..Len(rs) : Does(walks[i], "walk", n, rs[i])
  BY StepsOK DEF TodoOK
<1>3. Len(rs) \in Nat
  BY OwnElements DEF LocalTo
<1> HIDE DEF adds, walks
<1>4. Prepared(adds, known)
  <2>1. \A i \in 1..Len(adds) : adds[i].op # "walk"
    BY <1>1 DEF Does
  <2> QED
    BY <2>1 DEF Prepared
<1>5. Len(u) = Len(rs) + Len(rs)
  BY <1>1, <1>2, Positions
<1>6. \A i \in 1..Len(rs) : u[i] = adds[i]
  BY <1>1, <1>2, Positions
<1>7. \A i \in 1..Len(rs) : u[Len(rs) + i] = walks[i]
  BY <1>1, <1>2, Positions
<1> HIDE DEF u
<1>8. ASSUME NEW i \in 1..Len(u), u[i].op = "walk"
      PROVE  \E j \in 1..(i - 1) : Installs(u[j], u[i].node, u[i].route.prefix)
  <2>1. CASE i <= Len(rs)
    <3>1. i \in 1..Len(rs)
      BY <1>3, <2>1
    <3>2. u[i].op = "add"
      BY <1>1, <1>6, <3>1 DEF Does
    <3> QED
      BY <1>8, <3>2
  <2>2. CASE i > Len(rs)
    <3> DEFINE j == i - Len(rs)
    <3>1. j \in 1..Len(rs) /\ Len(rs) + j = i /\ j \in 1..(i - 1)
      BY <1>3, <1>5, <2>2
    <3> HIDE DEF j
    <3>2. Does(u[j], "add", n, rs[j])
      BY <1>1, <1>6, <3>1
    <3>3. Does(u[i], "walk", n, rs[j])
      BY <1>2, <1>7, <3>1
    <3>4. Installs(u[j], u[i].node, u[i].route.prefix)
      BY <3>2, <3>3 DEF Installs, Does
    <3> QED
      BY <3>1, <3>4
  <2> QED
    BY <1>3, <1>5, <2>1, <2>2
<1> QED
  BY <1>4, <1>8 DEF Prepared, u, adds, walks

\* Adding and then walking each route a node originates is an agenda.
LEMMA AddAndWalkOK ==
    ASSUME NEW n \in Node, NEW rs, LocalTo(n, rs)
    PROVE  /\ TodoOK(AddAndWalk(n, rs))
           /\ \A known : Prepared(AddAndWalk(n, rs), known)
           /\ \A x \in ToSet(AddAndWalk(n, rs)) : x.op \in {"add", "walk"} /\ x.route \in ToSet(rs)
<1> DEFINE f == [i \in DOMAIN rs |-> Step("add", n, <<rs[i]>>) \o Step("walk", n, <<rs[i]>>)]
<1>1. IsSequence(rs) /\ DOMAIN rs = 1..Len(rs) /\ ToSet(rs) = {rs[i] : i \in 1..Len(rs)}
  BY OwnElements DEF LocalTo
<1>2. ASSUME NEW i \in DOMAIN rs
      PROVE  /\ TodoOK(f[i]) /\ \A known : Prepared(f[i], known)
             /\ \A x \in ToSet(f[i]) : x.op \in {"add", "walk"} /\ x.route \in ToSet(rs)
  <2> DEFINE one == <<rs[i]>>
  <2>1. LocalOK(n, rs[i]) /\ IsSequence(one) /\ ToSet(one) = {rs[i]}
    BY <1>1, SequenceBasics, ElementsOf DEF LocalTo
  <2>2. LocalTo(n, one)
    BY <2>1 DEF LocalTo
  <2>3. f[i] = Step("add", n, one) \o Step("walk", n, one)
    OBVIOUS
  <2> HIDE DEF one, f
  <2>4. /\ TodoOK(Step("add", n, one))
        /\ \A x \in ToSet(Step("add", n, one)) : x.op = "add" /\ x.route \in ToSet(one)
    BY <2>2, StepsOK
  <2>5. /\ TodoOK(Step("walk", n, one))
        /\ \A x \in ToSet(Step("walk", n, one)) : x.op = "walk" /\ x.route \in ToSet(one)
    BY <2>2, StepsOK
  <2>6. TodoOK(f[i]) /\ ToSet(f[i]) = ToSet(Step("add", n, one)) \cup ToSet(Step("walk", n, one))
    BY <2>3, <2>4, <2>5, TodoConcat
  <2>7. \A known : Prepared(f[i], known)
    BY <2>2, <2>3, AddsThenWalks
  <2> QED
    BY <1>1, <2>1, <2>4, <2>5, <2>6, <2>7
<1>3. f = [i \in DOMAIN rs |-> f[i]]
  OBVIOUS
<1>4. AddAndWalk(n, rs) = FlattenSeq(f)
  BY DEF AddAndWalk
<1> HIDE DEF f
<1>5. /\ TodoOK(FlattenSeq(f))
      /\ \A x \in ToSet(FlattenSeq(f)) : \E i \in DOMAIN rs : x \in ToSet(f[i])
  BY <1>1, <1>2, <1>3, TodoFlatten
<1>6. ASSUME NEW known PROVE Prepared(FlattenSeq(f), known)
  BY <1>1, <1>2, <1>3, PreparedFlatten DEF TodoOK
<1> QED
  BY <1>2, <1>4, <1>5, <1>6

\* A route that is no aggregate and needs one node only, and routes that all
\* are like that.
Plain(r)     == r.kind # "aggregate" /\ \E n \in Node : r.cond = NodeVar(n)
Specific(rs) == \A r \in ToSet(rs) : Plain(r)

\* A locally originated route whose condition needs the node.
LEMMA LocalRouteOK ==
    ASSUME NEW n, NEW p, NEW kind, NEW attrs, NEW nextHop, NEW c, c.holds \subseteq Up(n)
    PROVE  LocalOK(n, LocalRoute(n, p, kind, attrs, nextHop, c))
<1>1. IsSequence(<<n>>) /\ <<n>> # <<>>
  BY SequenceBasics
<1> QED
  BY <1>1 DEF LocalOK, FreshOK, Shape, LocalRoute

\* The configured route an entry comes from adds what no condition depends on.
LEMMA SourcedOK ==
    ASSUME NEW n, NEW r, LocalOK(n, r), NEW c
    PROVE  /\ LocalOK(n, Sourced(r, c)) /\ Same(Sourced(r, c), r)
           /\ Sourced(r, c).base = r.base /\ Sourced(r, c).cond = r.cond /\ Sourced(r, c).sel = r.sel
BY DEF Sourced, LocalOK, FreshOK, Shape, Same

\* A route a node originates into BGP is local to it.
LEMMA BGPRouteOK ==
    ASSUME NEW n \in Node, NEW p, NEW originCode
    PROVE  LocalOK(n, BGPRoute(n, p, originCode)) /\ Plain(BGPRoute(n, p, originCode))
<1>1. NodeVar(n).holds \subseteq Up(n)
  BY DEF NodeVar, Up
<1> QED
  BY <1>1, LocalRouteOK DEF BGPRoute, LocalRoute, Plain

\* Routes made one by one.
LEMMA OriginatesEach ==
    ASSUME NEW n, NEW s, IsSequence(s), NEW f, f = [i \in DOMAIN s |-> f[i]],
           \A i \in DOMAIN s : LocalOK(n, f[i])
    PROVE  LocalTo(n, f) /\ ToSet(f) = {f[i] : i \in DOMAIN s}
<1>1. Len(s) \in Nat /\ DOMAIN s = 1..Len(s)
  BY OwnElements
<1>2. IsSequence(f) /\ Len(f) = Len(s)
  BY <1>1, FunctionSequence
<1>3. ToSet(f) = {f[i] : i \in 1..Len(s)}
  BY <1>2, OwnElements
<1> QED
  BY <1>1, <1>2, <1>3 DEF LocalTo

\* A node originates its configured routes.
LEMMA ConfiguredOK ==
    ASSUME NEW g \in Nets, NEW n \in Node
    PROVE  LocalTo(n, ConfiguredRoutes(g, n)) /\ Specific(ConfiguredRoutes(g, n))
<1> DEFINE s == g.routes[n]
           f == [i \in DOMAIN s |-> IF s[i].kind \notin {"aggregate", "bgp"} THEN <<s[i]>> ELSE <<>>]
           cs == FlattenSeq(f)
           local(i) == LocalRoute(n, cs[i].prefix, cs[i].kind, Attributes(Incomplete, 0),
                                  cs[i].nextHop, NodeVar(n))
           rs == [i \in DOMAIN cs |-> Sourced(local(i), cs[i])]
<1>1. IsSequence(s)
  BY NetsAssumption DEF IsSequence
<1>2. ConfiguredRoutes(g, n) = rs
  BY DEF ConfiguredRoutes, Only
<1> HIDE DEF s
<1>3. f = [i \in DOMAIN s |-> f[i]] /\ \A i \in DOMAIN s : f[i] = <<>> \/ f[i] = <<s[i]>>
  OBVIOUS
<1>3a. \A i \in DOMAIN s : f[i] # <<>> => s[i].kind # "aggregate"
  OBVIOUS
<1> HIDE DEF f
<1>4. IsSequence(cs) /\ \A x \in ToSet(cs) : \E i \in DOMAIN s : x = s[i] /\ f[i] # <<>>
  BY <1>1, <1>3, FilterSequence
<1>4a. \A i \in DOMAIN cs : cs[i].kind # "aggregate"
  BY <1>3a, <1>4 DEF ToSet
<1> HIDE DEF cs
<1>5. NodeVar(n).holds \subseteq Up(n)
  BY DEF NodeVar, Up
<1>6. ASSUME NEW i \in DOMAIN cs PROVE LocalOK(n, rs[i]) /\ Plain(rs[i])
  <2>1. LocalOK(n, local(i)) /\ local(i).kind = cs[i].kind /\ local(i).cond = NodeVar(n)
    BY <1>5, LocalRouteOK DEF LocalRoute
  <2> HIDE DEF local
  <2>2. LocalOK(n, rs[i]) /\ rs[i].kind = cs[i].kind /\ rs[i].cond = NodeVar(n)
    BY <2>1, SourcedOK DEF Same
  <2> QED
    BY <1>4a, <2>2 DEF Plain
<1>7. rs = [i \in DOMAIN cs |-> rs[i]]
  OBVIOUS
<1> HIDE DEF rs
<1>8. LocalTo(n, rs) /\ ToSet(rs) = {rs[i] : i \in DOMAIN cs}
  <2>1. IsSequence(cs) /\ \A i \in DOMAIN cs : LocalOK(n, rs[i])
    BY <1>4, <1>6
  <2> QED
    BY <1>7, <2>1, OriginatesEach
<1> QED
  BY <1>2, <1>6, <1>8 DEF Specific

\* It originates the prefixes its BGP process announces.
LEMMA NetworkOK ==
    ASSUME NEW g \in Nets, NEW n \in Node
    PROVE  LocalTo(n, NetworkRoutes(g, n)) /\ Specific(NetworkRoutes(g, n))
<1> DEFINE s == g.routes[n]
           f == [i \in DOMAIN s |-> IF s[i].kind = "bgp" THEN <<s[i]>> ELSE <<>>]
           cs == FlattenSeq(f)
           ps == g.networks[n]
           us == [i \in DOMAIN ps |-> BGPRoute(n, ps[i], IGP)]
           vs == [i \in DOMAIN cs |-> Sourced(BGPRoute(n, cs[i].prefix, IGP), cs[i])]
           rs == us \o vs
<1>1. IsSequence(s) /\ IsSequence(g.networks[n])
  BY NetsAssumption DEF IsSequence
<1>2. NetworkRoutes(g, n) = IF BGPEnabled(g, n) THEN rs ELSE <<>>
  BY DEF NetworkRoutes, Only
<1> HIDE DEF s
<1>3. f = [i \in DOMAIN s |-> f[i]] /\ \A i \in DOMAIN s : f[i] = <<>> \/ f[i] = <<s[i]>>
  OBVIOUS
<1> HIDE DEF f
<1>4. IsSequence(cs)
  BY <1>1, <1>3, FilterSequence
<1> HIDE DEF cs, ps
<1>5. ASSUME NEW i \in DOMAIN ps PROVE LocalOK(n, us[i]) /\ Plain(us[i])
  BY BGPRouteOK
<1>6. ASSUME NEW i \in DOMAIN cs PROVE LocalOK(n, vs[i]) /\ Plain(vs[i])
  <2> DEFINE r == BGPRoute(n, cs[i].prefix, IGP)
  <2>1. LocalOK(n, r) /\ Plain(r)
    BY BGPRouteOK
  <2>2. vs[i] = Sourced(r, cs[i])
    OBVIOUS
  <2> HIDE DEF r, vs
  <2> QED
    BY <2>1, <2>2, SourcedOK DEF Plain, Same
<1>7. us = [i \in DOMAIN ps |-> us[i]] /\ vs = [i \in DOMAIN cs |-> vs[i]]
  OBVIOUS
<1>8. IsSequence(ps)
  BY <1>1 DEF ps
<1> HIDE DEF us, vs
<1>9. /\ LocalTo(n, us) /\ ToSet(us) = {us[i] : i \in DOMAIN ps}
      /\ LocalTo(n, vs) /\ ToSet(vs) = {vs[i] : i \in DOMAIN cs}
  BY <1>4, <1>5, <1>6, <1>7, <1>8, OriginatesEach
<1>10. LocalTo(n, rs) /\ Specific(rs)
  <2>1. IsSequence(rs) /\ ToSet(rs) = ToSet(us) \cup ToSet(vs)
    BY <1>9, SequenceBasics, ElementsOf DEF LocalTo
  <2> QED
    BY <1>5, <1>6, <1>9, <2>1 DEF LocalTo, Specific
<1>11. IsSequence(<<>>) /\ ToSet(<<>>) = {}
  BY SequenceBasics, ElementsOf
<1> QED
  BY <1>2, <1>10, <1>11 DEF LocalTo, Specific

\* It originates what one redistribute statement takes from its tables.
LEMMA RedistributedFromOK ==
    ASSUME NEW g \in Nets, NEW n \in Node, NEW redist
    PROVE  LocalTo(n, RedistributedFrom(g, n, redist)) /\ Specific(RedistributedFrom(g, n, redist))
<1> DEFINE s == g.routes[n]
           f == [i \in DOMAIN s |->
                   IF s[i].kind \in RedistributionSource(redist.kind) THEN <<s[i]>> ELSE <<>>]
           cs == FlattenSeq(f)
           rs == [i \in DOMAIN cs |-> BGPRoute(n, cs[i].prefix, Incomplete)]
           at == BindingAt(g, n, 0)
           h == [i \in DOMAIN rs |-> IF PolicyAccepts(redist.policy, at, rs[i]) THEN <<rs[i]>> ELSE <<>>]
           ok == FlattenSeq(h)
           out == [i \in DOMAIN ok |-> PolicyRoute(redist.policy, at, ok[i])]
<1>1. IsSequence(s)
  BY NetsAssumption DEF IsSequence
<1>2. RedistributedFrom(g, n, redist) = out
  BY DEF RedistributedFrom, Only
<1> HIDE DEF s
<1>3. f = [i \in DOMAIN s |-> f[i]] /\ \A i \in DOMAIN s : f[i] = <<>> \/ f[i] = <<s[i]>>
  OBVIOUS
<1> HIDE DEF f
<1>4. IsSequence(cs)
  BY <1>1, <1>3, FilterSequence
<1> HIDE DEF cs
<1>5. ASSUME NEW i \in DOMAIN cs PROVE LocalOK(n, rs[i]) /\ Plain(rs[i])
  BY BGPRouteOK
<1>6. rs = [i \in DOMAIN cs |-> rs[i]]
  OBVIOUS
<1> HIDE DEF rs
<1>7. IsSequence(rs) /\ \A r \in ToSet(rs) : LocalOK(n, r) /\ Plain(r)
  <2>1. LocalTo(n, rs) /\ ToSet(rs) = {rs[i] : i \in DOMAIN cs}
    BY <1>4, <1>5, <1>6, OriginatesEach
  <2> QED
    BY <1>5, <2>1 DEF LocalTo
<1>8. h = [i \in DOMAIN rs |-> h[i]] /\ \A i \in DOMAIN rs : h[i] = <<>> \/ h[i] = <<rs[i]>>
  OBVIOUS
<1> HIDE DEF h
<1>9. IsSequence(ok) /\ ToSet(ok) \subseteq ToSet(rs)
  BY <1>7, <1>8, FilterSequence
<1>10. ToSet(ok) = {ok[i] : i \in DOMAIN ok}
  BY DEF ToSet
<1> HIDE DEF ok
<1>11. ASSUME NEW i \in DOMAIN ok PROVE LocalOK(n, out[i]) /\ Plain(out[i])
  <2> DEFINE policy == redist.policy
             r == ok[i]
  <2>1. LocalOK(n, r) /\ Shape(r) /\ Plain(r)
    BY <1>7, <1>9, <1>10 DEF LocalOK, FreshOK
  <2>2. out[i] = PolicyRoute(policy, at, r)
    OBVIOUS
  <2> HIDE DEF policy, at, r
  <2>3. /\ Keeps(PolicyRoute(policy, at, r), r)
        /\ PolicyRoute(policy, at, r).base = r.base /\ PolicyRoute(policy, at, r).cond = r.cond
    BY <2>1, PolicyKeeps
  <2> QED
    BY <2>1, <2>2, <2>3 DEF LocalOK, FreshOK, Keeps, Same, Plain
<1>12. out = [i \in DOMAIN ok |-> out[i]]
  OBVIOUS
<1> HIDE DEF out
<1>13. LocalTo(n, out) /\ ToSet(out) = {out[i] : i \in DOMAIN ok}
  BY <1>9, <1>11, <1>12, OriginatesEach
<1> QED
  BY <1>2, <1>11, <1>13 DEF Specific

\* It originates what all of its redistribute statements take.
LEMMA RedistributedOK ==
    ASSUME NEW g \in Nets, NEW n \in Node
    PROVE  LocalTo(n, RedistributedRoutes(g, n)) /\ Specific(RedistributedRoutes(g, n))
<1> DEFINE s == g.redistribute[n]
           f == [i \in DOMAIN s |-> RedistributedFrom(g, n, s[i])]
<1>1. IsSequence(s)
  BY NetsAssumption DEF IsSequence
<1>2. RedistributedRoutes(g, n) = FlattenSeq(f)
  BY DEF RedistributedRoutes
<1> HIDE DEF s
<1>3. Len(s) \in Nat /\ DOMAIN s = 1..Len(s)
  BY <1>1, OwnElements
<1>4. \A i \in 1..Len(s) : LocalTo(n, f[i]) /\ Specific(f[i])
  BY <1>3, RedistributedFromOK
<1>5. f = [i \in 1..Len(s) |-> f[i]]
  BY <1>3
<1> HIDE DEF f
<1>6. /\ IsSequence(FlattenSeq(f))
      /\ \A r \in ToSet(FlattenSeq(f)) : \E i \in 1..Len(s) : r \in ToSet(f[i])
  BY <1>3, <1>4, <1>5, FlattenSequences DEF LocalTo
<1> QED
  BY <1>2, <1>4, <1>6 DEF LocalTo, Specific

\* An agenda of the first round: no aggregates, everything announced is
\* installed before.
FirstAgenda(xs) ==
    /\ TodoOK(xs) /\ Prepared(xs, {})
    /\ \A x \in ToSet(xs) : x.op \in {"add", "walk"} /\ Plain(x.route)

\* Two agendas of the first round make one.
LEMMA FirstConcat ==
    ASSUME NEW s, NEW t, FirstAgenda(s), FirstAgenda(t)
    PROVE  FirstAgenda(s \o t)
<1>1. TodoOK(s \o t) /\ ToSet(s \o t) = ToSet(s) \cup ToSet(t)
  BY TodoConcat DEF FirstAgenda
<1>2. Prepared(s \o t, {})
  BY PreparedConcat DEF FirstAgenda, TodoOK
<1> QED
  BY <1>1, <1>2 DEF FirstAgenda

\* Any number of them do.
LEMMA FirstFlatten ==
    ASSUME NEW s, IsSequence(s), NEW f, f = [i \in DOMAIN s |-> f[i]],
           \A i \in DOMAIN s : FirstAgenda(f[i])
    PROVE  FirstAgenda(FlattenSeq(f))
<1>1. /\ TodoOK(FlattenSeq(f))
      /\ \A x \in ToSet(FlattenSeq(f)) : \E i \in DOMAIN s : x \in ToSet(f[i])
  BY TodoFlatten DEF FirstAgenda
<1>2. Prepared(FlattenSeq(f), {})
  BY PreparedFlatten DEF FirstAgenda, TodoOK
<1> QED
  BY <1>1, <1>2 DEF FirstAgenda

\* Simulate starts with an agenda of the first round.
LEMMA OriginationOK ==
    ASSUME NEW g \in Nets
    PROVE  FirstAgenda(Origination(g))
<1> DEFINE cs == [i \in DOMAIN NodeOrder |-> ConfiguredSteps(g, NodeOrder[i])]
           as == [i \in DOMAIN NodeOrder |-> AnnouncedSteps(g, NodeOrder[i])]
<1>1. IsSequence(NodeOrder) /\ \A i \in DOMAIN NodeOrder : NodeOrder[i] \in Node
  BY NodeOrderOK DEF ToSet
<1>2. ASSUME NEW n \in Node PROVE FirstAgenda(ConfiguredSteps(g, n))
  <2> DEFINE rs == ConfiguredRoutes(g, n)
  <2>1. LocalTo(n, rs) /\ Specific(rs)
    BY ConfiguredOK
  <2> HIDE DEF rs
  <2>2. /\ TodoOK(Step("add", n, rs)) /\ Prepared(Step("add", n, rs), {})
        /\ \A x \in ToSet(Step("add", n, rs)) : x.op = "add" /\ x.route \in ToSet(rs)
    BY <2>1, StepsOK, AddsThenWalks
  <2> QED
    BY <2>1, <2>2 DEF ConfiguredSteps, FirstAgenda, Specific, rs
<1>3. ASSUME NEW n \in Node PROVE FirstAgenda(AnnouncedSteps(g, n))
  <2> DEFINE ns == NetworkRoutes(g, n)
             rs == RedistributedRoutes(g, n)
             nets == AddAndWalk(n, ns)
             adds == Step("add", n, rs)
             walks == Step("walk", n, rs)
  <2>1. LocalTo(n, ns) /\ Specific(ns)
    BY NetworkOK
  <2>2. LocalTo(n, rs) /\ Specific(rs)
    BY RedistributedOK
  <2>3. AnnouncedSteps(g, n) = (nets \o adds) \o walks
    BY DEF AnnouncedSteps
  <2> HIDE DEF ns, rs
  <2>4. FirstAgenda(nets)
    BY <2>1, AddAndWalkOK DEF FirstAgenda, Specific
  <2>5. /\ TodoOK(adds) /\ \A x \in ToSet(adds) : x.op = "add" /\ x.route \in ToSet(rs)
        /\ TodoOK(walks) /\ \A x \in ToSet(walks) : x.op = "walk" /\ x.route \in ToSet(rs)
    BY <2>2, StepsOK
  <2>6. Prepared(adds \o walks, {})
    BY <2>2, AddsThenWalks
  <2>7. FirstAgenda(adds \o walks)
    <3>1. TodoOK(adds \o walks) /\ ToSet(adds \o walks) = ToSet(adds) \cup ToSet(walks)
      BY <2>5, TodoConcat
    <3> QED
      BY <2>2, <2>5, <2>6, <3>1 DEF FirstAgenda, Specific
  <2> HIDE DEF nets, adds, walks
  <2>8. (nets \o adds) \o walks = nets \o (adds \o walks)
    BY <2>4, <2>5, ConcatAssociative DEF FirstAgenda, TodoOK
  <2> QED
    BY <2>3, <2>4, <2>7, <2>8, FirstConcat
<1>4. cs = [i \in DOMAIN NodeOrder |-> cs[i]] /\ \A i \in DOMAIN NodeOrder : FirstAgenda(cs[i])
  BY <1>1, <1>2
<1>5. as = [i \in DOMAIN NodeOrder |-> as[i]] /\ \A i \in DOMAIN NodeOrder : FirstAgenda(as[i])
  BY <1>1, <1>3
<1>6. Origination(g) = FlattenSeq(cs) \o FlattenSeq(as)
  BY DEF Origination
<1> HIDE DEF cs, as
<1>7. FirstAgenda(FlattenSeq(cs)) /\ FirstAgenda(FlattenSeq(as))
  BY <1>1, <1>4, <1>5, FirstFlatten
<1> QED
  BY <1>6, <1>7, FirstConcat

\* The aggregation pass over all nodes is an agenda.
LEMMA AggregateStepsOK ==
    TodoOK(AggregateSteps) /\ \A x \in ToSet(AggregateSteps) : x.op = "aggregate"
<1> DEFINE f == AggregateSteps
           n == Len(NodeOrder)
<1>1. n \in Nat /\ DOMAIN NodeOrder = 1..n /\ \A i \in 1..n : NodeOrder[i] \in Node
  BY NodeOrderOK, OwnElements DEF ToSet
<1>2. f = [i \in 1..n |-> f[i]] /\ \A i \in 1..n : f[i] = [op |-> "aggregate", node |-> NodeOrder[i]]
  BY <1>1 DEF AggregateSteps
<1> HIDE DEF f, n
<1>3. IsSequence(f) /\ Len(f) = n
  BY <1>1, <1>2, FunctionSequence
<1>4. ToSet(f) = {f[i] : i \in 1..n}
  BY <1>3, OwnElements
<1>5. \A i \in 1..n : StepOK(f[i]) /\ f[i].op = "aggregate"
  BY <1>1, <1>2 DEF StepOK
<1> QED
  BY <1>3, <1>4, <1>5 DEF TodoOK, f

---------------------------------------------------------------------------
(***************************************************************************)
(* Ranking.                                                                *)
(***************************************************************************)

\* One insertion of rankRoutes keeps a table's slot a sequence of its routes.
LEMMA InsertRankedOK ==
    ASSUME NEW S, NEW out \in Seq(S), NEW r \in S, NEW kind, NEW n
    PROVE  /\ InsertRanked(kind, n, out, r) \in Seq(S)
           /\ ToSet(InsertRanked(kind, n, out, r)) = ToSet(out) \cup {r}
<1> DEFINE stops == {i \in 1..Len(out) : ~Less(kind, n, r, out[i])}
           k == IF stops = {} THEN 1 ELSE Max(stops) + 1
<1>1. Len(out) \in Nat /\ stops \subseteq Nat /\ \A i \in stops : i <= Len(out)
  OBVIOUS
<1>2. stops # {} => Max(stops) \in stops
  <2> HIDE DEF stops
  <2> QED
    BY <1>1, GreatestElement
<1>3. stops # {} => Max(stops) \in 1..Len(out)
  BY <1>2
<1>4. InsertRanked(kind, n, out, r) = InsertAt(out, k, r)
  BY DEF InsertRanked
<1> HIDE DEF stops
<1>5. k \in 1..(Len(out) + 1)
  BY <1>1, <1>3
<1> HIDE DEF k
<1> QED
  BY <1>4, <1>5, InsertElements

\* Ranking only reorders: it makes up no route, and loses none.
LEMMA RankedOK ==
    ASSUME NEW kind, NEW n, NEW routes, IsSequence(routes)
    PROVE  /\ IsSequence(RankRoutes(kind, n, routes))
           /\ ToSet(RankRoutes(kind, n, routes)) = ToSet(routes)
<1> DEFINE N == Len(routes)
           R == ToSet(routes)
           S == Seq(R)
           G == [x \in (1..N) \X S |-> InsertRanked(kind, n, x[2], routes[x[1]])]
           eq(f) == f = [i \in 0..N |-> IF i = 0 THEN <<>>
                                        ELSE InsertRanked(kind, n, f[i - 1], routes[i])]
           ranked == CHOOSE f : eq(f)
<1>1. N \in Nat /\ routes \in Seq(R)
  BY OwnElements
<1>2. RankRoutes(kind, n, routes) = ranked[N]
  BY DEF RankRoutes
<1> HIDE DEF N, R
<1>3. \A i \in 1..N : routes[i] \in R
  BY <1>1 DEF N
<1>4. ASSUME NEW i \in 1..N, NEW out \in S
      PROVE  /\ InsertRanked(kind, n, out, routes[i]) \in S
             /\ ToSet(InsertRanked(kind, n, out, routes[i])) = ToSet(out) \cup {routes[i]}
  BY <1>3, InsertRankedOK
<1>5. <<>> \in S
  OBVIOUS
<1> HIDE DEF S
<1>6. G \in [(1..N) \X S -> S]
  BY <1>4
<1> HIDE DEF G
<1>7. PICK F \in [0..N -> S] : F[0] = <<>> /\ \A i \in 1..N : F[i] = G[<<i, F[i - 1]>>]
  <2> DEFINE none == <<>>
  <2>1. none \in S
    BY <1>5
  <2> HIDE DEF none
  <2>2. \E F : Iterates(F, N, S, none, G)
    BY <1>1, <1>6, <2>1, BoundedRecursion
  <2> QED
    BY <2>2 DEF none, Iterates
<1>8. ASSUME NEW i \in 1..N PROVE F[i] = InsertRanked(kind, n, F[i - 1], routes[i])
  <2>1. i - 1 \in 0..N
    BY <1>1
  <2>2. <<i, F[i - 1]>> \in (1..N) \X S
    BY <1>7, <2>1
  <2>3. G[<<i, F[i - 1]>>] = InsertRanked(kind, n, F[i - 1], routes[i])
    BY <2>2 DEF G
  <2> QED
    BY <1>7, <2>3
<1>9. eq(F)
  <2>1. \A i \in 0..N : i # 0 => i \in 1..N
    BY <1>1
  <2> QED
    BY <1>7, <1>8, <2>1
<1>10. eq(ranked)
  BY <1>9, Zenon
<1> HIDE DEF ranked
<1> DEFINE T == {i \in 0..N : ranked[i] \in S /\ ToSet(ranked[i]) = {routes[j] : j \in 1..i}}
<1>11. 0 \in T
  <2>1. 0 \in 0..N /\ 1..0 = {}
    BY <1>1
  <2>2. ranked[0] = <<>> /\ ToSet(<<>>) = {}
    BY <1>10, <2>1, ElementsOf
  <2> QED
    BY <1>5, <2>1, <2>2
<1>12. ASSUME NEW i \in 1..N, i - 1 \in T PROVE i \in T
  <2>1. i \in 0..N /\ i # 0
    BY <1>1
  <2>2. ranked[i] = InsertRanked(kind, n, ranked[i - 1], routes[i])
    BY <1>10, <2>1
  <2>3. ranked[i] \in S /\ ToSet(ranked[i]) = ToSet(ranked[i - 1]) \cup {routes[i]}
    BY <1>4, <1>12, <2>2
  <2>4. 1..i = 1..(i - 1) \cup {i}
    OBVIOUS
  <2> QED
    BY <1>12, <2>1, <2>3, <2>4
<1> HIDE DEF T
<1>13. 0..N \subseteq T /\ N \in 0..N
  <2>1. 0..N \subseteq T
    BY <1>1, <1>11, <1>12, BoundedInduction
  <2> QED
    BY <1>1, <2>1
<1>14. ranked[N] \in Seq(R) /\ ToSet(ranked[N]) = {routes[j] : j \in 1..N}
  BY <1>13 DEF T, S
<1>15. IsSequence(ranked[N]) /\ R = {routes[j] : j \in 1..N}
  BY <1>14, OwnElements DEF IsSequence, R, N
<1> QED
  BY <1>2, <1>14, <1>15 DEF R

---------------------------------------------------------------------------
(***************************************************************************)
(* Changes of the RIB.                                                     *)
(***************************************************************************)

\* The slots of a well-formed RIB.
LEMMA SlotOK ==
    ASSUME NEW table, RIBOK(table)
    PROVE  /\ DOMAIN table = Node \X Prefix
           /\ \A x : x \in PathsOf(table) <=>
                 \E s \in Node \X Prefix : \E r \in ToSet(table[s]) : x = ConditionedPath(r)
<1>1. DOMAIN table = Node \X Prefix
  BY DEF RIBOK
<1> QED
  BY <1>1 DEF PathsOf

\* A new entry leaves the others as they are.
LEMMA AddRIBOK ==
    ASSUME NEW table, RIBOK(table), NEW n, NEW r, EntryOK(n, r)
    PROVE  /\ RIBOK(AddRIB(table, n, r))
           /\ PathsOf(table) \subseteq PathsOf(AddRIB(table, n, r))
           /\ PathsOf(AddRIB(table, n, r)) \subseteq PathsOf(table) \cup {ConditionedPath(r)}
<1> DEFINE new == AddRIB(table, n, r)
           slot == <<n, r.prefix>>
<1>1. CASE new = table
  BY <1>1
<1>2. CASE new # table
  <2>1. new = [table EXCEPT ![slot] = Append(@, r)]
    BY <1>2 DEF AddRIB
  <2>2. DOMAIN table = Node \X Prefix /\ \A s \in Node \X Prefix : IsSequence(table[s])
    BY DEF RIBOK
  <2>3. new = [s \in Node \X Prefix |-> new[s]]
    BY <2>1, <2>2
  <2>4. ASSUME NEW s \in Node \X Prefix
        PROVE  /\ IsSequence(new[s]) /\ ToSet(table[s]) \subseteq ToSet(new[s])
               /\ \A q \in ToSet(new[s]) : q \in ToSet(table[s]) \/ (q = r /\ s = slot)
    <3>1. CASE s = slot
      <4>1. new[s] = Append(table[s], r)
        BY <2>1, <2>2, <3>1
      <4>2. IsSequence(new[s]) /\ ToSet(new[s]) = ToSet(table[s]) \cup {r}
        BY <2>2, <4>1, SequenceBasics, ElementsOf
      <4> QED
        BY <3>1, <4>2
    <3>2. CASE s # slot
      <4>1. new[s] = table[s]
        BY <2>1, <2>2, <3>2
      <4> QED
        BY <2>2, <4>1
    <3> QED
      BY <3>1, <3>2
  <2>5. ASSUME NEW s \in Node \X Prefix, NEW q \in ToSet(new[s])
        PROVE  EntryOK(s[1], q) /\ q.prefix = s[2]
    <3>1. CASE q \in ToSet(table[s])
      BY <3>1 DEF RIBOK
    <3>2. CASE q = r /\ s = slot
      BY <3>2
    <3> QED
      BY <2>4, <3>1, <3>2
  <2> HIDE DEF new, slot
  <2>6. RIBOK(new)
    BY <2>3, <2>4, <2>5 DEF RIBOK
  <2>7. PathsOf(table) \subseteq PathsOf(new)
    BY <2>4, <2>6, SlotOK
  <2>8. PathsOf(new) \subseteq PathsOf(table) \cup {ConditionedPath(r)}
    BY <2>4, <2>6, SlotOK
  <2> QED
    BY <2>6, <2>7, <2>8 DEF new
<1> QED
  BY <1>1, <1>2

\* What the decision process looks at, conditions aside.
Alike(r, q) ==
    /\ Same(r, q) /\ r.path = q.path /\ r.from = q.from /\ r.attrs = q.attrs
    /\ r.nextHop = q.nextHop /\ r.igpCost = q.igpCost
    /\ r.ospfType = q.ospfType /\ r.metric = q.metric

\* r is q with other conditions, none of them in a new world.
Narrows(r, q) ==
    /\ Shape(r) /\ Alike(r, q)
    /\ r.cond.holds \subseteq r.base.holds /\ r.base.holds \subseteq q.base.holds
    /\ r.base.holds \cup r.sel.holds \subseteq q.base.holds \cup q.sel.holds

\* A slot whose conditions are computed anew: no entry comes, none goes.
Narrowed(new, old) ==
    /\ IsSequence(new)
    /\ \A r \in ToSet(new) : \E q \in ToSet(old) : Narrows(r, q)
    /\ \A q \in ToSet(old) : \E r \in ToSet(new) : Narrows(r, q)

\* Conditions computed anew, slot by slot.
LEMMA NarrowOK ==
    ASSUME NEW table, RIBOK(table), NEW new, new = [s \in Node \X Prefix |-> new[s]],
           \A s \in Node \X Prefix : Narrowed(new[s], table[s])
    PROVE  /\ RIBOK(new)
           /\ \A x \in PathsOf(new) : \E y \in PathsOf(table) :
                 /\ x.path = y.path
                 /\ (x.base \cup x.cond \cup x.sel) \subseteq (y.base \cup y.cond \cup y.sel)
<1>1. ASSUME NEW s \in Node \X Prefix, NEW r \in ToSet(new[s])
      PROVE  EntryOK(s[1], r) /\ r.prefix = s[2]
  <2>1. PICK q \in ToSet(table[s]) : Narrows(r, q)
    BY DEF Narrowed
  <2>2. EntryOK(s[1], q) /\ q.prefix = s[2]
    BY DEF RIBOK
  <2> QED
    BY <2>1, <2>2 DEF EntryOK, Narrows, Alike, Same
<1>2. RIBOK(new)
  BY <1>1 DEF RIBOK, Narrowed
<1>3. ASSUME NEW x \in PathsOf(new)
      PROVE  \E y \in PathsOf(table) :
                /\ x.path = y.path
                /\ (x.base \cup x.cond \cup x.sel) \subseteq (y.base \cup y.cond \cup y.sel)
  <2>0. PICK s \in Node \X Prefix : \E r \in ToSet(new[s]) : x = ConditionedPath(r)
    BY <1>2, SlotOK
  <2>1. PICK r \in ToSet(new[s]) : x = ConditionedPath(r)
    BY <2>0
  <2>2. PICK q \in ToSet(table[s]) : Narrows(r, q)
    BY DEF Narrowed
  <2>3. ConditionedPath(q) \in PathsOf(table)
    BY <2>2, SlotOK
  <2> QED
    BY <2>1, <2>2, <2>3 DEF ConditionedPath, Narrows, Alike
<1> QED
  BY <1>2, <1>3

---------------------------------------------------------------------------
(***************************************************************************)
(* The steps of Simulate, one by one.                                      *)
(***************************************************************************)

\* The next origination step is well-formed, and so are the ones after it.
LEMMA HeadStepOK ==
    ASSUME NEW op, IInv, NextStep(op)
    PROVE  StepOK(Head(todo)) /\ TodoOK(Tail(todo))
<1>1. IsSequence(todo) /\ todo # <<>> /\ \A x \in ToSet(todo) : StepOK(x)
  BY DEF IInv, TodoOK, NextStep
<1>2. Head(todo) \in ToSet(todo) /\ IsSequence(Tail(todo)) /\ ToSet(Tail(todo)) \subseteq ToSet(todo)
  BY <1>1, ElementsOf
<1> QED
  BY <1>1, <1>2 DEF TodoOK

\* Installing a configured or announced route.
LEMMA AddRouteStep ==
    ASSUME IInv, AddRoute
    PROVE  IInv' /\ Paths!Propagate
<1> DEFINE n == Head(todo).node
           r == Head(todo).route
<1>1. n \in Node /\ LocalOK(n, r) /\ TodoOK(Tail(todo))
  BY HeadStepOK DEF AddRoute, NextStep, StepOK
<1>2. /\ rib' = AddRIB(rib, n, r) /\ todo' = Tail(todo) /\ net' = net /\ stack' = stack
  BY DEF AddRoute
<1> HIDE DEF n, r
<1>3. EntryOK(n, r)
  <2>1. Last(<<n>>) = n /\ NoCond.holds = {}
    BY LastAndFront DEF NoCond
  <2> QED
    BY <1>1, <2>1 DEF LocalOK, FreshOK, EntryOK
<1>4. /\ RIBOK(rib') /\ PathsOf(rib) \subseteq PathsOf(rib')
      /\ PathsOf(rib') \subseteq PathsOf(rib) \cup {ConditionedPath(r)}
  BY <1>2, <1>3, AddRIBOK DEF IInv
<1>5. IInv'
  BY <1>1, <1>2, <1>4 DEF IInv
<1>6. ASSUME NEW x \in PathsOf(rib') \ PathsOf(rib)
      PROVE  /\ x.path = <<n>> /\ x.base \subseteq Up(n)
             /\ x.cond \subseteq x.base /\ x.sel \subseteq x.base
  <2>1. x = ConditionedPath(r)
    BY <1>4
  <2> QED
    BY <1>1, <2>1 DEF ConditionedPath, LocalOK, FreshOK, NoCond
<1>7. Paths!Propagate
  BY <1>1, <1>2, <1>4, <1>6 DEF Paths!Propagate, Paths!Own, Paths!Up, Up, Paths!NodeUp, NodeUp
<1> QED
  BY <1>5, <1>7

\* A walk starts with the announcement of an own route.
LEMMA StartWalkStep ==
    ASSUME IInv, StartWalk
    PROVE  IInv' /\ Paths!Propagate
<1> DEFINE n == Head(todo).node
           r == Head(todo).route
<1>1. n \in Node /\ LocalOK(n, r) /\ TodoOK(Tail(todo))
  BY HeadStepOK DEF StartWalk, NextStep, StepOK
<1>2. /\ stack' = <<Frame(r)>> /\ todo' = Tail(todo) /\ net' = net /\ rib' = rib
  BY DEF StartWalk
<1> HIDE DEF n, r
<1>3. IsSequence(stack') /\ ToSet(stack') = {Frame(r)}
  BY <1>2, SequenceBasics, ElementsOf
<1>4. Frame(r).route = r /\ {"route", "peers"} \subseteq DOMAIN Frame(r)
  BY DEF Frame
<1>5. StackOK(stack')
  BY <1>1, <1>3, <1>4 DEF StackOK, FrameOK, LocalOK
<1>6. IInv'
  BY <1>1, <1>2, <1>5 DEF IInv
<1>7. ASSUME NEW a \in InProgress(stack') PROVE a.path = <<n>> /\ a.worlds \subseteq Up(n)
  BY <1>1, <1>3, <1>4 DEF InProgress, LocalOK
<1>8. Paths!Propagate
  BY <1>1, <1>2, <1>7 DEF Paths!Propagate, Paths!Own, Paths!Up, Up, Paths!NodeUp, NodeUp
<1> QED
  BY <1>6, <1>8

\* One adjacency of a walk: nothing, or an entry one hop further on.
LEMMA WalkRouteStep ==
    ASSUME IInv, WalkRoute
    PROVE  IInv' /\ Paths!Propagate
<1> DEFINE fr   == Head(stack)
           r    == fr.route
           m    == Last(r.path)
           n    == Head(fr.peers)
           top  == [fr EXCEPT !.peers = Tail(@)]
           rest == <<top>> \o Tail(stack)
           adv  == Advertisement(m, n, ApplyAggregateSuppression(m, r))
<1>1. /\ net' = net /\ todo' = todo
      /\ \/ adv = {} /\ stack' = rest /\ rib' = rib
         \/ \E e \in adv : /\ rib' = AddRIB(rib, n, e)
                           /\ stack' = <<Frame(e)>> \o rest \/ stack' = rest
  BY DEF WalkRoute
<1>2. /\ IsSequence(Tail(stack)) /\ ToSet(Tail(stack)) \subseteq ToSet(stack)
      /\ fr \in ToSet(stack) /\ \A f \in ToSet(stack) : FrameOK(f)
  BY ElementsOf DEF IInv, StackOK, WalkRoute
<1>3. FrameOK(top) /\ top.route = r /\ FreshOK(r) /\ Shape(r)
  BY <1>2 DEF FrameOK, FreshOK
<1> HIDE DEF fr, top
<1>4. IsSequence(rest) /\ ToSet(rest) = {top} \cup ToSet(Tail(stack))
  BY <1>2, SequenceBasics, ElementsOf
<1> HIDE DEF rest
<1>5. StackOK(rest)
  BY <1>2, <1>3, <1>4 DEF StackOK
<1> DEFINE a == [path |-> r.path, worlds |-> r.cond.holds]
<1>6. a \in InProgress(stack)
  BY <1>2 DEF InProgress
<1>7. InProgress(rest) \subseteq InProgress(stack)
  <2> SUFFICES ASSUME NEW f \in ToSet(rest)
               PROVE  [path |-> f.route.path, worlds |-> f.route.cond.holds] \in InProgress(stack)
    BY DEF InProgress
  <2>1. CASE f = top
    BY <1>3, <1>6, <2>1
  <2>2. CASE f \in ToSet(Tail(stack))
    BY <1>2, <2>2 DEF InProgress
  <2> QED
    BY <1>4, <2>1, <2>2
<1>8. CASE adv = {} /\ stack' = rest /\ rib' = rib
  <2>1. IInv'
    BY <1>1, <1>5, <1>8 DEF IInv
  <2>2. Paths!Propagate
    BY <1>7, <1>8 DEF Paths!Propagate
  <2> QED
    BY <2>1, <2>2
<1>9. ASSUME NEW e \in adv, rib' = AddRIB(rib, n, e), stack' = <<Frame(e)>> \o rest \/ stack' = rest
      PROVE  IInv' /\ Paths!Propagate
  <2>1. m \in Node /\ n \in Node /\ NextHop(e, m, n, r)
    BY <1>3, AdvertisementHop DEF IInv
  <2>2. m = r.path[Len(r.path)]
    BY DEF Last
  <2> HIDE DEF m, n, adv, r
  <2>3. FreshOK(e) /\ EntryOK(n, e)
    <3>1. Last(e.path) = n /\ NoCond.holds = {}
      BY <1>3, <2>1, LastAndFront DEF NextHop, Shape, NoCond
    <3> QED
      BY <1>3, <2>1, <3>1 DEF FreshOK, EntryOK, NextHop, Up
  <2>4. /\ RIBOK(rib') /\ PathsOf(rib) \subseteq PathsOf(rib')
        /\ PathsOf(rib') \subseteq PathsOf(rib) \cup {ConditionedPath(e)}
    BY <1>9, <2>3, AddRIBOK DEF IInv
  <2>5. FrameOK(Frame(e)) /\ Frame(e).route = e
    BY <2>3 DEF Frame, FrameOK
  <2>6. IsSequence(stack') /\ ToSet(stack') \subseteq {Frame(e)} \cup ToSet(rest)
    <3>1. CASE stack' = rest
      BY <1>4, <3>1
    <3>2. CASE stack' = <<Frame(e)>> \o rest
      <4>1. /\ IsSequence(<<Frame(e)>>) /\ ToSet(<<Frame(e)>>) = {Frame(e)}
            /\ IsSequence(<<Frame(e)>> \o rest)
        BY <1>4, SequenceBasics, ElementsOf
      <4>2. ToSet(<<Frame(e)>> \o rest) = {Frame(e)} \cup ToSet(rest)
        BY <1>4, <4>1, ElementsOf
      <4> QED
        BY <3>2, <4>1, <4>2
    <3> QED
      BY <1>9, <3>1, <3>2
  <2>7. StackOK(stack')
    BY <1>5, <2>5, <2>6 DEF StackOK
  <2>8. IInv'
    BY <1>1, <2>4, <2>7 DEF IInv
  <2>9. Paths!Hop(e.path, e.cond.holds)
    <3>1. e.path = Append(a.path, n) /\ e.cond.holds \subseteq a.worlds
      BY <2>1 DEF NextHop
    <3>2. e.cond.holds \subseteq Paths!Across(a.path[Len(a.path)], n)
      BY <2>1, <2>2 DEF NextHop, Paths!Across, LinkUp, NodeUp, Paths!LinkUp, Paths!NodeUp
    <3> QED
      BY <1>6, <2>1, <3>1, <3>2 DEF Paths!Hop
  <2>10. ASSUME NEW x \in PathsOf(rib') \ PathsOf(rib)
         PROVE  Paths!Hop(x.path, x.base) /\ x.cond \subseteq x.base /\ x.sel \subseteq x.base
    <3>1. x = ConditionedPath(e)
      BY <2>4
    <3>2. x.path = e.path /\ x.base = e.cond.holds /\ x.cond = e.cond.holds /\ x.sel = {}
      BY <2>1, <2>3, <3>1 DEF ConditionedPath, NextHop, FreshOK, NoCond
    <3> QED
      BY <2>9, <3>2
  <2>11. ASSUME NEW x \in InProgress(stack') \ InProgress(stack) PROVE Paths!Hop(x.path, x.worlds)
    <3>1. PICK f \in ToSet(stack') : x = [path |-> f.route.path, worlds |-> f.route.cond.holds]
      BY DEF InProgress
    <3>2. f \notin ToSet(rest)
      BY <1>7, <3>1 DEF InProgress
    <3>3. f = Frame(e)
      BY <2>6, <3>1, <3>2
    <3> QED
      BY <2>5, <2>9, <3>1, <3>3
  <2>12. Paths!Propagate
    BY <2>4, <2>10, <2>11 DEF Paths!Propagate
  <2> QED
    BY <2>8, <2>12
<1> QED
  BY <1>1, <1>8, <1>9

\* A walk returns: one announcement less.
LEMMA ReturnFromWalkStep ==
    ASSUME IInv, ReturnFromWalk
    PROVE  IInv' /\ Paths!Restrict
<1>1. /\ IsSequence(Tail(stack)) /\ ToSet(Tail(stack)) \subseteq ToSet(stack)
      /\ \A f \in ToSet(stack) : FrameOK(f)
  BY ElementsOf DEF IInv, StackOK, ReturnFromWalk
<1>2. stack' = Tail(stack) /\ net' = net /\ rib' = rib /\ todo' = todo
  BY DEF ReturnFromWalk
<1>3. IInv'
  BY <1>1, <1>2 DEF IInv, StackOK
<1>4. InProgress(stack') \subseteq InProgress(stack)
  BY <1>1, <1>2 DEF InProgress
<1>5. Paths!Restrict
  BY <1>2, <1>4 DEF Paths!Restrict
<1> QED
  BY <1>3, <1>5

\* A step that computes conditions anew.
LEMMA NarrowStep ==
    ASSUME IInv, net' = net, stack' = stack, TodoOK(todo'),
           rib' = [s \in Node \X Prefix |-> rib'[s]],
           \A s \in Node \X Prefix : Narrowed(rib'[s], rib[s])
    PROVE  IInv' /\ Paths!Restrict
<1> DEFINE table == rib'
<1>1. /\ table = [s \in Node \X Prefix |-> table[s]]
      /\ \A s \in Node \X Prefix : Narrowed(table[s], rib[s])
  OBVIOUS
<1> HIDE DEF table
<1>2. /\ RIBOK(table)
      /\ \A x \in PathsOf(table) : \E y \in PathsOf(rib) :
            /\ x.path = y.path
            /\ (x.base \cup x.cond \cup x.sel) \subseteq (y.base \cup y.cond \cup y.sel)
  BY <1>1, NarrowOK DEF IInv
<1>3. IInv'
  BY <1>2 DEF IInv, table
<1>4. Paths!Restrict
  BY <1>2 DEF Paths!Restrict, table
<1> QED
  BY <1>3, <1>4

\* Ways to narrow an entry.
LEMMA NarrowsSel ==
    ASSUME NEW q, Shape(q), q.cond.holds \subseteq q.base.holds, NEW c, c.holds \subseteq q.cond.holds
    PROVE  Narrows([q EXCEPT !.sel = c], q)
BY DEF Narrows, Alike, Shape, Same

\* A condition that implies the base condition narrows the route.
LEMMA NarrowsCond ==
    ASSUME NEW q, Shape(q), NEW c, c.holds \subseteq q.base.holds
    PROVE  Narrows([q EXCEPT !.cond = c], q)
BY DEF Narrows, Alike, Shape, Same

\* Conjoining the same terms to base and condition narrows the route.
LEMMA NarrowsBoth ==
    ASSUME NEW q, Shape(q), q.cond.holds \subseteq q.base.holds, NEW nots
    PROVE  Narrows([q EXCEPT !.base = AndAll({@} \cup nots), !.cond = AndAll({@} \cup nots)], q)
BY DEF Narrows, Alike, Shape, AndAll, Same

\* A selected condition is available.
LEMMA SelectedAvailable ==
    ASSUME NEW n, NEW ranked, NEW i
    PROVE  SelectedCond(n, ranked, i).holds \subseteq ranked[i].cond.holds
BY DEF SelectedCond, FalseCond, And, AndAll

\* Ranking and selection: no route comes or goes, and what is selected is
\* available.
LEMMA SelectNarrows ==
    ASSUME IInv, SelectRoutes
    PROVE  /\ rib' = [s \in Node \X Prefix |-> rib'[s]]
           /\ \A s \in Node \X Prefix :
                 /\ Narrowed(rib'[s], rib[s])
                 /\ \A r \in ToSet(rib'[s]) : r.sel.holds \subseteq r.base.holds
<1>1. /\ rib' = [s \in Node \X Prefix |-> SelectSlot(s[1], rib[s])]
      /\ net' = net /\ stack' = stack /\ todo' = todo
  BY SlotOK DEF IInv, SelectRoutes
<1>2. ASSUME NEW s \in Node \X Prefix
      PROVE  /\ Narrowed(rib'[s], rib[s])
             /\ \A r \in ToSet(rib'[s]) : r.sel.holds \subseteq r.base.holds
  <2> DEFINE n == s[1]
             kind == net.kind[n]
             ranked == RankRoutes(kind, n, rib[s])
             new == rib'[s]
  <2>1. new = [i \in DOMAIN ranked |-> [ranked[i] EXCEPT !.sel = SelectedCond(n, ranked, i)]]
    BY <1>1 DEF SelectSlot
  <2>2. /\ IsSequence(rib[s])
        /\ \A q \in ToSet(rib[s]) : Shape(q) /\ q.cond.holds \subseteq q.base.holds
    BY DEF IInv, RIBOK, EntryOK
  <2> HIDE DEF kind
  <2>3. IsSequence(ranked) /\ ToSet(ranked) = ToSet(rib[s])
    BY <2>2, RankedOK
  <2>4. Len(ranked) \in Nat /\ DOMAIN ranked = 1..Len(ranked) /\ ToSet(ranked) = {ranked[i] : i \in 1..Len(ranked)}
    BY <2>3, OwnElements
  <2> HIDE DEF ranked, new
  <2>5. IsSequence(new) /\ Len(new) = Len(ranked)
    <3>1. new = [i \in 1..Len(ranked) |-> new[i]]
      BY <2>1, <2>4
    <3> QED
      BY <2>4, <3>1, FunctionSequence
  <2>6. ToSet(new) = {new[i] : i \in 1..Len(ranked)}
    BY <2>5, OwnElements
  <2>7. ASSUME NEW i \in 1..Len(ranked) 
        PROVE  /\ ranked[i] \in ToSet(rib[s]) /\ Narrows(new[i], ranked[i])
               /\ new[i].sel.holds \subseteq new[i].base.holds
    <3>1. /\ ranked[i] \in ToSet(rib[s]) /\ Shape(ranked[i])
          /\ ranked[i].cond.holds \subseteq ranked[i].base.holds
      BY <2>2, <2>3, <2>4
    <3> DEFINE c == SelectedCond(n, ranked, i)
    <3>2. new[i] = [ranked[i] EXCEPT !.sel = c] /\ c.holds \subseteq ranked[i].cond.holds
      BY <2>1, <2>4, SelectedAvailable
    <3> HIDE DEF c
    <3>3. Narrows(new[i], ranked[i])
      BY <3>1, <3>2, NarrowsSel
    <3>4. new[i].sel = c /\ new[i].base = ranked[i].base
      BY <3>1, <3>2 DEF Shape
    <3> QED
      BY <3>1, <3>2, <3>3, <3>4
  <2> QED
    BY <2>3, <2>4, <2>5, <2>6, <2>7 DEF new, Narrowed
<1> QED
  BY <1>1, <1>2

\* Ranking and selection.
LEMMA SelectRoutesStep ==
    ASSUME IInv, SelectRoutes
    PROVE  IInv' /\ Paths!Restrict
<1>1. net' = net /\ stack' = stack /\ todo' = todo
  BY DEF SelectRoutes
<1> QED
  BY <1>1, SelectNarrows, NarrowStep DEF IInv

\* "My parent is selected" only restricts the entry's own base condition.
LEMMA AdvertisedAvailable ==
    ASSUME NEW r
    PROVE  AdvertisedCond(r).holds \subseteq r.base.holds
BY DEF AdvertisedCond, FalseCond, And, AndAll

\* What ApplyAdvertisementConditions writes.
LEMMA AdvertisedNarrows ==
    ASSUME IInv, rib' = Advertised
    PROVE  /\ rib' = [s \in Node \X Prefix |-> rib'[s]]
           /\ \A s \in Node \X Prefix :
                 /\ Narrowed(rib'[s], rib[s])
                 /\ \A r \in ToSet(rib'[s]) : \E q \in ToSet(rib[s]) : r.sel = q.sel /\ r.base = q.base
<1>1. rib' = [s \in Node \X Prefix |->
                [i \in DOMAIN rib[s] |-> [rib[s][i] EXCEPT !.cond = AdvertisedCond(rib[s][i])]]]
  BY SlotOK DEF IInv, Advertised
<1>2. ASSUME NEW s \in Node \X Prefix
      PROVE  /\ Narrowed(rib'[s], rib[s])
             /\ \A r \in ToSet(rib'[s]) : \E q \in ToSet(rib[s]) : r.sel = q.sel /\ r.base = q.base
  <2> DEFINE old == rib[s]
             new == rib'[s]
  <2>1. new = [i \in DOMAIN old |-> [old[i] EXCEPT !.cond = AdvertisedCond(old[i])]]
    BY <1>1
  <2>2. IsSequence(old) /\ \A q \in ToSet(old) : Shape(q) /\ q.cond.holds \subseteq q.base.holds
    BY DEF IInv, RIBOK, EntryOK
  <2> HIDE DEF old, new
  <2>3. Len(old) \in Nat /\ DOMAIN old = 1..Len(old) /\ ToSet(old) = {old[i] : i \in 1..Len(old)}
    BY <2>2, OwnElements
  <2>4. new = [i \in 1..Len(old) |-> new[i]]
    BY <2>1, <2>3
  <2>5. IsSequence(new) /\ Len(new) = Len(old)
    BY <2>3, <2>4, FunctionSequence
  <2>6. ToSet(new) = {new[i] : i \in 1..Len(old)}
    BY <2>5, OwnElements
  <2>7. ASSUME NEW i \in 1..Len(old) 
        PROVE  Narrows(new[i], old[i]) /\ new[i].sel = old[i].sel /\ new[i].base = old[i].base
    <3> DEFINE q == old[i]
               c == AdvertisedCond(q)
    <3>1. new[i] = [q EXCEPT !.cond = c] /\ c.holds \subseteq q.base.holds /\ Shape(q)
      BY <2>1, <2>2, <2>3, AdvertisedAvailable
    <3> HIDE DEF q, c
    <3>2. Narrows([q EXCEPT !.cond = c], q)
      BY <3>1, NarrowsCond
    <3>3. [q EXCEPT !.cond = c].sel = q.sel /\ [q EXCEPT !.cond = c].base = q.base
      BY <3>1 DEF Shape
    <3> QED
      BY <3>1, <3>2, <3>3 DEF q
  <2> QED
    BY <2>3, <2>5, <2>6, <2>7 DEF old, new, Narrowed
<1> QED
  BY <1>1, <1>2

\* A step that writes it.
LEMMA AdvertisedStep ==
    ASSUME IInv, rib' = Advertised, net' = net, stack' = stack, TodoOK(todo')
    PROVE  IInv' /\ Paths!Restrict
BY AdvertisedNarrows, NarrowStep

\* An aggregate with contributors exists only while its device is up.
LEMMA ContributorsUp ==
    ASSUME RIBOK(rib), NEW n \in Node, NEW q, Contributors(rib, n, q) # {}
    PROVE  AggregateContributorCond(rib, n, q).holds \subseteq Up(n)
<1> DEFINE chosen(r) == IF r.sel = NoCond THEN r.cond ELSE r.sel
           cs == {chosen(r) : r \in Contributors(rib, n, q)}
<1>1. PICK r \in Contributors(rib, n, q) : TRUE
  OBVIOUS
<1>2. PICK p \in Prefix : r \in ToSet(rib[<<n, p>>])
  BY <1>1 DEF Contributors
<1>3. EntryOK(n, r)
  <2>1. <<n, p>> \in Node \X Prefix /\ <<n, p>>[1] = n
    OBVIOUS
  <2> QED
    BY <1>2, <2>1 DEF RIBOK
<1>4. chosen(r).holds \subseteq Up(n)
  BY <1>3 DEF EntryOK
<1>5. AggregateContributorCond(rib, n, q) = AndAll(cs)
  BY DEF AggregateContributorCond
<1>6. chosen(r) \in cs
  BY <1>1
<1> HIDE DEF chosen, cs
<1> QED
  BY <1>4, <1>5, <1>6 DEF AndAll

\* The condition c outside the worlds of the aggregates as of n, and r as
\* what these leave of q.
Outside(n, c, as) == AndAll({c} \cup {Not(AggregateContributorCond(rib, n, a.prefix)) : a \in as})
Leaves(r, q, n, as) ==
    /\ r.sel = q.sel
    /\ \/ r.base = q.base /\ r.cond = q.cond
       \/ r.base = Outside(n, q.base, as) /\ r.cond = Outside(n, q.cond, as)

\* What a device's aggregates cs make of a RIB: its other entries for more
\* specific prefixes leave the aggregates' worlds.
AggregatesWith(n, cs, table, agenda) ==
    /\ ToSet(cs) \subseteq ToSet(Aggregates(n))
    /\ table = [s \in Node \X Prefix |-> table[s]]
    /\ \A s \in Node \X Prefix :
          /\ Narrowed(table[s], rib[s])
          /\ \A r \in ToSet(table[s]) : \E q \in ToSet(rib[s]) : \E as : Leaves(r, q, n, as)
          /\ \A r \in ToSet(table[s]) : s[1] = n /\ r.kind # "aggregate" =>
                \A c \in ToSet(cs) : <<s[2], c.prefix>> \in Within =>
                   r.base.holds \cap AggregateContributorCond(rib, n, c.prefix).holds = {}
    /\ \E rs : /\ TodoOK(AddAndWalk(n, rs)) /\ agenda = AddAndWalk(n, rs) \o Tail(todo)
              /\ \A x \in ToSet(AddAndWalk(n, rs)) :
                    x.op \in {"add", "walk"} /\ \E c \in ToSet(cs) : x.route = AggregateRoute(n, c)

\* The aggregates of a device and their exclusion.
LEMMA AggregateNarrows ==
    ASSUME IInv, AggregateRoutes
    PROVE  \E cs : AggregatesWith(Head(todo).node, cs, rib', todo')
<1> DEFINE n  == Head(todo).node
           gs == net.routes[n]
           f  == [i \in DOMAIN gs |-> IF gs[i].kind = "aggregate" THEN <<gs[i]>> ELSE <<>>]
           as == FlattenSeq(f)
           h  == [i \in DOMAIN as |->
                    IF Contributors(rib, n, as[i].prefix) # {} THEN <<as[i]>> ELSE <<>>]
           cs == FlattenSeq(h)
           rs == [i \in DOMAIN cs |-> AggregateRoute(n, cs[i])]
<1>1. /\ rib' = ExcludeAggregates(n, cs) /\ todo' = AddAndWalk(n, rs) \o Tail(todo)
      /\ net' = net /\ stack' = stack
  BY DEF AggregateRoutes, Aggregates, Only
<1>2. n \in Node /\ TodoOK(Tail(todo))
  BY HeadStepOK DEF AggregateRoutes, StepOK
<1> HIDE DEF n
<1>3. IsSequence(gs)
  BY <1>2, NetsAssumption DEF IInv, IsSequence
<1> HIDE DEF gs
<1>4. f = [i \in DOMAIN gs |-> f[i]] /\ \A i \in DOMAIN gs : f[i] = <<>> \/ f[i] = <<gs[i]>>
  OBVIOUS
<1> HIDE DEF f
<1>5. IsSequence(as)
  BY <1>3, <1>4, FilterSequence
<1>5a. as = Aggregates(n)
  BY DEF Aggregates, Only, as, f, gs
<1> HIDE DEF as
<1>6. h = [i \in DOMAIN as |-> h[i]] /\ \A i \in DOMAIN as : h[i] = <<>> \/ h[i] = <<as[i]>>
  OBVIOUS
<1>7. ASSUME NEW i \in DOMAIN as, h[i] # <<>> PROVE Contributors(rib, n, as[i].prefix) # {}
  BY <1>7
<1> HIDE DEF h
<1>8. /\ IsSequence(cs) /\ ToSet(cs) \subseteq ToSet(as)
      /\ \A x \in ToSet(cs) : \E i \in DOMAIN as : x = as[i] /\ h[i] # <<>>
  BY <1>5, <1>6, FilterSequence
<1> HIDE DEF cs
<1>9. ASSUME NEW i \in DOMAIN cs PROVE LocalOK(n, rs[i])
  <2>1. Contributors(rib, n, cs[i].prefix) # {}
    BY <1>7, <1>8 DEF ToSet
  <2>2. AggregateContributorCond(rib, n, cs[i].prefix).holds \subseteq Up(n)
    BY <1>2, <2>1, ContributorsUp DEF IInv
  <2> QED
    BY <2>2, LocalRouteOK, SourcedOK DEF AggregateRoute
<1>10. /\ rs = [i \in DOMAIN cs |-> rs[i]]
       /\ \A i \in DOMAIN cs : rs[i] = AggregateRoute(n, cs[i]) /\ cs[i] \in ToSet(cs)
  BY DEF ToSet
<1> HIDE DEF rs
<1>11. /\ TodoOK(AddAndWalk(n, rs))
       /\ \A x \in ToSet(AddAndWalk(n, rs)) :
             x.op \in {"add", "walk"} /\ \E c \in ToSet(cs) : x.route = AggregateRoute(n, c)
  <2>1. LocalTo(n, rs) /\ ToSet(rs) = {rs[i] : i \in DOMAIN cs}
    <3>1. IsSequence(cs) /\ \A i \in DOMAIN cs : LocalOK(n, rs[i])
      BY <1>8, <1>9
    <3>2. rs = [i \in DOMAIN cs |-> rs[i]]
      BY <1>10
    <3> QED
      BY <3>1, <3>2, OriginatesEach
  <2>2. /\ TodoOK(AddAndWalk(n, rs))
        /\ \A x \in ToSet(AddAndWalk(n, rs)) : x.op \in {"add", "walk"} /\ x.route \in ToSet(rs)
    BY <1>2, <2>1, AddAndWalkOK
  <2> QED
    BY <1>10, <2>1, <2>2
<1>12. ASSUME NEW s \in Node \X Prefix
       PROVE  /\ Narrowed(rib'[s], rib[s])
              /\ \A r \in ToSet(rib'[s]) : \E q \in ToSet(rib[s]) : \E bs : Leaves(r, q, n, bs)
              /\ \A r \in ToSet(rib'[s]) : s[1] = n /\ r.kind # "aggregate" =>
                    \A c \in ToSet(cs) : <<s[2], c.prefix>> \in Within =>
                       r.base.holds \cap AggregateContributorCond(rib, n, c.prefix).holds = {}
  <2> DEFINE old == rib[s]
             new == rib'[s]
             ds == {c \in ToSet(cs) : IsMoreSpecificWithin(s[2], c.prefix)}
             nots == {Not(AggregateContributorCond(rib, n, c.prefix)) : c \in ds}
  <2>1. new = IF s[1] # n THEN old
              ELSE [i \in DOMAIN old |->
                      IF old[i].kind = "aggregate" THEN old[i]
                      ELSE [old[i] EXCEPT !.base = AndAll({@} \cup nots),
                                          !.cond = AndAll({@} \cup nots)]]
    BY <1>1, SlotOK DEF IInv, ExcludeAggregates
  <2>2. IsSequence(old) /\ \A q \in ToSet(old) : Shape(q) /\ q.cond.holds \subseteq q.base.holds
    BY DEF IInv, RIBOK, EntryOK
  <2>2a. \A c \in ToSet(cs) : <<s[2], c.prefix>> \in Within =>
           Not(AggregateContributorCond(rib, n, c.prefix)) \in nots
    BY DEF IsMoreSpecificWithin
  <2>2b. \A c : Outside(n, c, ds) = AndAll({c} \cup nots)
    BY DEF Outside
  <2> HIDE DEF old, new, nots, ds
  <2>3. /\ Len(old) \in Nat /\ DOMAIN old = 1..Len(old) /\ old = [i \in 1..Len(old) |-> old[i]]
        /\ ToSet(old) = {old[i] : i \in 1..Len(old)}
    BY <2>2, OwnElements
  <2>4. new = [i \in 1..Len(old) |-> new[i]]
    BY <2>1, <2>3
  <2>5. IsSequence(new) /\ Len(new) = Len(old)
    BY <2>3, <2>4, FunctionSequence
  <2>6. ToSet(new) = {new[i] : i \in 1..Len(old)}
    BY <2>5, OwnElements
  <2>7. ASSUME NEW i \in 1..Len(old) 
        PROVE  /\ Narrows(new[i], old[i]) /\ Leaves(new[i], old[i], n, ds)
               /\ s[1] = n /\ new[i].kind # "aggregate" =>
                     \A c \in ToSet(cs) : <<s[2], c.prefix>> \in Within =>
                        new[i].base.holds \cap AggregateContributorCond(rib, n, c.prefix).holds = {}
    <3> DEFINE q == old[i]
               x == [q EXCEPT !.base = AndAll({@} \cup nots), !.cond = AndAll({@} \cup nots)]
    <3>1. /\ Shape(q) /\ q.cond.holds \subseteq q.base.holds /\ (new[i] = q \/ new[i] = x)
          /\ s[1] = n /\ q.kind # "aggregate" => new[i] = x
      BY <2>1, <2>2, <2>3
    <3> HIDE DEF q
    <3>2. Narrows(x, q)
      BY <3>1, NarrowsBoth
    <3>3. Narrows(q, q)
      BY <3>1 DEF Narrows, Alike, Same
    <3>4. Narrows(new[i], q) /\ new[i].kind = q.kind
      BY <3>1, <3>2, <3>3 DEF Narrows, Alike, Same
    <3>5. ASSUME s[1] = n, new[i].kind # "aggregate", NEW c \in ToSet(cs), <<s[2], c.prefix>> \in Within
          PROVE  new[i].base.holds \cap AggregateContributorCond(rib, n, c.prefix).holds = {}
      <4> DEFINE has == AggregateContributorCond(rib, n, c.prefix)
      <4>1. new[i].base = AndAll({q.base} \cup nots)
        BY <3>1, <3>4, <3>5 DEF Shape
      <4>2. Not(has) \in nots
        BY <2>2a, <3>5
      <4> HIDE DEF has
      <4>3. Not(has).holds = Worlds \ has.holds
        BY DEF Not
      <4>4. AndAll({q.base} \cup nots).holds \subseteq Not(has).holds
        BY <4>2 DEF AndAll
      <4> QED
        BY <4>1, <4>3, <4>4 DEF has
    <3>6. Leaves(x, q, n, ds)
      <4>1. x.sel = q.sel /\ x.base = AndAll({q.base} \cup nots) /\ x.cond = AndAll({q.cond} \cup nots)
        BY <3>1 DEF Shape
      <4> QED
        BY <2>2b, <4>1 DEF Leaves
    <3>7. Leaves(new[i], q, n, ds)
      BY <3>1, <3>6 DEF Leaves
    <3> QED
      BY <3>4, <3>5, <3>7 DEF q
  <2> QED
    BY <2>3, <2>5, <2>6, <2>7 DEF old, new, Narrowed
<1>13. rib' = [s \in Node \X Prefix |-> rib'[s]]
  BY <1>1, SlotOK DEF IInv, ExcludeAggregates
<1>14. AggregatesWith(n, cs, rib', todo')
  BY <1>1, <1>5a, <1>8, <1>11, <1>12, <1>13 DEF AggregatesWith
<1> QED
  BY <1>14 DEF n

\* Originating a device's aggregates.
LEMMA AggregateRoutesStep ==
    ASSUME IInv, AggregateRoutes
    PROVE  IInv' /\ Paths!Restrict
<1> DEFINE n == Head(todo).node
<1>1. PICK cs : AggregatesWith(n, cs, rib', todo')
  BY AggregateNarrows
<1>2. net' = net /\ stack' = stack /\ TodoOK(Tail(todo))
  BY HeadStepOK DEF AggregateRoutes
<1> HIDE DEF n
<1>3. TodoOK(todo')
  <2>1. PICK rs : TodoOK(AddAndWalk(n, rs)) /\ todo' = AddAndWalk(n, rs) \o Tail(todo)
    BY <1>1 DEF AggregatesWith
  <2> QED
    BY <1>2, <2>1, TodoConcat
<1>4. /\ rib' = [s \in Node \X Prefix |-> rib'[s]]
      /\ \A s \in Node \X Prefix : Narrowed(rib'[s], rib[s])
  BY <1>1 DEF AggregatesWith
<1> QED
  BY <1>2, <1>3, <1>4, NarrowStep

---------------------------------------------------------------------------
(***************************************************************************)
(* The refinement.                                                         *)
(***************************************************************************)

\* Simulate starts with empty RIBs and well-formed steps.
LEMMA InitOK == Init => IInv /\ Paths!Init
<1> SUFFICES ASSUME Init PROVE IInv /\ Paths!Init
  OBVIOUS
<1>1. net \in Nets /\ rib = [s \in Node \X Prefix |-> <<>>] /\ stack = <<>> /\ todo = Origination(net)
  BY DEF Init
<1>2. IsSequence(<<>>) /\ ToSet(<<>>) = {}
  BY SequenceBasics, ElementsOf
<1>3. RIBOK(rib)
  BY <1>1, <1>2 DEF RIBOK
<1>4. TodoOK(todo)
  BY <1>1, OriginationOK DEF FirstAgenda
<1>5. StackOK(stack)
  BY <1>1, <1>2 DEF StackOK
<1>6. PathsOf(rib) = {}
  BY <1>1, <1>2, <1>3, SlotOK
<1>7. InProgress(stack) = {}
  BY <1>1, <1>2 DEF InProgress
<1> QED
  BY <1>1, <1>3, <1>4, <1>5, <1>6, <1>7 DEF IInv, Paths!Init

\* Every step keeps the invariant, and is a step of ConditionedPaths or none.
LEMMA NextOK == IInv /\ [Next]_vars => IInv' /\ [Paths!Next]_(Paths!vars)
<1> SUFFICES ASSUME IInv, [Next]_vars PROVE IInv' /\ [Paths!Next]_(Paths!vars)
  OBVIOUS
<1> USE DEF Paths!Next
<1>1. CASE AddRoute
  BY <1>1, AddRouteStep
<1>2. CASE StartWalk
  BY <1>2, StartWalkStep
<1>3. CASE WalkRoute
  BY <1>3, WalkRouteStep
<1>4. CASE ReturnFromWalk
  BY <1>4, ReturnFromWalkStep
<1>5. CASE AggregateRoutes
  BY <1>5, AggregateRoutesStep
<1>6. CASE Originated
  BY <1>6 DEF Originated, IInv, Paths!vars
<1>7. CASE SelectRoutes
  BY <1>7, SelectRoutesStep
<1>8. CASE ApplyAdvertisementConditions
  <2>1. rib' = Advertised /\ net' = net /\ stack' = stack /\ TodoOK(todo')
    BY <1>8 DEF ApplyAdvertisementConditions, IInv
  <2> QED
    BY <2>1, AdvertisedStep
<1>9. CASE Converged
  <2>1. rib' = Advertised /\ net' = net /\ stack' = stack /\ (todo' = AggregateSteps \/ todo' = todo)
    BY <1>9 DEF Converged
  <2>2. TodoOK(todo')
    BY <2>1, AggregateStepsOK DEF IInv
  <2> QED
    BY <2>1, <2>2, AdvertisedStep
<1>10. CASE UNCHANGED vars
  BY <1>10 DEF vars, IInv, Paths!vars
<1> QED
  BY <1>1, <1>2, <1>3, <1>4, <1>5, <1>6, <1>7, <1>8, <1>9, <1>10 DEF Next, Returned

\* Simulate implements ConditionedPaths: origination, propagation with its
\* policies and loop checks, aggregation, ranking and convergence only ever
\* extend announced paths hop by hop and take worlds away.
THEOREM SimulateImplements == Spec => ImplementsConditionedPaths
<1>1. Spec => []IInv
  BY InitOK, NextOK, PTL DEF Spec
<1>2. Init => Paths!Init
  BY InitOK
<1>3. IInv /\ [Next]_vars => [Paths!Next]_(Paths!vars)
  BY NextOK
<1> QED
  BY <1>1, <1>2, <1>3, PTL DEF Spec, ImplementsConditionedPaths, Paths!Spec

---------------------------------------------------------------------------
Covering == INSTANCE ConditionedPathsProofs
    WITH routes <- PathsOf(rib), announced <- InProgress(stack)

\* No entry of a RIB is available or selected in a world that breaks its path.
EntriesIntact ==
    \A s \in DOMAIN rib : \A r \in ToSet(rib[s]) :
        \A w \in r.base.holds \cup r.cond.holds \cup r.sel.holds : Paths!Intact(w, r.path)

\* Whatever the network, its policies and its aggregates: in no failure world
\* does a RIB hold, or a device select, a path over a node or link that the
\* world has down.
THEOREM NoBrokenPath == Spec => []EntriesIntact
<1>1. Spec => Covering!Spec
  BY SimulateImplements, PTL
     DEF ImplementsConditionedPaths, Paths!Spec, Paths!Init, Paths!Next, Paths!vars,
         Paths!Propagate, Paths!Restrict, Paths!Own, Paths!Hop, Paths!Up, Paths!Across,
         Paths!NodeUp, Paths!LinkUp,
         Covering!Spec, Covering!Init, Covering!Next, Covering!vars,
         Covering!Propagate, Covering!Restrict, Covering!Own, Covering!Hop, Covering!Up,
         Covering!Across, Covering!NodeUp, Covering!LinkUp
<1>2. Covering!Spec => []Covering!Covered
  BY Covering!PathsCovered, WorldsAssumption, PTL DEF Covering!LinkID, LinkID
<1>3. Covering!Covered => EntriesIntact
  <2> SUFFICES ASSUME Covering!Covered, NEW s \in DOMAIN rib, NEW r \in ToSet(rib[s]),
                      NEW w \in r.base.holds \cup r.cond.holds \cup r.sel.holds
               PROVE  Paths!Intact(w, r.path)
    BY DEF EntriesIntact
  <2>1. ConditionedPath(r) \in PathsOf(rib)
    BY DEF PathsOf
  <2>2. Covering!Intact(w, r.path)
    BY <2>1 DEF Covering!Covered, ConditionedPath
  <2> QED
    BY <2>2 DEF Covering!Intact, Paths!Intact, Covering!NodeUp, Covering!LinkUp,
                Paths!NodeUp, Paths!LinkUp
<1> QED
  BY <1>1, <1>2, <1>3, PTL

---------------------------------------------------------------------------
(***************************************************************************)
(* Aggregates and the routes they cover.                                   *)
(***************************************************************************)

\* The routes a RIB holds, those being walked, and those still to be
\* installed or walked.  A route of a RIB says itself where it is: at the
\* end of its path.
Held(table)  == UNION {ToSet(table[s]) : s \in Node \X Prefix}
OnTheWay(fs) == {f.route : f \in ToSet(fs)}
Planned(xs)  == {x.route : x \in {x \in ToSet(xs) : x.op \in {"add", "walk"}}}

Configured == [n \in Node |-> ToSet(Aggregates(n))]

Contributes(r, n, q) ==
    r.kind # "aggregate" /\ Last(r.path) = n /\ <<r.prefix, q>> \in Within

Anywhen(r) == r.base.holds \cup r.sel.holds

\* Every device that passed x on has taken the worlds of its summary-only
\* aggregates away from it: where x is, one of their contributors is not.
Suppressed(aggs, x, held) ==
    \A n \in ToSet(Front(x.path)) : \A a \in aggs[n] :
        a.summaryOnly /\ <<x.prefix, a.prefix>> \in Within =>
            \A w \in x.base.holds :
                \E r \in held : Contributes(r, n, a.prefix) /\ w \notin Anywhen(r)

\* r is a route that the aggregate y must not meet: one of y's own device,
\* or one that this device passed on although y is summary-only.
Hides(aggs, y, r) ==
    /\ r.kind # "aggregate" /\ <<r.prefix, y.prefix>> \in Within
    /\ \/ Last(r.path) = y.origin
       \/ /\ y.origin \in ToSet(Front(r.path))
          /\ \E a \in aggs[y.origin] : a.summaryOnly /\ a.prefix = y.prefix

AllSuppressed(aggs, held, way) ==
    \A x \in held \cup way : x.kind # "aggregate" => Suppressed(aggs, x, held)

Apart(aggs, y, held) ==
    \A r \in held : Hides(aggs, y, r) => r.base.holds \cap y.base.holds = {}

AllApart(aggs, held, ys) == \A y \in ys : y.kind = "aggregate" => Apart(aggs, y, held)

\* The first round knows no aggregate, and until it selects routes each
\* one is available where it was announced; the second round propagates
\* nothing but aggregates.
FirstRound(held, way, xs, ph) ==
    /\ \A r \in held \cup way \cup Planned(xs) : r.kind # "aggregate"
    /\ \A x \in ToSet(xs) : x.op # "aggregate"
    /\ Prepared(xs, held)
    /\ \A r \in way : Known(held, Last(r.path), r.prefix)
    /\ ph = "originate" => \A r \in held : r.sel = NoCond /\ r.base = r.cond

SecondRound(way, xs) == \A y \in way \cup Planned(xs) : y.kind = "aggregate"

\* When there are routes on their way, and what selection leaves.
Phases(held, fs, ph, rd) ==
    /\ rd \in {1, 2} /\ (fs # <<>> => ph = "originate")
    /\ ph \in {"apply", "done"} => \A r \in held : r.sel.holds \subseteq r.base.holds

\* Aggregates and what they are made of.
AInv ==
    /\ Phases(Held(rib), stack, phase, round)
    /\ round = 1 => FirstRound(Held(rib), OnTheWay(stack), todo, phase)
    /\ round = 2 => SecondRound(OnTheWay(stack), todo)
    /\ AllSuppressed(Configured, Held(rib), OnTheWay(stack))
    /\ AllApart(Configured, Held(rib), Held(rib) \cup OnTheWay(stack) \cup Planned(todo))

\* The routes of a RIB and its slots.
LEMMA HeldEntries ==
    ASSUME NEW table, RIBOK(table)
    PROVE  /\ \A r \in Held(table) :
                 /\ Shape(r) /\ r.cond.holds \subseteq r.base.holds
                 /\ Last(r.path) \in Node /\ r.prefix \in Prefix
                 /\ r \in ToSet(table[<<Last(r.path), r.prefix>>])
           /\ \A n \in Node, p \in Prefix : \A r \in ToSet(table[<<n, p>>]) :
                 r \in Held(table) /\ Last(r.path) = n /\ r.prefix = p
<1>1. ASSUME NEW s \in Node \X Prefix, NEW r \in ToSet(table[s])
      PROVE  /\ Shape(r) /\ r.cond.holds \subseteq r.base.holds
             /\ s = <<Last(r.path), r.prefix>> /\ r \in Held(table)
  <2>1. EntryOK(s[1], r) /\ r.prefix = s[2]
    BY DEF RIBOK
  <2> QED
    BY <2>1 DEF EntryOK, Held
<1>2. ASSUME NEW r \in Held(table)
      PROVE  /\ Shape(r) /\ r.cond.holds \subseteq r.base.holds
             /\ Last(r.path) \in Node /\ r.prefix \in Prefix
             /\ r \in ToSet(table[<<Last(r.path), r.prefix>>])
  <2>1. PICK s \in Node \X Prefix : r \in ToSet(table[s])
    BY DEF Held
  <2>2. Shape(r) /\ r.cond.holds \subseteq r.base.holds /\ s = <<Last(r.path), r.prefix>>
    BY <1>1, <2>1
  <2> QED
    BY <2>1, <2>2
<1>3. ASSUME NEW n \in Node, NEW p \in Prefix, NEW r \in ToSet(table[<<n, p>>])
      PROVE  r \in Held(table) /\ Last(r.path) = n /\ r.prefix = p
  <2>1. <<n, p>> \in Node \X Prefix
    OBVIOUS
  <2>2. <<n, p>> = <<Last(r.path), r.prefix>> /\ r \in Held(table)
    BY <1>1, <2>1
  <2> QED
    BY <2>2
<1> QED
  BY <1>2, <1>3

\* A new entry, and the one that makes it superfluous.
LEMMA HeldAdd ==
    ASSUME NEW table, RIBOK(table), NEW n \in Node, NEW r, EntryOK(n, r)
    PROVE  /\ Held(table) \subseteq Held(AddRIB(table, n, r))
           /\ Held(AddRIB(table, n, r)) \subseteq Held(table) \cup {r}
           /\ Known(Held(AddRIB(table, n, r)), n, r.prefix)
<1> DEFINE new == AddRIB(table, n, r)
           slot == <<n, r.prefix>>
<1>1. DOMAIN table = Node \X Prefix /\ \A s \in Node \X Prefix : IsSequence(table[s])
  BY DEF RIBOK
<1>2. CASE new = table /\ \E i \in DOMAIN table[slot] : TRUE
  <2>1. ASSUME r.prefix \in Prefix PROVE \E q \in Held(table) : q.prefix = r.prefix /\ Last(q.path) = n
    <3>1. PICK q : q \in ToSet(table[slot])
      BY <1>2 DEF ToSet
    <3> QED
      BY <2>1, <3>1, HeldEntries
  <2> QED
    BY <1>2, <2>1 DEF Known
<1>3. CASE new = [table EXCEPT ![slot] = Append(@, r)]
  <2>1. ASSUME NEW s \in Node \X Prefix
        PROVE  ToSet(new[s]) = IF s = slot THEN ToSet(table[s]) \cup {r} ELSE ToSet(table[s])
    <3>1. CASE s = slot
      <4>1. new[s] = Append(table[s], r)
        BY <1>1, <1>3, <3>1
      <4> QED
        BY <1>1, <3>1, <4>1, ElementsOf
    <3>2. CASE s # slot
      BY <1>1, <1>3, <3>2
    <3> QED
      BY <3>1, <3>2
  <2> HIDE DEF new, slot
  <2>2. Held(table) \subseteq Held(new) /\ Held(new) \subseteq Held(table) \cup {r}
    <3>1. \A q, x : q \in Held(x) <=> \E s \in Node \X Prefix : q \in ToSet(x[s])
      BY DEF Held
    <3> QED
      BY <2>1, <3>1
  <2>3. ASSUME r.prefix \in Prefix PROVE r \in Held(new) /\ Last(r.path) = n
    <3>1. slot \in Node \X Prefix
      BY <2>3 DEF slot
    <3> QED
      BY <2>1, <3>1 DEF Held, EntryOK
  <2> QED
    BY <2>2, <2>3 DEF Known, new
<1> QED
  BY <1>2, <1>3 DEF AddRIB

\* Entries come, and the worlds of those that are there only become fewer.
Stays(new, old) ==
    \A q \in old : \E r \in new :
        r.kind = q.kind /\ r.path = q.path /\ r.prefix = q.prefix /\ Anywhen(r) \subseteq Anywhen(q)

Weaker(x, q) ==
    /\ x.kind = q.kind /\ x.path = q.path /\ x.prefix = q.prefix
    /\ x.base.holds \subseteq q.base.holds

Descends(y, z) ==
    /\ y.kind = z.kind /\ y.prefix = z.prefix /\ y.origin = z.origin
    /\ y.base.holds \subseteq z.base.holds

\* What is suppressed remains so.
LEMMA StillSuppressed ==
    ASSUME NEW aggs, NEW new, NEW old, Stays(new, old),
           NEW x, NEW q, Weaker(x, q), Suppressed(aggs, q, old)
    PROVE  Suppressed(aggs, x, new)
<1> SUFFICES ASSUME NEW n \in ToSet(Front(x.path)), NEW a \in aggs[n],
                    a.summaryOnly, <<x.prefix, a.prefix>> \in Within, NEW w \in x.base.holds
             PROVE  \E r \in new : Contributes(r, n, a.prefix) /\ w \notin Anywhen(r)
  BY DEF Suppressed
<1>1. PICK s \in old : Contributes(s, n, a.prefix) /\ w \notin Anywhen(s)
  BY DEF Suppressed, Weaker
<1>2. PICK r \in new : /\ r.kind = s.kind /\ r.path = s.path /\ r.prefix = s.prefix
                       /\ Anywhen(r) \subseteq Anywhen(s)
  BY <1>1 DEF Stays
<1> QED
  BY <1>1, <1>2 DEF Contributes

\* Suppression in a step of Simulate.
LEMMA SuppressedStep ==
    ASSUME NEW aggs, NEW held, NEW way, NEW held2, NEW way2,
           AllSuppressed(aggs, held, way), Stays(held2, held),
           \A x \in held2 \cup way2 : x.kind # "aggregate" =>
              \/ \E q \in held \cup way : Weaker(x, q)
              \/ Suppressed(aggs, x, held2)
    PROVE  AllSuppressed(aggs, held2, way2)
<1> SUFFICES ASSUME NEW x \in held2 \cup way2, x.kind # "aggregate" PROVE Suppressed(aggs, x, held2)
  BY DEF AllSuppressed
<1>1. CASE \E q \in held \cup way : Weaker(x, q)
  <2>1. PICK q \in held \cup way : Weaker(x, q)
    BY <1>1
  <2>2. Suppressed(aggs, q, held)
    BY <2>1 DEF AllSuppressed, Weaker
  <2> QED
    BY <2>1, <2>2, StillSuppressed
<1> QED
  BY <1>1

\* Aggregates remain apart from what they cover.
LEMMA ApartStep ==
    ASSUME NEW aggs, NEW held, NEW ys, NEW held2, NEW ys2, AllApart(aggs, held, ys),
           \A y \in ys2 : y.kind = "aggregate" =>
              (\E z \in ys : Descends(y, z)) \/ Apart(aggs, y, held2),
           \A r \in held2 : r.kind # "aggregate" => \E q \in held : Weaker(r, q)
    PROVE  AllApart(aggs, held2, ys2)
<1> SUFFICES ASSUME NEW y \in ys2, y.kind = "aggregate", NEW z \in ys, Descends(y, z),
                    NEW r \in held2, Hides(aggs, y, r)
             PROVE  r.base.holds \cap y.base.holds = {}
  BY DEF AllApart, Apart
<1>1. PICK q \in held : Weaker(r, q)
  BY DEF Hides
<1>2. Hides(aggs, z, q) /\ z.kind = "aggregate"
  BY <1>1 DEF Hides, Weaker, Descends
<1>3. q.base.holds \cap z.base.holds = {}
  BY <1>2 DEF AllApart, Apart
<1> QED
  BY <1>1, <1>3 DEF Weaker, Descends

\* What is known remains known.
LEMMA StillKnown ==
    ASSUME NEW new, NEW old, Stays(new, old)
    PROVE  /\ \A n, p : Known(old, n, p) => Known(new, n, p)
           /\ \A xs : Prepared(xs, old) => Prepared(xs, new)
<1>1. ASSUME NEW n, NEW p, Known(old, n, p) PROVE Known(new, n, p)
  BY <1>1 DEF Known, Stays
<1> QED
  BY <1>1 DEF Prepared

\* After the first step, which installs what later steps rely on.
LEMMA PreparedTail ==
    ASSUME NEW xs, IsSequence(xs), xs # <<>>, NEW held, Prepared(xs, held),
           Head(xs).op = "add" => Known(held, Head(xs).node, Head(xs).route.prefix)
    PROVE  Prepared(Tail(xs), held)
<1> DEFINE ys == Tail(xs)
<1>1. Len(xs) \in Nat
  BY OwnElements
<1>2. Len(xs) > 0 /\ Len(ys) = Len(xs) - 1 /\ Head(xs) = xs[1]
  BY Positions
<1>3. \A i \in 1..(Len(xs) - 1) : ys[i] = xs[i + 1]
  BY Positions
<1> HIDE DEF ys
<1> SUFFICES ASSUME NEW i \in 1..Len(ys), ys[i].op = "walk",
                    ~Known(held, ys[i].node, ys[i].route.prefix)
             PROVE  \E j \in 1..(i - 1) : Installs(ys[j], ys[i].node, ys[i].route.prefix)
  BY DEF Prepared, ys
<1>4. ys[i] = xs[i + 1] /\ i + 1 \in 1..Len(xs) /\ (i + 1) - 1 = i
  BY <1>1, <1>2, <1>3
<1>5. PICK j \in 1..i : Installs(xs[j], ys[i].node, ys[i].route.prefix)
  BY <1>4 DEF Prepared
<1>6. j # 1
  BY <1>2, <1>5 DEF Installs
<1>7. j - 1 \in 1..(i - 1) /\ j - 1 \in 1..(Len(xs) - 1) /\ (j - 1) + 1 = j
  BY <1>1, <1>4, <1>6
<1>8. ys[j - 1] = xs[j]
  BY <1>3, <1>7
<1> QED
  BY <1>5, <1>7, <1>8

\* A network does not change, and neither do its aggregates.
LEMMA SameConfigured ==
    ASSUME net' = net
    PROVE  Configured' = Configured
BY DEF Configured, Aggregates, Only

\* Entries that a step leaves alone stay.
LEMMA StaysSubset ==
    ASSUME NEW old, NEW new, old \subseteq new
    PROVE  Stays(new, old)
BY DEF Stays

\* A route that a step leaves alone.
LEMMA SameRoute ==
    \A r : Weaker(r, r) /\ Descends(r, r)
BY DEF Weaker, Descends

\* A route that has not left its device passes no aggregate.
LEMMA LocalSuppressed ==
    ASSUME NEW n, NEW r, r.path = <<n>>, NEW aggs, NEW held
    PROVE  Suppressed(aggs, r, held)
<1>1. ToSet(Front(r.path)) = {}
  BY LastAndFront, ElementsOf
<1> QED
  BY <1>1 DEF Suppressed

\* The next step of the agenda and the rest.
LEMMA AgendaHead ==
    ASSUME NEW op, IInv, NextStep(op)
    PROVE  /\ IsSequence(todo) /\ todo # <<>> /\ Head(todo).op = op
           /\ Planned(Tail(todo)) \subseteq Planned(todo) /\ ToSet(Tail(todo)) \subseteq ToSet(todo)
           /\ Head(todo) \in ToSet(todo)
           /\ op \in {"add", "walk"} => Head(todo).route \in Planned(todo)
<1>1. IsSequence(todo) /\ todo # <<>> /\ Head(todo).op = op
  BY DEF IInv, TodoOK, NextStep
<1>2. Head(todo) \in ToSet(todo) /\ ToSet(Tail(todo)) \subseteq ToSet(todo)
  BY <1>1, ElementsOf
<1> QED
  BY <1>1, <1>2 DEF Planned

\* Installing a route.
LEMMA AddRouteApart ==
    ASSUME IInv, AInv, AddRoute
    PROVE  AInv'
<1> DEFINE n == Head(todo).node
           r == Head(todo).route
           old == Held(rib)
           new == Held(rib')
           way == OnTheWay(stack)
           rest == Tail(todo)
<1>1. n \in Node /\ LocalOK(n, r) /\ phase = "originate"
  BY HeadStepOK DEF AddRoute, NextStep, StepOK
<1>2. /\ rib' = AddRIB(rib, n, r) /\ todo' = rest /\ stack' = stack
      /\ net' = net /\ phase' = phase /\ round' = round
  BY DEF AddRoute
<1>3. /\ IsSequence(todo) /\ todo # <<>> /\ r \in Planned(todo)
      /\ Planned(rest) \subseteq Planned(todo) /\ ToSet(rest) \subseteq ToSet(todo)
  BY AgendaHead DEF AddRoute
<1>4. EntryOK(n, r)
  <2>1. Last(<<n>>) = n /\ NoCond.holds = {}
    BY LastAndFront DEF NoCond
  <2> QED
    BY <1>1, <2>1 DEF LocalOK, FreshOK, EntryOK
<1>5. old \subseteq new /\ new \subseteq old \cup {r} /\ Known(new, n, r.prefix)
  BY <1>1, <1>2, <1>4, HeldAdd DEF IInv
<1>6. Stays(new, old)
  BY <1>5, StaysSubset
<1>7. Configured' = Configured
  BY <1>2, SameConfigured
<1>8. Prepared(todo, old) => Prepared(rest, new)
  <2>1. Prepared(todo, old) => Prepared(todo, new)
    BY <1>6, StillKnown
  <2> QED
    BY <1>3, <1>5, <2>1, PreparedTail
<1>9. Phases(old, stack, phase, round) /\ (round = 1 => FirstRound(old, way, todo, phase))
      /\ (round = 2 => SecondRound(way, todo)) /\ AllSuppressed(Configured, old, way)
      /\ AllApart(Configured, old, old \cup way \cup Planned(todo))
  BY DEF AInv
<1> HIDE DEF n, r, old, new, way, rest
<1>10. Phases(new, stack, phase, round)
  BY <1>1, <1>9 DEF Phases
<1>11. round = 1 => FirstRound(new, way, rest, phase)
  <2> SUFFICES ASSUME round = 1 PROVE FirstRound(new, way, rest, phase)
    OBVIOUS
  <2>1. FirstRound(old, way, todo, phase)
    BY <1>9
  <2>2. \A x \in way : Known(new, Last(x.path), x.prefix)
    BY <1>6, <2>1, StillKnown DEF FirstRound
  <2>3. \A x \in new : x.sel = NoCond /\ x.base = x.cond
    BY <1>1, <1>5, <2>1 DEF FirstRound, LocalOK, FreshOK
  <2> QED
    BY <1>3, <1>5, <1>8, <2>1, <2>2, <2>3 DEF FirstRound
<1>12. round = 2 => SecondRound(way, rest)
  BY <1>3, <1>9 DEF SecondRound
<1>13. AllSuppressed(Configured, new, way)
  <2>1. \A x \in new \cup way : (\E q \in old \cup way : Weaker(x, q)) \/ Suppressed(Configured, x, new)
    <3>1. Suppressed(Configured, r, new)
      BY <1>1, LocalSuppressed DEF LocalOK
    <3> QED
      BY <1>5, <3>1, SameRoute
  <2> QED
    BY <1>6, <1>9, <2>1, SuppressedStep
<1>14. AllApart(Configured, new, new \cup way \cup Planned(rest))
  <2>1. CASE round = 1
    BY <1>11, <2>1 DEF AllApart, FirstRound
  <2>2. CASE round = 2
    <3>1. r.kind = "aggregate"
      BY <1>3, <1>9, <2>2 DEF SecondRound
    <3>2. \A q \in new : q.kind # "aggregate" => \E s \in old : Weaker(q, s)
      BY <1>5, <3>1, SameRoute
    <3>3. \A y \in new \cup way \cup Planned(rest) :
             \E z \in old \cup way \cup Planned(todo) : Descends(y, z)
      BY <1>3, <1>5, SameRoute
    <3> QED
      BY <1>9, <3>2, <3>3, ApartStep
  <2> QED
    BY <1>9, <2>1, <2>2 DEF Phases
<1> QED
  BY <1>2, <1>7, <1>10, <1>11, <1>12, <1>13, <1>14 DEF AInv, new, way, rest

\* Starting a walk.
LEMMA StartWalkApart ==
    ASSUME IInv, AInv, StartWalk
    PROVE  AInv'
<1> DEFINE n == Head(todo).node
           r == Head(todo).route
           held == Held(rib)
           way == OnTheWay(stack)
           rest == Tail(todo)
<1>1. n \in Node /\ LocalOK(n, r) /\ phase = "originate" /\ Last(r.path) = n
  BY HeadStepOK, LastAndFront DEF StartWalk, NextStep, StepOK, LocalOK
<1>2. /\ rib' = rib /\ todo' = rest /\ stack' = <<Frame(r)>>
      /\ net' = net /\ phase' = phase /\ round' = round
  BY DEF StartWalk
<1>3. /\ IsSequence(todo) /\ todo # <<>> /\ r \in Planned(todo) /\ Head(todo).op = "walk"
      /\ Planned(rest) \subseteq Planned(todo) /\ ToSet(rest) \subseteq ToSet(todo)
  BY AgendaHead DEF StartWalk
<1>4. OnTheWay(<<Frame(r)>>) = {r}
  <2>1. ToSet(<<Frame(r)>>) = {Frame(r)} /\ Frame(r).route = r
    BY ElementsOf DEF Frame
  <2> QED
    BY <2>1 DEF OnTheWay
<1>5. Configured' = Configured
  BY <1>2, SameConfigured
<1>6. Phases(held, stack, phase, round) /\ (round = 1 => FirstRound(held, way, todo, phase))
      /\ (round = 2 => SecondRound(way, todo)) /\ AllSuppressed(Configured, held, way)
      /\ AllApart(Configured, held, held \cup way \cup Planned(todo))
  BY DEF AInv
<1>7. Prepared(todo, held) => Prepared(rest, held) /\ Known(held, n, r.prefix)
  <2> SUFFICES ASSUME Prepared(todo, held) PROVE Prepared(rest, held) /\ Known(held, n, r.prefix)
    OBVIOUS
  <2>1. Prepared(rest, held)
    BY <1>3, PreparedTail
  <2>2. Len(todo) > 0 /\ Len(todo) \in Nat /\ Head(todo) = todo[1]
    BY <1>3, Positions, OwnElements
  <2>3. 1 \in 1..Len(todo) /\ 1..(1 - 1) = {}
    BY <2>2
  <2>4. Known(held, todo[1].node, todo[1].route.prefix)
    BY <1>3, <2>2, <2>3 DEF Prepared
  <2> QED
    BY <2>1, <2>2, <2>4
<1> HIDE DEF n, r, held, way, rest
<1>8. Phases(held, <<Frame(r)>>, phase, round)
  BY <1>1, <1>6 DEF Phases
<1>9. round = 1 => FirstRound(held, {r}, rest, phase)
  BY <1>1, <1>3, <1>6, <1>7 DEF FirstRound
<1>10. round = 2 => SecondRound({r}, rest)
  BY <1>3, <1>6 DEF SecondRound
<1>11. AllSuppressed(Configured, held, {r})
  <2>1. Suppressed(Configured, r, held)
    BY <1>1, LocalSuppressed DEF LocalOK
  <2> QED
    BY <1>6, <2>1 DEF AllSuppressed
<1>12. AllApart(Configured, held, held \cup {r} \cup Planned(rest))
  BY <1>3, <1>6 DEF AllApart
<1> QED
  BY <1>2, <1>4, <1>5, <1>8, <1>9, <1>10, <1>11, <1>12 DEF AInv, held, way, rest

\* Returning from one.
LEMMA ReturnFromWalkApart ==
    ASSUME IInv, AInv, ReturnFromWalk
    PROVE  AInv'
<1> DEFINE held == Held(rib)
           way == OnTheWay(stack)
           less == OnTheWay(Tail(stack))
<1>1. /\ rib' = rib /\ todo' = todo /\ stack' = Tail(stack) /\ stack # <<>>
      /\ net' = net /\ phase' = phase /\ round' = round
  BY DEF ReturnFromWalk
<1>2. less \subseteq way
  <2>1. ToSet(Tail(stack)) \subseteq ToSet(stack)
    BY <1>1, ElementsOf DEF IInv, StackOK
  <2> QED
    BY <2>1 DEF OnTheWay
<1>3. Configured' = Configured
  BY <1>1, SameConfigured
<1>4. Phases(held, stack, phase, round) /\ (round = 1 => FirstRound(held, way, todo, phase))
      /\ (round = 2 => SecondRound(way, todo)) /\ AllSuppressed(Configured, held, way)
      /\ AllApart(Configured, held, held \cup way \cup Planned(todo))
  BY DEF AInv
<1> HIDE DEF held, way, less
<1>5. Phases(held, Tail(stack), phase, round)
  BY <1>1, <1>4 DEF Phases
<1>6. round = 1 => FirstRound(held, less, todo, phase)
  BY <1>2, <1>4 DEF FirstRound
<1>7. round = 2 => SecondRound(less, todo)
  BY <1>2, <1>4 DEF SecondRound
<1>8. AllSuppressed(Configured, held, less) /\ AllApart(Configured, held, held \cup less \cup Planned(todo))
  BY <1>2, <1>4 DEF AllSuppressed, AllApart
<1> QED
  BY <1>1, <1>3, <1>5, <1>6, <1>7, <1>8 DEF AInv, held, less

\* The contributors of an aggregate of n.
LEMMA ContributorSet ==
    ASSUME RIBOK(rib), NEW n \in Node, NEW q, NEW r
    PROVE  r \in Contributors(rib, n, q) <=> r \in Held(rib) /\ Contributes(r, n, q)
<1>1. r \in Contributors(rib, n, q) <=>
        \E p \in Prefix : <<p, q>> \in Within /\ r \in ToSet(rib[<<n, p>>]) /\ r.kind # "aggregate"
  BY DEF Contributors, IsMoreSpecificWithin
<1>2. ASSUME NEW p \in Prefix, <<p, q>> \in Within, r \in ToSet(rib[<<n, p>>]), r.kind # "aggregate"
      PROVE  r \in Held(rib) /\ Contributes(r, n, q)
  <2>1. r \in Held(rib) /\ Last(r.path) = n /\ r.prefix = p
    BY <1>2, HeldEntries
  <2> QED
    BY <1>2, <2>1 DEF Contributes
<1>3. ASSUME r \in Held(rib), Contributes(r, n, q)
      PROVE  \E p \in Prefix : <<p, q>> \in Within /\ r \in ToSet(rib[<<n, p>>]) /\ r.kind # "aggregate"
  <2>1. r.prefix \in Prefix /\ r \in ToSet(rib[<<Last(r.path), r.prefix>>])
    BY <1>3, HeldEntries
  <2> QED
    BY <1>3, <2>1 DEF Contributes
<1> QED
  BY <1>1, <1>2, <1>3

\* The worlds of an aggregate: all contributors are there, and while nothing
\* has been selected yet, one is missing in every other world.
LEMMA ContributorWorlds ==
    ASSUME RIBOK(rib), NEW n \in Node, NEW q
    PROVE  /\ \A r \in Held(rib) : Contributes(r, n, q) =>
                 AggregateContributorCond(rib, n, q).holds \subseteq Anywhen(r)
           /\ (\A r \in Held(rib) : r.sel = NoCond /\ r.base = r.cond) =>
                 \A w \in Worlds \ AggregateContributorCond(rib, n, q).holds :
                    \E r \in Held(rib) : Contributes(r, n, q) /\ w \notin Anywhen(r)
<1> DEFINE chosen(r) == IF r.sel = NoCond THEN r.cond ELSE r.sel
           cs == {chosen(r) : r \in Contributors(rib, n, q)}
<1>1. AggregateContributorCond(rib, n, q) = AndAll(cs)
  BY DEF AggregateContributorCond
<1>2. \A w : w \in AggregateContributorCond(rib, n, q).holds <=>
               w \in Worlds /\ \A c \in cs : w \in c.holds
  <2> HIDE DEF cs
  <2> QED
    BY <1>1 DEF AndAll
<1>3. ASSUME NEW r \in Held(rib), Contributes(r, n, q)
      PROVE  AggregateContributorCond(rib, n, q).holds \subseteq Anywhen(r)
  <2>1. chosen(r) \in cs
    BY <1>3, ContributorSet
  <2>2. chosen(r).holds \subseteq Anywhen(r)
    BY <1>3, HeldEntries DEF Anywhen
  <2> HIDE DEF cs, chosen
  <2> QED
    BY <1>2, <2>1, <2>2
<1>4. ASSUME \A r \in Held(rib) : r.sel = NoCond /\ r.base = r.cond,
             NEW w \in Worlds \ AggregateContributorCond(rib, n, q).holds
      PROVE  \E r \in Held(rib) : Contributes(r, n, q) /\ w \notin Anywhen(r)
  <2>1. PICK c \in cs : w \notin c.holds
    BY <1>2
  <2>2. PICK r \in Contributors(rib, n, q) : c = chosen(r)
    BY <2>1
  <2>3. r \in Held(rib) /\ Contributes(r, n, q)
    BY <2>2, ContributorSet
  <2>4. c = r.cond /\ r.base = r.cond /\ r.sel = NoCond
    BY <1>4, <2>2, <2>3
  <2>5. Anywhen(r) = r.cond.holds
    BY <2>4 DEF Anywhen, NoCond
  <2> QED
    BY <2>1, <2>3, <2>4, <2>5
<1> QED
  BY <1>3, <1>4

\* Suppression takes the worlds of a summary-only aggregate away.
LEMMA SuppressionExcludes ==
    ASSUME NEW m, NEW r, Shape(r), NEW a \in ToSet(Aggregates(m)), a.summaryOnly,
           <<r.prefix, a.prefix>> \in Within, Contributors(rib, m, a.prefix) # {}
    PROVE  \A w \in ApplyAggregateSuppression(m, r).cond.holds :
              w \in Worlds /\ w \notin AggregateContributorCond(rib, m, a.prefix).holds
<1> DEFINE nots == {Not(AggregateContributorCond(rib, m, b.prefix)) :
                      b \in {b \in ToSet(Aggregates(m)) :
                               /\ b.summaryOnly
                               /\ IsMoreSpecificWithin(r.prefix, b.prefix)
                               /\ Contributors(rib, m, b.prefix) # {}}}
           no == Not(AggregateContributorCond(rib, m, a.prefix))
<1>1. no \in nots
  BY DEF IsMoreSpecificWithin
<1>2. ApplyAggregateSuppression(m, r)
        = [r EXCEPT !.base = AndAll({@} \cup nots), !.cond = AndAll({@} \cup nots)]
  BY DEF ApplyAggregateSuppression
<1>3. no.holds = Worlds \ AggregateContributorCond(rib, m, a.prefix).holds
  BY DEF Not
<1> HIDE DEF nots, no
<1>4. ApplyAggregateSuppression(m, r).cond = AndAll({r.cond} \cup nots)
  BY <1>2 DEF Shape
<1>5. AndAll({r.cond} \cup nots).holds \subseteq no.holds
  BY <1>1 DEF AndAll
<1> QED
  BY <1>3, <1>4, <1>5

\* One hop of a walk in the first round: the sender's aggregates are
\* subtracted, those of the devices before it have been.
LEMMA HopSuppressed ==
    ASSUME RIBOK(rib), NEW m \in Node, NEW r, Shape(r), Last(r.path) = m, r.base = r.cond,
           Suppressed(Configured, r, Held(rib)), Known(Held(rib), m, r.prefix),
           \A q \in Held(rib) : q.kind # "aggregate" /\ q.sel = NoCond /\ q.base = q.cond,
           NEW e, NEW n, NextHop(e, m, n, r),
           e.cond.holds \subseteq ApplyAggregateSuppression(m, r).cond.holds
    PROVE  Suppressed(Configured, e, Held(rib))
<1>1. /\ e.prefix = r.prefix /\ e.path = Append(r.path, n) /\ e.base = e.cond
      /\ e.cond.holds \subseteq r.cond.holds
  BY DEF NextHop, Same
<1>2. ToSet(Front(e.path)) = ToSet(Front(r.path)) \cup {m}
  BY <1>1, LastAndFront DEF Shape
<1> SUFFICES ASSUME NEW k \in ToSet(Front(e.path)), NEW a \in Configured[k],
                    a.summaryOnly, <<e.prefix, a.prefix>> \in Within, NEW w \in e.base.holds
             PROVE  \E q \in Held(rib) : Contributes(q, k, a.prefix) /\ w \notin Anywhen(q)
  BY DEF Suppressed
<1>3. CASE k \in ToSet(Front(r.path))
  BY <1>1, <1>3 DEF Suppressed
<1>4. CASE k = m
  <2>1. a \in ToSet(Aggregates(m)) /\ <<r.prefix, a.prefix>> \in Within
    BY <1>1, <1>4 DEF Configured
  <2>2. PICK q \in Held(rib) : q.prefix = r.prefix /\ Last(q.path) = m
    BY <2>1, WithinAssumption DEF Known
  <2>3. Contributors(rib, m, a.prefix) # {}
    BY <2>1, <2>2, ContributorSet DEF Contributes
  <2>4. w \in Worlds \ AggregateContributorCond(rib, m, a.prefix).holds
    BY <1>1, <2>1, <2>3, SuppressionExcludes
  <2> QED
    BY <1>4, <2>4, ContributorWorlds
<1> QED
  BY <1>2, <1>3, <1>4

\* One adjacency of a walk.
LEMMA WalkRouteApart ==
    ASSUME IInv, AInv, WalkRoute
    PROVE  AInv'
<1> DEFINE fr   == Head(stack)
           r    == fr.route
           m    == Last(r.path)
           n    == Head(fr.peers)
           top  == [fr EXCEPT !.peers = Tail(@)]
           rest == <<top>> \o Tail(stack)
           adv  == Advertisement(m, n, ApplyAggregateSuppression(m, r))
           old  == Held(rib)
           new  == Held(rib')
           way  == OnTheWay(stack)
           way2 == OnTheWay(stack')
<1>1. /\ net' = net /\ todo' = todo /\ phase' = phase /\ round' = round /\ stack # <<>>
      /\ \/ adv = {} /\ stack' = rest /\ rib' = rib
         \/ \E e \in adv : /\ rib' = AddRIB(rib, n, e)
                           /\ stack' = <<Frame(e)>> \o rest \/ stack' = rest
  BY DEF WalkRoute
<1>2. /\ IsSequence(Tail(stack)) /\ ToSet(Tail(stack)) \subseteq ToSet(stack)
      /\ fr \in ToSet(stack) /\ \A f \in ToSet(stack) : FrameOK(f)
  BY ElementsOf DEF IInv, StackOK, WalkRoute
<1>3. top.route = r /\ FreshOK(r) /\ Shape(r) /\ r \in way
  BY <1>2 DEF FrameOK, FreshOK, OnTheWay
<1> HIDE DEF fr, top
<1>4. IsSequence(rest) /\ ToSet(rest) = {top} \cup ToSet(Tail(stack))
  BY <1>2, SequenceBasics, ElementsOf
<1> HIDE DEF rest
<1>5. OnTheWay(rest) \subseteq way
  BY <1>2, <1>3, <1>4 DEF OnTheWay
<1>6. Configured' = Configured
  BY <1>1, SameConfigured
<1>7. Phases(old, stack, phase, round) /\ (round = 1 => FirstRound(old, way, todo, phase))
      /\ (round = 2 => SecondRound(way, todo)) /\ AllSuppressed(Configured, old, way)
      /\ AllApart(Configured, old, old \cup way \cup Planned(todo))
  BY DEF AInv
<1>8. phase = "originate"
  BY <1>1, <1>7 DEF Phases
<1>9. SUFFICES /\ Phases(new, stack', phase, round) /\ (round = 1 => FirstRound(new, way2, todo, phase))
               /\ (round = 2 => SecondRound(way2, todo)) /\ AllSuppressed(Configured, new, way2)
               /\ AllApart(Configured, new, new \cup way2 \cup Planned(todo))
  BY <1>1, <1>6 DEF AInv
<1>10. CASE adv = {} /\ stack' = rest /\ rib' = rib
  <2>1. new = old /\ way2 \subseteq way
    BY <1>5, <1>10
  <2> HIDE DEF old, new, way, way2, adv
  <2>2. Phases(new, stack', phase, round)
    BY <1>7, <1>8, <2>1 DEF Phases
  <2>3. round = 1 => FirstRound(new, way2, todo, phase)
    BY <1>7, <2>1 DEF FirstRound
  <2>4. round = 2 => SecondRound(way2, todo)
    BY <1>7, <2>1 DEF SecondRound
  <2>5. AllSuppressed(Configured, new, way2) /\ AllApart(Configured, new, new \cup way2 \cup Planned(todo))
    BY <1>7, <2>1 DEF AllSuppressed, AllApart
  <2> QED
    BY <2>2, <2>3, <2>4, <2>5
<1>11. ASSUME NEW e \in adv, rib' = AddRIB(rib, n, e), stack' = <<Frame(e)>> \o rest \/ stack' = rest
       PROVE  /\ Phases(new, stack', phase, round) /\ (round = 1 => FirstRound(new, way2, todo, phase))
              /\ (round = 2 => SecondRound(way2, todo)) /\ AllSuppressed(Configured, new, way2)
              /\ AllApart(Configured, new, new \cup way2 \cup Planned(todo))
  <2>1. /\ m \in Node /\ n \in Node /\ NextHop(e, m, n, r)
        /\ e.cond.holds \subseteq ApplyAggregateSuppression(m, r).cond.holds
    BY <1>3, AdvertisementHop DEF IInv
  <2>2. Last(r.path) = m
    OBVIOUS
  <2> HIDE DEF m, n, adv, r
  <2>3. Last(e.path) = n /\ NoCond.holds = {}
    BY <1>3, <2>1, LastAndFront DEF NextHop, Shape, NoCond
  <2>4. EntryOK(n, e) /\ e.sel = NoCond /\ e.base = e.cond /\ e.kind = r.kind
    BY <1>3, <2>1, <2>3 DEF FreshOK, EntryOK, NextHop, Up, Same
  <2>5. old \subseteq new /\ new \subseteq old \cup {e} /\ Known(new, n, e.prefix)
    BY <1>11, <2>1, <2>4, HeldAdd DEF IInv
  <2>6. way2 \subseteq way \cup {e}
    <3>1. CASE stack' = rest
      BY <1>5, <3>1
    <3>2. CASE stack' = <<Frame(e)>> \o rest
      <4>1. IsSequence(<<Frame(e)>>) /\ ToSet(<<Frame(e)>>) = {Frame(e)} /\ Frame(e).route = e
        BY SequenceBasics, ElementsOf DEF Frame
      <4>2. ToSet(stack') = {Frame(e)} \cup ToSet(rest)
        BY <1>4, <3>2, <4>1, ElementsOf
      <4> QED
        BY <1>5, <4>1, <4>2 DEF OnTheWay
    <3> QED
      BY <1>11, <3>1, <3>2
  <2>7. Descends(e, r)
    BY <1>3, <2>1 DEF NextHop, Same, Descends, FreshOK
  <2>8. RIBOK(rib)
    BY DEF IInv
  <2>9. Stays(new, old)
    BY <2>5, StaysSubset
  <2>10. Phases(new, stack', phase, round)
    BY <1>7, <1>8 DEF Phases
  <2>11. CASE round = 1
    <3>1. FirstRound(old, way, todo, phase)
      BY <1>7, <2>11
    <3>2. r.kind # "aggregate" /\ Known(old, m, r.prefix) /\ Suppressed(Configured, r, old)
      BY <1>3, <1>7, <2>2, <3>1 DEF FirstRound, AllSuppressed
    <3>3. \A q \in old : q.kind # "aggregate" /\ q.sel = NoCond /\ q.base = q.cond
      BY <1>8, <3>1 DEF FirstRound
    <3>4. Suppressed(Configured, e, old)
      BY <1>3, <2>1, <2>2, <2>8, <3>2, <3>3, HopSuppressed DEF FreshOK, old
    <3>5. Suppressed(Configured, e, new)
      BY <2>9, <3>4, SameRoute, StillSuppressed
    <3> HIDE DEF old, new, way, way2
    <3>6. FirstRound(new, way2, todo, phase)
      <4>1. \A x \in way2 : Known(new, Last(x.path), x.prefix)
        BY <2>3, <2>5, <2>6, <2>9, <3>1, StillKnown DEF FirstRound
      <4>2. Prepared(todo, new)
        BY <2>9, <3>1, StillKnown DEF FirstRound
      <4>3. \A x \in new \cup way2 \cup Planned(todo) : x.kind # "aggregate"
        BY <2>4, <2>5, <2>6, <3>1, <3>2 DEF FirstRound
      <4>4. \A x \in new : x.sel = NoCond /\ x.base = x.cond
        BY <2>4, <2>5, <3>3
      <4> QED
        BY <3>1, <4>1, <4>2, <4>3, <4>4 DEF FirstRound
    <3>7. AllSuppressed(Configured, new, way2)
      <4>1. \A x \in new \cup way2 : (\E q \in old \cup way : Weaker(x, q)) \/ Suppressed(Configured, x, new)
        BY <2>5, <2>6, <3>5, SameRoute
      <4> QED
        BY <1>7, <2>9, <4>1, SuppressedStep
    <3>8. AllApart(Configured, new, new \cup way2 \cup Planned(todo))
      BY <3>6 DEF AllApart, FirstRound
    <3> QED
      BY <2>10, <2>11, <3>6, <3>7, <3>8
  <2>12. CASE round = 2
    <3>1. r.kind = "aggregate" /\ e.kind = "aggregate" /\ SecondRound(way, todo)
      BY <1>3, <1>7, <2>4, <2>12 DEF SecondRound
    <3> HIDE DEF old, new, way, way2
    <3>2. SecondRound(way2, todo)
      BY <2>6, <3>1 DEF SecondRound
    <3>3. \A q \in new : q.kind # "aggregate" => \E s \in old : Weaker(q, s)
      BY <2>5, <3>1, SameRoute
    <3>4. AllSuppressed(Configured, new, way2)
      <4>1. \A x \in new \cup way2 : x.kind # "aggregate" => \E q \in old \cup way : Weaker(x, q)
        BY <2>6, <3>1, <3>3, SameRoute
      <4> QED
        BY <1>7, <2>9, <4>1, SuppressedStep
    <3>5. AllApart(Configured, new, new \cup way2 \cup Planned(todo))
      <4>1. \A y \in new \cup way2 \cup Planned(todo) :
               \E z \in old \cup way \cup Planned(todo) : Descends(y, z)
        BY <1>3, <2>5, <2>6, <2>7, SameRoute
      <4> QED
        BY <1>7, <3>3, <4>1, ApartStep
    <3> QED
      BY <2>10, <2>12, <3>2, <3>4, <3>5
  <2> QED
    BY <1>7, <2>11, <2>12 DEF Phases
<1> QED
  BY <1>1, <1>10, <1>11

\* Conditions computed anew: the same routes in fewer worlds.
LEMMA NarrowedHeld ==
    ASSUME NEW new, NEW old, \A s \in Node \X Prefix : Narrowed(new[s], old[s])
    PROVE  /\ Stays(Held(new), Held(old))
           /\ \A r \in Held(new) : \E q \in Held(old) : Narrows(r, q) /\ Weaker(r, q) /\ Descends(r, q)
<1>1. ASSUME NEW q \in Held(old)
      PROVE  \E r \in Held(new) : /\ r.kind = q.kind /\ r.path = q.path /\ r.prefix = q.prefix
                                  /\ Anywhen(r) \subseteq Anywhen(q)
  <2>1. PICK s \in Node \X Prefix : q \in ToSet(old[s])
    BY DEF Held
  <2>2. PICK r \in ToSet(new[s]) : Narrows(r, q)
    BY <2>1 DEF Narrowed
  <2>3. r \in Held(new)
    BY <2>2 DEF Held
  <2> QED
    BY <2>2, <2>3 DEF Narrows, Alike, Same, Anywhen
<1>2. ASSUME NEW r \in Held(new)
      PROVE  \E q \in Held(old) : Narrows(r, q) /\ Weaker(r, q) /\ Descends(r, q)
  <2>1. PICK s \in Node \X Prefix : r \in ToSet(new[s])
    BY DEF Held
  <2>2. PICK q \in ToSet(old[s]) : Narrows(r, q)
    BY <2>1 DEF Narrowed
  <2>3. q \in Held(old)
    BY <2>2 DEF Held
  <2>4. Weaker(r, q) /\ Descends(r, q)
    BY <2>2 DEF Narrows, Alike, Same, Weaker, Descends
  <2> QED
    BY <2>2, <2>3, <2>4
<1> QED
  BY <1>1, <1>2 DEF Stays

\* A step that computes conditions anew.
LEMMA NarrowApart ==
    ASSUME IInv, AInv, net' = net, \A s \in Node \X Prefix : Narrowed(rib'[s], rib[s])
    PROVE  /\ Configured' = Configured
           /\ Stays(Held(rib'), Held(rib))
           /\ \A r \in Held(rib') : \E q \in Held(rib) : Narrows(r, q) /\ Weaker(r, q) /\ Descends(r, q)
           /\ AllSuppressed(Configured, Held(rib'), OnTheWay(stack))
           /\ AllApart(Configured, Held(rib'), Held(rib') \cup OnTheWay(stack) \cup Planned(todo))
<1> DEFINE old == Held(rib)
           new == Held(rib')
           way == OnTheWay(stack)
           plan == Planned(todo)
           table == rib'
<1>1. Configured' = Configured
  BY SameConfigured
<1>2. /\ Stays(new, old)
      /\ \A r \in new : \E q \in old : Narrows(r, q) /\ Weaker(r, q) /\ Descends(r, q)
  <2>1. \A s \in Node \X Prefix : Narrowed(table[s], rib[s])
    OBVIOUS
  <2> HIDE DEF table
  <2>2. /\ Stays(Held(table), old)
        /\ \A r \in Held(table) : \E q \in old : Narrows(r, q) /\ Weaker(r, q) /\ Descends(r, q)
    BY <2>1, NarrowedHeld
  <2> QED
    BY <2>2 DEF table
<1>3. AllSuppressed(Configured, old, way) /\ AllApart(Configured, old, old \cup way \cup plan)
  BY DEF AInv
<1> HIDE DEF old, new, way, plan
<1>4. AllSuppressed(Configured, new, way)
  <2>1. \A x \in new \cup way : \E q \in old \cup way : Weaker(x, q)
    BY <1>2, SameRoute
  <2> QED
    BY <1>2, <1>3, <2>1, SuppressedStep
<1>5. AllApart(Configured, new, new \cup way \cup plan)
  <2>1. \A y \in new \cup way \cup plan : \E z \in old \cup way \cup plan : Descends(y, z)
    BY <1>2, SameRoute
  <2> QED
    BY <1>2, <1>3, <2>1, ApartStep
<1> QED
  BY <1>1, <1>2, <1>4, <1>5 DEF old, new, way, plan

\* The first round goes on with the same routes.
LEMMA FirstRoundGoesOn ==
    ASSUME NEW old, NEW new, NEW way, NEW xs, NEW ph, NEW ph2, ph2 # "originate",
           Stays(new, old), \A r \in new : \E q \in old : r.kind = q.kind,
           FirstRound(old, way, xs, ph)
    PROVE  FirstRound(new, way, xs, ph2)
<1>1. Prepared(xs, new) /\ \A r \in way : Known(new, Last(r.path), r.prefix)
  BY StillKnown DEF FirstRound
<1> QED
  BY <1>1 DEF FirstRound

\* Ranking and selection.
LEMMA SelectRoutesApart ==
    ASSUME IInv, AInv, SelectRoutes
    PROVE  AInv'
<1> DEFINE old == Held(rib)
           new == Held(rib')
           way == OnTheWay(stack)
<1>1. /\ net' = net /\ todo' = todo /\ stack' = stack /\ round' = round
      /\ phase = "select" /\ phase' \in {"error", "apply"}
  BY DEF SelectRoutes
<1>2. \A s \in Node \X Prefix :
         Narrowed(rib'[s], rib[s]) /\ \A r \in ToSet(rib'[s]) : r.sel.holds \subseteq r.base.holds
  BY SelectNarrows
<1>3. \A r \in new : r.sel.holds \subseteq r.base.holds
  BY <1>2 DEF Held
<1>4. /\ Configured' = Configured /\ Stays(new, old)
      /\ \A r \in new : \E q \in old : Narrows(r, q)
      /\ AllSuppressed(Configured, new, way) /\ AllApart(Configured, new, new \cup way \cup Planned(todo))
  BY <1>1, <1>2, NarrowApart
<1>5. Phases(old, stack, phase, round) /\ (round = 1 => FirstRound(old, way, todo, phase))
      /\ (round = 2 => SecondRound(way, todo))
  BY DEF AInv
<1> HIDE DEF old, new, way
<1>6. Phases(new, stack, phase', round)
  BY <1>1, <1>3, <1>5 DEF Phases
<1>7. round = 1 => FirstRound(new, way, todo, phase')
  <2>1. \A r \in new : \E q \in old : r.kind = q.kind
    BY <1>4 DEF Narrows, Alike, Same
  <2>2. phase' # "originate"
    BY <1>1
  <2> QED
    BY <1>4, <1>5, <2>1, <2>2, FirstRoundGoesOn
<1> QED
  BY <1>1, <1>4, <1>5, <1>6, <1>7 DEF AInv, new, way

\* Strengthening the conditions once more.
LEMMA ApplyApart ==
    ASSUME IInv, AInv, ApplyAdvertisementConditions
    PROVE  AInv'
<1> DEFINE old == Held(rib)
           new == Held(rib')
           way == OnTheWay(stack)
<1>1. /\ net' = net /\ todo' = todo /\ stack' = stack /\ round' = round /\ rib' = Advertised
      /\ phase = "apply" /\ phase' = "select"
  BY DEF ApplyAdvertisementConditions
<1>2. \A s \in Node \X Prefix : Narrowed(rib'[s], rib[s])
  BY <1>1, AdvertisedNarrows
<1>3. /\ Configured' = Configured /\ Stays(new, old)
      /\ \A r \in new : \E q \in old : Narrows(r, q)
      /\ AllSuppressed(Configured, new, way) /\ AllApart(Configured, new, new \cup way \cup Planned(todo))
  BY <1>1, <1>2, NarrowApart
<1>4. Phases(old, stack, phase, round) /\ (round = 1 => FirstRound(old, way, todo, phase))
      /\ (round = 2 => SecondRound(way, todo))
  BY DEF AInv
<1> HIDE DEF old, new, way
<1>5. Phases(new, stack, phase', round)
  BY <1>1, <1>4 DEF Phases
<1>6. round = 1 => FirstRound(new, way, todo, phase')
  <2>1. \A r \in new : \E q \in old : r.kind = q.kind
    BY <1>3 DEF Narrows, Alike, Same
  <2>2. phase' # "originate"
    BY <1>1
  <2> QED
    BY <1>3, <1>4, <2>1, <2>2, FirstRoundGoesOn
<1> QED
  BY <1>1, <1>3, <1>4, <1>5, <1>6 DEF AInv, new, way

\* The end of a round: the second one has nothing under way yet, and what
\* the last one leaves selected is available.
LEMMA ConvergedApart ==
    ASSUME IInv, AInv, Converged
    PROVE  AInv'
<1> DEFINE old == Held(rib)
           new == Held(rib')
           way == OnTheWay(stack)
<1>1. /\ net' = net /\ stack' = stack /\ rib' = Advertised /\ phase = "apply"
      /\ \/ round = 1 /\ phase' = "originate" /\ round' = 2 /\ todo' = AggregateSteps
         \/ round # 1 /\ phase' = "done" /\ round' = round /\ todo' = todo
  BY DEF Converged
<1>2. \A s \in Node \X Prefix :
         /\ Narrowed(rib'[s], rib[s])
         /\ \A r \in ToSet(rib'[s]) : \E q \in ToSet(rib[s]) : r.sel = q.sel /\ r.base = q.base
  BY <1>1, AdvertisedNarrows
<1>3. /\ Configured' = Configured
      /\ AllSuppressed(Configured, new, way) /\ AllApart(Configured, new, new \cup way \cup Planned(todo))
  BY <1>1, <1>2, NarrowApart
<1>4. Phases(old, stack, phase, round) /\ (round = 2 => SecondRound(way, todo))
  BY DEF AInv
<1>5. \A r \in new : r.sel.holds \subseteq r.base.holds
  <2> SUFFICES ASSUME NEW r \in new PROVE r.sel.holds \subseteq r.base.holds
    OBVIOUS
  <2>1. PICK s \in Node \X Prefix : r \in ToSet(rib'[s])
    BY DEF Held
  <2>2. PICK q \in ToSet(rib[s]) : r.sel = q.sel /\ r.base = q.base
    BY <1>2, <2>1
  <2>3. q \in old
    BY <2>2 DEF Held
  <2> QED
    BY <1>1, <1>4, <2>2, <2>3 DEF Phases
<1>6. way = {}
  <2>1. stack = <<>>
    BY <1>1, <1>4 DEF Phases
  <2> QED
    BY <2>1, ElementsOf DEF OnTheWay
<1>7. Planned(AggregateSteps) = {}
  BY AggregateStepsOK DEF Planned
<1> HIDE DEF old, new, way
<1>8. Phases(new, stack, phase', round') /\ (round' = 2 => SecondRound(way, todo'))
      /\ round' # 1
  BY <1>1, <1>4, <1>5, <1>6, <1>7 DEF Phases, SecondRound
<1>9. AllApart(Configured, new, new \cup way \cup Planned(todo'))
  BY <1>1, <1>3, <1>7 DEF AllApart
<1> QED
  BY <1>1, <1>3, <1>8, <1>9 DEF AInv, new, way

\* The end of the origination.
LEMMA OriginatedApart ==
    ASSUME IInv, AInv, Originated
    PROVE  AInv'
<1> DEFINE held == Held(rib)
           way == OnTheWay(stack)
<1>1. /\ rib' = rib /\ net' = net /\ todo' = todo /\ stack' = stack /\ round' = round
      /\ stack = <<>> /\ phase' = "select"
  BY DEF Originated
<1>2. Configured' = Configured
  BY <1>1, SameConfigured
<1>3. Phases(held, stack, phase, round) /\ (round = 1 => FirstRound(held, way, todo, phase))
      /\ (round = 2 => SecondRound(way, todo)) /\ AllSuppressed(Configured, held, way)
      /\ AllApart(Configured, held, held \cup way \cup Planned(todo))
  BY DEF AInv
<1> HIDE DEF held, way
<1>4. Phases(held, stack, phase', round) /\ (round = 1 => FirstRound(held, way, todo, phase'))
  BY <1>1, <1>3 DEF Phases, FirstRound
<1> QED
  BY <1>1, <1>2, <1>3, <1>4 DEF AInv, held, way

\* A new aggregate is where all its contributors are: not where the device's
\* other entries remain, and not where a route that it passed on is.
LEMMA NewAggregateApart ==
    ASSUME IInv, AInv, NEW n \in Node, NEW c, NEW table, RIBOK(table),
           \A r \in Held(table) : \E q \in Held(rib) : Weaker(r, q),
           \A s \in Node \X Prefix : \A r \in ToSet(table[s]) :
              s[1] = n /\ r.kind # "aggregate" /\ <<s[2], c.prefix>> \in Within =>
                 r.base.holds \cap AggregateContributorCond(rib, n, c.prefix).holds = {}
    PROVE  AggregateRoute(n, c).kind = "aggregate" /\ Apart(Configured, AggregateRoute(n, c), Held(table))
<1> DEFINE y == AggregateRoute(n, c)
           has == AggregateContributorCond(rib, n, c.prefix)
<1>1. y.kind = "aggregate" /\ y.origin = n /\ y.prefix = c.prefix /\ y.base = has
  BY DEF AggregateRoute, LocalRoute, Sourced
<1>2. \A r \in Held(rib) : Contributes(r, n, c.prefix) => has.holds \subseteq Anywhen(r)
  BY ContributorWorlds DEF IInv
<1> HIDE DEF y
<1> SUFFICES ASSUME NEW r \in Held(table), Hides(Configured, y, r)
             PROVE  r.base.holds \cap has.holds = {}
  BY <1>1 DEF Apart, y
<1>3. r.kind # "aggregate" /\ <<r.prefix, c.prefix>> \in Within
  BY <1>1 DEF Hides
<1>4. CASE Last(r.path) = n
  <2>1. r.prefix \in Prefix /\ r \in ToSet(table[<<n, r.prefix>>])
    BY <1>4, HeldEntries
  <2>2. <<n, r.prefix>> \in Node \X Prefix /\ <<n, r.prefix>>[1] = n /\ <<n, r.prefix>>[2] = r.prefix
    BY <2>1
  <2> HIDE DEF has
  <2> QED
    BY <1>3, <2>1, <2>2 DEF has
<1> HIDE DEF has
<1>5. CASE Last(r.path) # n
  <2>1. n \in ToSet(Front(r.path)) /\ \E a \in Configured[n] : a.summaryOnly /\ a.prefix = c.prefix
    BY <1>1, <1>5 DEF Hides
  <2>2. PICK a \in Configured[n] : a.summaryOnly /\ a.prefix = c.prefix
    BY <2>1
  <2>3. PICK q \in Held(rib) : Weaker(r, q)
    OBVIOUS
  <2>4. Suppressed(Configured, q, Held(rib))
    BY <1>3, <2>3 DEF AInv, AllSuppressed, Weaker
  <2>5. ASSUME NEW w \in r.base.holds PROVE w \notin has.holds
    <3>1. w \in q.base.holds /\ n \in ToSet(Front(q.path)) /\ <<q.prefix, a.prefix>> \in Within
      BY <1>3, <2>1, <2>2, <2>3 DEF Weaker
    <3>2. PICK x \in Held(rib) : Contributes(x, n, a.prefix) /\ w \notin Anywhen(x)
      BY <2>2, <2>4, <3>1 DEF Suppressed
    <3> QED
      BY <1>2, <2>2, <3>2
  <2> QED
    BY <2>5
<1> QED
  BY <1>4, <1>5

\* The aggregates of a device.
LEMMA AggregateRoutesApart ==
    ASSUME IInv, AInv, AggregateRoutes
    PROVE  AInv'
<1> DEFINE n == Head(todo).node
           old == Held(rib)
           new == Held(rib')
           way == OnTheWay(stack)
           rest == Tail(todo)
           table == rib'
           plan == Planned(todo')
<1>1. /\ net' = net /\ stack' = stack /\ round' = round /\ phase' = phase
      /\ phase = "originate" /\ stack = <<>>
  BY DEF AggregateRoutes, NextStep
<1>2. n \in Node /\ IsSequence(rest)
  BY HeadStepOK DEF AggregateRoutes, StepOK, TodoOK
<1>3. /\ Head(todo).op = "aggregate" /\ Head(todo) \in ToSet(todo)
      /\ Planned(rest) \subseteq Planned(todo)
  BY AgendaHead DEF AggregateRoutes
<1>4. PICK cs : AggregatesWith(n, cs, rib', todo')
  BY AggregateNarrows
<1>5. IInv'
  BY AggregateRoutesStep
<1>6. RIBOK(table)
  BY <1>5 DEF IInv
<1>7. \A s \in Node \X Prefix :
         /\ Narrowed(table[s], rib[s])
         /\ \A r \in ToSet(table[s]) : s[1] = n /\ r.kind # "aggregate" =>
               \A c \in ToSet(cs) : <<s[2], c.prefix>> \in Within =>
                  r.base.holds \cap AggregateContributorCond(rib, n, c.prefix).holds = {}
  BY <1>4 DEF AggregatesWith
<1>8. /\ Configured' = Configured
      /\ \A r \in Held(table) : \E q \in Held(rib) : Weaker(r, q)
      /\ AllSuppressed(Configured, new, way) /\ AllApart(Configured, new, new \cup way \cup Planned(todo))
  BY <1>1, <1>7, NarrowApart
<1>9. PICK rs : /\ TodoOK(AddAndWalk(n, rs)) /\ todo' = AddAndWalk(n, rs) \o rest
                /\ \A x \in ToSet(AddAndWalk(n, rs)) :
                      x.op \in {"add", "walk"} /\ \E c \in ToSet(cs) : x.route = AggregateRoute(n, c)
  BY <1>4 DEF AggregatesWith
<1>10. Phases(old, stack, phase, round) /\ (round = 1 => FirstRound(old, way, todo, phase))
       /\ (round = 2 => SecondRound(way, todo))
  BY DEF AInv
<1>11. way = {}
  BY <1>1, ElementsOf DEF OnTheWay
<1> HIDE DEF n, table
<1>12. \A c \in ToSet(cs) : /\ AggregateRoute(n, c).kind = "aggregate"
                            /\ Apart(Configured, AggregateRoute(n, c), Held(table))
  <2> SUFFICES ASSUME NEW c \in ToSet(cs)
               PROVE  /\ AggregateRoute(n, c).kind = "aggregate"
                      /\ Apart(Configured, AggregateRoute(n, c), Held(table))
    OBVIOUS
  <2>1. \A s \in Node \X Prefix : \A r \in ToSet(table[s]) :
              s[1] = n /\ r.kind # "aggregate" /\ <<s[2], c.prefix>> \in Within =>
                 r.base.holds \cap AggregateContributorCond(rib, n, c.prefix).holds = {}
    BY <1>7
  <2> QED
    BY <1>2, <1>6, <1>8, <2>1, NewAggregateApart
<1>13. \A y \in plan : y \in Planned(todo) \/ (y.kind = "aggregate" /\ Apart(Configured, y, new))
  <2>1. ToSet(todo') = ToSet(AddAndWalk(n, rs)) \cup ToSet(rest)
    BY <1>2, <1>9, ElementsOf DEF TodoOK
  <2> SUFFICES ASSUME NEW x \in ToSet(todo'), x.op \in {"add", "walk"}
               PROVE  x.route \in Planned(todo) \/ (x.route.kind = "aggregate" /\ Apart(Configured, x.route, new))
    BY DEF Planned
  <2>2. CASE x \in ToSet(rest)
    BY <1>3, <2>2 DEF Planned
  <2>3. CASE x \in ToSet(AddAndWalk(n, rs))
    <3>1. PICK c \in ToSet(cs) : x.route = AggregateRoute(n, c)
      BY <1>9, <2>3
    <3> QED
      BY <1>12, <3>1 DEF table
  <2> QED
    BY <2>1, <2>2, <2>3
<1> HIDE DEF old, new, way, plan
<1>14. round = 2
  BY <1>3, <1>10 DEF Phases, FirstRound
<1>15. Phases(new, stack, phase, round)
  BY <1>1, <1>10 DEF Phases
<1>16. SecondRound(way, todo')
  BY <1>10, <1>11, <1>13, <1>14 DEF SecondRound, plan
<1>17. AllApart(Configured, new, new \cup way \cup plan)
  BY <1>8, <1>13 DEF AllApart
<1> QED
  BY <1>1, <1>8, <1>14, <1>15, <1>16, <1>17 DEF AInv, new, way, plan

\* Simulate starts with nothing but the agenda of the first round.
LEMMA AInit == Init => AInv
<1> SUFFICES ASSUME Init PROVE AInv
  OBVIOUS
<1>1. /\ net \in Nets /\ rib = [s \in Node \X Prefix |-> <<>>] /\ stack = <<>>
      /\ todo = Origination(net) /\ phase = "originate" /\ round = 1
  BY DEF Init
<1>2. Held(rib) = {} /\ OnTheWay(stack) = {}
  BY <1>1, ElementsOf DEF Held, OnTheWay
<1>3. FirstAgenda(todo)
  BY <1>1, OriginationOK
<1>4. FirstRound({}, {}, todo, phase)
  BY <1>3 DEF FirstAgenda, FirstRound, Planned, Plain
<1>5. AllSuppressed(Configured, {}, {}) /\ AllApart(Configured, {}, Planned(todo))
  BY DEF AllSuppressed, AllApart, Apart
<1>6. Phases({}, stack, phase, round)
  BY <1>1 DEF Phases
<1>7. {} \cup {} \cup Planned(todo) = Planned(todo)
  OBVIOUS
<1>8. 1 # 2
  OBVIOUS
<1> QED
  BY <1>1, <1>2, <1>4, <1>5, <1>6, <1>7, <1>8, Zenon DEF AInv

\* Every step keeps aggregates and the routes they cover apart.
LEMMA ANext == IInv /\ AInv /\ [Next]_vars => AInv'
<1> SUFFICES ASSUME IInv, AInv, [Next]_vars PROVE AInv'
  OBVIOUS
<1>1. CASE UNCHANGED vars
  <2>1. /\ net' = net /\ rib' = rib /\ todo' = todo /\ stack' = stack
        /\ phase' = phase /\ round' = round
    BY <1>1 DEF vars
  <2>2. Configured' = Configured
    BY <2>1, SameConfigured
  <2> QED
    BY <2>1, <2>2 DEF AInv
<1> QED
  BY <1>1, AddRouteApart, StartWalkApart, WalkRouteApart, ReturnFromWalkApart, AggregateRoutesApart,
     OriginatedApart, SelectRoutesApart, ApplyApart, ConvergedApart DEF Next, Returned

\* In every network: when Simulate has returned, no failure lets a device
\* select both its aggregate and a more specific route, and what it passed
\* on is not available where its summary-only aggregate is.
THEOREM AggregatesExclusive == Spec => []AggregateExclusive
<1>1. Spec => [](IInv /\ AInv)
  BY InitOK, NextOK, AInit, ANext, PTL DEF Spec
<1>2. IInv /\ AInv => AggregateExclusive
  <2> SUFFICES ASSUME IInv, AInv, phase = "done", NEW n \in Node, NEW a \in ActiveAggregates(n),
                      NEW s \in Entries(n, a.prefix), NEW p \in Prefix,
                      s.kind = "aggregate", s.origin = n, <<p, a.prefix>> \in Within
               PROVE  /\ \A r \in Entries(n, p) :
                           r.kind # "aggregate" => r.sel.holds \cap s.sel.holds = {}
                      /\ a.summaryOnly => \A m \in Node : \A q \in Entries(m, p) :
                           q.kind # "aggregate" /\ n \in ToSet(Front(q.path))
                           => q.cond.holds \cap s.cond.holds = {}
    BY DEF AggregateExclusive
  <2>1. a \in Configured[n] /\ a.prefix \in Prefix
    BY WithinAssumption DEF ActiveAggregates, Configured
  <2>2. RIBOK(rib)
    BY DEF IInv
  <2>3. \A m \in Node, o \in Prefix : \A r \in Entries(m, o) :
           /\ r \in Held(rib) /\ Last(r.path) = m /\ r.prefix = o
           /\ r.cond.holds \subseteq r.base.holds /\ r.sel.holds \subseteq r.base.holds
    BY <2>2, HeldEntries DEF Entries, AInv, Phases
  <2>4. /\ s \in Held(rib) /\ s.prefix = a.prefix
        /\ s.cond.holds \subseteq s.base.holds /\ s.sel.holds \subseteq s.base.holds
    BY <2>1, <2>3
  <2>5. Apart(Configured, s, Held(rib))
    BY <2>4 DEF AInv, AllApart
  <2>6. ASSUME NEW r \in Entries(n, p), r.kind # "aggregate" PROVE r.sel.holds \cap s.sel.holds = {}
    <3>1. Hides(Configured, s, r)
      BY <2>3, <2>4, <2>6 DEF Hides
    <3> QED
      BY <2>3, <2>4, <2>5, <3>1 DEF Apart
  <2>7. ASSUME a.summaryOnly, NEW m \in Node, NEW q \in Entries(m, p),
               q.kind # "aggregate", n \in ToSet(Front(q.path))
        PROVE  q.cond.holds \cap s.cond.holds = {}
    <3>1. Hides(Configured, s, q)
      BY <2>1, <2>3, <2>4, <2>7 DEF Hides
    <3> QED
      BY <2>3, <2>4, <2>5, <3>1 DEF Apart
  <2> QED
    BY <2>6, <2>7
<1> QED
  BY <1>1, <1>2, PTL

---------------------------------------------------------------------------
(***************************************************************************)
(* Keys and worlds.                                                        *)
(***************************************************************************)

\* The terms a term is made of.
Children(t) ==
    (IF "and" \in DOMAIN t THEN t.and ELSE {})
      \cup (IF "or" \in DOMAIN t THEN t.or ELSE {})
      \cup (IF "not" \in DOMAIN t THEN {t.not} ELSE {})

\* The worlds of a term, from those its children hold in.
Sem(M, t) ==
    IF "and" \in DOMAIN t THEN {w \in Worlds : \A u \in t.and : w \in M[u]}
    ELSE IF "or" \in DOMAIN t THEN {w \in Worlds : \E u \in t.or : w \in M[u]}
    ELSE IF "not" \in DOMAIN t THEN Worlds \ M[t.not]
    ELSE IF "node" \in DOMAIN t THEN {w \in Worlds : NodeUp(w, t.node)}
    ELSE IF "link" \in DOMAIN t THEN {w \in Worlds : LinkUp(w, t.link)}
    ELSE IF "lit" \in DOMAIN t THEN {w \in Worlds : t.lit = TRUE}
    ELSE {}

\* M gives the terms of T, and the terms these are made of, their worlds.
Model(T, M) ==
    \A t \in T : (\E f : DOMAIN t = {f}) /\ Children(t) \subseteq T /\ M[t] = Sem(M, t)

\* A condition holds where its term says.
Fits(c, T, M) == c.term \in T /\ c.holds = M[c.term]

\* What one more operation on the conditions of T and M can make.
Deeper(T2, M2, T, M) ==
    /\ Model(T2, M2)
    /\ \A c : Fits(c, T, M) => Fits(c, T2, M2) /\ Fits(Not(c), T2, M2)
    /\ \A cs : (\A c \in cs : Fits(c, T, M)) => Fits(AndAll(cs), T2, M2) /\ Fits(OrAll(cs), T2, M2)
    /\ Fits(TrueCond, T2, M2) /\ Fits(FalseCond, T2, M2) /\ Fits(NoCond, T2, M2)
    /\ \A n \in Node : Fits(NodeVar(n), T2, M2)
    /\ \A m, n \in Node : Fits(LinkVar({m, n}), T2, M2)

\* The terms one level above those of T.
Atoms == {[lit |-> TRUE], [lit |-> FALSE], [nil |-> TRUE]}
             \cup {[node |-> n] : n \in Node} \cup {[link |-> l] : l \in LinkID}
Above(T) == T \cup Atoms \cup {[and |-> ts] : ts \in SUBSET T}
              \cup {[or |-> ts] : ts \in SUBSET T} \cup {[not |-> t] : t \in T}

\* The worlds of a term depend on those of its children only.
LEMMA SemAgrees ==
    ASSUME NEW M, NEW M2, NEW t, \A u \in Children(t) : M2[u] = M[u]
    PROVE  Sem(M2, t) = Sem(M, t)
<1>1. CASE "and" \in DOMAIN t
  <2>1. \A u \in t.and : M2[u] = M[u]
    BY <1>1 DEF Children
  <2> QED
    BY <1>1, <2>1 DEF Sem
<1>2. CASE "and" \notin DOMAIN t /\ "or" \in DOMAIN t
  <2>1. \A u \in t.or : M2[u] = M[u]
    BY <1>2 DEF Children
  <2> QED
    BY <1>2, <2>1 DEF Sem
<1>3. CASE "and" \notin DOMAIN t /\ "or" \notin DOMAIN t /\ "not" \in DOMAIN t
  <2>1. M2[t.not] = M[t.not]
    BY <1>3 DEF Children
  <2> QED
    BY <1>3, <2>1 DEF Sem
<1>4. CASE "and" \notin DOMAIN t /\ "or" \notin DOMAIN t /\ "not" \notin DOMAIN t
  BY <1>4 DEF Sem
<1> QED
  BY <1>1, <1>2, <1>3, <1>4

\* The new terms are made of old ones.
LEMMA AboveChildren ==
    ASSUME NEW T, \A t \in T : (\E f : DOMAIN t = {f}) /\ Children(t) \subseteq T,
           NEW t \in Above(T)
    PROVE  (\E f : DOMAIN t = {f}) /\ Children(t) \subseteq T
<1>1. CASE t \in T
  BY <1>1
<1>2. CASE t \in Atoms
  <2>1. \/ DOMAIN t = {"lit"} \/ DOMAIN t = {"nil"} \/ DOMAIN t = {"node"} \/ DOMAIN t = {"link"}
    BY <1>2 DEF Atoms
  <2> QED
    BY <2>1 DEF Children
<1>3. ASSUME NEW ts \in SUBSET T, t = [and |-> ts] PROVE (\E f : DOMAIN t = {f}) /\ Children(t) \subseteq T
  <2>1. DOMAIN t = {"and"} /\ t.and = ts
    BY <1>3
  <2> QED
    BY <2>1 DEF Children
<1>4. ASSUME NEW ts \in SUBSET T, t = [or |-> ts] PROVE (\E f : DOMAIN t = {f}) /\ Children(t) \subseteq T
  <2>1. DOMAIN t = {"or"} /\ t.or = ts
    BY <1>4
  <2> QED
    BY <2>1 DEF Children
<1>5. ASSUME NEW u \in T, t = [not |-> u] PROVE (\E f : DOMAIN t = {f}) /\ Children(t) \subseteq T
  <2>1. DOMAIN t = {"not"} /\ t.not = u
    BY <1>5
  <2> QED
    BY <2>1 DEF Children
<1> QED
  BY <1>1, <1>2, <1>3, <1>4, <1>5 DEF Above

\* The terms above those of a model have worlds, too.
LEMMA ModelAbove ==
    ASSUME NEW T, NEW M, Model(T, M)
    PROVE  LET M2 == [t \in Above(T) |-> Sem(M, t)]
           IN  Model(Above(T), M2) /\ T \subseteq Above(T) /\ \A t \in T : M2[t] = M[t]
<1> DEFINE T2 == Above(T)
           M2 == [t \in T2 |-> Sem(M, t)]
<1>1. T \subseteq T2 
  BY DEF Above
<1>2. \A t \in T2 : (\E f : DOMAIN t = {f}) /\ Children(t) \subseteq T
  BY AboveChildren DEF Model
<1>3. \A t \in T2 : M2[t] = Sem(M, t)
  OBVIOUS
<1> HIDE DEF M2, T2
<1>4. \A t \in T : M2[t] = M[t]
  BY <1>1, <1>3 DEF Model
<1>5. \A t \in T2 : Sem(M2, t) = Sem(M, t)
  BY <1>2, <1>4, SemAgrees
<1>6. Model(T2, M2)
  BY <1>1, <1>2, <1>3, <1>5 DEF Model
<1> QED
  BY <1>1, <1>4, <1>6 DEF M2, T2

\* The three constants.
LEMMA Literals ==
    /\ TrueCond.term = [lit |-> TRUE] /\ FalseCond.term = [lit |-> FALSE] /\ NoCond.term = [nil |-> TRUE]
    /\ DOMAIN [lit |-> TRUE] = {"lit"} /\ DOMAIN [lit |-> FALSE] = {"lit"} /\ DOMAIN [nil |-> TRUE] = {"nil"}
    /\ [lit |-> TRUE].lit = TRUE /\ [lit |-> FALSE].lit = FALSE
    /\ TrueCond.holds = Worlds /\ FalseCond.holds = {} /\ NoCond.holds = {}
BY DEF TrueCond, FalseCond, NoCond

\* Their worlds.
LEMMA LiteralMeans ==
    ASSUME NEW M
    PROVE  /\ Sem(M, TrueCond.term) = Worlds /\ Sem(M, FalseCond.term) = {} /\ Sem(M, NoCond.term) = {}
           /\ \A T : {TrueCond.term, FalseCond.term, NoCond.term} \subseteq Above(T)
<1>1. Sem(M, TrueCond.term) = Worlds /\ Sem(M, FalseCond.term) = {} /\ Sem(M, NoCond.term) = {}
  BY Literals DEF Sem
<1>2. ASSUME NEW T PROVE {TrueCond.term, FalseCond.term, NoCond.term} \subseteq Above(T)
  BY Literals DEF Above, Atoms
<1> QED
  BY <1>1, <1>2

\* What flattenAnd makes of a term: terms that hold together where it does.
LEMMA AndPartsMean ==
    ASSUME NEW T, NEW M, Model(T, M), NEW t \in T
    PROVE  /\ AndParts(t) \subseteq T
           /\ \A w \in Worlds : w \in M[t] <=> \A u \in AndParts(t) : w \in M[u]
<1>1. Children(t) \subseteq T /\ M[t] = Sem(M, t)
  BY DEF Model
<1>2. CASE "and" \in DOMAIN t
  <2>1. t # TrueCond.term
    BY <1>2, Literals
  <2>2. AndParts(t) = t.and
    BY <1>2, <2>1 DEF AndParts
  <2> QED
    BY <1>1, <1>2, <2>2 DEF Children, Sem
<1>3. CASE t = TrueCond.term
  <2>1. "and" \notin DOMAIN t
    BY <1>3, Literals
  <2>2. AndParts(t) = {}
    BY <1>3, <2>1 DEF AndParts
  <2> QED
    BY <1>1, <1>3, <2>2, LiteralMeans
<1>4. CASE "and" \notin DOMAIN t /\ t # TrueCond.term
  <2>1. AndParts(t) = {t}
    BY <1>4 DEF AndParts
  <2> QED
    BY <2>1
<1> QED
  BY <1>2, <1>3, <1>4

\* The same for flattenOr.
LEMMA OrPartsMean ==
    ASSUME NEW T, NEW M, Model(T, M), NEW t \in T
    PROVE  /\ OrParts(t) \subseteq T
           /\ \A w \in Worlds : w \in M[t] <=> \E u \in OrParts(t) : w \in M[u]
<1>1. Children(t) \subseteq T /\ M[t] = Sem(M, t) /\ \E f : DOMAIN t = {f}
  BY DEF Model
<1>2. CASE "or" \in DOMAIN t
  <2>1. t # FalseCond.term /\ "and" \notin DOMAIN t
    BY <1>1, <1>2, Literals
  <2>2. OrParts(t) = t.or
    BY <1>2, <2>1 DEF OrParts
  <2> QED
    BY <1>1, <1>2, <2>1, <2>2 DEF Children, Sem
<1>3. CASE t = FalseCond.term
  <2>1. "or" \notin DOMAIN t
    BY <1>3, Literals
  <2>2. OrParts(t) = {}
    BY <1>3, <2>1 DEF OrParts
  <2> QED
    BY <1>1, <1>3, <2>2, LiteralMeans
<1>4. CASE "or" \notin DOMAIN t /\ t # FalseCond.term
  <2>1. OrParts(t) = {t}
    BY <1>4 DEF OrParts
  <2> QED
    BY <2>1
<1> QED
  BY <1>2, <1>3, <1>4

\* Terms of T, the only one of them, or all under an operator.
LEMMA Collapsed ==
    ASSUME NEW parts, NEW empty, NEW nary
    PROVE  \/ parts = {} /\ Collapse(parts, empty, nary) = empty
           \/ \E t : parts = {t} /\ Collapse(parts, empty, nary) = t
           \/ Collapse(parts, empty, nary) = nary
<1>1. CASE parts = {}
  BY <1>1 DEF Collapse
<1>2. CASE \E t \in parts : parts = {t}
  <2>1. PICK t \in parts : parts = {t}
    BY <1>2
  <2>2. (CHOOSE u \in parts : TRUE) = t
    BY <2>1
  <2>3. Collapse(parts, empty, nary) = CHOOSE u \in parts : TRUE
    BY <1>2 DEF Collapse
  <2> QED
    BY <2>1, <2>2, <2>3
<1>3. CASE parts # {} /\ ~\E t \in parts : parts = {t}
  BY <1>3 DEF Collapse
<1> QED
  BY <1>1, <1>2, <1>3

\* A conjunction holds where all its conjuncts do.
LEMMA AndMeans ==
    ASSUME NEW T, NEW M, Model(T, M), NEW ts \in SUBSET T
    PROVE  /\ AndTerm(ts) \in Above(T)
           /\ Sem(M, AndTerm(ts)) = {w \in Worlds : \A t \in ts : w \in M[t]}
<1> DEFINE parts == UNION {AndParts(t) : t \in ts}
           nary == [and |-> parts]
           term == Collapse(parts, TrueCond.term, nary)
<1>1. AndTerm(ts) = IF FalseCond.term \in ts THEN FalseCond.term ELSE term
  BY DEF AndTerm
<1>2. \A t \in ts : AndParts(t) \subseteq T /\ \A w \in Worlds : w \in M[t] <=> \A u \in AndParts(t) : w \in M[u]
  BY AndPartsMean
<1>3. \A u : u \in parts <=> \E t \in ts : u \in AndParts(t)
  OBVIOUS
<1> HIDE DEF parts
<1>4. parts \subseteq T
  BY <1>2, <1>3
<1>5. \A w \in Worlds : (\A t \in ts : w \in M[t]) <=> \A u \in parts : w \in M[u]
  BY <1>2, <1>3
<1>6. T \subseteq Above(T) /\ \A t \in T : M[t] = Sem(M, t)
  BY DEF Above, Model
<1>7. CASE FalseCond.term \in ts
  <2>1. M[FalseCond.term] = {}
    BY <1>6, <1>7, LiteralMeans
  <2>2. AndTerm(ts) = FalseCond.term
    BY <1>1, <1>7
  <2>3. {w \in Worlds : \A t \in ts : w \in M[t]} = {}
    BY <1>7, <2>1
  <2> QED
    BY <2>2, <2>3, LiteralMeans
<1>8. ASSUME FalseCond.term \notin ts
      PROVE  AndTerm(ts) \in Above(T) /\ Sem(M, AndTerm(ts)) = {w \in Worlds : \A t \in ts : w \in M[t]}
  <2>1. AndTerm(ts) = term
    BY <1>1, <1>8
  <2>2. SUFFICES term \in Above(T) /\ Sem(M, term) = {w \in Worlds : \A u \in parts : w \in M[u]}
    BY <1>5, <2>1
  <2>3. CASE parts = {} /\ term = TrueCond.term
    BY <2>3, LiteralMeans
  <2>4. ASSUME NEW t, parts = {t}, term = t
        PROVE  term \in Above(T) /\ Sem(M, term) = {w \in Worlds : \A u \in parts : w \in M[u]}
    <3>1. t \in T /\ M[t] = Sem(M, t)
      BY <1>4, <1>6, <2>4
    <3>2. Sem(M, t) \subseteq Worlds
      BY DEF Sem
    <3> HIDE DEF term
    <3> QED
      BY <1>6, <2>4, <3>1, <3>2
  <2>5. CASE term = nary
    <3>1. DOMAIN nary = {"and"} /\ nary.and = parts
      OBVIOUS
    <3>2. nary \in Above(T)
      BY <1>4 DEF Above
    <3> HIDE DEF nary, term
    <3>3. Sem(M, nary) = {w \in Worlds : \A u \in parts : w \in M[u]}
      BY <3>1 DEF Sem
    <3> QED
      BY <2>5, <3>2, <3>3
  <2> HIDE DEF nary
  <2>6. \/ parts = {} /\ term = TrueCond.term
        \/ \E t : parts = {t} /\ term = t
        \/ term = nary
    BY Collapsed
  <2> HIDE DEF term
  <2> QED
    BY <2>3, <2>4, <2>5, <2>6
<1> QED
  BY <1>7, <1>8

\* A disjunction holds where one of its disjuncts does.
LEMMA OrMeans ==
    ASSUME NEW T, NEW M, Model(T, M), NEW ts \in SUBSET T
    PROVE  /\ OrTerm(ts) \in Above(T)
           /\ Sem(M, OrTerm(ts)) = {w \in Worlds : \E t \in ts : w \in M[t]}
<1> DEFINE parts == UNION {OrParts(t) : t \in ts}
           nary == [or |-> parts]
           term == Collapse(parts, FalseCond.term, nary)
<1>1. OrTerm(ts) = IF TrueCond.term \in ts THEN TrueCond.term ELSE term
  BY DEF OrTerm
<1>2. \A t \in ts : OrParts(t) \subseteq T /\ \A w \in Worlds : w \in M[t] <=> \E u \in OrParts(t) : w \in M[u]
  BY OrPartsMean
<1>3. \A u : u \in parts <=> \E t \in ts : u \in OrParts(t)
  OBVIOUS
<1> HIDE DEF parts
<1>4. parts \subseteq T
  BY <1>2, <1>3
<1>5. \A w \in Worlds : (\E t \in ts : w \in M[t]) <=> \E u \in parts : w \in M[u]
  BY <1>2, <1>3
<1>6. T \subseteq Above(T) /\ \A t \in T : M[t] = Sem(M, t)
  BY DEF Above, Model
<1>7. CASE TrueCond.term \in ts
  <2>1. M[TrueCond.term] = Worlds
    BY <1>6, <1>7, LiteralMeans
  <2>2. OrTerm(ts) = TrueCond.term
    BY <1>1, <1>7
  <2>3. {w \in Worlds : \E t \in ts : w \in M[t]} = Worlds
    BY <1>7, <2>1
  <2> QED
    BY <2>2, <2>3, LiteralMeans
<1>8. ASSUME TrueCond.term \notin ts
      PROVE  OrTerm(ts) \in Above(T) /\ Sem(M, OrTerm(ts)) = {w \in Worlds : \E t \in ts : w \in M[t]}
  <2>1. OrTerm(ts) = term
    BY <1>1, <1>8
  <2>2. SUFFICES term \in Above(T) /\ Sem(M, term) = {w \in Worlds : \E u \in parts : w \in M[u]}
    BY <1>5, <2>1
  <2>3. CASE parts = {} /\ term = FalseCond.term
    BY <2>3, LiteralMeans
  <2>4. ASSUME NEW t, parts = {t}, term = t
        PROVE  term \in Above(T) /\ Sem(M, term) = {w \in Worlds : \E u \in parts : w \in M[u]}
    <3>1. t \in T /\ M[t] = Sem(M, t)
      BY <1>4, <1>6, <2>4
    <3>2. Sem(M, t) \subseteq Worlds
      BY DEF Sem
    <3> HIDE DEF term
    <3> QED
      BY <1>6, <2>4, <3>1, <3>2
  <2>5. CASE term = nary
    <3>1. DOMAIN nary = {"or"} /\ nary.or = parts
      OBVIOUS
    <3>2. nary \in Above(T)
      BY <1>4 DEF Above
    <3> HIDE DEF nary, term
    <3>3. Sem(M, nary) = {w \in Worlds : \E u \in parts : w \in M[u]}
      BY <3>1 DEF Sem
    <3> QED
      BY <2>5, <3>2, <3>3
  <2> HIDE DEF nary
  <2>6. \/ parts = {} /\ term = FalseCond.term
        \/ \E t : parts = {t} /\ term = t
        \/ term = nary
    BY Collapsed
  <2> HIDE DEF term
  <2> QED
    BY <2>3, <2>4, <2>5, <2>6
<1> QED
  BY <1>7, <1>8

\* A negation holds where its operand does not.
LEMMA NotMeans ==
    ASSUME NEW T, NEW M, Model(T, M), NEW t \in T
    PROVE  NotTerm(t) \in Above(T) /\ Sem(M, NotTerm(t)) = Worlds \ M[t]
<1>1. Children(t) \subseteq T /\ M[t] = Sem(M, t) /\ \E f : DOMAIN t = {f}
  BY DEF Model
<1>2. CASE t = TrueCond.term
  <2>1. NotTerm(t) = FalseCond.term
    BY <1>2, Literals DEF NotTerm
  <2> QED
    BY <1>1, <1>2, <2>1, LiteralMeans
<1>3. CASE t = FalseCond.term
  <2>1. NotTerm(t) = TrueCond.term
    BY <1>3, Literals DEF NotTerm
  <2> QED
    BY <1>1, <1>3, <2>1, LiteralMeans
<1>4. CASE "not" \in DOMAIN t
  <2>1. t # TrueCond.term /\ t # FalseCond.term /\ "and" \notin DOMAIN t /\ "or" \notin DOMAIN t
    BY <1>1, <1>4, Literals
  <2>2. NotTerm(t) = t.not
    BY <1>4, <2>1 DEF NotTerm
  <2>3. t.not \in T /\ M[t] = Worlds \ M[t.not]
    BY <1>1, <1>4, <2>1 DEF Children, Sem
  <2>4. M[t.not] = Sem(M, t.not) /\ Sem(M, t.not) \subseteq Worlds
    BY <2>3 DEF Model, Sem
  <2> QED
    BY <2>2, <2>3, <2>4 DEF Above
<1>5. CASE t # TrueCond.term /\ t # FalseCond.term /\ "not" \notin DOMAIN t
  <2> DEFINE new == [not |-> t]
  <2>1. NotTerm(t) = new
    BY <1>5 DEF NotTerm
  <2>2. DOMAIN new = {"not"} /\ new.not = t
    OBVIOUS
  <2>3. new \in Above(T)
    BY DEF Above
  <2> HIDE DEF new
  <2>4. Sem(M, new) = Worlds \ M[t]
    BY <2>2 DEF Sem
  <2> QED
    BY <2>1, <2>3, <2>4
<1> QED
  BY <1>2, <1>3, <1>4, <1>5

\* Whatever the engine builds in one operation has a key that tells its worlds.
LEMMA DeeperExists ==
    ASSUME NEW T, NEW M, Model(T, M)
    PROVE  \E T2, M2 : Deeper(T2, M2, T, M)
<1> DEFINE T2 == Above(T)
           M2 == [t \in T2 |-> Sem(M, t)]
<1>1. Model(T2, M2) /\ T \subseteq T2 /\ \A t \in T : M2[t] = M[t]
  BY ModelAbove
<1>2. \A t \in T2 : M2[t] = Sem(M, t)
  OBVIOUS
<1> HIDE DEF M2
<1>3. ASSUME NEW c, Fits(c, T, M) PROVE Fits(c, T2, M2) /\ Fits(Not(c), T2, M2)
  <2>1. c.term \in T /\ c.holds = M[c.term]
    BY <1>3 DEF Fits
  <2>2. NotTerm(c.term) \in T2 /\ Sem(M, NotTerm(c.term)) = Worlds \ M[c.term]
    BY <2>1, NotMeans
  <2>3. Not(c).term = NotTerm(c.term) /\ Not(c).holds = Worlds \ c.holds
    BY DEF Not
  <2> HIDE DEF T2
  <2> QED
    BY <1>1, <1>2, <2>1, <2>2, <2>3 DEF Fits
<1>4. ASSUME NEW cs, \A c \in cs : Fits(c, T, M)
      PROVE  Fits(AndAll(cs), T2, M2) /\ Fits(OrAll(cs), T2, M2)
  <2> DEFINE ts == {c.term : c \in cs}
  <2>1. ts \in SUBSET T /\ \A c \in cs : c.holds = M[c.term]
    BY <1>4 DEF Fits
  <2>2. /\ \A w : (\A t \in ts : w \in M[t]) <=> \A c \in cs : w \in c.holds
        /\ \A w : (\E t \in ts : w \in M[t]) <=> \E c \in cs : w \in c.holds
    BY <2>1
  <2>3. /\ AndAll(cs).term = AndTerm(ts) /\ OrAll(cs).term = OrTerm(ts)
        /\ AndAll(cs).holds = {w \in Worlds : \A c \in cs : w \in c.holds}
        /\ OrAll(cs).holds = {w \in Worlds : \E c \in cs : w \in c.holds}
    BY DEF AndAll, OrAll
  <2> HIDE DEF ts
  <2>4. AndTerm(ts) \in T2 /\ Sem(M, AndTerm(ts)) = {w \in Worlds : \A t \in ts : w \in M[t]}
    BY <2>1, AndMeans
  <2>5. OrTerm(ts) \in T2 /\ Sem(M, OrTerm(ts)) = {w \in Worlds : \E t \in ts : w \in M[t]}
    BY <2>1, OrMeans
  <2> HIDE DEF T2
  <2>6. Fits(AndAll(cs), T2, M2)
    BY <1>2, <2>2, <2>3, <2>4 DEF Fits
  <2>7. Fits(OrAll(cs), T2, M2)
    BY <1>2, <2>2, <2>3, <2>5 DEF Fits
  <2> QED
    BY <2>6, <2>7
<1>5. Fits(TrueCond, T2, M2) /\ Fits(FalseCond, T2, M2) /\ Fits(NoCond, T2, M2)
  <2>1. {TrueCond.term, FalseCond.term, NoCond.term} \subseteq T2
    BY LiteralMeans
  <2> HIDE DEF T2
  <2> QED
    BY <1>2, <2>1, LiteralMeans, Literals DEF Fits
<1>6. ASSUME NEW n \in Node PROVE Fits(NodeVar(n), T2, M2)
  <2> DEFINE t == [node |-> n]
  <2>1. t \in T2 /\ DOMAIN t = {"node"} /\ t.node = n
    BY DEF Above, Atoms
  <2>2. NodeVar(n).term = t /\ NodeVar(n).holds = {w \in Worlds : NodeUp(w, n)}
    BY DEF NodeVar
  <2> HIDE DEF t, T2
  <2>3. Sem(M, t) = {w \in Worlds : NodeUp(w, n)}
    BY <2>1 DEF Sem
  <2> QED
    BY <1>2, <2>1, <2>2, <2>3 DEF Fits
<1>7. ASSUME NEW m \in Node, NEW n \in Node PROVE Fits(LinkVar({m, n}), T2, M2)
  <2> DEFINE l == {m, n}
             t == [link |-> l]
  <2>0. l \in LinkID
    BY DEF LinkID
  <2> HIDE DEF l
  <2>1. t \in T2 /\ DOMAIN t = {"link"} /\ t.link = l
    BY <2>0 DEF Above, Atoms
  <2>2. LinkVar(l).term = t /\ LinkVar(l).holds = {w \in Worlds : LinkUp(w, l)}
    BY DEF LinkVar
  <2> HIDE DEF t, T2
  <2>3. Sem(M, t) = {w \in Worlds : LinkUp(w, l)}
    BY <2>1 DEF Sem
  <2>4. Fits(LinkVar(l), T2, M2)
    BY <1>2, <2>1, <2>2, <2>3 DEF Fits
  <2> QED
    BY <2>4 DEF l
<1> HIDE DEF T2
<1>8. Deeper(T2, M2, T, M)
  BY <1>1, <1>3, <1>4, <1>5, <1>6, <1>7 DEF Deeper
<1> QED
  BY <1>8

\* All conditions of a route, or of several, have keys that tell their worlds.
RouteFits(r, T, M) == Fits(r.base, T, M) /\ Fits(r.cond, T, M) /\ Fits(r.sel, T, M)
AllFit(rs, T, M)   == \A r \in rs : RouteFits(r, T, M)

\* They still do when more conditions are made.
LEMMA DeeperRoutes ==
    ASSUME NEW T, NEW M, NEW T2, NEW M2, Deeper(T2, M2, T, M), NEW rs, AllFit(rs, T, M)
    PROVE  AllFit(rs, T2, M2)
BY DEF Deeper, AllFit, RouteFits

\* The conditions of an aggregate's contributors together.
LEMMA ContributorsFit ==
    ASSUME RIBOK(rib), NEW n \in Node, NEW q, NEW T, NEW M, AllFit(Held(rib), T, M),
           NEW T2, NEW M2, Deeper(T2, M2, T, M)
    PROVE  Fits(AggregateContributorCond(rib, n, q), T2, M2)
<1> DEFINE chosen(r) == IF r.sel = NoCond THEN r.cond ELSE r.sel
           cs == {chosen(r) : r \in Contributors(rib, n, q)}
<1>1. AggregateContributorCond(rib, n, q) = AndAll(cs)
  BY DEF AggregateContributorCond
<1>2. ASSUME NEW c \in cs PROVE Fits(c, T, M)
  <2>1. PICK r \in Contributors(rib, n, q) : c = chosen(r)
    OBVIOUS
  <2>2. r \in Held(rib)
    BY ContributorSet
  <2> QED
    BY <2>1, <2>2 DEF AllFit, RouteFits
<1> HIDE DEF cs
<1> QED
  BY <1>1, <1>2 DEF Deeper

\* What is left of a route when aggregates take their worlds away.
LEMMA ExclusionFits ==
    ASSUME RIBOK(rib), NEW n \in Node, NEW as, NEW c,
           NEW T, NEW M, AllFit(Held(rib), T, M), Fits(c, T, M),
           NEW T1, NEW M1, Deeper(T1, M1, T, M), NEW T2, NEW M2, Deeper(T2, M2, T1, M1),
           NEW T3, NEW M3, Deeper(T3, M3, T2, M2)
    PROVE  Fits(Outside(n, c, as), T3, M3)
<1> DEFINE nots == {Not(AggregateContributorCond(rib, n, a.prefix)) : a \in as}
           cs == {c} \cup nots
<1>1. ASSUME NEW d \in nots PROVE Fits(d, T2, M2)
  <2>1. PICK a \in as : d = Not(AggregateContributorCond(rib, n, a.prefix))
    OBVIOUS
  <2> DEFINE has == AggregateContributorCond(rib, n, a.prefix)
  <2>2. Fits(has, T1, M1)
    BY ContributorsFit
  <2> HIDE DEF has
  <2>3. Fits(Not(has), T2, M2)
    BY <2>2 DEF Deeper
  <2> QED
    BY <2>1, <2>3 DEF has
<1>2. Fits(c, T2, M2)
  BY DEF Deeper
<1> HIDE DEF nots
<1>3. \A d \in cs : Fits(d, T2, M2)
  BY <1>1, <1>2
<1> HIDE DEF cs
<1>4. Fits(AndAll(cs), T3, M3)
  BY <1>3 DEF Deeper
<1> QED
  BY <1>4 DEF cs, nots, Outside

\* Everything that carries conditions, and that their keys tell their worlds.
RoutesOf(table, fs, xs) == Held(table) \cup OnTheWay(fs) \cup Planned(xs)
\* Their conditions are made of common terms.
Told(rs) == \E T, M : Model(T, M) /\ AllFit(rs, T, M)

\* Three operations on top of each other.
LEMMA ThreeDeeper ==
    ASSUME NEW T, NEW M, Model(T, M)
    PROVE  \E T1, M1, T2, M2, T3, M3 :
              Deeper(T1, M1, T, M) /\ Deeper(T2, M2, T1, M1) /\ Deeper(T3, M3, T2, M2)
<1>1. PICK T1, M1 : Deeper(T1, M1, T, M)
  BY DeeperExists
<1>2. Model(T1, M1)
  BY <1>1 DEF Deeper
<1>3. PICK T2, M2 : Deeper(T2, M2, T1, M1)
  BY <1>2, DeeperExists
<1>4. Model(T2, M2)
  BY <1>3 DEF Deeper
<1>5. PICK T3, M3 : Deeper(T3, M3, T2, M2)
  BY <1>4, DeeperExists
<1> QED
  BY <1>1, <1>3, <1>5

\* A chosen slot of SelectRoutes.
LEMMA SelectedSlot ==
    ASSUME IInv, SelectRoutes, NEW s \in Node \X Prefix
    PROVE  \E ranked : /\ IsSequence(ranked) /\ ToSet(ranked) = ToSet(rib[s])
                       /\ rib'[s] = [i \in 1..Len(ranked) |->
                                      [ranked[i] EXCEPT !.sel = SelectedCond(s[1], ranked, i)]]
<1> DEFINE n == s[1]
           kind == net.kind[n]
           ranked == RankRoutes(kind, n, rib[s])
<1>1. rib'[s] = [i \in DOMAIN ranked |-> [ranked[i] EXCEPT !.sel = SelectedCond(n, ranked, i)]]
  BY SlotOK DEF IInv, SelectRoutes, SelectSlot
<1>2. IsSequence(rib[s])
  BY DEF IInv, RIBOK
<1> HIDE DEF kind
<1>3. IsSequence(ranked) /\ ToSet(ranked) = ToSet(rib[s])
  BY <1>2, RankedOK
<1> HIDE DEF ranked
<1>4. DOMAIN ranked = 1..Len(ranked)
  BY <1>3, OwnElements
<1> QED
  BY <1>1, <1>3, <1>4

\* The condition under which a route is selected.
LEMMA SelectedFits ==
    ASSUME NEW n, NEW ranked, NEW i \in 1..Len(ranked), Len(ranked) \in Nat,
           NEW T, NEW M, \A j \in 1..Len(ranked) : Fits(ranked[j].cond, T, M),
           NEW T1, NEW M1, Deeper(T1, M1, T, M), NEW T2, NEW M2, Deeper(T2, M2, T1, M1),
           NEW T3, NEW M3, Deeper(T3, M3, T2, M2)
    PROVE  Fits(SelectedCond(n, ranked, i), T3, M3)
<1> DEFINE js == {j \in 1..(i - 1) :
                        /\ RouteValidForRIB(n, ranked[j])
                        /\ SelectionFamily(ranked[j]) = SelectionFamily(ranked[i])
                        /\ ~Equivalent(net.kind[n], n, ranked[j], ranked[i])}
           higher == {ranked[j].cond : j \in js}
           own == ranked[i].cond
           result == And(own, Not(OrAll(higher)))
<1>1. SelectedCond(n, ranked, i) \in {FalseCond, own, result}
  BY DEF SelectedCond
<1>2. \A j \in js : j \in 1..Len(ranked)
  OBVIOUS
<1> HIDE DEF js
<1>3. \A c \in higher : Fits(c, T, M)
  BY <1>2
<1> HIDE DEF higher
<1>4. Fits(own, T, M)
  OBVIOUS
<1>5. Fits(OrAll(higher), T1, M1)
  BY <1>3 DEF Deeper
<1>6. Fits(Not(OrAll(higher)), T2, M2)
  BY <1>5 DEF Deeper
<1>7. Fits(own, T2, M2) /\ Fits(own, T3, M3) /\ Fits(FalseCond, T3, M3)
  BY <1>4 DEF Deeper
<1>8. Fits(result, T3, M3)
  <2> DEFINE cs == {own, Not(OrAll(higher))}
  <2>1. \A c \in cs : Fits(c, T2, M2)
    BY <1>6, <1>7
  <2> HIDE DEF cs, own
  <2>2. Fits(AndAll(cs), T3, M3)
    BY <2>1 DEF Deeper
  <2> QED
    BY <2>2 DEF cs, And
<1> QED
  BY <1>1, <1>7, <1>8

\* Ranking and selection.
LEMMA SelectRoutesTold ==
    ASSUME IInv, SelectRoutes, Told(RoutesOf(rib, stack, todo))
    PROVE  Told(RoutesOf(rib, stack, todo) \cup RoutesOf(rib', stack', todo'))
<1>1. stack' = stack /\ todo' = todo
  BY DEF SelectRoutes
<1>2. PICK T, M : Model(T, M) /\ AllFit(RoutesOf(rib, stack, todo), T, M)
  BY DEF Told
<1>3. PICK T1, M1, T2, M2, T3, M3 :
         Deeper(T1, M1, T, M) /\ Deeper(T2, M2, T1, M1) /\ Deeper(T3, M3, T2, M2)
  BY <1>2, ThreeDeeper
<1>4. AllFit(RoutesOf(rib, stack, todo), T3, M3)
  BY <1>2, <1>3, DeeperRoutes
<1>5. ASSUME NEW r \in Held(rib') PROVE RouteFits(r, T3, M3)
  <2>1. PICK s \in Node \X Prefix : r \in ToSet(rib'[s])
    BY DEF Held
  <2> DEFINE new == rib'[s]
  <2>2. PICK ranked : /\ IsSequence(ranked) /\ ToSet(ranked) = ToSet(rib[s])
                      /\ new = [i \in 1..Len(ranked) |->
                                  [ranked[i] EXCEPT !.sel = SelectedCond(s[1], ranked, i)]]
    BY SelectedSlot
  <2>3. Len(ranked) \in Nat /\ ToSet(ranked) = {ranked[i] : i \in 1..Len(ranked)}
    BY <2>2, OwnElements
  <2>4. \A i \in 1..Len(ranked) : Shape(ranked[i]) /\ ranked[i] \in RoutesOf(rib, stack, todo)
    BY <2>2, <2>3 DEF IInv, RIBOK, EntryOK, RoutesOf, Held
  <2> HIDE DEF new
  <2>5. PICK i \in 1..Len(ranked) : r = new[i]
    <3>1. DOMAIN new = 1..Len(ranked)
      BY <2>2
    <3> QED
      BY <2>1, <3>1 DEF ToSet, new
  <2> DEFINE c == SelectedCond(s[1], ranked, i)
  <2>6. Fits(c, T3, M3)
    <3>1. \A j \in 1..Len(ranked) : Fits(ranked[j].cond, T, M)
      BY <1>2, <2>4 DEF AllFit, RouteFits
    <3> QED
      BY <1>3, <2>3, <3>1, SelectedFits
  <2>7. r = [ranked[i] EXCEPT !.sel = c]
    BY <2>2, <2>5
  <2> HIDE DEF c
  <2>8. r.sel = c /\ r.base = ranked[i].base /\ r.cond = ranked[i].cond
    BY <2>4, <2>7 DEF Shape
  <2> QED
    BY <1>4, <2>4, <2>6, <2>8 DEF AllFit, RouteFits
<1>6. AllFit(RoutesOf(rib, stack, todo) \cup RoutesOf(rib', stack, todo), T3, M3)
  BY <1>4, <1>5 DEF AllFit, RoutesOf
<1> QED
  BY <1>1, <1>3, <1>6 DEF Told, Deeper

\* The parent of an entry is an entry.
LEMMA ParentEntry ==
    ASSUME RIBOK(rib), NEW r \in Held(rib), Len(r.path) # 1, ParentIndices(r) # {}
    PROVE  rib[<<r.from, r.prefix>>][Min(ParentIndices(r))] \in Held(rib)
<1> DEFINE slot == <<r.from, r.prefix>>
           is == ParentIndices(r)
<1>1. slot \in Node \X Prefix
  <2>1. PICK s \in Node \X Prefix : r \in ToSet(rib[s])
    BY DEF Held
  <2>2. EntryOK(s[1], r) /\ r.prefix = s[2]
    BY <2>1 DEF RIBOK
  <2> QED
    BY <2>2 DEF EntryOK
<1>2. IsSequence(rib[slot])
  BY <1>1 DEF RIBOK
<1>3. Len(rib[slot]) \in Nat /\ DOMAIN rib[slot] = 1..Len(rib[slot])
  BY <1>2, OwnElements
<1>4. is \subseteq DOMAIN rib[slot] /\ is \subseteq Nat /\ is # {}
  BY <1>3 DEF ParentIndices
<1> HIDE DEF is
<1>5. Min(is) \in is
  <2>1. \E m \in is : \A k \in is : m <= k
    BY <1>4, LeastElement
  <2> QED
    BY <2>1, Zenon DEF Min
<1>6. Min(is) \in DOMAIN rib[slot]
  BY <1>4, <1>5
<1> QED
  BY <1>1, <1>6 DEF Held, ToSet, is

\* The condition an entry is advertised under.
LEMMA AdvertisedFits ==
    ASSUME RIBOK(rib), NEW T, NEW M, AllFit(Held(rib), T, M), NEW r \in Held(rib),
           NEW T1, NEW M1, Deeper(T1, M1, T, M)
    PROVE  Fits(AdvertisedCond(r), T1, M1)
<1>1. Fits(r.base, T, M)
  BY DEF AllFit, RouteFits
<1>2. CASE AdvertisedCond(r) \in {r.base, FalseCond}
  BY <1>1, <1>2 DEF Deeper
<1>3. CASE Len(r.path) # 1 /\ ParentIndices(r) # {} /\ AdvertisedCond(r) = And(r.base, ParentSelected(r))
  <2> DEFINE parent == rib[<<r.from, r.prefix>>][Min(ParentIndices(r))]
             up == ParentSelected(r)
             cs == {r.base, up}
  <2>1. parent \in Held(rib)
    BY <1>3, ParentEntry
  <2>2. up = parent.cond \/ up = parent.sel
    BY DEF ParentSelected
  <2> HIDE DEF parent, up
  <2>3. Fits(up, T, M)
    BY <2>1, <2>2 DEF AllFit, RouteFits
  <2>4. \A c \in cs : Fits(c, T, M)
    BY <1>1, <2>3
  <2> HIDE DEF cs
  <2>5. Fits(AndAll(cs), T1, M1)
    BY <2>4 DEF Deeper
  <2> QED
    BY <1>3, <2>5 DEF cs, And, up
<1>4. \/ AdvertisedCond(r) \in {r.base, FalseCond}
      \/ Len(r.path) # 1 /\ ParentIndices(r) # {} /\ AdvertisedCond(r) = And(r.base, ParentSelected(r))
  <2>1. PICK s \in Node \X Prefix : r \in ToSet(rib[s])
    BY DEF Held
  <2>2. IsSequence(r.path) /\ r.path # <<>>
    BY <2>1 DEF RIBOK, EntryOK, Shape
  <2>3. Len(r.path) \in Nat /\ Len(r.path) > 0
    BY <2>2, OwnElements, Positions
  <2>4. CASE r.kind = "ospf" \/ Len(r.path) = 1
    BY <2>3, <2>4 DEF AdvertisedCond
  <2>5. CASE r.kind # "ospf" /\ Len(r.path) # 1
    <3>1. \A k \in Nat : k > 0 /\ k # 1 => k > 1
      OBVIOUS
    <3>2. Len(r.path) > 1
      BY <2>3, <2>5, <3>1
    <3> QED
      BY <2>5, <3>2 DEF AdvertisedCond
  <2> QED
    BY <2>4, <2>5
<1> QED
  BY <1>2, <1>3, <1>4

\* Fewer routes, fewer conditions.
LEMMA ToldSubset ==
    ASSUME NEW rs, Told(rs), NEW qs, qs \subseteq rs
    PROVE  Told(rs \cup qs)
BY DEF Told, AllFit

\* Recomputed conditions.
LEMMA AdvertisedTold ==
    ASSUME IInv, rib' = Advertised, stack' = stack, todo' = todo \/ todo' = AggregateSteps,
           Told(RoutesOf(rib, stack, todo))
    PROVE  Told(RoutesOf(rib, stack, todo) \cup RoutesOf(rib', stack', todo'))
<1> DEFINE old == RoutesOf(rib, stack, todo)
           table == rib'
<1>1. PICK T, M : Model(T, M) /\ AllFit(old, T, M)
  BY DEF Told
<1>2. PICK T1, M1 : Deeper(T1, M1, T, M)
  BY <1>1, DeeperExists
<1>3. AllFit(old, T1, M1)
  BY <1>1, <1>2, DeeperRoutes
<1>4. Planned(todo') \subseteq Planned(todo)
  BY AggregateStepsOK DEF Planned
<1>5. ASSUME NEW r \in Held(table) PROVE RouteFits(r, T1, M1)
  <2>1. PICK s \in Node \X Prefix : r \in ToSet(table[s])
    BY DEF Held
  <2>2. DOMAIN rib = Node \X Prefix /\ IsSequence(rib[s])
    BY SlotOK DEF IInv, RIBOK
  <2>3. table[s] = [i \in DOMAIN rib[s] |-> [rib[s][i] EXCEPT !.cond = AdvertisedCond(rib[s][i])]]
    BY <2>2 DEF Advertised
  <2>4. PICK i \in DOMAIN rib[s] : r = table[s][i]
    BY <2>1, <2>3 DEF ToSet
  <2> DEFINE q == rib[s][i]
             c == AdvertisedCond(q)
  <2>5. q \in Held(rib) /\ q \in old /\ q \in ToSet(rib[s])
    BY <2>4 DEF Held, ToSet, RoutesOf
  <2>6. Shape(q)
    BY <2>5, HeldEntries DEF IInv
  <2>7. r = [q EXCEPT !.cond = c]
    BY <2>3, <2>4
  <2> HIDE DEF q
  <2>8. Fits(c, T1, M1)
    <3>1. AllFit(Held(rib), T, M)
      BY <1>1 DEF AllFit, RoutesOf
    <3> QED
      BY <1>2, <2>5, <3>1, AdvertisedFits DEF IInv
  <2> HIDE DEF c
  <2>9. r.cond = c /\ r.base = q.base /\ r.sel = q.sel
    BY <2>6, <2>7 DEF Shape
  <2> QED
    BY <1>3, <2>5, <2>8, <2>9 DEF AllFit, RouteFits
<1>6. AllFit(old \cup RoutesOf(table, stack, todo'), T1, M1)
  BY <1>3, <1>4, <1>5 DEF AllFit, RoutesOf
<1> QED
  BY <1>2, <1>6 DEF Told, Deeper

\* The condition of a route one hop further.
LEMMA HopFits ==
    ASSUME IInv, NEW m, NEW n, NEW r, Shape(r), m = Last(r.path), r.sel = NoCond,
           NEW e \in Advertisement(m, n, ApplyAggregateSuppression(m, r)),
           NEW T, NEW M, Model(T, M), AllFit(Held(rib), T, M), RouteFits(r, T, M)
    PROVE  \E T2, M2 : /\ Model(T2, M2) /\ RouteFits(e, T2, M2)
                       /\ \A rs : AllFit(rs, T, M) => AllFit(rs, T2, M2)
<1>1. PICK T1, M1, T2, M2, T3, M3 :
         Deeper(T1, M1, T, M) /\ Deeper(T2, M2, T1, M1) /\ Deeper(T3, M3, T2, M2)
  BY ThreeDeeper
<1>2. Model(T3, M3)
  BY <1>1 DEF Deeper
<1>3. PICK T4, M4 : Deeper(T4, M4, T3, M3)
  BY <1>2, DeeperExists
<1>3a. PICK T5, M5 : Deeper(T5, M5, T4, M4)
  <2>1. Model(T4, M4)
    BY <1>3 DEF Deeper
  <2> QED
    BY <2>1, DeeperExists
<1>4. m \in Node /\ n \in Node /\ NextHop(e, m, n, r)
  BY AdvertisementHop DEF IInv
<1>5. e.cond = AndAll({ApplyAggregateSuppression(m, r).cond, LinkVar({m, n}), NodeVar(n)})
  BY AdvertisementHop DEF IInv
<1> DEFINE as == {a \in ToSet(Aggregates(m)) :
                     /\ a.summaryOnly
                     /\ IsMoreSpecificWithin(r.prefix, a.prefix)
                     /\ Contributors(rib, m, a.prefix) # {}}
           c == ApplyAggregateSuppression(m, r).cond
           l == LinkVar({m, n})
           v == NodeVar(n)
           cs == {c, l, v}
<1>6. c = Outside(m, r.cond, as)
  BY DEF ApplyAggregateSuppression, Outside, Shape
<1> HIDE DEF as
<1>7. Fits(Outside(m, r.cond, as), T3, M3)
  <2>1. Fits(r.cond, T, M) /\ RIBOK(rib)
    BY DEF RouteFits, IInv
  <2> QED
    BY <1>1, <1>4, <2>1, ExclusionFits
<1>8. Fits(c, T4, M4) /\ Fits(l, T4, M4) /\ Fits(v, T4, M4)
  BY <1>3, <1>4, <1>6, <1>7 DEF Deeper
<1> HIDE DEF c, l, v
<1>9. \A d \in cs : Fits(d, T4, M4)
  BY <1>8
<1> HIDE DEF cs
<1>10. Fits(AndAll(cs), T5, M5) /\ Fits(NoCond, T5, M5) /\ Model(T5, M5)
  BY <1>3a, <1>9 DEF Deeper
<1>11. RouteFits(e, T5, M5)
  BY <1>4, <1>5, <1>10 DEF RouteFits, NextHop, cs, c, l, v
<1>12. ASSUME NEW rs, AllFit(rs, T, M) PROVE AllFit(rs, T5, M5)
  <2>1. AllFit(rs, T1, M1)
    BY <1>1, <1>12, DeeperRoutes
  <2>2. AllFit(rs, T2, M2)
    BY <1>1, <2>1, DeeperRoutes
  <2>3. AllFit(rs, T3, M3)
    BY <1>1, <2>2, DeeperRoutes
  <2>4. AllFit(rs, T4, M4)
    BY <1>3, <2>3, DeeperRoutes
  <2> QED
    BY <1>3a, <2>4, DeeperRoutes
<1> QED
  BY <1>10, <1>11, <1>12

\* One adjacency of a walk.
LEMMA WalkRouteTold ==
    ASSUME IInv, WalkRoute, Told(RoutesOf(rib, stack, todo))
    PROVE  Told(RoutesOf(rib, stack, todo) \cup RoutesOf(rib', stack', todo'))
<1> DEFINE fr   == Head(stack)
           r    == fr.route
           m    == Last(r.path)
           n    == Head(fr.peers)
           top  == [fr EXCEPT !.peers = Tail(@)]
           rest == <<top>> \o Tail(stack)
           adv  == Advertisement(m, n, ApplyAggregateSuppression(m, r))
           old  == RoutesOf(rib, stack, todo)
           new  == RoutesOf(rib', stack', todo')
<1>1. /\ todo' = todo
      /\ \/ adv = {} /\ stack' = rest /\ rib' = rib
         \/ \E e \in adv : /\ rib' = AddRIB(rib, n, e)
                           /\ stack' = <<Frame(e)>> \o rest \/ stack' = rest
  BY DEF WalkRoute
<1>2. /\ IsSequence(Tail(stack)) /\ ToSet(Tail(stack)) \subseteq ToSet(stack)
      /\ fr \in ToSet(stack) /\ \A f \in ToSet(stack) : FrameOK(f)
  BY ElementsOf DEF IInv, StackOK, WalkRoute
<1>3. top.route = r /\ FreshOK(r) /\ Shape(r) /\ r \in OnTheWay(stack)
  BY <1>2 DEF FrameOK, FreshOK, OnTheWay
<1> HIDE DEF fr, top
<1>4. IsSequence(rest) /\ ToSet(rest) = {top} \cup ToSet(Tail(stack))
  BY <1>2, SequenceBasics, ElementsOf
<1> HIDE DEF rest
<1>5. OnTheWay(rest) \subseteq OnTheWay(stack)
  BY <1>2, <1>3, <1>4 DEF OnTheWay
<1>6. CASE adv = {} /\ stack' = rest /\ rib' = rib
  <2>1. new \subseteq old
    BY <1>1, <1>5, <1>6 DEF RoutesOf
  <2> QED
    BY <2>1, ToldSubset
<1>7. ASSUME NEW e \in adv, rib' = AddRIB(rib, n, e), stack' = <<Frame(e)>> \o rest \/ stack' = rest
      PROVE  Told(old \cup new)
  <2>1. m \in Node /\ n \in Node /\ NextHop(e, m, n, r)
    BY <1>3, AdvertisementHop DEF IInv
  <2>2. PICK T, M : Model(T, M) /\ AllFit(old, T, M)
    BY DEF Told
  <2>3. AllFit(Held(rib), T, M) /\ RouteFits(r, T, M)
    BY <1>3, <2>2 DEF AllFit, RoutesOf
  <2>4. PICK T2, M2 : /\ Model(T2, M2) /\ RouteFits(e, T2, M2)
                      /\ \A rs : AllFit(rs, T, M) => AllFit(rs, T2, M2)
    BY <1>3, <2>2, <2>3, HopFits DEF FreshOK
  <2> HIDE DEF m, n, adv, r
  <2>5. EntryOK(n, e)
    <3>1. Last(e.path) = n /\ NoCond.holds = {}
      BY <1>3, <2>1, LastAndFront DEF NextHop, Shape, NoCond
    <3> QED
      BY <1>3, <2>1, <3>1 DEF FreshOK, EntryOK, NextHop, Up
  <2>6. Held(rib') \subseteq Held(rib) \cup {e}
    BY <1>7, <2>1, <2>5, HeldAdd DEF IInv
  <2>7. OnTheWay(stack') \subseteq OnTheWay(stack) \cup {e}
    <3>1. CASE stack' = rest
      BY <1>5, <3>1
    <3>2. CASE stack' = <<Frame(e)>> \o rest
      <4>1. IsSequence(<<Frame(e)>>) /\ ToSet(<<Frame(e)>>) = {Frame(e)} /\ Frame(e).route = e
        BY SequenceBasics, ElementsOf DEF Frame
      <4>2. ToSet(stack') = {Frame(e)} \cup ToSet(rest)
        BY <1>4, <3>2, <4>1, ElementsOf
      <4> QED
        BY <1>5, <4>1, <4>2 DEF OnTheWay
    <3> QED
      BY <1>7, <3>1, <3>2
  <2>8. new \subseteq old \cup {e}
    BY <1>1, <2>6, <2>7 DEF RoutesOf
  <2>9. AllFit(old, T2, M2)
    BY <2>2, <2>4
  <2> HIDE DEF old, new
  <2>10. AllFit(old \cup new, T2, M2)
    BY <2>4, <2>8, <2>9 DEF AllFit
  <2> QED
    BY <2>4, <2>10 DEF Told
<1> QED
  BY <1>1, <1>6, <1>7

\* A device's aggregates.
LEMMA AggregateRoutesTold ==
    ASSUME IInv, AggregateRoutes, Told(RoutesOf(rib, stack, todo))
    PROVE  Told(RoutesOf(rib, stack, todo) \cup RoutesOf(rib', stack', todo'))
<1> DEFINE n == Head(todo).node
           rest == Tail(todo)
           old == RoutesOf(rib, stack, todo)
           table == rib'
           agenda == todo'
<1>1. stack' = stack
  BY DEF AggregateRoutes
<1>2. n \in Node /\ IsSequence(rest) /\ Planned(rest) \subseteq Planned(todo)
  BY HeadStepOK, AgendaHead DEF AggregateRoutes, StepOK, TodoOK
<1>3. PICK cs : AggregatesWith(n, cs, table, agenda)
  BY AggregateNarrows
<1>4. RIBOK(rib)
  BY DEF IInv
<1> HIDE DEF n, table, agenda
<1>5. PICK T, M : Model(T, M) /\ AllFit(old, T, M)
  BY DEF Told
<1>6. PICK T1, M1, T2, M2, T3, M3 :
         Deeper(T1, M1, T, M) /\ Deeper(T2, M2, T1, M1) /\ Deeper(T3, M3, T2, M2)
  BY <1>5, ThreeDeeper
<1>7. AllFit(old, T1, M1)
  BY <1>5, <1>6, DeeperRoutes
<1>8. AllFit(old, T2, M2)
  BY <1>6, <1>7, DeeperRoutes
<1>9. AllFit(old, T3, M3)
  BY <1>6, <1>8, DeeperRoutes
<1>10. AllFit(Held(rib), T, M)
  BY <1>5 DEF AllFit, RoutesOf
<1>11. ASSUME NEW r \in Held(table) PROVE RouteFits(r, T3, M3)
  <2>1. PICK s \in Node \X Prefix : r \in ToSet(table[s])
    BY DEF Held
  <2>2. PICK q \in ToSet(rib[s]) : \E as : Leaves(r, q, n, as)
    BY <1>3, <2>1 DEF AggregatesWith
  <2>as. PICK as : Leaves(r, q, n, as)
    BY <2>2
  <2>3. q \in old /\ q \in Held(rib)
    BY <2>2 DEF Held, RoutesOf
  <2>4. RouteFits(q, T3, M3) /\ RouteFits(q, T, M)
    BY <1>5, <1>9, <2>3 DEF AllFit
  <2>5. Fits(Outside(n, q.base, as), T3, M3)
    BY <1>2, <1>4, <1>6, <1>10, <2>4, ExclusionFits DEF RouteFits
  <2>6. Fits(Outside(n, q.cond, as), T3, M3)
    BY <1>2, <1>4, <1>6, <1>10, <2>4, ExclusionFits DEF RouteFits
  <2> QED
    BY <2>as, <2>4, <2>5, <2>6 DEF Leaves, RouteFits
<1>12. ASSUME NEW c PROVE RouteFits(AggregateRoute(n, c), T3, M3)
  <2> DEFINE y == AggregateRoute(n, c)
             has == AggregateContributorCond(rib, n, c.prefix)
  <2>1. y.base = has /\ y.cond = has /\ y.sel = NoCond
    BY DEF AggregateRoute, LocalRoute, Sourced
  <2>2. Fits(has, T1, M1)
    BY <1>2, <1>4, <1>6, <1>10, ContributorsFit
  <2> HIDE DEF has, y
  <2>3. Fits(has, T2, M2)
    BY <1>6, <2>2 DEF Deeper
  <2>4. Fits(has, T3, M3) /\ Fits(NoCond, T3, M3)
    BY <1>6, <2>3 DEF Deeper
  <2>5. RouteFits(y, T3, M3)
    BY <2>1, <2>4 DEF RouteFits
  <2> QED
    BY <2>5 DEF y
<1>13. PICK rs : /\ TodoOK(AddAndWalk(n, rs)) /\ agenda = AddAndWalk(n, rs) \o rest
                 /\ \A x \in ToSet(AddAndWalk(n, rs)) :
                       x.op \in {"add", "walk"} /\ \E c \in ToSet(cs) : x.route = AggregateRoute(n, c)
  BY <1>3 DEF AggregatesWith
<1>14. ASSUME NEW y \in Planned(agenda) PROVE RouteFits(y, T3, M3)
  <2>1. PICK x \in ToSet(agenda) : x.op \in {"add", "walk"} /\ y = x.route
    BY DEF Planned
  <2>2. ToSet(agenda) = ToSet(AddAndWalk(n, rs)) \cup ToSet(rest)
    BY <1>2, <1>13, ElementsOf DEF TodoOK
  <2>3. CASE x \in ToSet(rest)
    <3>1. y \in old
      BY <1>2, <2>1, <2>3 DEF Planned, RoutesOf
    <3> QED
      BY <1>9, <3>1 DEF AllFit
  <2>4. CASE x \in ToSet(AddAndWalk(n, rs))
    BY <1>12, <1>13, <2>1, <2>4
  <2> QED
    BY <2>1, <2>2, <2>3, <2>4
<1>15. AllFit(old \cup RoutesOf(table, stack, agenda), T3, M3)
  BY <1>9, <1>11, <1>14 DEF AllFit, RoutesOf
<1> QED
  BY <1>1, <1>6, <1>15 DEF Told, Deeper, table, agenda

\* Steps that only move routes about.
LEMMA MovesTold ==
    ASSUME IInv, AddRoute \/ StartWalk \/ ReturnFromWalk \/ Originated \/ UNCHANGED vars
    PROVE  RoutesOf(rib', stack', todo') \subseteq RoutesOf(rib, stack, todo)
<1>1. CASE AddRoute
  <2> DEFINE n == Head(todo).node
             r == Head(todo).route
  <2>1. n \in Node /\ LocalOK(n, r)
    BY <1>1, HeadStepOK DEF AddRoute, NextStep, StepOK
  <2>2. rib' = AddRIB(rib, n, r) /\ todo' = Tail(todo) /\ stack' = stack
    BY <1>1 DEF AddRoute
  <2>3. r \in Planned(todo) /\ Planned(Tail(todo)) \subseteq Planned(todo)
    BY <1>1, AgendaHead DEF AddRoute
  <2>4. EntryOK(n, r)
    <3>1. Last(<<n>>) = n /\ NoCond.holds = {}
      BY LastAndFront DEF NoCond
    <3> QED
      BY <2>1, <3>1 DEF LocalOK, FreshOK, EntryOK
  <2>5. Held(rib') \subseteq Held(rib) \cup {r}
    BY <2>1, <2>2, <2>4, HeldAdd DEF IInv
  <2> HIDE DEF n, r
  <2> QED
    BY <2>2, <2>3, <2>5 DEF RoutesOf
<1>2. CASE StartWalk
  <2> DEFINE r == Head(todo).route
  <2>1. rib' = rib /\ todo' = Tail(todo) /\ stack' = <<Frame(r)>>
    BY <1>2 DEF StartWalk
  <2>2. r \in Planned(todo) /\ Planned(Tail(todo)) \subseteq Planned(todo)
    BY <1>2, AgendaHead DEF StartWalk
  <2>3. OnTheWay(stack') \subseteq {r}
    <3>1. ToSet(<<Frame(r)>>) = {Frame(r)} /\ Frame(r).route = r
      BY ElementsOf DEF Frame
    <3> QED
      BY <2>1, <3>1 DEF OnTheWay
  <2> HIDE DEF r
  <2> QED
    BY <2>1, <2>2, <2>3 DEF RoutesOf
<1>3. CASE ReturnFromWalk
  <2>1. rib' = rib /\ todo' = todo /\ stack' = Tail(stack) /\ stack # <<>>
    BY <1>3 DEF ReturnFromWalk
  <2>2. ToSet(Tail(stack)) \subseteq ToSet(stack)
    BY <2>1, ElementsOf DEF IInv, StackOK
  <2> QED
    BY <2>1, <2>2 DEF RoutesOf, OnTheWay
<1>4. CASE Originated \/ UNCHANGED vars
  <2>1. rib' = rib /\ todo' = todo /\ stack' = stack
    BY <1>4 DEF Originated, vars
  <2> QED
    BY <2>1
<1> QED
  BY <1>1, <1>2, <1>3, <1>4

\* Whatever Simulate does, the conditions before and after a step have keys
\* that tell their worlds.
LEMMA StepTold ==
    ASSUME IInv, [Next]_vars, Told(RoutesOf(rib, stack, todo))
    PROVE  Told(RoutesOf(rib, stack, todo) \cup RoutesOf(rib', stack', todo'))
<1>1. CASE AddRoute \/ StartWalk \/ ReturnFromWalk \/ Originated \/ UNCHANGED vars
  BY <1>1, MovesTold, ToldSubset
<1>2. CASE ApplyAdvertisementConditions \/ Converged
  <2>1. rib' = Advertised /\ stack' = stack /\ (todo' = todo \/ todo' = AggregateSteps)
    BY <1>2 DEF ApplyAdvertisementConditions, Converged
  <2> QED
    BY <2>1, AdvertisedTold
<1> QED
  BY <1>1, <1>2, SelectRoutesTold, WalkRouteTold, AggregateRoutesTold DEF Next, Returned

\* The invariant.
KInv == Told(RoutesOf(rib, stack, todo))

\* Simulate starts with routes that need one node each.
LEMMA KInit == Init => KInv
<1> SUFFICES ASSUME Init PROVE KInv
  OBVIOUS
<1>1. /\ net \in Nets /\ rib = [s \in Node \X Prefix |-> <<>>] /\ stack = <<>>
      /\ todo = Origination(net)
  BY DEF Init
<1>2. Held(rib) = {} /\ OnTheWay(stack) = {}
  BY <1>1, ElementsOf DEF Held, OnTheWay
<1>3. FirstAgenda(todo)
  BY <1>1, OriginationOK
<1>4. Model({}, <<>>)
  BY DEF Model
<1>5. PICK T, M : Deeper(T, M, {}, <<>>)
  BY <1>4, DeeperExists
<1>6. ASSUME NEW r \in Planned(todo) PROVE RouteFits(r, T, M)
  <2>1. PICK x \in ToSet(todo) : x.op \in {"add", "walk"} /\ r = x.route
    BY DEF Planned
  <2>2. Plain(r) /\ FreshOK(r)
    BY <1>3, <2>1 DEF FirstAgenda, TodoOK, StepOK, LocalOK
  <2>3. PICK n \in Node : r.cond = NodeVar(n)
    BY <2>2 DEF Plain
  <2>4. Fits(NodeVar(n), T, M) /\ Fits(NoCond, T, M)
    BY <1>5 DEF Deeper
  <2> QED
    BY <2>2, <2>3, <2>4 DEF FreshOK, RouteFits
<1>7. AllFit(RoutesOf(rib, stack, todo), T, M)
  BY <1>2, <1>6 DEF AllFit, RoutesOf
<1> QED
  BY <1>5, <1>7 DEF KInv, Told, Deeper

\* Fewer routes, fewer conditions.
LEMMA KNext == IInv /\ KInv /\ [Next]_vars => KInv'
<1> SUFFICES ASSUME IInv, KInv, [Next]_vars PROVE KInv'
  OBVIOUS
<1> DEFINE old == RoutesOf(rib, stack, todo)
           new == RoutesOf(rib', stack', todo')
<1>1. Told(old \cup new)
  BY StepTold DEF KInv
<1> HIDE DEF old, new
<1>2. Told(new)
  BY <1>1 DEF Told, AllFit
<1> QED
  BY <1>2 DEF KInv, new

\* The conditions of a route.
CondsOf(r) == {r.base, r.cond, r.sel}

\* Two conditions with the same key hold in the same worlds.
LEMMA SameKey ==
    ASSUME NEW rs, Told(rs), NEW r \in rs, NEW q \in rs,
           NEW c \in CondsOf(r), NEW d \in CondsOf(q), Key(c) = Key(d)
    PROVE  c.holds = d.holds
<1>1. PICK T, M : AllFit(rs, T, M)
  BY DEF Told
<1>2. Fits(c, T, M) /\ Fits(d, T, M)
  BY <1>1 DEF AllFit, RouteFits, CondsOf
<1> QED
  BY <1>2 DEF Fits, Key

\* The engine compares conditions by their keys only: two conditions of
\* entries with the same key hold in the same failure worlds, whatever
\* flattening and simplification has been applied on the way.
KeysTellWorlds ==
    \A r, q \in Held(rib) : \A c \in CondsOf(r), d \in CondsOf(q) :
        Key(c) = Key(d) => c.holds = d.holds

\* In every network and at every step of Simulate, conditions of RIB entries
\* that Key() does not tell apart hold in the same failure worlds: skipping
\* by key and stopping when no key changes loses nothing.
THEOREM KeysAreSound == Spec => []KeysTellWorlds
<1>1. Spec => [](IInv /\ KInv)
  BY InitOK, NextOK, KInit, KNext, PTL DEF Spec
<1>2. IInv /\ KInv => KeysTellWorlds
  <2> SUFFICES ASSUME KInv, NEW r \in Held(rib), NEW q \in Held(rib),
                      NEW c \in CondsOf(r), NEW d \in CondsOf(q), Key(c) = Key(d)
               PROVE  c.holds = d.holds
    BY DEF KeysTellWorlds
  <2> DEFINE rs == RoutesOf(rib, stack, todo)
  <2>1. r \in rs /\ q \in rs /\ Told(rs)
    BY DEF KInv, RoutesOf
  <2> HIDE DEF rs
  <2> QED
    BY <2>1, SameKey
<1> QED
  BY <1>1, <1>2, PTL

---------------------------------------------------------------------------
(***************************************************************************)
(* The fixed point.                                                        *)
(***************************************************************************)

\* A device of g may use r, q keeps r from being selected where q is
\* available, and in which worlds the i-th of the ranked routes is left.
MayUse(g, n, r) == ~r.attrs.invalid /\ (g.kind[n] = "ceos" /\ r.kind = "bgp" => NextHopNode(r) \in {0, r.from})

Beats(g, n, q, r) ==
    /\ MayUse(g, n, q) /\ SelectionFamily(q) = SelectionFamily(r)
    /\ ~Equivalent(g.kind[n], n, q, r)

Chosen(g, n, ranked, i, w) ==
    /\ MayUse(g, n, ranked[i]) /\ w \in ranked[i].cond.holds
    /\ \A j \in 1..(i - 1) : Beats(g, n, ranked[j], ranked[i]) => w \notin ranked[j].cond.holds

\* The worlds in which a route is selected.
LEMMA SelectedWorlds ==
    ASSUME NEW n, NEW ranked, NEW i, ranked[i].cond.holds \subseteq Worlds, NEW w
    PROVE  w \in SelectedCond(n, ranked, i).holds <=> Chosen(net, n, ranked, i, w)
<1> DEFINE js == {j \in 1..(i - 1) :
                        /\ RouteValidForRIB(n, ranked[j])
                        /\ SelectionFamily(ranked[j]) = SelectionFamily(ranked[i])
                        /\ ~Equivalent(net.kind[n], n, ranked[j], ranked[i])}
           higher == {ranked[j].cond : j \in js}
           own == ranked[i].cond
           result == And(own, Not(OrAll(higher)))
<1>0. \A r : RouteValidForRIB(n, r) <=> MayUse(net, n, r)
  BY DEF RouteValidForRIB, MayUse
<1>1. /\ ~RouteValidForRIB(n, ranked[i]) => SelectedCond(n, ranked, i) = FalseCond
      /\ RouteValidForRIB(n, ranked[i]) /\ higher = {} => SelectedCond(n, ranked, i) = own
      /\ RouteValidForRIB(n, ranked[i]) /\ higher # {} => SelectedCond(n, ranked, i) = result
  BY DEF SelectedCond
<1>2. \A j : j \in js <=> j \in 1..(i - 1) /\ Beats(net, n, ranked[j], ranked[i])
  BY <1>0 DEF Beats
<1> HIDE DEF js
<1>3. \A c : c \in higher <=> \E j \in js : c = ranked[j].cond
  OBVIOUS
<1> HIDE DEF higher
<1>4. w \in result.holds <=> w \in Worlds /\ w \in own.holds /\ \A c \in higher : w \notin c.holds
  <2> DEFINE a == OrAll(higher)
             b == Not(a)
             cs == {own, b}
  <2>1. \A v : v \in a.holds <=> v \in Worlds /\ \E c \in higher : v \in c.holds
    BY DEF OrAll
  <2> HIDE DEF a
  <2>2. b.holds = Worlds \ a.holds
    BY DEF Not
  <2> HIDE DEF b
  <2>3. \A v : v \in AndAll(cs).holds <=> v \in Worlds /\ v \in own.holds /\ v \in b.holds
    BY DEF AndAll
  <2>4. result = AndAll(cs)
    BY DEF And, a, b
  <2> HIDE DEF cs, result
  <2> QED
    BY <2>1, <2>2, <2>3, <2>4
<1>5. FalseCond.holds = {}
  BY DEF FalseCond
<1> HIDE DEF result
<1>6. (\A c \in higher : w \notin c.holds) <=>
         \A j \in 1..(i - 1) : Beats(net, n, ranked[j], ranked[i]) => w \notin ranked[j].cond.holds
  BY <1>2, <1>3
<1>7. CASE ~RouteValidForRIB(n, ranked[i])
  BY <1>0, <1>1, <1>5, <1>7 DEF Chosen
<1>8. CASE RouteValidForRIB(n, ranked[i]) /\ higher = {}
  BY <1>0, <1>1, <1>6, <1>8 DEF Chosen
<1>9. CASE RouteValidForRIB(n, ranked[i]) /\ higher # {}
  BY <1>0, <1>1, <1>4, <1>6, <1>9 DEF Chosen
<1> QED
  BY <1>7, <1>8, <1>9

\* The decision process does not look at conditions.
LEMMA AlikeDecided ==
    ASSUME NEW g, NEW n, NEW q, NEW q2, NEW r, NEW r2, Alike(q2, q), Alike(r2, r)
    PROVE  /\ MayUse(g, n, r2) <=> MayUse(g, n, r)
           /\ Beats(g, n, q2, r2) <=> Beats(g, n, q, r)
<1>1. /\ \A x, y : Alike(x, y) => (MayUse(g, n, x) <=> MayUse(g, n, y))
      /\ \A x, y : Alike(x, y) => SelectionFamily(x) = SelectionFamily(y)
  BY DEF Alike, Same, MayUse, NextHopNode, SelectionFamily, IsBGP
<1>2. EquivalentWith(n, q2, r2, DefaultDecisionOptions) <=> EquivalentWith(n, q, r, DefaultDecisionOptions)
  BY DEF EquivalentWith, Alike, Same, ShouldCompareMED
<1> QED
  BY <1>1, <1>2 DEF Beats, Equivalent

\* Where r's base condition holds and its sender selects the route it extends.
Parents(table, r) ==
    {i \in DOMAIN table[<<r.from, r.prefix>>] :
        /\ table[<<r.from, r.prefix>>][i].kind = r.kind
        /\ table[<<r.from, r.prefix>>][i].path = Front(r.path)}

SenderWorlds(q) ==
    IF (Len(q.path) = 1 /\ IsBGP(q)) \/ q.sel = NoCond THEN q.cond.holds ELSE q.sel.holds

Announced(table, r, w) ==
    /\ w \in r.base.holds
    /\ Len(r.path) # 1 =>
          /\ Parents(table, r) # {}
          /\ w \in SenderWorlds(table[<<r.from, r.prefix>>][Min(Parents(table, r))])

\* The worlds in which a route is advertised.
LEMMA AdvertisedWorlds ==
    ASSUME RIBOK(rib), NEW r \in Held(rib), r.kind # "ospf", NEW w
    PROVE  w \in AdvertisedCond(r).holds <=> Announced(rib, r, w)
<1> DEFINE parent == rib[<<r.from, r.prefix>>][Min(ParentIndices(r))]
           up == ParentSelected(r)
<1>1. ParentIndices(r) = Parents(rib, r)
  BY DEF ParentIndices, Parents
<1>2. up.holds = SenderWorlds(parent)
  BY DEF ParentSelected, SenderWorlds
<1>3. r.base.holds \subseteq Worlds /\ Len(r.path) \in Nat /\ Len(r.path) > 0
  <2>1. PICK s \in Node \X Prefix : r \in ToSet(rib[s])
    BY DEF Held
  <2>2. IsSequence(r.path) /\ r.path # <<>> /\ r.base.holds \subseteq Up(s[1])
    BY <2>1 DEF RIBOK, EntryOK, Shape
  <2> QED
    BY <2>2, OwnElements, Positions DEF Up
<1>4. CASE Len(r.path) = 1
  BY <1>4 DEF AdvertisedCond, Announced
<1>5. CASE Len(r.path) # 1
  <2>1. \A k \in Nat : k > 0 /\ k # 1 => k > 1
    OBVIOUS
  <2>2. Len(r.path) > 1
    BY <1>3, <1>5, <2>1
  <2>3. CASE ParentIndices(r) = {}
    <3>1. AdvertisedCond(r) = FalseCond
      BY <1>5, <2>2, <2>3 DEF AdvertisedCond
    <3> QED
      BY <1>1, <1>5, <2>3, <3>1 DEF FalseCond, Announced
  <2>4. CASE ParentIndices(r) # {}
    <3>1. AdvertisedCond(r) = And(r.base, up)
      BY <1>5, <2>2, <2>4 DEF AdvertisedCond
    <3> HIDE DEF up
    <3>2. w \in And(r.base, up).holds <=> w \in Worlds /\ w \in r.base.holds /\ w \in up.holds
      BY DEF And, AndAll
    <3> QED
      BY <1>1, <1>2, <1>3, <1>5, <2>4, <3>1, <3>2 DEF Announced
  <2> QED
    BY <2>3, <2>4
<1> QED
  BY <1>4, <1>5

\* Every route is selected where the decision process leaves it, and
\* available where it is announced.  OSPF entries take no part in the
\* comparison that ends the iteration.
SelectionDone(g, table) ==
    \A s \in Node \X Prefix : \A i \in DOMAIN table[s] : \A w :
        w \in table[s][i].sel.holds <=> Chosen(g, s[1], table[s], i, w)

\* Selection and announcements agree.
Settled(g, table) ==
    \A s \in Node \X Prefix : \A i \in DOMAIN table[s] : table[s][i].kind # "ospf" => \A w :
        /\ w \in table[s][i].sel.holds <=> Chosen(g, s[1], table[s], i, w)
        /\ w \in table[s][i].cond.holds <=> Announced(table, table[s][i], w)

\* An invalid route is selected nowhere.
InvalidUnselected(rs) == \A r \in rs : r.attrs.invalid => r.sel.holds = {}

\* The iteration, once it has selected and once it has ended.
FInv ==
    /\ phase = "apply" => SelectionDone(net, rib)
    /\ phase = "done" => Settled(net, rib)
    /\ phase \in {"apply", "done"} => InvalidUnselected(Held(rib))

\* A selection that is done selects no invalid route.
LEMMA InvalidNotChosen ==
    ASSUME NEW g, NEW table, SelectionDone(g, table)
    PROVE  InvalidUnselected(Held(table))
<1> SUFFICES ASSUME NEW r \in Held(table), r.attrs.invalid PROVE r.sel.holds = {}
  BY DEF InvalidUnselected
<1>1. PICK s \in Node \X Prefix : r \in ToSet(table[s])
  BY DEF Held
<1>2. PICK i \in DOMAIN table[s] : r = table[s][i]
  BY <1>1 DEF ToSet
<1>3. \A w : ~Chosen(g, s[1], table[s], i, w)
  BY <1>2 DEF Chosen, MayUse
<1>4. \A w : w \notin r.sel.holds
  BY <1>2, <1>3 DEF SelectionDone
<1> QED
  BY <1>4

\* Ranking and selection.
LEMMA SelectRoutesDone ==
    ASSUME IInv, SelectRoutes
    PROVE  SelectionDone(net, rib')
<1> DEFINE table == rib'
<1> SUFFICES ASSUME NEW s \in Node \X Prefix, NEW i \in DOMAIN table[s], NEW w
             PROVE  w \in table[s][i].sel.holds <=> Chosen(net, s[1], table[s], i, w)
  BY DEF SelectionDone
<1> DEFINE new == table[s]
           n == s[1]
<1>1. PICK ranked : /\ IsSequence(ranked) /\ ToSet(ranked) = ToSet(rib[s])
                    /\ new = [k \in 1..Len(ranked) |->
                                [ranked[k] EXCEPT !.sel = SelectedCond(n, ranked, k)]]
  BY SelectedSlot
<1>2. Len(ranked) \in Nat /\ ToSet(ranked) = {ranked[k] : k \in 1..Len(ranked)}
  BY <1>1, OwnElements
<1>3. \A k \in 1..Len(ranked) : Shape(ranked[k]) /\ ranked[k].cond.holds \subseteq Worlds
  BY <1>1, <1>2 DEF IInv, RIBOK, EntryOK, Up
<1>4. i \in 1..Len(ranked)
  BY <1>1
<1> HIDE DEF new, n, table
<1>5. \A k \in 1..Len(ranked) : Alike(new[k], ranked[k]) /\ new[k].cond = ranked[k].cond
                               /\ new[k].sel = SelectedCond(n, ranked, k)
  <2> SUFFICES ASSUME NEW k \in 1..Len(ranked)
               PROVE  Alike(new[k], ranked[k]) /\ new[k].cond = ranked[k].cond
                      /\ new[k].sel = SelectedCond(n, ranked, k)
    OBVIOUS
  <2> DEFINE q == ranked[k]
             c == SelectedCond(n, ranked, k)
  <2>1. new[k] = [q EXCEPT !.sel = c] /\ Shape(q)
    BY <1>1, <1>3
  <2> HIDE DEF q, c
  <2>2. Alike(new[k], q) /\ new[k].cond = q.cond /\ new[k].sel = c
    BY <2>1 DEF Shape, Alike, Same
  <2> QED
    BY <2>2 DEF q, c
<1>6. w \in new[i].sel.holds <=> Chosen(net, n, ranked, i, w)
  BY <1>3, <1>4, <1>5, SelectedWorlds
<1>7. \A j \in 1..(i - 1) : j \in 1..Len(ranked)
  BY <1>2, <1>4
<1>8. /\ MayUse(net, n, new[i]) <=> MayUse(net, n, ranked[i])
      /\ \A j \in 1..(i - 1) : Beats(net, n, new[j], new[i]) <=> Beats(net, n, ranked[j], ranked[i])
  BY <1>4, <1>5, <1>7, AlikeDecided
<1>9. Chosen(net, n, ranked, i, w) <=> Chosen(net, n, new, i, w)
  BY <1>4, <1>5, <1>7, <1>8 DEF Chosen
<1> QED
  BY <1>6, <1>9 DEF new, n

\* An entry and what ApplyAdvertisementConditions makes of it.
LEMMA AdvertisedEntry ==
    ASSUME IInv, rib' = Advertised, NEW s \in Node \X Prefix
    PROVE  /\ DOMAIN rib'[s] = DOMAIN rib[s]
           /\ \A i \in DOMAIN rib[s] :
                 /\ rib[s][i] \in Held(rib) /\ rib'[s][i] \in Held(rib')
                 /\ Alike(rib'[s][i], rib[s][i])
                 /\ rib'[s][i].base = rib[s][i].base /\ rib'[s][i].sel = rib[s][i].sel
                 /\ rib'[s][i].cond = AdvertisedCond(rib[s][i])
<1> DEFINE new == rib'[s]
           old == rib[s]
           there == Held(rib')
<1>1. new = [i \in DOMAIN old |-> [old[i] EXCEPT !.cond = AdvertisedCond(old[i])]]
  BY SlotOK DEF IInv, Advertised
<1>2. \A q \in ToSet(old) : q \in Held(rib) /\ Shape(q)
  BY DEF IInv, RIBOK, EntryOK, Held
<1>3. ToSet(new) \subseteq there
  BY DEF Held
<1> HIDE DEF new, old, there
<1>4. DOMAIN new = DOMAIN old
  BY <1>1
<1>5. ASSUME NEW i \in DOMAIN old
      PROVE  /\ old[i] \in Held(rib) /\ new[i] \in there
             /\ Alike(new[i], old[i])
             /\ new[i].base = old[i].base /\ new[i].sel = old[i].sel
             /\ new[i].cond = AdvertisedCond(old[i])
  <2> DEFINE q == old[i]
             c == AdvertisedCond(q)
  <2>1. q \in Held(rib) /\ Shape(q) /\ new[i] \in there
    BY <1>2, <1>3, <1>4 DEF ToSet
  <2>2. new[i] = [q EXCEPT !.cond = c]
    BY <1>1
  <2> HIDE DEF q, c
  <2>3. Alike(new[i], q) /\ new[i].cond = c /\ new[i].sel = q.sel /\ new[i].base = q.base
    BY <2>1, <2>2 DEF Shape, Alike, Same
  <2> QED
    BY <2>1, <2>3 DEF q, c
<1> QED
  BY <1>4, <1>5 DEF new, old, there

\* When no key changes, no world does.
LEMMA UnchangedWorlds ==
    ASSUME IInv, KInv, rib' = Advertised, ~Changed(Advertised), stack' = stack,
           todo' = todo \/ todo' = AggregateSteps,
           NEW s \in Node \X Prefix, NEW i \in DOMAIN rib[s], rib[s][i].kind # "ospf"
    PROVE  rib'[s][i].cond.holds = rib[s][i].cond.holds
<1> DEFINE all == RoutesOf(rib, stack, todo) \cup RoutesOf(rib', stack', todo')
           q == rib[s][i]
           r == rib'[s][i]
<1>1. Told(all)
  BY AdvertisedTold DEF KInv
<1>2. q \in all /\ r \in all
  BY AdvertisedEntry DEF RoutesOf
<1>3. s \in DOMAIN rib
  BY SlotOK DEF IInv
<1>4. Key(q.cond) = Key(r.cond)
  BY <1>3 DEF Changed
<1> HIDE DEF all, q, r
<1>5. q.cond \in CondsOf(q) /\ r.cond \in CondsOf(r)
  BY DEF CondsOf
<1>6. r.cond.holds = q.cond.holds
  BY <1>1, <1>2, <1>4, <1>5, SameKey
<1> QED
  BY <1>6 DEF q, r

\* Then the iteration has come to its fixed point.
LEMMA ConvergedSettled ==
    ASSUME IInv, KInv, rib' = Advertised, ~Changed(Advertised), stack' = stack,
           todo' = todo \/ todo' = AggregateSteps, SelectionDone(net, rib)
    PROVE  Settled(net, rib')
<1> DEFINE table == rib'
<1>1. \A s \in Node \X Prefix :
         /\ DOMAIN table[s] = DOMAIN rib[s]
         /\ \A i \in DOMAIN rib[s] :
              /\ rib[s][i] \in Held(rib)
              /\ Alike(table[s][i], rib[s][i])
              /\ table[s][i].base = rib[s][i].base /\ table[s][i].sel = rib[s][i].sel
              /\ table[s][i].cond = AdvertisedCond(rib[s][i])
  BY AdvertisedEntry
<1>2. \A s \in Node \X Prefix : \A i \in DOMAIN rib[s] : rib[s][i].kind # "ospf" =>
         table[s][i].cond.holds = rib[s][i].cond.holds
  BY UnchangedWorlds
<1>3. RIBOK(rib) /\ \A s \in Node \X Prefix : IsSequence(rib[s])
  BY DEF IInv, RIBOK
<1> HIDE DEF table
<1> SUFFICES ASSUME NEW s \in Node \X Prefix, NEW i \in DOMAIN table[s], table[s][i].kind # "ospf", NEW w
             PROVE  /\ w \in table[s][i].sel.holds <=> Chosen(net, s[1], table[s], i, w)
                    /\ w \in table[s][i].cond.holds <=> Announced(table, table[s][i], w)
  BY DEF Settled, table
<1> DEFINE n == s[1]
           old == rib[s]
           new == table[s]
           r == new[i]
           q == old[i]
<1>4. i \in DOMAIN old /\ Alike(r, q) /\ r.base = q.base /\ r.sel = q.sel /\ q \in Held(rib)
      /\ r.cond = AdvertisedCond(q) /\ q.kind # "ospf" /\ r.cond.holds = q.cond.holds
  BY <1>1, <1>2 DEF Alike, Same
<1>5. w \in r.sel.holds <=> Chosen(net, n, old, i, w)
  BY <1>4 DEF SelectionDone
<1>6. DOMAIN old = 1..Len(old) /\ Len(old) \in Nat /\ i \in 1..Len(old)
  BY <1>3, <1>4, OwnElements
<1>7. \A j \in 1..(i - 1) : j \in DOMAIN old
  BY <1>6
<1>8. ASSUME NEW j \in 1..(i - 1)
      PROVE  /\ Beats(net, n, new[j], r) <=> Beats(net, n, old[j], q)
             /\ Beats(net, n, old[j], q) => new[j].cond.holds = old[j].cond.holds
  <2>1. Alike(new[j], old[j])
    BY <1>1, <1>7
  <2>2. Beats(net, n, new[j], r) <=> Beats(net, n, old[j], q)
    BY <1>4, <2>1, AlikeDecided
  <2>3. ASSUME Beats(net, n, old[j], q) PROVE old[j].kind # "ospf"
    BY <1>4, <2>3 DEF Beats, SelectionFamily, IsBGP
  <2> QED
    BY <1>2, <1>7, <2>2, <2>3
<1>9. MayUse(net, n, r) <=> MayUse(net, n, q)
  BY <1>4, AlikeDecided
<1>10. Chosen(net, n, new, i, w) <=> Chosen(net, n, old, i, w)
  BY <1>4, <1>8, <1>9 DEF Chosen
<1>11. w \in r.cond.holds <=> Announced(rib, q, w)
  BY <1>3, <1>4, AdvertisedWorlds
<1>12. Announced(table, r, w) <=> Announced(rib, q, w)
  <2> HIDE DEF r, q, old, new
  <2>1. r.from = q.from /\ r.prefix = q.prefix /\ r.path = q.path /\ r.kind = q.kind /\ r.base = q.base
    BY <1>4 DEF Alike, Same
  <2>2. CASE Len(q.path) = 1
    BY <2>1, <2>2 DEF Announced
  <2>3. CASE Len(q.path) # 1
    <3> DEFINE slot == <<q.from, q.prefix>>
               is == Parents(rib, q)
    <3>1. slot \in Node \X Prefix
      <4>1. PICK t \in Node \X Prefix : q \in ToSet(rib[t])
        BY <1>4 DEF Held
      <4>2. EntryOK(t[1], q) /\ q.prefix = t[2]
        BY <1>3, <4>1 DEF RIBOK
      <4> QED
        BY <2>3, <4>2 DEF EntryOK
    <3> HIDE DEF slot
    <3>2. DOMAIN table[slot] = DOMAIN rib[slot]
      BY <1>1, <3>1
    <3>3. \A k \in DOMAIN rib[slot] : table[slot][k].kind = rib[slot][k].kind
                                     /\ table[slot][k].path = rib[slot][k].path
      BY <1>1, <3>1 DEF Alike, Same
    <3>4. Parents(table, r) = is
      BY <2>1, <3>2, <3>3 DEF Parents, slot
    <3>5. ASSUME NEW k \in is PROVE SenderWorlds(table[slot][k]) = SenderWorlds(rib[slot][k])
      <4>1. k \in DOMAIN rib[slot] /\ rib[slot][k].kind = q.kind
        BY <3>5 DEF Parents, slot
      <4>2. /\ Alike(table[slot][k], rib[slot][k]) /\ table[slot][k].sel = rib[slot][k].sel
            /\ table[slot][k].cond.holds = rib[slot][k].cond.holds
        BY <1>1, <1>2, <1>4, <3>1, <4>1 DEF q
      <4> QED
        BY <4>2 DEF SenderWorlds, Alike, Same, IsBGP
    <3>6. is # {} => Min(is) \in is
      <4>1. is \subseteq Nat
        <5>1. Len(rib[slot]) \in Nat /\ DOMAIN rib[slot] = 1..Len(rib[slot])
          BY <1>3, <3>1, OwnElements
        <5> QED
          BY <5>1 DEF Parents, slot
      <4> HIDE DEF is
      <4>2. ASSUME is # {} PROVE \E m \in is : \A k \in is : m <= k
        BY <4>1, <4>2, LeastElement
      <4> QED
        BY <4>2, Zenon DEF Min
    <3> HIDE DEF is
    <3>7. <<r.from, r.prefix>> = slot
      BY <2>1 DEF slot
    <3> QED
      BY <2>1, <3>4, <3>5, <3>6, <3>7 DEF Announced, slot, is
  <2> QED
    BY <2>2, <2>3
<1> QED
  BY <1>5, <1>10, <1>11, <1>12

\* Every step keeps what selection and iteration have reached.
LEMMA FNext == IInv /\ AInv /\ KInv /\ FInv /\ [Next]_vars => FInv'
<1> SUFFICES ASSUME IInv, AInv, KInv, FInv, [Next]_vars PROVE FInv'
  OBVIOUS
<1>1. CASE AddRoute \/ StartWalk \/ AggregateRoutes
  <2>1. phase' = "originate"
    BY <1>1 DEF AddRoute, StartWalk, AggregateRoutes, NextStep
  <2> QED
    BY <2>1 DEF FInv
<1>2. CASE WalkRoute \/ ReturnFromWalk
  <2>1. phase' = phase /\ stack # <<>>
    BY <1>2 DEF WalkRoute, ReturnFromWalk
  <2>2. phase' = "originate"
    BY <2>1 DEF AInv, Phases
  <2> QED
    BY <2>2 DEF FInv
<1>3. CASE Originated \/ ApplyAdvertisementConditions
  <2>1. phase' = "select"
    BY <1>3 DEF Originated, ApplyAdvertisementConditions
  <2> QED
    BY <2>1 DEF FInv
<1>4. CASE SelectRoutes
  <2>1. net' = net /\ phase' \in {"apply", "error"}
    BY <1>4 DEF SelectRoutes
  <2>2. SelectionDone(net, rib')
    BY <1>4, SelectRoutesDone
  <2>3. InvalidUnselected(Held(rib'))
    BY <2>2, InvalidNotChosen
  <2> QED
    BY <2>1, <2>2, <2>3 DEF FInv
<1>5. CASE Converged
  <2>1. /\ net' = net /\ phase = "apply" /\ rib' = Advertised /\ ~Changed(Advertised) /\ stack' = stack
        /\ todo' = todo \/ todo' = AggregateSteps
        /\ phase' # "apply"
    BY <1>5 DEF Converged
  <2>2. Settled(net, rib')
    BY <2>1, ConvergedSettled DEF FInv
  <2>3. InvalidUnselected(Held(rib'))
    <3> SUFFICES ASSUME NEW r \in Held(rib'), r.attrs.invalid PROVE r.sel.holds = {}
      BY DEF InvalidUnselected
    <3>1. PICK s \in Node \X Prefix : r \in ToSet(rib'[s])
      BY DEF Held
    <3>2. PICK i \in DOMAIN rib'[s] : r = rib'[s][i]
      BY <3>1 DEF ToSet
    <3>3. i \in DOMAIN rib[s] /\ Alike(r, rib[s][i]) /\ r.sel = rib[s][i].sel /\ rib[s][i] \in Held(rib)
      BY <2>1, <3>2, AdvertisedEntry
    <3> QED
      BY <2>1, <3>3 DEF FInv, InvalidUnselected, Alike
  <2> QED
    BY <2>1, <2>2, <2>3 DEF FInv
<1>6. CASE UNCHANGED vars
  BY <1>6 DEF vars, FInv
<1> QED
  BY <1>1, <1>2, <1>3, <1>4, <1>5, <1>6 DEF Next, Returned

\* Nothing has been selected at the start.
LEMMA FInit == Init => FInv
BY DEF Init, FInv

\* What Simulate returns is a fixed point of its own equations: every
\* entry is available exactly where its sender selects (or originates) the
\* route that it extends and its own base condition holds, and selected
\* exactly where it is usable and no better entry of its family is
\* available.  The loop of ConvergeAdvertisementConditions stops when no
\* key changes; then no world changes either.
FixedPoint ==
    phase = "done" =>
        \A s \in Node \X Prefix : \A i \in DOMAIN rib[s] : rib[s][i].kind # "ospf" =>
            /\ rib[s][i].cond.holds = AdvertisedCond(rib[s][i]).holds
            /\ rib[s][i].sel.holds = SelectedCond(s[1], rib[s], i).holds

\* Routes of one family that a device selects in the same failure world
\* are equivalent for its decision process.
SelectedTogether ==
    phase = "done" =>
        \A s \in Node \X Prefix : \A i, j \in DOMAIN rib[s] :
            /\ i < j /\ rib[s][j].kind # "ospf"
            /\ SelectionFamily(rib[s][i]) = SelectionFamily(rib[s][j])
            /\ rib[s][i].sel.holds \cap rib[s][j].sel.holds # {}
            => Equivalent(net.kind[s[1]], s[1], rib[s][i], rib[s][j])

\* All invariants of a simulation.
LEMMA AllInvariants == Spec => [](IInv /\ AInv /\ KInv /\ FInv)
BY InitOK, NextOK, AInit, ANext, KInit, KNext, FInit, FNext, PTL DEF Spec

\* Whatever the network: when ConvergeAdvertisementConditions has stopped
\* without an error, applying the advertisement conditions or selecting again
\* would change no condition in any failure world.
THEOREM ReachesFixedPoint == Spec => []FixedPoint
<1>1. IInv /\ FInv => FixedPoint
  <2> SUFFICES ASSUME IInv, FInv, phase = "done", NEW s \in Node \X Prefix, NEW i \in DOMAIN rib[s],
                      rib[s][i].kind # "ospf"
               PROVE  /\ rib[s][i].cond.holds = AdvertisedCond(rib[s][i]).holds
                      /\ rib[s][i].sel.holds = SelectedCond(s[1], rib[s], i).holds
    BY DEF FixedPoint
  <2> DEFINE r == rib[s][i]
             n == s[1]
  <2>1. \A w : /\ w \in r.sel.holds <=> Chosen(net, n, rib[s], i, w)
               /\ w \in r.cond.holds <=> Announced(rib, r, w)
    BY DEF FInv, Settled
  <2>2. r \in ToSet(rib[s]) /\ r \in Held(rib) /\ RIBOK(rib)
    BY DEF ToSet, Held, IInv
  <2>3. r.cond.holds \subseteq Worlds
    BY <2>2 DEF RIBOK, EntryOK, Up
  <2>4. \A w : w \in SelectedCond(n, rib[s], i).holds <=> Chosen(net, n, rib[s], i, w)
    BY <2>3, SelectedWorlds
  <2> HIDE DEF r
  <2>5. \A w : w \in AdvertisedCond(r).holds <=> Announced(rib, r, w)
    <3>1. r.kind # "ospf"
      BY DEF r
    <3> QED
      BY <2>2, <3>1, AdvertisedWorlds
  <2>6. r.cond.holds = AdvertisedCond(r).holds
    BY <2>1, <2>5
  <2>7. r.sel.holds = SelectedCond(n, rib[s], i).holds
    BY <2>1, <2>4
  <2> QED
    BY <2>6, <2>7 DEF r, n
<1> QED
  BY <1>1, AllInvariants, PTL

\* Whatever the network and the order of its routes: in one failure world a
\* device selects several routes of a family only if its decision process
\* treats each two of them as equivalent.
THEOREM SelectsEquivalent == Spec => []SelectedTogether
<1>1. IInv /\ FInv => SelectedTogether
  <2> SUFFICES ASSUME IInv, FInv, phase = "done", NEW s \in Node \X Prefix,
                      NEW i \in DOMAIN rib[s], NEW j \in DOMAIN rib[s],
                      i < j, rib[s][j].kind # "ospf",
                      SelectionFamily(rib[s][i]) = SelectionFamily(rib[s][j]),
                      NEW w \in rib[s][i].sel.holds, w \in rib[s][j].sel.holds
               PROVE  Equivalent(net.kind[s[1]], s[1], rib[s][i], rib[s][j])
    BY DEF SelectedTogether
  <2> DEFINE r == rib[s][i]
             q == rib[s][j]
             n == s[1]
  <2>1. r.kind # "ospf"
    BY DEF SelectionFamily, IsBGP
  <2>2. Chosen(net, n, rib[s], i, w) /\ Chosen(net, n, rib[s], j, w)
    BY <2>1 DEF FInv, Settled
  <2>3. i \in 1..(j - 1)
    <3>1. Len(rib[s]) \in Nat /\ DOMAIN rib[s] = 1..Len(rib[s])
      BY OwnElements DEF IInv, RIBOK
    <3> QED
      BY <3>1
  <2>4. ~Beats(net, n, r, q) /\ MayUse(net, n, r)
    BY <2>2, <2>3 DEF Chosen
  <2> QED
    BY <2>4 DEF Beats
<1> QED
  BY <1>1, AllInvariants, PTL

===========================================================================
