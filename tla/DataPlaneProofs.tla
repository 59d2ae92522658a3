-------------------------- MODULE DataPlaneProofs -------------------------
(***************************************************************************)
(* The data plane for every network.  A lookup in a derived FIB is a       *)
(* longest-prefix match in every failure world: DeriveFIB leaves a node's  *)
(* entries sorted by prefix length and group, and prefixes around an       *)
(* address differ in length.  Queries answered from the FIB follow the     *)
(* RIB: what DeriveFIB leaves out holds nowhere, or has the key of an      *)
(* installed condition.  And one symbolic walk answers for the concrete    *)
(* walks of all failure worlds, with their reasons.                        *)
(***************************************************************************)
EXTENDS DataPlane, ControlPlaneProofs

---------------------------------------------------------------------------
(***************************************************************************)
(* Sorting by insertion.                                                   *)
(***************************************************************************)
Place(out, x, before) == Max({0} \cup {i \in 1..Len(out) : <<x, out[i]>> \notin before})

\* "before" is a strict weak order of S.
StrictWeak(before, S) ==
    /\ \A x, y \in S : <<x, y>> \in before => <<y, x>> \notin before
    /\ \A x, y, z \in S : <<x, y>> \notin before /\ <<y, z>> \notin before => <<x, z>> \notin before

\* The place is behind the last element x does not precede.
LEMMA PlaceOK ==
    ASSUME NEW S, NEW out \in Seq(S), NEW x, NEW before
    PROVE  LET k == Place(out, x, before)
           IN  /\ k \in 0..Len(out)
               /\ k # 0 => <<x, out[k]>> \notin before
               /\ \A i \in (k + 1)..Len(out) : <<x, out[i]>> \in before
<1> DEFINE stops == {0} \cup {i \in 1..Len(out) : <<x, out[i]>> \notin before}
           k == Max(stops)
<1>1. Len(out) \in Nat /\ stops \subseteq Nat /\ stops # {} /\ \A i \in stops : i <= Len(out)
  <2>1. Len(out) \in Nat
    OBVIOUS
  <2>2. \A i \in 1..Len(out) : i \in Nat /\ i <= Len(out)
    BY <2>1
  <2> QED
    BY <2>1, <2>2
<1>2. k \in stops /\ \A i \in stops : k >= i
  <2> HIDE DEF stops
  <2> QED
    BY <1>1, GreatestElement
<1>3. Place(out, x, before) = k
  BY DEF Place
<1> HIDE DEF k
<1>4. k \in 0..Len(out) /\ (k # 0 => <<x, out[k]>> \notin before)
  BY <1>1, <1>2
<1>5. ASSUME NEW i \in (k + 1)..Len(out) PROVE <<x, out[i]>> \in before
  <2>1. i \in 1..Len(out) /\ ~(k >= i)
    BY <1>1, <1>4
  <2> QED
    BY <1>2, <2>1
<1> QED
  BY <1>3, <1>4, <1>5

\* Insertion moves the elements from the place on by one.
LEMMA InsertedAt ==
    ASSUME NEW S, NEW out \in Seq(S), NEW x \in S, NEW k \in 0..Len(out),
           NEW t, t = InsertAt(out, k + 1, x)
    PROVE  /\ t \in Seq(S) /\ Len(t) = Len(out) + 1 /\ t[k + 1] = x
           /\ \A i \in 1..k : t[i] = out[i]
           /\ \A i \in (k + 2)..(Len(out) + 1) : t[i] = out[i - 1]
<1> DEFINE l == SubSeq(out, 1, k)
           r == SubSeq(out, k + 1, Len(out))
<1>1. Len(out) \in Nat /\ k \in Nat /\ (k + 1) - 1 = k /\ k <= Len(out)
  OBVIOUS
<1>2. t = l \o <<x>> \o r
  BY <1>1 DEF InsertAt
<1>3. l \in Seq(S) /\ Len(l) = k /\ \A i \in 1..k : l[i] = out[i]
  BY <1>1
<1>4. r \in Seq(S) /\ Len(r) = Len(out) - k /\ \A i \in 1..(Len(out) - k) : r[i] = out[i + k]
  BY <1>1
<1> HIDE DEF l, r
<1>5. <<x>> \in Seq(S) /\ Len(<<x>>) = 1 /\ <<x>>[1] = x
  OBVIOUS
<1> DEFINE u == l \o <<x>>
<1>6. u \in Seq(S) /\ Len(u) = k + 1 /\ u[k + 1] = x /\ \A i \in 1..k : u[i] = out[i]
  BY <1>1, <1>3, <1>5
<1> HIDE DEF u
<1>7. t = u \o r
  BY <1>2 DEF u
<1>8. t \in Seq(S) /\ Len(t) = Len(out) + 1
  <2>1. u \in Seq(S) /\ r \in Seq(S)
    BY <1>4, <1>6
  <2>2. u \o r \in Seq(S) /\ Len(u \o r) = Len(u) + Len(r)
    BY <2>1
  <2>3. Len(u) = k + 1 /\ Len(r) = Len(out) - k
    BY <1>4, <1>6
  <2>4. (k + 1) + (Len(out) - k) = Len(out) + 1
    BY <1>1
  <2> QED
    BY <1>7, <2>2, <2>3, <2>4
<1>9. \A i \in 1..(k + 1) : t[i] = u[i]
  BY <1>1, <1>4, <1>6, <1>7
<1>10. ASSUME NEW i \in (k + 2)..(Len(out) + 1) PROVE t[i] = out[i - 1]
  <2>1. i - (k + 1) \in 1..(Len(out) - k) /\ (i - (k + 1)) + k = i - 1 /\ i \in (Len(u) + 1)..(Len(u) + Len(r))
    BY <1>1, <1>4, <1>6
  <2>2. t[i] = r[i - (k + 1)]
    BY <1>1, <1>4, <1>6, <1>7, <2>1
  <2> QED
    BY <1>4, <2>1, <2>2
<1>11. t[k + 1] = x /\ \A i \in 1..k : t[i] = out[i]
  BY <1>1, <1>6, <1>9
<1> QED
  BY <1>8, <1>10, <1>11

\* Insertion keeps a list sorted.
LEMMA InsertSortedOK ==
    ASSUME NEW S, NEW out \in Seq(S), NEW x \in S, NEW before
    PROVE  /\ InsertSorted(out, x, before) \in Seq(S)
           /\ ToSet(InsertSorted(out, x, before)) = ToSet(out) \cup {x}
           /\ StrictWeak(before, S) /\ Ordered(out, before) => Ordered(InsertSorted(out, x, before), before)
<1> DEFINE k == Place(out, x, before)
           t == InsertSorted(out, x, before)
           n == Len(out)
<1>1. /\ k \in 0..n /\ (k # 0 => <<x, out[k]>> \notin before)
      /\ \A i \in (k + 1)..n : <<x, out[i]>> \in before
  BY PlaceOK
<1>2. t = InsertAt(out, k + 1, x)
  BY DEF InsertSorted, Place
<1> HIDE DEF k
<1>6. ToSet(t) = ToSet(out) \cup {x}
  <2>1. k + 1 \in 1..(Len(out) + 1)
    BY <1>1
  <2> QED
    BY <1>2, <2>1, InsertElements
<1>3. /\ t \in Seq(S) /\ Len(t) = n + 1 /\ t[k + 1] = x
      /\ \A i \in 1..k : t[i] = out[i]
      /\ \A i \in (k + 2)..(n + 1) : t[i] = out[i - 1]
  <2>1. k \in 0..Len(out) /\ t = InsertAt(out, k + 1, x)
    BY <1>1, <1>2
  <2> HIDE DEF t
  <2>2. t \in Seq(S) /\ Len(t) = Len(out) + 1 /\ t[k + 1] = x
    BY <2>1, InsertedAt
  <2>3. \A i \in 1..k : t[i] = out[i]
    BY <2>1, InsertedAt
  <2>4. \A i \in (k + 2)..(Len(out) + 1) : t[i] = out[i - 1]
    BY <2>1, InsertedAt
  <2> QED
    BY <2>2, <2>3, <2>4
<1>4. n \in Nat /\ k \in Nat /\ k <= n /\ \A i \in 1..n : out[i] \in S
  BY <1>1
<1> HIDE DEF t, n
<1>5. ASSUME StrictWeak(before, S), Ordered(out, before), NEW i \in 1..(n + 1), NEW j \in 1..(n + 1), i < j
      PROVE  <<t[j], t[i]>> \notin before
  <2>1. \A a, b \in 1..n : a < b => <<out[b], out[a]>> \notin before
    BY <1>5 DEF Ordered, n
  <2>2. ASSUME NEW a \in 1..k PROVE <<x, out[a]>> \notin before
    <3>1. a \in 1..n /\ k \in 1..n /\ (a = k \/ a < k)
      BY <1>4
    <3>2. CASE a = k
      BY <1>1, <3>1, <3>2
    <3>3. CASE a < k
      <4>1. <<out[k], out[a]>> \notin before /\ <<x, out[k]>> \notin before /\ out[k] \in S /\ out[a] \in S
        BY <1>1, <1>4, <2>1, <3>1, <3>3
      <4> QED
        BY <1>5, <4>1 DEF StrictWeak
    <3> QED
      BY <3>1, <3>2, <3>3
  <2>3. ASSUME NEW b \in (k + 1)..n PROVE <<out[b], x>> \notin before
    <3>1. b \in 1..n
      BY <1>4
    <3>2. <<x, out[b]>> \in before /\ out[b] \in S
      BY <1>1, <1>4, <3>1
    <3> QED
      BY <1>5, <3>2 DEF StrictWeak
  <2>4. CASE j <= k
    <3>1. i \in 1..k /\ j \in 1..k /\ i \in 1..n /\ j \in 1..n
      BY <1>4, <1>5, <2>4
    <3> QED
      BY <1>3, <1>5, <2>1, <3>1
  <2>5. CASE j = k + 1
    <3>1. i \in 1..k
      BY <1>4, <1>5, <2>5
    <3> QED
      BY <1>3, <2>2, <2>5, <3>1
  <2>6. CASE j > k + 1
    <3>1. j \in (k + 2)..(n + 1) /\ j - 1 \in 1..n /\ j - 1 \in (k + 1)..n
      BY <1>4, <1>5, <2>6
    <3>2. t[j] = out[j - 1]
      BY <1>3, <3>1
    <3>3. CASE i <= k
      <4>1. i \in 1..k /\ i \in 1..n /\ i < j - 1
        BY <1>4, <1>5, <2>6, <3>3
      <4> QED
        BY <1>3, <2>1, <3>1, <3>2, <4>1
    <3>4. CASE i = k + 1
      BY <1>3, <2>3, <3>1, <3>2, <3>4
    <3>5. CASE i > k + 1
      <4>1. i \in (k + 2)..(n + 1) /\ i - 1 \in 1..n /\ i - 1 < j - 1
        BY <1>4, <1>5, <3>5
      <4>2. t[i] = out[i - 1]
        BY <1>3, <4>1
      <4> QED
        BY <2>1, <3>1, <3>2, <4>1, <4>2
    <3> QED
      BY <1>4, <3>3, <3>4, <3>5
  <2> QED
    BY <1>4, <2>4, <2>5, <2>6
<1> QED
  BY <1>3, <1>5, <1>6 DEF Ordered, t

\* Sorting makes up no element and loses none, and sorts.
LEMMA StableSortOK ==
    ASSUME NEW s, IsSequence(s), NEW before
    PROVE  /\ IsSequence(StableSort(s, before))
           /\ ToSet(StableSort(s, before)) = ToSet(s)
           /\ StrictWeak(before, ToSet(s)) => Ordered(StableSort(s, before), before)
<1> DEFINE N == Len(s)
           R == ToSet(s)
           S == {t \in Seq(R) : StrictWeak(before, R) => Ordered(t, before)}
           G == [x \in (1..N) \X S |-> InsertSorted(x[2], s[x[1]], before)]
           eq(f) == f = [i \in 0..N |-> IF i = 0 THEN <<>> ELSE InsertSorted(f[i - 1], s[i], before)]
           sorted == CHOOSE f : eq(f)
<1>1. N \in Nat /\ s \in Seq(R)
  BY OwnElements
<1>2. StableSort(s, before) = sorted[N]
  BY DEF StableSort
<1> HIDE DEF N, R
<1>3. \A i \in 1..N : s[i] \in R
  BY <1>1 DEF N
<1>4. ASSUME NEW i \in 1..N, NEW out \in S
      PROVE  /\ InsertSorted(out, s[i], before) \in S
             /\ ToSet(InsertSorted(out, s[i], before)) = ToSet(out) \cup {s[i]}
  BY <1>3, InsertSortedOK
<1>5. <<>> \in S
  <2>1. <<>> \in Seq(R) /\ Len(<<>>) = 0
    OBVIOUS
  <2>2. Ordered(<<>>, before)
    BY <2>1 DEF Ordered
  <2> QED
    BY <2>1, <2>2
<1>6. \A t \in S : t \in Seq(R) /\ (StrictWeak(before, R) => Ordered(t, before))
  OBVIOUS
<1> HIDE DEF S
<1>7. G \in [(1..N) \X S -> S]
  BY <1>4
<1> HIDE DEF G
<1>8. PICK F \in [0..N -> S] : F[0] = <<>> /\ \A i \in 1..N : F[i] = G[<<i, F[i - 1]>>]
  <2> DEFINE none == <<>>
  <2>1. none \in S
    BY <1>5
  <2> HIDE DEF none
  <2>2. \E F : Iterates(F, N, S, none, G)
    BY <1>1, <1>7, <2>1, BoundedRecursion
  <2> QED
    BY <2>2 DEF none, Iterates
<1>9. ASSUME NEW i \in 1..N PROVE F[i] = InsertSorted(F[i - 1], s[i], before)
  <2>1. i - 1 \in 0..N
    BY <1>1
  <2>2. <<i, F[i - 1]>> \in (1..N) \X S
    BY <1>8, <2>1
  <2>3. G[<<i, F[i - 1]>>] = InsertSorted(F[i - 1], s[i], before)
    BY <2>2 DEF G
  <2> QED
    BY <1>8, <2>3
<1>10. eq(F)
  <2>1. \A i \in 0..N : i # 0 => i \in 1..N
    BY <1>1
  <2> QED
    BY <1>8, <1>9, <2>1
<1>11. eq(sorted)
  BY <1>10, Zenon
<1> HIDE DEF sorted
<1> DEFINE T == {i \in 0..N : sorted[i] \in S /\ ToSet(sorted[i]) = {s[j] : j \in 1..i}}
<1>12. 0 \in T
  <2>1. 0 \in 0..N /\ 1..0 = {}
    BY <1>1
  <2>2. sorted[0] = <<>> /\ ToSet(<<>>) = {}
    BY <1>11, <2>1, ElementsOf
  <2> QED
    BY <1>5, <2>1, <2>2
<1>13. ASSUME NEW i \in 1..N, i - 1 \in T PROVE i \in T
  <2>1. i \in 0..N /\ i # 0
    BY <1>1
  <2>2. sorted[i] = InsertSorted(sorted[i - 1], s[i], before)
    BY <1>11, <2>1
  <2>3. sorted[i] \in S /\ ToSet(sorted[i]) = ToSet(sorted[i - 1]) \cup {s[i]}
    BY <1>4, <1>13, <2>2
  <2>4. 1..i = 1..(i - 1) \cup {i}
    OBVIOUS
  <2> QED
    BY <1>13, <2>1, <2>3, <2>4
<1> HIDE DEF T
<1>14. 0..N \subseteq T
  BY <1>1, <1>12, <1>13, BoundedInduction
<1>15. N \in 0..N
  BY <1>1
<1>16. sorted[N] \in S /\ ToSet(sorted[N]) = {s[j] : j \in 1..N}
  BY <1>14, <1>15 DEF T
<1>17. sorted[N] \in Seq(R) /\ (StrictWeak(before, R) => Ordered(sorted[N], before))
  BY <1>6, <1>16
<1>18. IsSequence(sorted[N])
  BY <1>17 DEF IsSequence
<1>19. R = {s[j] : j \in 1..N}
  BY OwnElements DEF R, N
<1> QED
  BY <1>2, <1>16, <1>17, <1>18, <1>19 DEF R

---------------------------------------------------------------------------
(***************************************************************************)
(* DeriveFIB.                                                              *)
(***************************************************************************)

\* Groups are numbered.
LEMMA GroupNumber ==
    ASSUME NEW E, \A x \in E : x.rank \in Nat, NEW installed \in Seq(E), NEW n, NEW r
    PROVE  RouteGroupFor(n, installed, r) \in Nat
<1> DEFINE ranks == {installed[i].rank : i \in DOMAIN installed}
           First(k) == installed[Min({i \in DOMAIN installed : installed[i].rank = k})].route
           same == {k \in ranks : Equivalent(net.kind[n], n, First(k), r)}
<1>1. /\ Len(installed) \in Nat /\ DOMAIN installed = 1..Len(installed)
      /\ \A i \in 1..Len(installed) : installed[i].rank \in Nat
  <2>1. \A i \in 1..Len(installed) : installed[i] \in E
    OBVIOUS
  <2> QED
    BY <2>1
<1>2. Cardinality(ranks) \in Nat
  <2> DEFINE f == [i \in 1..Len(installed) |-> installed[i].rank]
  <2>1. f \in [1..Len(installed) -> ranks] /\ \A k \in ranks : \E i \in 1..Len(installed) : f[i] = k
    BY <1>1
  <2> HIDE DEF f, ranks
  <2>2. f \in Surjection(1..Len(installed), ranks)
    BY <2>1 DEF Surjection
  <2>3. IsFiniteSet(1..Len(installed))
    BY <1>1, FS_Interval
  <2>4. IsFiniteSet(ranks)
    BY <2>2, <2>3, FS_Surjection
  <2> QED
    BY <2>4, FS_CardinalityType
<1>3. same \subseteq Nat
  BY <1>1
<1>4. RouteGroupFor(n, installed, r) = IF same = {} THEN Cardinality(ranks) ELSE Min(same)
  BY DEF RouteGroupFor
<1> HIDE DEF same, ranks
<1>5. same # {} => Min(same) \in same
  <2> SUFFICES ASSUME same # {} PROVE Min(same) \in same
    OBVIOUS
  <2>1. \E m \in same : \A k \in same : m <= k
    BY <1>3, LeastElement
  <2> QED
    BY <2>1, Zenon DEF Min
<1> QED
  BY <1>2, <1>3, <1>4, <1>5

\* q is why a device of g need not install r, r is taken care of by the installed
\* routes, and e is the entry of r.
StandsFor(g, n, q, r) ==
    \/ Key(q.sel) = Key(r.sel)
    \/ g.kind[n] = "frr" /\ Equivalent(g.kind[n], n, q, r)
Taken(n, out, r) == r.attrs.invalid \/ \E k \in DOMAIN out : StandsFor(net, n, out[k].route, r)
EntryOf(e, r) == e.prefix = r.prefix /\ e.cond = r.sel

\* Installing a route takes care of it, and of no route less than before.
LEMMA InstallTakes ==
    ASSUME NEW E, NEW out \in Seq(E), NEW n, NEW r,
           NEW new, new = Install(n, out, r),
           [route |-> r, rank |-> RouteGroupFor(n, out, r)] \in E
    PROVE  /\ new \in Seq(E) /\ Taken(n, new, r)
           /\ \A q : Taken(n, out, q) => Taken(n, new, q)
<1> DEFINE x == [route |-> r, rank |-> RouteGroupFor(n, out, r)]
           skip == \/ \E i \in DOMAIN out : Key(out[i].route.sel) = Key(r.sel)
                   \/ ~RouteInstallableInFIB(n, out, r)
<1>1. new = IF skip THEN out ELSE Append(out, x)
  BY DEF Install
<1>2. x.route = r /\ x \in E
  OBVIOUS
<1>3. skip => Taken(n, out, r)
  BY DEF RouteInstallableInFIB, Taken, StandsFor
<1> HIDE DEF x, skip
<1>4. CASE skip
  BY <1>1, <1>3, <1>4
<1>5. CASE ~skip
  <2>1. new = Append(out, x) /\ new \in Seq(E)
    BY <1>1, <1>2, <1>5
  <2>2. /\ Len(out) \in Nat /\ DOMAIN out = 1..Len(out) /\ DOMAIN new = 1..(Len(out) + 1)
        /\ new[Len(out) + 1] = x
        /\ \A k \in 1..Len(out) : new[k] = out[k]
    BY <1>2, <2>1
  <2>3. Len(out) + 1 \in DOMAIN new /\ \A k \in DOMAIN out : k \in DOMAIN new /\ new[k] = out[k]
    BY <2>2
  <2>4. Taken(n, new, r)
    BY <1>2, <2>2, <2>3 DEF Taken, StandsFor
  <2> QED
    BY <2>1, <2>3, <2>4 DEF Taken
<1> QED
  BY <1>4, <1>5

\* The entries of a slot have ranks, each is the entry of a route of the
\* RIB, and every valid route of the RIB is taken care of by one.
LEMMA SlotEntriesOK ==
    ASSUME NEW n, NEW p, IsSequence(rib[<<n, p>>])
    PROVE  /\ IsSequence(SlotEntries(n, p)) /\ \A e \in ToSet(SlotEntries(n, p)) : e.rank \in Nat
           /\ \A e \in ToSet(SlotEntries(n, p)) : \E q \in ToSet(rib[<<n, p>>]) : EntryOf(e, q)
           /\ \A r \in ToSet(rib[<<n, p>>]) : r.attrs.invalid \/
                 \E q \in ToSet(rib[<<n, p>>]), e \in ToSet(SlotEntries(n, p)) :
                    EntryOf(e, q) /\ StandsFor(net, n, q, r)
<1> DEFINE routes == FIBOrder(rib[<<n, p>>])
           N == Len(routes)
           R == ToSet(routes)
           E == [route : R, rank : Nat]
           S == Seq(E)
           G == [x \in (1..N) \X S |-> Install(n, x[2], routes[x[1]])]
           eq(f) == f = [i \in 0..N |-> IF i = 0 THEN <<>> ELSE Install(n, f[i - 1], routes[i])]
           installed == CHOOSE f : eq(f)
           slot == installed[N]
           entries == [i \in DOMAIN slot |-> FIBEntry(slot[i])]
<1>1. SlotEntries(n, p) = entries
  BY DEF SlotEntries
<1>2. IsSequence(routes) /\ R = ToSet(rib[<<n, p>>])
  <2> DEFINE before == Precedence(rib[<<n, p>>], LAMBDA a, b :
                 \/ AdminDistance(a) < AdminDistance(b)
                 \/ AdminDistance(a) = AdminDistance(b) /\ KindRank(a) < KindRank(b))
             given == rib[<<n, p>>]
  <2>1. routes = StableSort(given, before)
    BY DEF FIBOrder
  <2>2. IsSequence(given)
    OBVIOUS
  <2> HIDE DEF before, given
  <2>3. IsSequence(StableSort(given, before)) /\ ToSet(StableSort(given, before)) = ToSet(given)
    BY <2>2, StableSortOK
  <2>4. ToSet(given) = ToSet(rib[<<n, p>>])
    BY DEF given
  <2> HIDE DEF routes
  <2> QED
    BY <2>1, <2>3, <2>4
<1> HIDE DEF routes
<1>3. N \in Nat /\ routes \in Seq(R)
  BY <1>2, OwnElements
<1> HIDE DEF R
<1>4. \A i \in 1..N : routes[i] \in R
  BY <1>3
<1> HIDE DEF N
<1>0. \A x \in E : x.rank \in Nat
  OBVIOUS
<1>5. ASSUME NEW i \in 1..N, NEW out \in S
      PROVE  /\ Install(n, out, routes[i]) \in S
             /\ Taken(n, Install(n, out, routes[i]), routes[i])
             /\ \A q : Taken(n, out, q) => Taken(n, Install(n, out, routes[i]), q)
  <2> DEFINE k == RouteGroupFor(n, out, routes[i])
             x == [route |-> routes[i], rank |-> k]
  <2>1. k \in Nat
    <3> HIDE DEF E
    <3> QED
      BY <1>0, GroupNumber
  <2> HIDE DEF k
  <2>2. x \in E
    BY <1>4, <2>1
  <2>3. [route |-> routes[i], rank |-> RouteGroupFor(n, out, routes[i])] \in E
    BY <2>2 DEF k
  <2> HIDE DEF E
  <2> QED
    BY <2>3, InstallTakes
<1>6. <<>> \in S
  OBVIOUS
<1> HIDE DEF S, E
<1>7. G \in [(1..N) \X S -> S]
  BY <1>5
<1> HIDE DEF G
<1>8. PICK F \in [0..N -> S] : F[0] = <<>> /\ \A i \in 1..N : F[i] = G[<<i, F[i - 1]>>]
  <2> DEFINE none == <<>>
  <2>1. none \in S
    BY <1>6
  <2> HIDE DEF none
  <2>2. \E F : Iterates(F, N, S, none, G)
    BY <1>3, <1>7, <2>1, BoundedRecursion
  <2> QED
    BY <2>2 DEF none, Iterates
<1>9. ASSUME NEW i \in 1..N PROVE F[i] = Install(n, F[i - 1], routes[i])
  <2>1. i - 1 \in 0..N
    BY <1>3
  <2>2. <<i, F[i - 1]>> \in (1..N) \X S
    BY <1>8, <2>1
  <2>3. G[<<i, F[i - 1]>>] = Install(n, F[i - 1], routes[i])
    BY <2>2 DEF G
  <2> QED
    BY <1>8, <2>3
<1>10. eq(F)
  <2>1. \A i \in 0..N : i # 0 => i \in 1..N
    BY <1>3
  <2> QED
    BY <1>8, <1>9, <2>1
<1>11. eq(installed)
  BY <1>10, Zenon
<1> HIDE DEF installed
<1> DEFINE T == {i \in 0..N : installed[i] \in S /\ \A j \in 1..i : Taken(n, installed[i], routes[j])}
<1>12. 0 \in T
  <2>1. 0 \in 0..N /\ 1..0 = {}
    BY <1>3
  <2> QED
    BY <1>6, <1>11, <2>1
<1>13. ASSUME NEW i \in 1..N, i - 1 \in T PROVE i \in T
  <2>1. i \in 0..N /\ i # 0 /\ \A j \in 1..i : j = i \/ j \in 1..(i - 1)
    BY <1>3
  <2>2. installed[i] = Install(n, installed[i - 1], routes[i])
    BY <1>11, <2>1
  <2>3. installed[i - 1] \in S /\ \A j \in 1..(i - 1) : Taken(n, installed[i - 1], routes[j])
    BY <1>13
  <2>4. installed[i] \in S /\ Taken(n, installed[i], routes[i])
    BY <1>5, <2>2, <2>3
  <2>5. \A q : Taken(n, installed[i - 1], q) => Taken(n, installed[i], q)
    BY <1>5, <2>2, <2>3
  <2> QED
    BY <2>1, <2>3, <2>4, <2>5
<1> HIDE DEF T
<1>14. 0..N \subseteq T
  BY <1>3, <1>12, <1>13, BoundedInduction
<1>15. N \in 0..N
  BY <1>3
<1>16. slot \in Seq(E) /\ \A j \in 1..N : Taken(n, slot, routes[j])
  BY <1>14, <1>15 DEF T, S
<1> HIDE DEF slot
<1>21. \A i \in 1..Len(slot) : slot[i] \in E
  BY <1>16
<1>17. Len(slot) \in Nat /\ DOMAIN slot = 1..Len(slot)
  BY <1>16
<1>22. \A i \in 1..Len(slot) : slot[i].rank \in Nat /\ slot[i].route \in R
  BY <1>21 DEF E
<1>18. /\ entries = [i \in 1..Len(slot) |-> entries[i]]
       /\ \A i \in 1..Len(slot) : entries[i].rank \in Nat /\ EntryOf(entries[i], slot[i].route)
  BY <1>17, <1>22 DEF FIBEntry, EntryOf
<1> HIDE DEF entries
<1>19. IsSequence(entries) /\ Len(entries) = Len(slot)
  BY <1>17, <1>18, FunctionSequence
<1>23. ToSet(entries) = {entries[i] : i \in 1..Len(slot)}
  BY <1>19, OwnElements
<1>20. \A e \in ToSet(entries) : e.rank \in Nat /\ \E q \in R : EntryOf(e, q)
  BY <1>18, <1>22, <1>23
<1>24. ASSUME NEW r \in R, ~r.attrs.invalid
       PROVE  \E q \in R, e \in ToSet(entries) : EntryOf(e, q) /\ StandsFor(net, n, q, r)
  <2>1. PICK j \in 1..N : r = routes[j]
    BY <1>2, OwnElements DEF R, N
  <2>2. PICK k \in 1..Len(slot) : StandsFor(net, n, slot[k].route, r)
    BY <1>16, <1>17, <1>24, <2>1 DEF Taken
  <2>3. slot[k].route \in R /\ EntryOf(entries[k], slot[k].route) /\ entries[k] \in ToSet(entries)
    BY <1>18, <1>22, <1>23
  <2> QED
    BY <2>2, <2>3
<1> QED
  BY <1>1, <1>2, <1>19, <1>20, <1>24

---------------------------------------------------------------------------
(***************************************************************************)
(* A node's FIB.                                                           *)
(***************************************************************************)

\* No entry of f precedes a better one.
FIBOK(f) ==
    /\ IsSequence(f)
    /\ \A e \in ToSet(f) : e.rank \in Nat
    /\ \A i, j \in 1..Len(f) : i < j => ~Better(f[j], f[i])

\* Prefix lengths are numbers.
LEMMA BitsNumber == \A p : Bits(p) \in Nat
<1> TAKE p
<1> DEFINE around == {q \in Prefix : <<p, q>> \in Within}
<1>1. IsFiniteSet(Prefix)
  BY PrefixTreeAssumption
<1>2. around \in SUBSET Prefix
  OBVIOUS
<1>3. Bits(p) = Cardinality(around)
  BY DEF Bits
<1> HIDE DEF around
<1>4. IsFiniteSet(around)
  BY <1>1, <1>2, FS_Subset
<1> QED
  BY <1>3, <1>4, FS_CardinalityType

\* Better is a strict weak order of entries with ranks.
LEMMA BetterOrders ==
    ASSUME NEW S, \A e \in S : e.rank \in Nat,
           NEW before, \A x, y \in S : <<x, y>> \in before <=> Better(x, y)
    PROVE  StrictWeak(before, S)
<1>1. ASSUME NEW x \in S, NEW y \in S, Better(x, y) PROVE ~Better(y, x)
  <2>1. Bits(x.prefix) \in Nat /\ Bits(y.prefix) \in Nat /\ x.rank \in Nat /\ y.rank \in Nat
    BY BitsNumber
  <2> QED
    BY <1>1, <2>1 DEF Better
<1>2. ASSUME NEW x \in S, NEW y \in S, NEW z \in S, ~Better(x, y), ~Better(y, z) PROVE ~Better(x, z)
  <2>1. /\ Bits(x.prefix) \in Nat /\ Bits(y.prefix) \in Nat /\ Bits(z.prefix) \in Nat
        /\ x.rank \in Nat /\ y.rank \in Nat /\ z.rank \in Nat
    BY BitsNumber
  <2> QED
    BY <1>2, <2>1 DEF Better
<1> QED
  BY <1>1, <1>2 DEF StrictWeak

\* The entries of all slots, sorted.
LEMMA NodeFIBOK ==
    ASSUME NEW n \in Node, RIBOK(rib)
    PROVE  /\ FIBOK(NodeFIB(n))
           /\ \A e : e \in ToSet(NodeFIB(n)) <=> \E p \in Prefix : e \in ToSet(SlotEntries(n, p))
<1> DEFINE N == Cardinality(Prefix)
           names == SetToSeq(Prefix)
           slots == [i \in DOMAIN names |-> SlotEntries(n, names[i])]
           entries == FlattenSeq(slots)
           before == Precedence(entries, Better)
           sorted == StableSort(entries, before)
<1>1. NodeFIB(n) = sorted
  BY DEF NodeFIB
<1>2. N \in Nat /\ names \in [1..N -> Prefix] /\ \A p \in Prefix : \E i \in 1..N : names[i] = p
  <2>1. IsFiniteSet(Prefix)
    BY PrefixTreeAssumption
  <2>2. N \in Nat /\ ExistsBijection(1..N, Prefix)
    BY <2>1, FS_CardinalityType
  <2>3. PICK b : b \in Bijection(1..N, Prefix)
    BY <2>2 DEF ExistsBijection
  <2>4. b \in [1..N -> Prefix] /\ \A x, y \in 1..N : b[x] = b[y] => x = y
    BY <2>3 DEF Bijection, Injection, IsInjective
  <2>5. DOMAIN b = 1..N
    BY <2>4
  <2>6. IsInjective(b)
    BY <2>4, <2>5 DEF IsInjective
  <2> HIDE DEF N
  <2>7. \E f \in [1..N -> Prefix] : IsInjective(f)
    BY <2>4, <2>6
  <2>8. names = CHOOSE f \in [1..N -> Prefix] : IsInjective(f)
    BY DEF SetToSeq, N
  <2> HIDE DEF names
  <2>9. names \in [1..N -> Prefix] /\ IsInjective(names)
    BY <2>7, <2>8, Zenon
  <2>10. names \in Injection(1..N, Prefix)
    BY <2>9 DEF Injection
  <2>11. Cardinality(1..N) = N
    BY <2>2, FS_Interval
  <2>12. names \in Surjection(1..N, Prefix)
    <3>1. Cardinality(1..N) = Cardinality(Prefix)
      BY <2>11 DEF N
    <3> QED
      BY <2>1, <2>10, <3>1, FS_Injection
  <2>13. \A p \in Prefix : \E i \in 1..N : names[i] = p
    BY <2>12 DEF Surjection
  <2> QED
    BY <2>2, <2>9, <2>13
<1> HIDE DEF names, N
<1>3. slots = [i \in 1..N |-> slots[i]] /\ \A i \in 1..N : slots[i] = SlotEntries(n, names[i])
  BY <1>2
<1>4. ASSUME NEW i \in 1..N
      PROVE  IsSequence(slots[i]) /\ \A e \in ToSet(slots[i]) : e.rank \in Nat
  <2>1. names[i] \in Prefix
    BY <1>2
  <2> DEFINE p == names[i]
  <2>2. <<n, p>> \in Node \X Prefix
    BY <2>1
  <2> HIDE DEF p
  <2>3. IsSequence(rib[<<n, p>>])
    BY <2>2 DEF RIBOK
  <2>4. IsSequence(SlotEntries(n, p)) /\ \A e \in ToSet(SlotEntries(n, p)) : e.rank \in Nat
    BY <2>3, SlotEntriesOK
  <2>5. slots[i] = SlotEntries(n, p)
    BY <1>3 DEF p
  <2> HIDE DEF slots
  <2> QED
    BY <2>4, <2>5
<1> HIDE DEF slots
<1>5. IsSequence(entries) /\ \A x \in ToSet(entries) : \E i \in 1..N : x \in ToSet(slots[i])
  BY <1>2, <1>3, <1>4, FlattenSequences
<1>12. \A i \in 1..N : ToSet(slots[i]) \subseteq ToSet(entries)
  BY <1>2, <1>3, <1>4, FlattenKeeps
<1>13. ASSUME NEW e PROVE e \in ToSet(entries) <=> \E p \in Prefix : e \in ToSet(SlotEntries(n, p))
  <2> HIDE DEF entries
  <2>1. ASSUME e \in ToSet(entries) PROVE \E p \in Prefix : e \in ToSet(SlotEntries(n, p))
    <3>1. PICK i \in 1..N : e \in ToSet(slots[i])
      BY <1>5, <2>1
    <3>2. names[i] \in Prefix /\ slots[i] = SlotEntries(n, names[i])
      BY <1>2, <1>3
    <3> QED
      BY <3>1, <3>2
  <2>2. ASSUME NEW p \in Prefix, e \in ToSet(SlotEntries(n, p)) PROVE e \in ToSet(entries)
    <3>1. PICK i \in 1..N : names[i] = p
      BY <1>2
    <3>2. slots[i] = SlotEntries(n, p)
      BY <1>3, <3>1
    <3> QED
      BY <1>12, <2>2, <3>2
  <2> QED
    BY <2>1, <2>2
<1> HIDE DEF entries
<1>6. \A e \in ToSet(entries) : e.rank \in Nat
  BY <1>4, <1>5
<1>7. \A x, y \in ToSet(entries) : <<x, y>> \in before <=> Better(x, y)
  BY DEF Precedence
<1> HIDE DEF before
<1>8. StrictWeak(before, ToSet(entries))
  BY <1>6, <1>7, BetterOrders
<1>9. IsSequence(sorted) /\ ToSet(sorted) = ToSet(entries) /\ Ordered(sorted, before)
  BY <1>5, <1>8, StableSortOK
<1> HIDE DEF sorted
<1>10. \A i \in 1..Len(sorted) : sorted[i] \in ToSet(entries)
  BY <1>9, OwnElements
<1>11. ASSUME NEW i \in 1..Len(sorted), NEW j \in 1..Len(sorted), i < j
       PROVE  ~Better(sorted[j], sorted[i])
  BY <1>7, <1>9, <1>10, <1>11 DEF Ordered
<1>14. FIBOK(sorted)
  BY <1>6, <1>9, <1>11 DEF FIBOK
<1> QED
  BY <1>1, <1>9, <1>13, <1>14

---------------------------------------------------------------------------
(***************************************************************************)
(* Prefixes around an address.                                             *)
(***************************************************************************)

\* A prefix inside another one is longer.
LEMMA InsideIsLonger ==
    ASSUME NEW p, NEW q, <<p, q>> \in Within
    PROVE  Bits(p) > Bits(q)
<1> DEFINE Around(x) == {o \in Prefix : <<x, o>> \in Within}
<1>1. p \in Prefix /\ q \in Prefix
  BY WithinAssumption
<1>2. Around(q) \in SUBSET Around(p) /\ q \in Around(p) /\ q \notin Around(q)
  BY <1>1, PrefixTreeAssumption
<1>3. Around(p) \in SUBSET Prefix
  OBVIOUS
<1>4. Bits(p) = Cardinality(Around(p)) /\ Bits(q) = Cardinality(Around(q))
  BY DEF Bits
<1> DEFINE P == Around(p)
           Q == Around(q)
<1>5. Q \in SUBSET P /\ P # Q /\ P \in SUBSET Prefix /\ Bits(p) = Cardinality(P) /\ Bits(q) = Cardinality(Q)
  BY <1>2, <1>3, <1>4
<1> HIDE DEF P, Q
<1>6. IsFiniteSet(P)
  BY <1>5, PrefixTreeAssumption, FS_Subset
<1>7. Cardinality(Q) <= Cardinality(P) /\ Cardinality(P) # Cardinality(Q)
  BY <1>5, <1>6, FS_Subset
<1>8. Bits(p) \in Nat /\ Bits(q) \in Nat
  BY BitsNumber
<1> QED
  BY <1>5, <1>7, <1>8

\* Around an address there is one prefix of each length.
LEMMA OnePerLength ==
    ASSUME NEW a \in Addr, NEW p, NEW q, Covers(p, a), Covers(q, a), Bits(p) = Bits(q)
    PROVE  p = q
<1> SUFFICES ASSUME p # q PROVE FALSE
  OBVIOUS
<1>1. Bits(p) \in Nat /\ Bits(q) \in Nat
  BY BitsNumber
<1>2. (p = a \/ <<a, p>> \in Within) /\ (q = a \/ <<a, q>> \in Within)
  BY DEF Covers
<1>3. <<p, q>> \in Within \/ <<q, p>> \in Within
  <2>1. CASE p = a \/ q = a
    BY <1>2, <2>1
  <2>2. CASE <<a, p>> \in Within /\ <<a, q>> \in Within
    <3>1. a \in Prefix /\ p \in Prefix /\ q \in Prefix
      BY <2>2, WithinAssumption
    <3> QED
      BY <2>2, <3>1, PrefixTreeAssumption
  <2> QED
    BY <1>2, <2>1, <2>2
<1>4. Bits(p) > Bits(q) \/ Bits(q) > Bits(p)
  BY <1>3, InsideIsLonger
<1> QED
  BY <1>1, <1>4

---------------------------------------------------------------------------
(***************************************************************************)
(* Lookup.                                                                 *)
(***************************************************************************)

\* Keeping some of the entries keeps their order.
LEMMA KeepEntries ==
    ASSUME NEW f, FIBOK(f), NEW K, K \subseteq ToSet(f),
           NEW g, g = [i \in DOMAIN f |-> IF f[i] \in K THEN <<f[i]>> ELSE <<>>]
    PROVE  FIBOK(FlattenSeq(g)) /\ ToSet(FlattenSeq(g)) = K
<1> DEFINE before == {x \in ToSet(f) \X ToSet(f) : Better(x[1], x[2])}
           kept == FlattenSeq(g)
<1>1. IsSequence(f) /\ \A e \in ToSet(f) : e.rank \in Nat
  BY DEF FIBOK
<1>2. DOMAIN f = 1..Len(f) /\ ToSet(f) = {f[i] : i \in 1..Len(f)}
  BY <1>1, OwnElements
<1>3. g = [i \in DOMAIN f |-> g[i]] /\ \A i \in DOMAIN f : g[i] = <<>> \/ g[i] = <<f[i]>>
  OBVIOUS
<1>4. \A i \in DOMAIN f : (f[i] \in K => g[i] = <<f[i]>>) /\ (f[i] \notin K => g[i] = <<>>)
  OBVIOUS
<1>5. \A x, y \in ToSet(f) : <<x, y>> \in before <=> Better(x, y)
  OBVIOUS
<1> HIDE DEF before
<1>6. Ordered(f, before)
  BY <1>2, <1>5 DEF Ordered, FIBOK
<1>7. /\ IsSequence(kept) /\ ToSet(kept) \subseteq ToSet(f)
      /\ \A x \in ToSet(kept) : \E i \in DOMAIN f : x = f[i] /\ g[i] # <<>>
  BY <1>1, <1>3, FilterSequence
<1>8. Ordered(kept, before) /\ \A i \in DOMAIN f : g[i] = <<f[i]>> => f[i] \in ToSet(kept)
  BY <1>1, <1>3, <1>6, FilterOrdered
<1> HIDE DEF kept
<1>9. ToSet(kept) \subseteq K
  BY <1>4, <1>7
<1>10. K \subseteq ToSet(kept)
  <2> SUFFICES ASSUME NEW e \in K PROVE e \in ToSet(kept)
    OBVIOUS
  <2>1. PICK i \in DOMAIN f : e = f[i]
    BY <1>2
  <2> QED
    BY <1>4, <1>8, <2>1
<1>11. \A i \in 1..Len(kept) : kept[i] \in ToSet(f)
  BY <1>7, OwnElements
<1>12. ASSUME NEW i \in 1..Len(kept), NEW j \in 1..Len(kept), i < j PROVE ~Better(kept[j], kept[i])
  BY <1>5, <1>8, <1>11, <1>12 DEF Ordered
<1>13. FIBOK(kept)
  BY <1>1, <1>7, <1>12 DEF FIBOK
<1> QED
  BY <1>9, <1>10, <1>13 DEF kept

\* The worlds in which a candidate is active.
LEMMA CandidateActive ==
    ASSUME NEW f, IsSequence(f), NEW i \in 1..Len(f), NEW w \in Worlds
    PROVE  /\ SymbolicLookup(f)[i].entry = f[i]
           /\ w \in SymbolicLookup(f)[i].cond.holds <=>
                /\ w \in f[i].cond.holds
                /\ \A j \in 1..(i - 1) :
                      <<f[j].prefix, f[j].rank>> # <<f[i].prefix, f[i].rank>> => w \notin f[j].cond.holds
<1> DEFINE others == {j \in 1..(i - 1) : <<f[j].prefix, f[j].rank>> # <<f[i].prefix, f[i].rank>>}
           higher == {f[j].cond : j \in others}
           cond == IF higher = {} THEN f[i].cond ELSE And(f[i].cond, Not(OrAll(higher)))
<1>1. i \in DOMAIN f
  BY OwnElements
<1>2. SymbolicLookup(f)[i] = [entry |-> f[i], cond |-> cond]
  BY <1>1 DEF SymbolicLookup
<1>3. w \in cond.holds <=> w \in f[i].cond.holds /\ \A c \in higher : w \notin c.holds
  <2> DEFINE own == f[i].cond
  <2> HIDE DEF own, higher
  <2>1. CASE higher = {}
    BY <2>1 DEF own
  <2>2. CASE higher # {}
    <3>1. w \in OrAll(higher).holds <=> \E c \in higher : w \in c.holds
      BY DEF OrAll
    <3> DEFINE all == OrAll(higher)
               none == Not(all)
    <3>2. w \in none.holds <=> w \notin all.holds
      <4> HIDE DEF all
      <4> QED
        BY DEF Not
    <3> HIDE DEF none
    <3>3. w \in And(own, none).holds <=> w \in own.holds /\ w \in none.holds
      BY DEF And, AndAll
    <3>4. cond = And(own, none)
      BY <2>2 DEF own, none
    <3> QED
      BY <3>1, <3>2, <3>3, <3>4 DEF own
  <2> QED
    BY <2>1, <2>2
<1> HIDE DEF cond
<1>4. (\A c \in higher : w \notin c.holds) <=> \A j \in others : w \notin f[j].cond.holds
  OBVIOUS
<1> QED
  BY <1>2, <1>3, <1>4

\* The entries of f whose candidates are active in w, and the best of those
\* selected in it.
Used(f, w) == {c.entry : c \in {c \in ToSet(SymbolicLookup(f)) : w \in c.cond.holds}}
BestOf(f, w) == LET matching == {e \in ToSet(f) : w \in e.cond.holds}
                IN  {x \in matching : \A e \in matching : ~Better(e, x)}

\* Of sorted entries, those of the best group are active.
LEMMA BestActive ==
    ASSUME NEW f, FIBOK(f), NEW a \in Addr, NEW w \in Worlds,
           \A e \in ToSet(f) : Covers(e.prefix, a)
    PROVE  Used(f, w) = BestOf(f, w)
<1> DEFINE cs == SymbolicLookup(f)
           active == {c \in ToSet(cs) : w \in c.cond.holds}
           matching == {e \in ToSet(f) : w \in e.cond.holds}
           best == {x \in matching : \A e \in matching : ~Better(e, x)}
<1>1. IsSequence(f) /\ Len(f) \in Nat /\ DOMAIN f = 1..Len(f) /\ ToSet(f) = {f[i] : i \in 1..Len(f)}
  BY OwnElements DEF FIBOK
<1>2. DOMAIN cs = 1..Len(f) /\ ToSet(cs) = {cs[i] : i \in 1..Len(f)}
  BY <1>1 DEF SymbolicLookup, ToSet
<1>3. \A i \in 1..Len(f) :
         /\ cs[i].entry = f[i]
         /\ w \in cs[i].cond.holds <=>
              /\ w \in f[i].cond.holds
              /\ \A j \in 1..(i - 1) :
                    <<f[j].prefix, f[j].rank>> # <<f[i].prefix, f[i].rank>> => w \notin f[j].cond.holds
  BY <1>1, CandidateActive
<1>4. \A i \in 1..Len(f) : f[i].rank \in Nat /\ Bits(f[i].prefix) \in Nat /\ Covers(f[i].prefix, a)
  BY <1>1, BitsNumber DEF FIBOK
<1> HIDE DEF cs
<1>5. ASSUME NEW i \in 1..Len(f), w \in cs[i].cond.holds PROVE f[i] \in best
  <2>1. f[i] \in matching
    BY <1>1, <1>3, <1>5
  <2>2. ASSUME NEW j \in 1..Len(f), w \in f[j].cond.holds, Better(f[j], f[i]) PROVE FALSE
    <3>1. ~(i < j)
      BY <2>2 DEF FIBOK
    <3>2. <<f[j].prefix, f[j].rank>> # <<f[i].prefix, f[i].rank>>
      <4>1. f[i].rank \in Nat /\ Bits(f[i].prefix) \in Nat
        BY <1>4
      <4>2. ASSUME f[j].prefix = f[i].prefix, f[j].rank = f[i].rank PROVE FALSE
        BY <2>2, <4>1, <4>2 DEF Better
      <4> QED
        BY <4>2
    <3>3. j # i
      BY <3>2
    <3>4. j \in 1..(i - 1)
      BY <1>1, <3>1, <3>3
    <3> QED
      BY <1>3, <1>5, <2>2, <3>2, <3>4
  <2>3. \A e \in matching : ~Better(e, f[i])
    BY <1>1, <2>2
  <2> QED
    BY <2>1, <2>3
<1>6. ASSUME NEW i \in 1..Len(f), f[i] \in best PROVE w \in cs[i].cond.holds
  <2>1. w \in f[i].cond.holds /\ \A e \in matching : ~Better(e, f[i])
    BY <1>6
  <2>2. ASSUME NEW j \in 1..(i - 1), <<f[j].prefix, f[j].rank>> # <<f[i].prefix, f[i].rank>>,
               w \in f[j].cond.holds
        PROVE  FALSE
    <3>1. j \in 1..Len(f) /\ j < i
      BY <1>1
    <3>2. f[j] \in matching
      BY <1>1, <2>2, <3>1
    <3>3. ~Better(f[j], f[i]) /\ ~Better(f[i], f[j])
      BY <2>1, <3>1, <3>2 DEF FIBOK
    <3>4. /\ f[i].rank \in Nat /\ f[j].rank \in Nat
          /\ Bits(f[i].prefix) \in Nat /\ Bits(f[j].prefix) \in Nat
      BY <1>4, <3>1
    <3>5. Bits(f[j].prefix) = Bits(f[i].prefix) /\ f[j].rank = f[i].rank
      BY <3>3, <3>4 DEF Better
    <3>6. Covers(f[i].prefix, a) /\ Covers(f[j].prefix, a)
      BY <1>4, <3>1
    <3>7. f[j].prefix = f[i].prefix
      BY <3>5, <3>6, OnePerLength
    <3> QED
      BY <2>2, <3>5, <3>7
  <2> QED
    BY <1>3, <2>1, <2>2
<1>7. best \subseteq {f[i] : i \in 1..Len(f)}
  BY <1>1
<1>8. {c.entry : c \in active} \subseteq best
  <2> SUFFICES ASSUME NEW c \in active PROVE c.entry \in best
    OBVIOUS
  <2>1. PICK i \in 1..Len(f) : c = cs[i]
    BY <1>2
  <2> QED
    BY <1>3, <1>5, <2>1
<1>9. best \subseteq {c.entry : c \in active}
  <2> SUFFICES ASSUME NEW x \in best PROVE x \in {c.entry : c \in active}
    OBVIOUS
  <2>1. PICK i \in 1..Len(f) : x = f[i]
    BY <1>7
  <2>2. cs[i] \in active
    BY <1>2, <1>6, <2>1
  <2>3. x = cs[i].entry
    BY <1>3, <2>1
  <2> HIDE DEF active
  <2> QED
    BY <2>2, <2>3
<1> QED
  BY <1>8, <1>9 DEF cs, Used, BestOf

\* The first of sorted entries is one of the best.
LEMMA FirstIsBest ==
    ASSUME NEW f, FIBOK(f), NEW first, first = {f[i] : i \in {i \in DOMAIN f : i = 1}}
    PROVE  /\ first \subseteq {x \in ToSet(f) : \A e \in ToSet(f) : ~Better(e, x)}
           /\ ToSet(f) # {} => first # {}
<1>1. IsSequence(f) /\ Len(f) \in Nat /\ DOMAIN f = 1..Len(f) /\ ToSet(f) = {f[i] : i \in 1..Len(f)}
  BY OwnElements DEF FIBOK
<1>2. ASSUME NEW x \in first, NEW e \in ToSet(f) PROVE x \in ToSet(f) /\ ~Better(e, x)
  <2>1. 1 \in 1..Len(f) /\ x = f[1]
    BY <1>1
  <2>2. PICK j \in 1..Len(f) : e = f[j]
    BY <1>1
  <2>3. CASE j = 1
    <3>1. Bits(f[1].prefix) \in Nat /\ f[1].rank \in Nat
      BY <1>1, <2>1, BitsNumber DEF FIBOK
    <3> QED
      BY <1>1, <2>1, <2>2, <2>3, <3>1 DEF Better
  <2>4. CASE j # 1
    <3>1. 1 < j
      BY <1>1, <2>4
    <3> QED
      BY <1>1, <2>1, <2>2, <3>1 DEF FIBOK
  <2> QED
    BY <2>3, <2>4
<1>3. ASSUME ToSet(f) # {} PROVE first # {}
  <2>1. 1 \in 1..Len(f)
    BY <1>1, <1>3
  <2> QED
    BY <1>1, <2>1
<1>4. first \subseteq ToSet(f)
  BY <1>1
<1> QED
  BY <1>2, <1>3, <1>4

\* Some candidate is active wherever some entry is selected: the first one.
LEMMA SomeActive ==
    ASSUME NEW f, IsSequence(f), NEW w \in Worlds
    PROVE  (\E i \in DOMAIN SymbolicLookup(f) : w \in SymbolicLookup(f)[i].cond.holds)
              <=> \E e \in ToSet(f) : w \in e.cond.holds
<1> DEFINE cs == SymbolicLookup(f)
           selected == {i \in 1..Len(f) : w \in f[i].cond.holds}
<1>1. Len(f) \in Nat /\ DOMAIN f = 1..Len(f) /\ ToSet(f) = {f[i] : i \in 1..Len(f)}
  BY OwnElements
<1>2. DOMAIN cs = 1..Len(f)
  BY <1>1 DEF SymbolicLookup
<1>3. \A i \in 1..Len(f) :
         w \in cs[i].cond.holds <=>
            /\ w \in f[i].cond.holds
            /\ \A j \in 1..(i - 1) :
                  <<f[j].prefix, f[j].rank>> # <<f[i].prefix, f[i].rank>> => w \notin f[j].cond.holds
  BY CandidateActive
<1> HIDE DEF cs
<1>4. ASSUME NEW e \in ToSet(f), w \in e.cond.holds PROVE \E i \in DOMAIN cs : w \in cs[i].cond.holds
  <2>1. selected # {} /\ selected \subseteq Nat
    BY <1>1, <1>4
  <2>2. PICK i \in selected : \A j \in selected : i <= j
    BY <2>1, LeastElement
  <2>3. \A j \in 1..(i - 1) : j \in 1..Len(f) /\ ~(i <= j)
    BY <1>1, <2>2
  <2>4. \A j \in 1..(i - 1) : w \notin f[j].cond.holds
    BY <2>2, <2>3
  <2> QED
    BY <1>2, <1>3, <2>2, <2>4
<1> QED
  BY <1>1, <1>2, <1>3, <1>4 DEF cs

---------------------------------------------------------------------------
(***************************************************************************)
(* The FIB and the RIB it is derived from.                                 *)
(***************************************************************************)

\* Every entry of n's FIB f is that of a route in n's RIB, and every valid
\* route of the RIB is taken care of by one of its slot.
FollowsRIB(g, table, n, f) ==
    /\ \A e \in ToSet(f) : \E p \in Prefix : \E q \in ToSet(table[<<n, p>>]) : EntryOf(e, q)
    /\ \A p \in Prefix : \A r \in ToSet(table[<<n, p>>]) :
          r.attrs.invalid \/ \E q \in ToSet(table[<<n, p>>]), e \in ToSet(f) :
                                EntryOf(e, q) /\ StandsFor(g, n, q, r)

\* The FIB of a node follows its RIB.
LEMMA NodeFIBFollows ==
    ASSUME NEW n \in Node, RIBOK(rib)
    PROVE  FollowsRIB(net, rib, n, NodeFIB(n))
<1>1. \A e : e \in ToSet(NodeFIB(n)) <=> \E p \in Prefix : e \in ToSet(SlotEntries(n, p))
  BY NodeFIBOK
<1>2. ASSUME NEW p \in Prefix PROVE IsSequence(rib[<<n, p>>])
  <2>1. <<n, p>> \in Node \X Prefix
    OBVIOUS
  <2> QED
    BY <2>1 DEF RIBOK
<1>3. ASSUME NEW p \in Prefix, NEW e \in ToSet(SlotEntries(n, p))
      PROVE  \E q \in ToSet(rib[<<n, p>>]) : EntryOf(e, q)
  BY <1>2, SlotEntriesOK
<1>4. ASSUME NEW p \in Prefix, NEW r \in ToSet(rib[<<n, p>>]), ~r.attrs.invalid
      PROVE  \E q \in ToSet(rib[<<n, p>>]), e \in ToSet(NodeFIB(n)) : EntryOf(e, q) /\ StandsFor(net, n, q, r)
  <2>1. PICK q \in ToSet(rib[<<n, p>>]), e \in ToSet(SlotEntries(n, p)) : EntryOf(e, q) /\ StandsFor(net, n, q, r)
    BY <1>2, <1>4, SlotEntriesOK
  <2> QED
    BY <1>1, <2>1
<1> QED
  BY <1>1, <1>3, <1>4 DEF FollowsRIB

\* What holds of a simulation holds of the data plane; a FIB that has been
\* derived is sorted and follows the RIB, which no longer changes.
DPInv ==
    /\ IInv /\ AInv /\ KInv /\ FInv
    /\ fib # <<>> =>
          phase = "done" /\ \A n \in Node : FIBOK(fib[n]) /\ FollowsRIB(net, rib, n, fib[n])

\* A lookup in sorted FIBs is a longest-prefix match.
LEMMA SortedMatches == DPInv => LongestPrefixMatch
<1> SUFFICES ASSUME DPInv, FIBDerived, NEW n \in Node, NEW a \in Addr, NEW w \in Worlds
             PROVE  LET matching == {e \in ToSet(fib[n]) : Covers(e.prefix, a) /\ w \in e.cond.holds}
                        best == {f \in matching : \A e \in matching : ~Better(e, f)}
                    IN  /\ {c.entry : c \in {c \in ToSet(SymbolicLookupFIB(n, a)) : w \in c.cond.holds}} = best
                        /\ LookupFIB(n, a, w) \subseteq best
                        /\ best # {} => LookupFIB(n, a, w) # {}
  BY DEF LongestPrefixMatch
<1> DEFINE f == fib[n]
           matching == {e \in ToSet(f) : Covers(e.prefix, a) /\ w \in e.cond.holds}
           best == {x \in matching : \A e \in matching : ~Better(e, x)}
           covering == {e \in ToSet(f) : Covers(e.prefix, a)}
           around == Only(f, LAMBDA e : Covers(e.prefix, a))
           selected == Only(f, LAMBDA e : Covers(e.prefix, a) /\ w \in e.cond.holds)
           first == {selected[i] : i \in {i \in DOMAIN selected : i = 1}}
<1>1. FIBOK(f)
  BY DEF DPInv, FIBDerived
<1>2. \A i \in DOMAIN f : f[i] \in ToSet(f)
  BY DEF ToSet
<1>3. SymbolicLookupFIB(n, a) = SymbolicLookup(around) /\ LookupFIB(n, a, w) = first
  BY DEF SymbolicLookupFIB, LookupFIB
<1> HIDE DEF f
<1>4. FIBOK(around) /\ ToSet(around) = covering
  <2> DEFINE g == [i \in DOMAIN f |-> IF f[i] \in covering THEN <<f[i]>> ELSE <<>>]
  <2>1. around = FlattenSeq([i \in DOMAIN f |-> IF Covers(f[i].prefix, a) THEN <<f[i]>> ELSE <<>>])
    BY DEF Only
  <2>2. g = [i \in DOMAIN f |-> IF Covers(f[i].prefix, a) THEN <<f[i]>> ELSE <<>>]
    BY <1>2
  <2>3. around = FlattenSeq(g)
    BY <2>1, <2>2
  <2>4. covering \subseteq ToSet(f)
    OBVIOUS
  <2> HIDE DEF around, covering
  <2>5. g = [i \in DOMAIN f |-> IF f[i] \in covering THEN <<f[i]>> ELSE <<>>]
    OBVIOUS
  <2> HIDE DEF g
  <2> QED
    BY <1>1, <2>3, <2>4, <2>5, KeepEntries
<1>5. FIBOK(selected) /\ ToSet(selected) = matching
  <2> DEFINE g == [i \in DOMAIN f |-> IF f[i] \in matching THEN <<f[i]>> ELSE <<>>]
  <2>1. selected = FlattenSeq([i \in DOMAIN f |->
                       IF Covers(f[i].prefix, a) /\ w \in f[i].cond.holds THEN <<f[i]>> ELSE <<>>])
    BY DEF Only
  <2>2. g = [i \in DOMAIN f |->
               IF Covers(f[i].prefix, a) /\ w \in f[i].cond.holds THEN <<f[i]>> ELSE <<>>]
    BY <1>2
  <2>3. selected = FlattenSeq(g)
    BY <2>1, <2>2
  <2>4. matching \subseteq ToSet(f)
    OBVIOUS
  <2> HIDE DEF selected, matching
  <2>5. g = [i \in DOMAIN f |-> IF f[i] \in matching THEN <<f[i]>> ELSE <<>>]
    OBVIOUS
  <2> HIDE DEF g
  <2> QED
    BY <1>1, <2>3, <2>4, <2>5, KeepEntries
<1> HIDE DEF around, selected
<1>6. matching = {e \in ToSet(around) : w \in e.cond.holds} /\ \A e \in ToSet(around) : Covers(e.prefix, a)
  BY <1>4
<1> HIDE DEF matching
<1> DEFINE used == {c.entry : c \in {c \in ToSet(SymbolicLookup(around)) : w \in c.cond.holds}}
<1>7. used = best
  <2>1. Used(around, w) = BestOf(around, w)
    BY <1>4, <1>6, BestActive
  <2>2. used = Used(around, w)
    BY DEF Used
  <2>3. best = BestOf(around, w)
    BY <1>6 DEF BestOf
  <2> QED
    BY <2>1, <2>2, <2>3
<1>8. first \subseteq best /\ (best # {} => first # {})
  <2>1. /\ first \subseteq {x \in ToSet(selected) : \A e \in ToSet(selected) : ~Better(e, x)}
        /\ ToSet(selected) # {} => first # {}
    BY <1>5, FirstIsBest
  <2>2. best \subseteq matching
    OBVIOUS
  <2> HIDE DEF first
  <2> QED
    BY <1>5, <2>1, <2>2
<1> HIDE DEF first
<1> QED
  BY <1>3, <1>7, <1>8 DEF matching, f

\* An entry has the same worlds in the FIB as in the RIB.
LEMMA FollowsSlot ==
    ASSUME DPInv, FIBDerived, NEW n \in Node, NEW p \in Prefix, Disjoint(p), ~HasEquivalents(n, p), NEW w
    PROVE  (\E e \in ToSet(fib[n]) : Overlaps(e.prefix, p) /\ w \in e.cond.holds)
              <=> \E r \in ToSet(rib[<<n, p>>]) : w \in r.sel.holds
<1> DEFINE f == fib[n]
           slot == rib[<<n, p>>]
<1>1. FollowsRIB(net, rib, n, f) /\ RIBOK(rib) /\ phase = "done" /\ KInv /\ InvalidUnselected(Held(rib))
  BY DEF DPInv, FIBDerived, IInv, FInv
<1>2. \A o \in Prefix : \A q \in ToSet(rib[<<n, o>>]) : q \in Held(rib) /\ q.prefix = o
  BY <1>1, HeldEntries
<1>3. ASSUME NEW e \in ToSet(f), Overlaps(e.prefix, p), w \in e.cond.holds
      PROVE  \E r \in ToSet(slot) : w \in r.sel.holds
  <2>1. PICK o \in Prefix : \E q \in ToSet(rib[<<n, o>>]) : EntryOf(e, q)
    BY <1>1 DEF FollowsRIB
  <2>2. PICK q \in ToSet(rib[<<n, o>>]) : EntryOf(e, q)
    BY <2>1
  <2>3. e.prefix = o /\ e.cond = q.sel
    BY <1>2, <2>2 DEF EntryOf
  <2>4. o = p
    BY <1>3, <2>3 DEF Overlaps, Covers, Disjoint
  <2> QED
    BY <1>3, <2>3, <2>4
<1>4. ASSUME NEW r \in ToSet(slot), w \in r.sel.holds
      PROVE  \E e \in ToSet(f) : Overlaps(e.prefix, p) /\ w \in e.cond.holds
  <2>1. ~r.attrs.invalid
    BY <1>1, <1>2, <1>4 DEF InvalidUnselected
  <2>2. PICK q \in ToSet(slot), e \in ToSet(f) : EntryOf(e, q) /\ StandsFor(net, n, q, r)
    BY <1>1, <2>1 DEF FollowsRIB
  <2>3. e.prefix = p /\ e.cond = q.sel /\ q \in Held(rib) /\ r \in Held(rib)
    BY <1>2, <2>2 DEF EntryOf
  <2>4. CASE Key(q.sel) = Key(r.sel)
    <3> DEFINE rs == RoutesOf(rib, stack, todo)
    <3>1. q \in rs /\ r \in rs /\ Told(rs) /\ q.sel \in CondsOf(q) /\ r.sel \in CondsOf(r)
      BY <1>1, <2>3 DEF KInv, RoutesOf, CondsOf
    <3> HIDE DEF rs
    <3>2. q.sel.holds = r.sel.holds
      BY <2>4, <3>1, SameKey
    <3> QED
      BY <1>4, <2>3, <3>2 DEF Overlaps, Covers
  <2>5. CASE net.kind[n] = "frr" /\ Equivalent(net.kind[n], n, q, r)
    <3>1. PICK i \in DOMAIN slot, j \in DOMAIN slot : q = slot[i] /\ r = slot[j]
      BY DEF ToSet
    <3>2. i = j
      BY <2>5, <3>1 DEF HasEquivalents
    <3>3. w \in e.cond.holds
      BY <1>4, <2>3, <3>1, <3>2
    <3> QED
      BY <2>3, <3>3 DEF Overlaps, Covers
  <2> QED
    BY <2>2, <2>4, <2>5 DEF StandsFor
<1> QED
  BY <1>3, <1>4

\* A query answered from the FIB is answered like one from the RIB.
LEMMA AnswersFollow == DPInv => FIBFollowsRIB
<1> SUFFICES ASSUME DPInv, FIBDerived, NEW n \in Node, NEW p \in Prefix, Disjoint(p), ~HasEquivalents(n, p)
             PROVE  SymbolicRouteReachabilityForPrefixSet(n, p).holds = SymbolicRouteReachability(n, p).holds
  BY DEF FIBFollowsRIB
<1> DEFINE f == fib[n]
           over == Only(f, LAMBDA e : Overlaps(e.prefix, p))
           overlapping == {e \in ToSet(f) : Overlaps(e.prefix, p)}
           cs == SymbolicLookup(over)
           slot == rib[<<n, p>>]
           near == {And(NodeVar(n), cs[i].cond) : i \in DOMAIN cs}
           far == {And(NodeVar(n), r.sel) : r \in {r \in ToSet(slot) : r.sel # NoCond}}
<1>1. FIBOK(f)
  BY DEF DPInv, FIBDerived
<1>2. /\ SymbolicRouteReachabilityForPrefixSet(n, p) = OrAll(near)
      /\ SymbolicRouteReachability(n, p) = OrAll(far)
  BY DEF SymbolicRouteReachabilityForPrefixSet, SymbolicLookupFIBForPrefixSet, SymbolicRouteReachability
<1>3. ASSUME NEW w
      PROVE  (\E e \in overlapping : w \in e.cond.holds) <=> \E r \in ToSet(slot) : w \in r.sel.holds
  BY FollowsSlot
<1>4. \A i \in DOMAIN f : f[i] \in ToSet(f)
  BY DEF ToSet
<1> HIDE DEF f
<1>5. FIBOK(over) /\ ToSet(over) = overlapping
  <2> DEFINE g == [i \in DOMAIN f |-> IF f[i] \in overlapping THEN <<f[i]>> ELSE <<>>]
  <2>1. over = FlattenSeq([i \in DOMAIN f |-> IF Overlaps(f[i].prefix, p) THEN <<f[i]>> ELSE <<>>])
    BY DEF Only
  <2>2. g = [i \in DOMAIN f |-> IF Overlaps(f[i].prefix, p) THEN <<f[i]>> ELSE <<>>]
    BY <1>4
  <2>3. over = FlattenSeq(g)
    BY <2>1, <2>2
  <2>4. overlapping \subseteq ToSet(f)
    OBVIOUS
  <2> HIDE DEF over, overlapping
  <2>5. g = [i \in DOMAIN f |-> IF f[i] \in overlapping THEN <<f[i]>> ELSE <<>>]
    OBVIOUS
  <2> HIDE DEF g
  <2> QED
    BY <1>1, <2>3, <2>4, <2>5, KeepEntries
<1> HIDE DEF over, overlapping
<1>6. ASSUME NEW w \in Worlds
      PROVE  (\E i \in DOMAIN cs : w \in cs[i].cond.holds) <=> \E e \in overlapping : w \in e.cond.holds
  BY <1>5, SomeActive DEF FIBOK
<1> HIDE DEF cs, slot
<1>7. ASSUME NEW w \in Worlds, NEW c PROVE w \in And(NodeVar(n), c).holds <=> w \in Up(n) /\ w \in c.holds
  BY DEF And, AndAll, NodeVar, Up
<1>8. \A r : r.sel = NoCond => r.sel.holds = {}
  BY DEF NoCond
<1>9. ASSUME NEW w \in Worlds
      PROVE  (\E c \in near : w \in c.holds) <=> w \in Up(n) /\ \E i \in DOMAIN cs : w \in cs[i].cond.holds
  BY <1>7
<1>10. ASSUME NEW w \in Worlds
       PROVE  (\E c \in far : w \in c.holds) <=> w \in Up(n) /\ \E r \in ToSet(slot) : w \in r.sel.holds
  BY <1>7, <1>8
<1> HIDE DEF near, far
<1>11. \A w \in Worlds : (\E c \in near : w \in c.holds) <=> \E c \in far : w \in c.holds
  BY <1>3, <1>6, <1>9, <1>10
<1>12. OrAll(near).holds = OrAll(far).holds
  BY <1>11 DEF OrAll
<1> QED
  BY <1>2, <1>12

\* Only DeriveFIB changes the FIBs, once the simulation has ended.
LEMMA DPStep == DPInv /\ [DPNext]_allVars => DPInv'
<1> SUFFICES ASSUME DPInv, [DPNext]_allVars PROVE DPInv'
  OBVIOUS
<1>1. CASE Simulate
  <2>1. IInv' /\ AInv' /\ KInv' /\ FInv'
    BY <1>1, NextOK, ANext, KNext, FNext DEF DPInv, Simulate
  <2>2. fib' = <<>>
    BY <1>1 DEF Simulate, dpVars
  <2> QED
    BY <2>1, <2>2 DEF DPInv
<1>8. UNCHANGED vars => IInv' /\ AInv' /\ KInv' /\ FInv'
  BY NextOK, ANext, KNext, FNext DEF DPInv
<1>2. CASE DeriveFIB
  <2>1. UNCHANGED vars /\ net' = net /\ rib' = rib /\ phase' = "done"
    BY <1>2 DEF DeriveFIB, vars
  <2>2. ASSUME NEW n \in Node PROVE FIBOK(fib'[n]) /\ FollowsRIB(net, rib, n, fib'[n])
    <3>1. FIBOK(NodeFIB(n)) /\ FollowsRIB(net, rib, n, NodeFIB(n))
      BY NodeFIBOK, NodeFIBFollows DEF DPInv, IInv
    <3>2. fib'[n] = NodeFIB(n)
      BY <1>2 DEF DeriveFIB
    <3> QED
      BY <3>1, <3>2
  <2> QED
    BY <1>8, <2>1, <2>2 DEF DPInv
<1>3. CASE UNCHANGED <<vars, fib>>
  <2>1. UNCHANGED vars /\ net' = net /\ rib' = rib /\ phase' = phase /\ fib' = fib
    BY <1>3 DEF vars
  <2> QED
    BY <1>8, <2>1 DEF DPInv
<1>4. CASE SymbolicPacketReachability
  BY <1>3, <1>4 DEF SymbolicPacketReachability
<1>5. CASE DestinationNotAdvertised
  BY <1>3, <1>5 DEF DestinationNotAdvertised
<1>6. CASE SymbolicForward
  BY <1>3, <1>6 DEF SymbolicForward, ForwardToCandidates, Visit
<1>7. CASE UNCHANGED allVars
  BY <1>3, <1>7 DEF allVars, dpVars
<1> QED
  BY <1>1, <1>2, <1>4, <1>5, <1>6, <1>7 DEF DPNext, AnswerReturned

\* No FIB has been derived at the start.
LEMMA DPStart == DPInit => DPInv
BY InitOK, AInit, KInit, FInit DEF DPInit, DPInv

\* For every network, in every failure
\* world, the active candidates of symbolicLookupFIBEntries are exactly the
\* selected entries of the best group around the address, and LookupFIB
\* answers with one of them.
THEOREM MatchesLongestPrefix == DPSpec => []LongestPrefixMatch
BY DPStart, DPStep, SortedMatches, PTL DEF DPSpec

\* For every network, a query for a disjoint prefix that
\* SymbolicRouteReachabilityForPrefixSet answers from the FIB holds in the
\* same failure worlds as the one SymbolicRouteReachability answers from the
\* RIB: what DeriveFIB leaves out holds nowhere, or has the key of an
\* installed condition, and keys tell worlds.
THEOREM FIBKeepsRoutes == DPSpec => []FIBFollowsRIB
BY DPStart, DPStep, AnswersFollow, PTL DEF DPSpec

---------------------------------------------------------------------------
(***************************************************************************)
(* The walk of one packet.                                                 *)
(***************************************************************************)
\* Where PacketReachable can be: at a node, come from a peer, after the nodes
\* visited before.
States == Node \X (Node \cup {0}) \X SUBSET Node

\* What it can answer from there, and "forward" for an attempt that goes on.
Outcome == {"reached", "loop", "no_route", "node_failed", "link_failed", "next_hop_not_adjacent",
            "ingress_policy", "egress_policy", "discard", "recursive_next_hop_unresolved",
            "no_next_hop", "forward"}

\* The parts of PacketReachableFrom's recursive function, with the function
\* as a parameter: the active candidates at a node,
Active(q, w, n) == Only(SymbolicLookupFIB(n, q.to), LAMBDA c : w \in c.cond.holds)

\* what trying an entry leads to,
Onward(q, w, walk, at, e) ==
    IF Attempt(q, w, at[1], e) = "forward"
    THEN walk[<<e.nextHop, at[1], at[3] \cup {at[1]}>>] ELSE Attempt(q, w, at[1], e)

\* what trying all of them leads to,
Results(q, w, walk, at) ==
    [i \in DOMAIN Active(q, w, at[1]) |-> Onward(q, w, walk, at, Active(q, w, at[1])[i].entry)]

\* and the body.
WalkFrom(q, w, walk, at) ==
    IF ~NodeUp(w, at[1]) THEN "node_failed"
    ELSE IF at[1] \in at[3] THEN "loop"
    ELSE IF Originates(at[1], q.dst) THEN "reached"
    ELSE IF Denied(at[1], "ingress", at[2], q) THEN "ingress_policy"
    ELSE IF Active(q, w, at[1]) = <<>> THEN "no_route"
    ELSE IF "reached" \in ToSet(Results(q, w, walk, at)) THEN "reached"
    ELSE Results(q, w, walk, at)[1]

\* The function itself.
Walk(q, w) == CHOOSE walk : walk = [at \in States |-> WalkFrom(q, w, walk, at)]

\* PacketReachable asks it at the source.
LEMMA WalkDef ==
    ASSUME NEW q, NEW w
    PROVE  PacketReachableFrom(q, w) = Walk(q, w)[<<q.from, 0, {}>>]
BY DEF PacketReachableFrom, Walk, WalkFrom, Results, Onward, Active, States

\* It depends on the network and the FIBs only.
LEMMA WalkStable ==
    ASSUME UNCHANGED <<net, fib>>, NEW CONSTANT q, NEW CONSTANT w
    PROVE  Walk(q, w)' = Walk(q, w)
<1>1. net' = net /\ fib' = fib
  OBVIOUS
<1> QED
  BY <1>1 DEF Walk, WalkFrom, Results, Onward, Active, States, SymbolicLookupFIB, Attempt, Links, Denied, Originates, NodePrefixes, Only

\* So do the origins of an address.
LEMMA OriginStable ==
    ASSUME UNCHANGED <<net, fib>>, NEW CONSTANT a
    PROVE  OriginForIP(a)' = OriginForIP(a)
<1>1. net' = net /\ fib' = fib
  OBVIOUS
<1> QED
  BY <1>1 DEF OriginForIP, NodePrefixes, Only

\* Keeping some elements of a sequence keeps exactly those.
LEMMA OnlyElements ==
    ASSUME NEW s, IsSequence(s), NEW K,
           NEW g, g = [i \in DOMAIN s |-> IF s[i] \in K THEN <<s[i]>> ELSE <<>>]
    PROVE  IsSequence(FlattenSeq(g)) /\ ToSet(FlattenSeq(g)) = ToSet(s) \cap K
<1> DEFINE kept == FlattenSeq(g)
<1>1. DOMAIN s = 1..Len(s) /\ ToSet(s) = {s[i] : i \in 1..Len(s)}
  BY OwnElements
<1>2. g = [i \in DOMAIN s |-> g[i]] /\ \A i \in DOMAIN s : g[i] = <<>> \/ g[i] = <<s[i]>>
  OBVIOUS
<1>3. \A i \in DOMAIN s : (s[i] \in K => g[i] = <<s[i]>>) /\ (s[i] \notin K => g[i] = <<>>)
  OBVIOUS
<1>4. Ordered(s, {})
  BY DEF Ordered
<1>5. /\ IsSequence(kept) /\ ToSet(kept) \subseteq ToSet(s)
      /\ \A x \in ToSet(kept) : \E i \in DOMAIN s : x = s[i] /\ g[i] # <<>>
  BY <1>2, FilterSequence
<1>6. \A i \in DOMAIN s : g[i] = <<s[i]>> => s[i] \in ToSet(kept)
  BY <1>2, <1>4, FilterOrdered
<1> HIDE DEF kept
<1>7. ToSet(kept) \subseteq K
  BY <1>3, <1>5
<1>8. ASSUME NEW x \in ToSet(s), x \in K PROVE x \in ToSet(kept)
  <2>1. PICK i \in DOMAIN s : x = s[i]
    BY <1>1
  <2> QED
    BY <1>3, <1>6, <1>8, <2>1
<1> QED
  BY <1>5, <1>7, <1>8 DEF kept

\* A lookup gives a sequence of candidates.
LEMMA LookupSequence ==
    ASSUME NEW f, IsSequence(f)
    PROVE  IsSequence(SymbolicLookup(f)) /\ Len(SymbolicLookup(f)) = Len(f)
<1> DEFINE cs == SymbolicLookup(f)
<1>1. Len(f) \in Nat /\ DOMAIN f = 1..Len(f)
  BY OwnElements
<1>2. cs = [i \in 1..Len(f) |-> cs[i]]
  BY <1>1 DEF SymbolicLookup
<1> HIDE DEF cs
<1>3. IsSequence(cs) /\ Len(cs) = Len(f)
  BY <1>1, <1>2, FunctionSequence
<1> QED
  BY <1>3 DEF cs

\* The candidates for an address, and those active in a world.
LEMMA ActiveOK ==
    ASSUME NEW n, FIBOK(fib[n]), NEW q, NEW w
    PROVE  /\ IsSequence(SymbolicLookupFIB(n, q.to)) /\ IsSequence(Active(q, w, n))
           /\ \A c : c \in ToSet(Active(q, w, n)) <=> c \in ToSet(SymbolicLookupFIB(n, q.to)) /\ w \in c.cond.holds
<1> DEFINE f == fib[n]
           a == q.to
           around == Only(f, LAMBDA e : Covers(e.prefix, a))
           cs == SymbolicLookup(around)
<1>1. SymbolicLookupFIB(n, q.to) = cs
  BY DEF SymbolicLookupFIB
<1>2. IsSequence(f)
  BY DEF FIBOK
<1> HIDE DEF f, a
<1>3. IsSequence(around)
  <2> DEFINE K == {e \in ToSet(f) : Covers(e.prefix, a)}
             g == [i \in DOMAIN f |-> IF f[i] \in K THEN <<f[i]>> ELSE <<>>]
  <2>1. \A i \in DOMAIN f : f[i] \in ToSet(f)
    BY DEF ToSet
  <2>2. g = [i \in DOMAIN f |-> IF Covers(f[i].prefix, a) THEN <<f[i]>> ELSE <<>>]
    BY <2>1
  <2>3. around = FlattenSeq(g)
    BY <2>2 DEF Only
  <2>4. g = [i \in DOMAIN f |-> IF f[i] \in K THEN <<f[i]>> ELSE <<>>]
    OBVIOUS
  <2> HIDE DEF K, g, around
  <2> QED
    BY <1>2, <2>3, <2>4, OnlyElements
<1> HIDE DEF around
<1>4. IsSequence(cs)
  BY <1>3, LookupSequence
<1>5. Active(q, w, n) = Only(cs, LAMBDA c : w \in c.cond.holds)
  BY <1>1 DEF Active
<1> HIDE DEF cs
<1> DEFINE act == Active(q, w, n)
           K == {c \in ToSet(cs) : w \in c.cond.holds}
           g == [i \in DOMAIN cs |-> IF cs[i] \in K THEN <<cs[i]>> ELSE <<>>]
<1>6. \A i \in DOMAIN cs : cs[i] \in ToSet(cs)
  BY DEF ToSet
<1>7. g = [i \in DOMAIN cs |-> IF w \in cs[i].cond.holds THEN <<cs[i]>> ELSE <<>>]
  BY <1>6
<1>8. act = FlattenSeq(g)
  BY <1>5, <1>7 DEF Only
<1>9. g = [i \in DOMAIN cs |-> IF cs[i] \in K THEN <<cs[i]>> ELSE <<>>]
  OBVIOUS
<1>10. \A c : c \in ToSet(cs) \cap K <=> c \in ToSet(cs) /\ w \in c.cond.holds
  OBVIOUS
<1> HIDE DEF K, g, act
<1>11. IsSequence(act) /\ ToSet(act) = ToSet(cs) \cap K
  BY <1>4, <1>8, <1>9, OnlyElements
<1> QED
  BY <1>1, <1>4, <1>10, <1>11 DEF act

\* The links join nodes.
LEMMA LinkEnds ==
    ASSUME net \in Nets, NEW m, NEW n, {m, n} \in Links
    PROVE  m \in Node /\ n \in Node
<1>1. Links \subseteq LinkID
  BY NetsAssumption DEF Links
<1>2. PICK a \in Node, b \in Node : {m, n} = {a, b}
  BY <1>1 DEF LinkID
<1> QED
  BY <1>2

\* What becomes of an attempt, and that a packet is forwarded to a node.
LEMMA AttemptOK ==
    ASSUME net \in Nets, NEW q, NEW w, NEW n, NEW e
    PROVE  /\ Attempt(q, w, n, e) \in Outcome
           /\ Attempt(q, w, n, e) # "reached"
           /\ Attempt(q, w, n, e) = "forward" <=>
                 /\ Unusability(n, e) = "" /\ NodeUp(w, e.nextHop) /\ {n, e.nextHop} \in Links
                 /\ LinkUp(w, {n, e.nextHop}) /\ ~Denied(n, "egress", e.nextHop, q)
           /\ Attempt(q, w, n, e) = "forward" => e.nextHop \in Node
<1> DEFINE un == Unusability(n, e)
<1>1. un \in {"discard", "recursive_next_hop_unresolved", "no_next_hop", ""}
  BY DEF Unusability
<1> HIDE DEF un
<1> DEFINE out == Attempt(q, w, n, e)
           up == NodeUp(w, e.nextHop)
           linked == {n, e.nextHop} \in Links
           alive == LinkUp(w, {n, e.nextHop})
           barred == Denied(n, "egress", e.nextHop, q)
<1>2. ASSUME un # ""
      PROVE  out \in Outcome /\ out # "reached" /\ (out = "forward" <=> un = "" /\ up /\ linked /\ alive /\ ~barred)
  <2>1. out = un
    BY <1>2 DEF Attempt, un
  <2> HIDE DEF out
  <2> QED
    BY <1>1, <1>2, <2>1 DEF Outcome
<1>3. ASSUME un = "", ~up
      PROVE  out \in Outcome /\ out # "reached" /\ (out = "forward" <=> un = "" /\ up /\ linked /\ alive /\ ~barred)
  <2>1. out = "node_failed"
    BY <1>3 DEF Attempt, un
  <2> HIDE DEF out
  <2> QED
    BY <1>3, <2>1 DEF Outcome
<1>4. ASSUME un = "", up, ~linked
      PROVE  out \in Outcome /\ out # "reached" /\ (out = "forward" <=> un = "" /\ up /\ linked /\ alive /\ ~barred)
  <2>1. out = "next_hop_not_adjacent"
    BY <1>4 DEF Attempt, un
  <2> HIDE DEF out
  <2> QED
    BY <1>4, <2>1 DEF Outcome
<1>5. ASSUME un = "", up, linked
      PROVE  out \in Outcome /\ out # "reached" /\ (out = "forward" <=> un = "" /\ up /\ linked /\ alive /\ ~barred)
  <2>1. out = IF ~alive THEN "link_failed" ELSE IF barred THEN "egress_policy" ELSE "forward"
    BY <1>5 DEF Attempt, un
  <2> HIDE DEF out, up, linked, alive, barred
  <2> QED
    BY <1>5, <2>1 DEF Outcome
<1> HIDE DEF out, up, linked, alive, barred
<1>6. out \in Outcome /\ out # "reached" /\ (out = "forward" <=> un = "" /\ up /\ linked /\ alive /\ ~barred)
  BY <1>2, <1>3, <1>4, <1>5
<1>7. out = "forward" => e.nextHop \in Node
  BY <1>6, LinkEnds DEF linked
<1> QED
  BY <1>7, <1>6 DEF un, out, up, linked, alive, barred

\* A walk has an outcome.
LEMMA WalkFromOutcome ==
    ASSUME net \in Nets, NEW q, NEW w, NEW walk \in [States -> Outcome], NEW at \in States,
           FIBOK(fib[at[1]])
    PROVE  WalkFrom(q, w, walk, at) \in Outcome
<1> DEFINE act == Active(q, w, at[1])
           res == Results(q, w, walk, at)
           next(e) == <<e.nextHop, at[1], at[3] \cup {at[1]}>>
<1>1. at[1] \in Node /\ at[3] \in SUBSET Node
  BY DEF States
<1>2. IsSequence(act)
  BY ActiveOK
<1>3. ASSUME NEW e PROVE Onward(q, w, walk, at, e) \in Outcome
  <2>1. CASE Attempt(q, w, at[1], e) = "forward"
    <3>1. e.nextHop \in Node
      BY <2>1, AttemptOK
    <3>2. next(e) \in States
      BY <1>1, <3>1 DEF States
    <3>3. walk[next(e)] \in Outcome
      BY <3>2
    <3> QED
      BY <2>1, <3>3 DEF Onward
  <2>2. CASE Attempt(q, w, at[1], e) # "forward"
    BY <2>2, AttemptOK DEF Onward
  <2> QED
    BY <2>1, <2>2
<1>4. \A i \in DOMAIN act : res[i] = Onward(q, w, walk, at, act[i].entry)
  BY DEF Results
<1> HIDE DEF act, res
<1>5. act # <<>> => res[1] \in Outcome
  <2>1. Len(act) \in Nat /\ DOMAIN act = 1..Len(act) /\ act = [i \in 1..Len(act) |-> act[i]]
    BY <1>2, OwnElements
  <2>2. act # <<>> => Len(act) > 0
    BY <1>2, Positions
  <2>3. act # <<>> => 1 \in DOMAIN act
    BY <2>1, <2>2
  <2> QED
    BY <1>3, <1>4, <2>3
<1> QED
  BY <1>5 DEF WalkFrom, act, res, Outcome

\* A walk looks only at those that have been one step further.
LEMMA WalkFromAgrees ==
    ASSUME net \in Nets, NEW q, NEW w, NEW f, NEW g, NEW at \in States,
           at[1] \notin at[3] =>
              \A m \in Node : f[<<m, at[1], at[3] \cup {at[1]}>>] = g[<<m, at[1], at[3] \cup {at[1]}>>]
    PROVE  WalkFrom(q, w, f, at) = WalkFrom(q, w, g, at)
<1>1. CASE at[1] \in at[3]
  BY <1>1 DEF WalkFrom
<1>2. CASE at[1] \notin at[3]
  <2>1. ASSUME NEW e PROVE Onward(q, w, f, at, e) = Onward(q, w, g, at, e)
    <3>1. CASE Attempt(q, w, at[1], e) = "forward"
      <4>1. e.nextHop \in Node
        BY <3>1, AttemptOK
      <4> QED
        BY <1>2, <3>1, <4>1 DEF Onward
    <3>2. CASE Attempt(q, w, at[1], e) # "forward"
      BY <3>2 DEF Onward
    <3> QED
      BY <3>1, <3>2
  <2>2. Results(q, w, f, at) = Results(q, w, g, at)
    BY <2>1 DEF Results
  <2> QED
    BY <2>2 DEF WalkFrom
<1> QED
  BY <1>1, <1>2

\* The nodes a walk has still to visit.
Left(at) == Cardinality(Node \ at[3])

\* There are fewer of them one step further.
LEMMA LeftShrinks ==
    ASSUME NEW at \in States, NEW m, NEW n \in Node, n \notin at[3]
    PROVE  /\ Left(at) \in Nat /\ Left(<<m, n, at[3] \cup {n}>>) \in Nat
           /\ Left(<<m, n, at[3] \cup {n}>>) = Left(at) - 1
<1> DEFINE A == Node \ at[3]
           B == Node \ (at[3] \cup {n})
<1>1. A \in SUBSET Node /\ n \in A /\ B = A \ {n} /\ Left(at) = Cardinality(A)
  BY DEF Left
<1>2. Left(<<m, n, at[3] \cup {n}>>) = Cardinality(B)
  BY DEF Left
<1> HIDE DEF A, B
<1>3. IsFiniteSet(A)
  BY <1>1, NodeAssumption, FS_Subset
<1>4. IsFiniteSet(B) /\ Cardinality(B) = Cardinality(A) - 1
  BY <1>1, <1>3, FS_RemoveElement
<1>5. Cardinality(A) \in Nat /\ Cardinality(B) \in Nat
  BY <1>3, <1>4, FS_CardinalityType
<1> QED
  BY <1>1, <1>2, <1>4, <1>5

\* The recursive function that PacketReachable computes exists.
LEMMA WalkUnfolds ==
    ASSUME net \in Nets, \A n \in Node : FIBOK(fib[n]), NEW q, NEW w
    PROVE  Walk(q, w) = [at \in States |-> WalkFrom(q, w, Walk(q, w), at)]
<1> DEFINE C == Cardinality(Node)
           N == C + 2
           S == [States -> Outcome]
           body(f) == [at \in States |-> WalkFrom(q, w, f, at)]
           G == [x \in (1..N) \X S |-> body(x[2])]
           start == [at \in States |-> "loop"]
<1>1. C \in Nat /\ N \in Nat
  BY NodeAssumption, FS_CardinalityType
<1> HIDE DEF N
<1>2. start \in S
  BY DEF Outcome
<1>3. ASSUME NEW f \in S PROVE body(f) \in S
  <2>1. \A at \in States : at[1] \in Node
    BY DEF States
  <2>2. \A at \in States : WalkFrom(q, w, f, at) \in Outcome
    BY <2>1, WalkFromOutcome
  <2> QED
    BY <2>2
<1>4. \A f : body(f) = [at \in States |-> WalkFrom(q, w, f, at)]
  OBVIOUS
<1> HIDE DEF start
<1>5. G \in [(1..N) \X S -> S] /\ \A i \in 1..N, f \in S : G[<<i, f>>] = body(f)
  BY <1>3
<1> HIDE DEF G, S
<1>6. PICK F : Iterates(F, N, S, start, G)
  BY <1>1, <1>2, <1>5, BoundedRecursion
<1>7. \A i \in 0..N : F[i] \in S
  BY <1>6 DEF Iterates
<1>8. ASSUME NEW i \in 1..N PROVE F[i] = body(F[i - 1])
  <2>1. i - 1 \in 0..N
    BY <1>1
  <2>2. F[i] = G[<<i, F[i - 1]>>]
    BY <1>6 DEF Iterates
  <2> QED
    BY <1>5, <1>7, <2>1, <2>2
<1> DEFINE T == {i \in 0..(C + 1) : \A at \in States : Left(at) < i => F[i][at] = F[i + 1][at]}
<1>9. 0 \in T
  <2>1. 0 \in 0..(C + 1)
    BY <1>1
  <2>2. ASSUME NEW at \in States PROVE ~(Left(at) < 0)
    <3>1. Node \ at[3] \in SUBSET Node
      OBVIOUS
    <3>2. Left(at) \in Nat
      BY <3>1, NodeAssumption, FS_Subset, FS_CardinalityType DEF Left
    <3> QED
      BY <3>2
  <2> QED
    BY <2>1, <2>2
<1>10. ASSUME NEW i \in 1..(C + 1), i - 1 \in T PROVE i \in T
  <2>1. i \in 0..(C + 1) /\ i \in 1..N /\ i + 1 \in 1..N /\ (i + 1) - 1 = i /\ (i - 1) + 1 = i
    BY <1>1 DEF N
  <2>2. F[i] = body(F[i - 1]) /\ F[i + 1] = body(F[i])
    BY <1>8, <2>1
  <2>3. \A at \in States : Left(at) < i - 1 => F[i - 1][at] = F[i][at]
    BY <1>10, <2>1
  <2>4. ASSUME NEW at \in States, Left(at) < i PROVE F[i][at] = F[i + 1][at]
    <3>1. at[1] \in Node /\ at[3] \in SUBSET Node
      BY DEF States
    <3>2. ASSUME at[1] \notin at[3], NEW m \in Node
          PROVE  F[i - 1][<<m, at[1], at[3] \cup {at[1]}>>] = F[i][<<m, at[1], at[3] \cup {at[1]}>>]
      <4> DEFINE next == <<m, at[1], at[3] \cup {at[1]}>>
      <4>1. Left(at) \in Nat /\ Left(next) = Left(at) - 1
        BY <3>1, <3>2, LeftShrinks
      <4>2. Left(next) < i - 1
        BY <2>4, <4>1
      <4>3. next \in States
        BY <3>1 DEF States
      <4> QED
        BY <2>3, <4>2, <4>3
    <3>3. WalkFrom(q, w, F[i - 1], at) = WalkFrom(q, w, F[i], at)
      BY <3>2, WalkFromAgrees
    <3> QED
      BY <2>2, <3>3
  <2> QED
    BY <2>1, <2>4
<1> HIDE DEF T
<1>11. 0..(C + 1) \subseteq T
  <2>1. C + 1 \in Nat
    BY <1>1
  <2> QED
    BY <1>9, <1>10, <2>1, BoundedInduction
<1>12. ASSUME NEW at \in States PROVE F[C + 1][at] = F[C + 2][at]
  <2> DEFINE A == Node \ at[3]
  <2>1. A \in SUBSET Node /\ Left(at) = Cardinality(A)
    BY DEF Left
  <2> HIDE DEF A
  <2>2. Cardinality(A) <= C /\ Cardinality(A) \in Nat
    BY <2>1, NodeAssumption, FS_Subset, FS_CardinalityType
  <2>3. Left(at) < C + 1 /\ C + 1 \in 0..(C + 1) /\ (C + 1) + 1 = C + 2
    BY <1>1, <2>1, <2>2
  <2>4. C + 1 \in T
    BY <1>11, <2>3
  <2> QED
    BY <2>3, <2>4 DEF T
<1> DEFINE f == F[C + 1]
<1>13. f \in [States -> Outcome] /\ F[C + 2] \in [States -> Outcome]
  <2>1. C + 1 \in 0..N /\ C + 2 \in 0..N
    BY <1>1 DEF N
  <2> QED
    BY <1>7, <2>1 DEF S
<1>14. F[C + 2] = body(f)
  <2>1. C + 2 \in 1..N /\ (C + 2) - 1 = C + 1
    BY <1>1 DEF N
  <2> QED
    BY <1>8, <2>1
<1>15. f = F[C + 2]
  BY <1>12, <1>13
<1>16. f = body(f)
  BY <1>14, <1>15
<1> HIDE DEF f
<1>17. \E x : x = [at \in States |-> WalkFrom(q, w, x, at)]
  BY <1>16
<1> QED
  BY <1>17, Zenon DEF Walk

---------------------------------------------------------------------------
(***************************************************************************)
(* Reasons, and the states of the symbolic walk.                           *)
(***************************************************************************)
\* The worlds of conjunctions.
LEMMA AndWorlds ==
    ASSUME NEW w \in Worlds
    PROVE  /\ \A c, d : w \in And(c, d).holds <=> w \in c.holds /\ w \in d.holds
           /\ \A c, d, e : w \in AndAll({c, d, e}).holds <=> w \in c.holds /\ w \in d.holds /\ w \in e.holds
           /\ \A n : w \in NodeVar(n).holds <=> NodeUp(w, n)
           /\ \A l : w \in LinkVar(l).holds <=> LinkUp(w, l)
           /\ \A c : w \in Not(c).holds <=> w \notin c.holds
           /\ \A cs : w \in OrAll(cs).holds <=> \E c \in cs : w \in c.holds
BY DEF And, AndAll, NodeVar, LinkVar, Not, OrAll

\* A node of the topology is up where its links are.
LEMMA LinkNeedsEnds ==
    ASSUME NEW w, NEW m, NEW n, LinkUp(w, {m, n})
    PROVE  NodeUp(w, m) /\ NodeUp(w, n)
BY DEF LinkUp, NodeUp

\* Some reason of the kind holds in world w.
Explains(given, kind, w) == \E r \in given : r.kind = kind /\ w \in r.cond.holds

\* A reason is given where its condition holds.
LEMMA ReasonGiven ==
    ASSUME NEW T, NEW M, Model(T, M), NEW c, Fits(c, T, M), NEW w \in c.holds, NEW kind
    PROVE  Explains(Reason(kind, c), kind, w)
<1>1. c.term \in T /\ c.holds = M[c.term] /\ M[c.term] = Sem(M, c.term)
  BY DEF Fits, Model
<1>2. Key(c) # Key(FalseCond)
  <2>1. Sem(M, FalseCond.term) = {}
    BY LiteralMeans
  <2> QED
    BY <1>1, <2>1 DEF Key
<1> DEFINE r == [kind |-> kind, cond |-> c]
<1>3. Reason(kind, c) = {r}
  BY <1>2 DEF Reason
<1>4. r.kind = kind /\ r.cond = c
  OBVIOUS
<1> QED
  BY <1>3, <1>4 DEF Explains

\* A condition with the key of FALSE holds nowhere.
LEMMA FalseKey ==
    ASSUME NEW T, NEW M, Model(T, M), NEW c, Fits(c, T, M), Key(c) = Key(FalseCond)
    PROVE  c.holds = {}
<1>1. c.holds = M[c.term] /\ M[c.term] = Sem(M, c.term)
  BY DEF Fits, Model
<1> QED
  BY <1>1, LiteralMeans DEF Key

\* The conjunction with a variable has the key of FALSE only if the condition has.
LEMMA AndVarReason ==
    ASSUME NEW T, NEW M, Model(T, M), NEW c, Fits(c, T, M), NEW n, NEW kind,
           NEW w \in Worlds, w \in And(c, NodeVar(n)).holds
    PROVE  Explains(Reason(kind, And(c, NodeVar(n))), kind, w)
<1> DEFINE v == [node |-> n]
           d == And(c, NodeVar(n))
           ts == {c.term, v}
           parts == UNION {AndParts(t) : t \in ts}
           r == [kind |-> kind, cond |-> d]
           false == FalseCond.term
<1>1. w \in c.holds
  BY AndWorlds
<1>2. c.term # false
  BY <1>1, FalseKey DEF Key
<1>3. DOMAIN v = {"node"} /\ DOMAIN false = {"lit"} /\ DOMAIN TrueCond.term = {"lit"}
  BY Literals
<1>4. v # false /\ v # TrueCond.term /\ "and" \notin DOMAIN v
  BY <1>3
<1>5. d.term = AndTerm(ts)
  <2>1. NodeVar(n).term = v
    BY DEF NodeVar
  <2>2. {x.term : x \in {c, NodeVar(n)}} = ts
    BY <2>1
  <2> QED
    BY <2>2 DEF And, AndAll
<1>6. AndParts(v) = {v}
  <2> HIDE DEF v
  <2> QED
    BY <1>4 DEF AndParts
<1> HIDE DEF v
<1>7. v \in parts
  BY <1>6
<1>8. false \notin ts
  BY <1>2, <1>4
<1> DEFINE nary == [and |-> parts]
<1>9. AndTerm(ts) = Collapse(parts, TrueCond.term, nary)
  BY <1>8 DEF AndTerm
<1>10. DOMAIN nary = {"and"}
  OBVIOUS
<1> HIDE DEF parts, nary, ts, false
<1>11. nary # false
  BY <1>3, <1>10
<1>12. AndTerm(ts) # false
  <2>1. CASE \E t \in parts : parts = {t}
    <3>1. parts = {v}
      BY <1>7, <2>1
    <3>2. (CHOOSE t \in parts : TRUE) = v
      BY <3>1
    <3> QED
      BY <1>4, <1>7, <1>9, <2>1, <3>2 DEF Collapse
  <2>2. CASE ~\E t \in parts : parts = {t}
    BY <1>7, <1>9, <1>11, <2>2 DEF Collapse
  <2> QED
    BY <2>1, <2>2
<1> HIDE DEF d
<1>13. Reason(kind, d) = {r}
  BY <1>5, <1>12 DEF Reason, Key, false
<1>14. r.kind = kind /\ r.cond = d
  OBVIOUS
<1> QED
  BY <1>13, <1>14 DEF Explains, d

\* Three operations on top of each other.
Chain(T1, M1, T2, M2, T3, M3, T, M) ==
    Deeper(T1, M1, T, M) /\ Deeper(T2, M2, T1, M1) /\ Deeper(T3, M3, T2, M2)

\* The conditions of the candidates of a lookup.
LEMMA CandidatesFit ==
    ASSUME NEW f, IsSequence(f), NEW T, NEW M, \A e \in ToSet(f) : Fits(e.cond, T, M),
           NEW T1, NEW M1, NEW T2, NEW M2, NEW T3, NEW M3, Chain(T1, M1, T2, M2, T3, M3, T, M),
           NEW c \in ToSet(SymbolicLookup(f))
    PROVE  Fits(c.cond, T3, M3) /\ c.entry \in ToSet(f)
<1>1. Len(f) \in Nat /\ DOMAIN f = 1..Len(f) /\ ToSet(f) = {f[i] : i \in 1..Len(f)}
  BY OwnElements
<1>2. PICK i \in 1..Len(f) : c = SymbolicLookup(f)[i]
  BY <1>1 DEF ToSet, SymbolicLookup
<1> DEFINE others == {j \in 1..(i - 1) : <<f[j].prefix, f[j].rank>> # <<f[i].prefix, f[i].rank>>}
           higher == {f[j].cond : j \in others}
           own == f[i].cond
           all == OrAll(higher)
           cond == IF higher = {} THEN own ELSE And(own, Not(all))
<1>3. SymbolicLookup(f)[i] = [entry |-> f[i], cond |-> cond]
  BY <1>1 DEF SymbolicLookup
<1>4. \A j \in 1..(i - 1) : j \in 1..Len(f)
  BY <1>1
<1>5. \A x \in higher : Fits(x, T, M)
  BY <1>1, <1>4
<1>6. Fits(own, T, M)
  BY <1>1
<1> HIDE DEF higher, own
<1>7. Fits(all, T1, M1) /\ Fits(own, T1, M1)
  BY <1>5, <1>6 DEF Deeper, Chain
<1> HIDE DEF all
<1>8. Fits(Not(all), T2, M2) /\ Fits(own, T2, M2)
  BY <1>7 DEF Deeper, Chain
<1> DEFINE pair == {own, Not(all)}
<1>9. \A x \in pair : Fits(x, T2, M2)
  BY <1>8
<1> HIDE DEF pair
<1>10. Fits(AndAll(pair), T3, M3) /\ Fits(own, T3, M3)
  BY <1>8, <1>9 DEF Deeper, Chain
<1>11. And(own, Not(all)) = AndAll(pair)
  BY DEF And, pair
<1>12. Fits(cond, T3, M3)
  BY <1>10, <1>11
<1> HIDE DEF cond
<1> QED
  BY <1>1, <1>2, <1>3, <1>12

\* The conditions of FIB entries are those of routes, and so are the prefixes.
LEMMA EntriesFit ==
    ASSUME DPInv, fib # <<>>, NEW n \in Node, NEW e \in ToSet(fib[n])
    PROVE  /\ e.prefix \in Prefix
           /\ \A T, M : AllFit(Held(rib), T, M) => Fits(e.cond, T, M)
<1>1. FollowsRIB(net, rib, n, fib[n]) /\ RIBOK(rib)
  BY DEF DPInv, IInv
<1>2. PICK p \in Prefix : \E r \in ToSet(rib[<<n, p>>]) : EntryOf(e, r)
  BY <1>1 DEF FollowsRIB
<1>3. PICK r \in ToSet(rib[<<n, p>>]) : EntryOf(e, r)
  BY <1>2
<1>4. r \in Held(rib) /\ r.prefix = p
  BY <1>1, HeldEntries
<1> QED
  BY <1>3, <1>4 DEF EntryOf, AllFit, RouteFits

\* For a destination that overlaps no other prefix, the two lookups agree.
LEMMA LookupSame ==
    ASSUME DPInv, fib # <<>>, NEW n \in Node, NEW p, Disjoint(p)
    PROVE  SymbolicLookupFIB(n, p) = SymbolicLookupFIBForPrefixSet(n, p)
<1> DEFINE f == fib[n]
<1>1. \A i \in DOMAIN f : f[i] \in ToSet(f)
  BY DEF ToSet
<1>2. \A i \in DOMAIN f : f[i].prefix \in Prefix
  BY <1>1, EntriesFit
<1>3. ASSUME NEW i \in DOMAIN f PROVE Covers(f[i].prefix, p) <=> Overlaps(f[i].prefix, p)
  BY <1>2 DEF Covers, Overlaps, Disjoint
<1>4. /\ SymbolicLookupFIB(n, p) =
           SymbolicLookup(FlattenSeq([i \in DOMAIN f |-> IF Covers(f[i].prefix, p) THEN <<f[i]>> ELSE <<>>]))
      /\ SymbolicLookupFIBForPrefixSet(n, p) =
           SymbolicLookup(FlattenSeq([i \in DOMAIN f |-> IF Overlaps(f[i].prefix, p) THEN <<f[i]>> ELSE <<>>]))
  BY DEF SymbolicLookupFIB, SymbolicLookupFIBForPrefixSet, Only
<1> HIDE DEF f
<1>5. [i \in DOMAIN f |-> IF Covers(f[i].prefix, p) THEN <<f[i]>> ELSE <<>>]
        = [i \in DOMAIN f |-> IF Overlaps(f[i].prefix, p) THEN <<f[i]>> ELSE <<>>]
  BY <1>3
<1> QED
  BY <1>4, <1>5

\* A state of symbolicForward: at the end of a path that visits no node
\* twice before it, in worlds in which its node is up.
StateOK(s) ==
    /\ s.node \in Node /\ s.peer \in Node \cup {0}
    /\ IsSequence(s.path) /\ s.path # <<>> /\ ToSet(s.path) \subseteq Node /\ Last(s.path) = s.node
    /\ Cardinality(ToSet(Front(s.path))) = Len(s.path) - 1
    /\ s.cond.holds \subseteq Up(s.node)

\* What the walk of one packet is asked there.
At(s) == <<s.node, s.peer, ToSet(Front(s.path))>>

\* The path of a state that has not been visited.
LEMMA PathVisits ==
    ASSUME NEW s, StateOK(s)
    PROVE  /\ At(s) \in States
           /\ ToSet(s.path) = ToSet(Front(s.path)) \cup {s.node}
           /\ s.node \notin ToSet(Front(s.path)) => 
                 Cardinality(ToSet(s.path)) = Len(s.path) /\ ~(Len(s.path) > Cardinality(Node))
<1> DEFINE V == ToSet(Front(s.path))
           n == s.node
<1>1. ToSet(s.path) = V \cup {n}
  BY LastAndFront DEF StateOK
<1>2. At(s) \in States
  BY <1>1 DEF At, States, StateOK
<1>3. Cardinality(V) = Len(s.path) - 1 /\ ToSet(s.path) \in SUBSET Node /\ V \in SUBSET Node
  BY <1>1 DEF StateOK
<1>4. Len(s.path) \in Nat
  BY OwnElements DEF StateOK
<1> HIDE DEF V, n
<1>5. IsFiniteSet(V) /\ IsFiniteSet(ToSet(s.path)) /\ Cardinality(ToSet(s.path)) <= Cardinality(Node)
  BY <1>3, NodeAssumption, FS_Subset
<1>6. ASSUME n \notin V PROVE Cardinality(ToSet(s.path)) = Len(s.path) /\ ~(Len(s.path) > Cardinality(Node))
  <2>1. Cardinality(V \cup {n}) = Cardinality(V) + 1
    BY <1>5, <1>6, FS_AddElement
  <2>2. Cardinality(ToSet(s.path)) = Len(s.path)
    BY <1>1, <1>3, <1>4, <2>1
  <2>3. Cardinality(Node) \in Nat
    BY NodeAssumption, FS_CardinalityType
  <2> QED
    BY <1>4, <1>5, <2>2, <2>3
<1> QED
  BY <1>1, <1>2, <1>6 DEF V, n

\* The state behind a usable candidate.
LEMMA ForwardedOK ==
    ASSUME net \in Nets, NEW q, NEW s, StateOK(s), ~Visited(s), NEW c, Usable(q, s, c),
           NEW t, t = Forwarded(s, c)
    PROVE  /\ StateOK(t)
           /\ At(t) = <<c.entry.nextHop, s.node, ToSet(Front(s.path)) \cup {s.node}>>
           /\ \A w \in Worlds : w \in t.cond.holds <=>
                 w \in s.cond.holds /\ w \in c.cond.holds /\ LinkUp(w, {s.node, c.entry.nextHop})
           /\ t.cond = AndAll({s.cond, c.cond, LinkVar({s.node, c.entry.nextHop})})
<1> DEFINE nh == c.entry.nextHop
           link == LinkVar({s.node, nh})
<1>1. {s.node, nh} \in Links
  BY DEF Usable
<1>2. nh \in Node /\ s.node \in Node
  BY <1>1, LinkEnds
<1>3. t.node = nh /\ t.peer = s.node /\ t.path = Append(s.path, nh) /\ t.cond = AndAll({s.cond, c.cond, link})
  BY DEF Forwarded
<1> HIDE DEF nh
<1>4. s.node \notin ToSet(Front(s.path))
  BY DEF Visited
<1>5. ToSet(s.path) = ToSet(Front(s.path)) \cup {s.node} /\ Cardinality(ToSet(s.path)) = Len(s.path)
  BY <1>4, PathVisits
<1>6. IsSequence(s.path) /\ ToSet(s.path) \subseteq Node
  BY DEF StateOK
<1>7. /\ t.path # <<>> /\ Last(t.path) = nh /\ Front(t.path) = s.path
      /\ IsSequence(t.path) /\ Len(t.path) = Len(s.path) + 1 /\ ToSet(t.path) = ToSet(s.path) \cup {nh}
  <2> DEFINE path == s.path
  <2>1. IsSequence(path) /\ t.path = Append(path, nh)
    BY <1>3, <1>6
  <2> HIDE DEF path
  <2>2. Append(path, nh) # <<>> /\ Last(Append(path, nh)) = nh /\ Front(Append(path, nh)) = path
    BY <2>1, LastAndFront
  <2>3. IsSequence(Append(path, nh)) /\ Len(Append(path, nh)) = Len(path) + 1
    BY <2>1, SequenceBasics
  <2>4. ToSet(Append(path, nh)) = ToSet(path) \cup {nh}
    BY <2>1, ElementsOf
  <2> QED
    BY <2>1, <2>2, <2>3, <2>4 DEF path
<1>8. Len(s.path) \in Nat
  BY <1>6, OwnElements
<1>9. \A w \in Worlds : w \in t.cond.holds <=> w \in s.cond.holds /\ w \in c.cond.holds /\ LinkUp(w, {s.node, nh})
  <2> DEFINE a == s.cond
             b == c.cond
             l == {s.node, nh}
  <2> SUFFICES ASSUME NEW w \in Worlds PROVE w \in t.cond.holds <=> w \in a.holds /\ w \in b.holds /\ LinkUp(w, l)
    OBVIOUS
  <2>1. t.cond = AndAll({a, b, LinkVar(l)})
    BY <1>3
  <2> HIDE DEF a, b, l
  <2>2. w \in AndAll({a, b, LinkVar(l)}).holds <=> w \in a.holds /\ w \in b.holds /\ w \in LinkVar(l).holds
    BY AndWorlds
  <2>3. w \in LinkVar(l).holds <=> LinkUp(w, l)
    BY AndWorlds
  <2> QED
    BY <2>1, <2>2, <2>3
<1>10. t.cond.holds \subseteq Worlds
  <2>1. \A cs : AndAll(cs).holds \subseteq Worlds
    BY DEF AndAll
  <2> QED
    BY <1>3, <2>1
<1>11. t.cond.holds \subseteq Up(nh)
  BY <1>9, <1>10, LinkNeedsEnds DEF Up
<1>12. StateOK(t)
  <2>1. Len(t.path) - 1 = Len(s.path)
    BY <1>7, <1>8
  <2>2. Cardinality(ToSet(Front(t.path))) = Len(t.path) - 1
    BY <1>5, <1>7, <2>1
  <2>3. t.node \in Node /\ t.peer \in Node \cup {0} /\ Last(t.path) = t.node
    BY <1>2, <1>3, <1>7
  <2>4. IsSequence(t.path) /\ t.path # <<>> /\ ToSet(t.path) \subseteq Node
    BY <1>2, <1>6, <1>7
  <2>5. t.cond.holds \subseteq Up(t.node)
    BY <1>3, <1>11
  <2> QED
    BY <2>2, <2>3, <2>4, <2>5 DEF StateOK
<1>13. At(t) = <<nh, s.node, ToSet(Front(s.path)) \cup {s.node}>>
  BY <1>3, <1>5, <1>7 DEF At
<1> QED
  BY <1>3, <1>9, <1>12, <1>13 DEF nh

\* Whether a packet is forwarded to a candidate in a world.
LEMMA ForwardedWhere ==
    ASSUME net \in Nets, NEW q, NEW s, StateOK(s), ~Visited(s), NEW c,
           NEW w \in Worlds, w \in s.cond.holds, w \in c.cond.holds
    PROVE  Attempt(q, w, s.node, c.entry) = "forward" <=> Usable(q, s, c) /\ w \in Forwarded(s, c).cond.holds
<1> DEFINE e == c.entry
           t == Forwarded(s, c)
<1>1. Attempt(q, w, s.node, e) = "forward" <=>
         /\ Unusability(s.node, e) = "" /\ NodeUp(w, e.nextHop) /\ {s.node, e.nextHop} \in Links
         /\ LinkUp(w, {s.node, e.nextHop}) /\ ~Denied(s.node, "egress", e.nextHop, q)
  BY AttemptOK
<1>2. Usable(q, s, c) <=> /\ Unusability(s.node, e) = "" /\ {s.node, e.nextHop} \in Links
                          /\ ~Denied(s.node, "egress", e.nextHop, q)
  BY DEF Usable
<1>3. Usable(q, s, c) => (w \in t.cond.holds <=> LinkUp(w, {s.node, e.nextHop}))
  BY ForwardedOK
<1>4. LinkUp(w, {s.node, e.nextHop}) => NodeUp(w, e.nextHop)
  BY LinkNeedsEnds
<1> HIDE DEF e, t
<1> QED
  BY <1>1, <1>2, <1>3, <1>4 DEF e, t

\* A candidate that is not used in a world gives the reason there.
LEMMA CandidateExplained ==
    ASSUME net \in Nets, NEW q, NEW s, StateOK(s), NEW c, NEW w \in Worlds, w \in s.cond.holds, w \in c.cond.holds,
           NEW T, NEW M, Model(T, M), Fits(s.cond, T, M), Fits(c.cond, T, M),
           Attempt(q, w, s.node, c.entry) # "forward"
    PROVE  Explains(CandidateReasons(q, s, c), Attempt(q, w, s.node, c.entry), w)
<1> DEFINE e == c.entry
           nh == e.nextHop
           sc == s.cond
           cc == c.cond
           here == And(sc, cc)
           out == Attempt(q, w, s.node, e)
           un == Unusability(s.node, e)
           l == {s.node, nh}
           reasonsOf == CandidateReasons(q, s, c)
<1>1. PICK T1, M1, T2, M2, T3, M3 : Chain(T1, M1, T2, M2, T3, M3, T, M)
  BY ThreeDeeper DEF Chain
<1>2. Deeper(T1, M1, T, M) /\ Deeper(T2, M2, T1, M1) /\ Deeper(T3, M3, T2, M2)
  BY <1>1 DEF Chain
<1>3. Model(T1, M1) /\ Model(T2, M2) /\ Model(T3, M3)
  BY <1>2 DEF Deeper
<1>4. Fits(here, T1, M1)
  <2> DEFINE pair == {sc, cc}
  <2>1. \A x \in pair : Fits(x, T, M)
    OBVIOUS
  <2> HIDE DEF pair
  <2>2. Fits(AndAll(pair), T1, M1)
    BY <1>2, <2>1 DEF Deeper
  <2>3. here = AndAll(pair)
    BY DEF And, pair
  <2> QED
    BY <2>2, <2>3
<1>5. w \in here.holds
  <2>1. w \in sc.holds /\ w \in cc.holds
    OBVIOUS
  <2> HIDE DEF sc, cc
  <2> QED
    BY <2>1, AndWorlds
<1>6. reasonsOf = IF un # "" THEN Reason(un, here)
                  ELSE Reason("node_failed", And(here, Not(NodeVar(nh)))) \cup
                       IF l \notin Links THEN Reason("next_hop_not_adjacent", And(here, NodeVar(nh)))
                       ELSE Reason("link_failed", AndAll({here, NodeVar(nh), Not(LinkVar(l))}))
                              \cup IF Denied(s.node, "egress", nh, q) THEN Reason("egress_policy", here) ELSE {}
  BY DEF CandidateReasons
<1>7. un \in {"discard", "recursive_next_hop_unresolved", "no_next_hop", ""}
  BY DEF Unusability
<1> HIDE DEF here, reasonsOf
<1>8. ASSUME un # "" PROVE Explains(reasonsOf, out, w)
  <2>1. out = un
    BY <1>8 DEF Attempt
  <2>2. Explains(Reason(un, here), un, w)
    BY <1>3, <1>4, <1>5, ReasonGiven
  <2> QED
    BY <1>6, <1>8, <2>1, <2>2
<1>9. ASSUME un = "", ~NodeUp(w, nh) PROVE Explains(reasonsOf, out, w)
  <2>1. out = "node_failed"
    BY <1>9 DEF Attempt
  <2>2. nh \in Node
    BY <1>9, WorldsAssumption DEF NodeUp
  <2> DEFINE v == NodeVar(nh)
             d == Not(v)
             pair == {here, d}
  <2>3. Fits(v, T1, M1)
    BY <1>2, <2>2 DEF Deeper
  <2>4. w \notin v.holds
    BY <1>9, AndWorlds
  <2> HIDE DEF v
  <2>5. Fits(d, T2, M2) /\ Fits(here, T2, M2)
    BY <1>2, <1>4, <2>3 DEF Deeper
  <2>6. w \in d.holds
    BY <2>4, AndWorlds
  <2> HIDE DEF d
  <2>7. \A x \in pair : Fits(x, T2, M2)
    BY <2>5
  <2>8. w \in And(here, d).holds
    BY <1>5, <2>6, AndWorlds
  <2>9. And(here, d) = AndAll(pair)
    BY DEF And
  <2> HIDE DEF pair
  <2>10. Fits(And(here, d), T3, M3)
    BY <1>2, <2>7, <2>9 DEF Deeper
  <2>11. Explains(Reason("node_failed", And(here, d)), "node_failed", w)
    BY <1>3, <2>8, <2>10, ReasonGiven
  <2>12. Reason("node_failed", And(here, d)) \subseteq reasonsOf
    BY <1>6, <1>9 DEF d, v
  <2> QED
    BY <2>1, <2>11, <2>12 DEF Explains
<1>10. ASSUME un = "", NodeUp(w, nh), l \notin Links PROVE Explains(reasonsOf, out, w)
  <2>1. out = "next_hop_not_adjacent"
    BY <1>10 DEF Attempt
  <2>2. w \in NodeVar(nh).holds
    <3>1. \A n : NodeUp(w, n) => w \in NodeVar(n).holds
      BY AndWorlds
    <3> QED
      BY <1>10, <3>1
  <2>3. w \in And(here, NodeVar(nh)).holds
    BY <1>5, <2>2, AndWorlds
  <2>4. Explains(Reason("next_hop_not_adjacent", And(here, NodeVar(nh))), "next_hop_not_adjacent", w)
    <3>1. Model(T1, M1) /\ Fits(here, T1, M1)
      BY <1>3, <1>4
    <3>2. ASSUME NEW x, w \in And(here, NodeVar(x)).holds
          PROVE  Explains(Reason("next_hop_not_adjacent", And(here, NodeVar(x))), "next_hop_not_adjacent", w)
      <4> HIDE DEF sc, cc, e, nh, out, un, l
      <4> QED
        BY <3>1, <3>2, AndVarReason
    <3> QED
      BY <2>3, <3>2
  <2>5. Reason("next_hop_not_adjacent", And(here, NodeVar(nh))) \subseteq reasonsOf
    BY <1>6, <1>10
  <2> QED
    BY <2>1, <2>4, <2>5 DEF Explains
<1>11. ASSUME un = "", NodeUp(w, nh), l \in Links, ~LinkUp(w, l)
       PROVE  Explains(reasonsOf, out, w)
  <2>1. out = "link_failed"
    BY <1>11 DEF Attempt
  <2>2. nh \in Node /\ s.node \in Node
    BY <1>11, LinkEnds
  <2> DEFINE v == NodeVar(nh)
             k == LinkVar(l)
             d == Not(k)
             three == {here, v, d}
  <2>3. Fits(v, T1, M1) /\ Fits(k, T1, M1)
    BY <1>2, <2>2 DEF Deeper
  <2>4. w \in v.holds /\ w \notin k.holds
    BY <1>11, AndWorlds
  <2> HIDE DEF v, k
  <2>5. Fits(d, T2, M2) /\ Fits(v, T2, M2) /\ Fits(here, T2, M2)
    BY <1>2, <1>4, <2>3 DEF Deeper
  <2>6. w \in d.holds
    BY <2>4, AndWorlds
  <2> HIDE DEF d
  <2>7. \A x \in three : Fits(x, T2, M2)
    BY <2>5
  <2>8. w \in AndAll({here, v, d}).holds
    BY <1>5, <2>4, <2>6, AndWorlds
  <2>9. w \in AndAll(three).holds
    BY <2>8
  <2> HIDE DEF three
  <2>10. Fits(AndAll(three), T3, M3)
    BY <1>2, <2>7 DEF Deeper
  <2>11. Explains(Reason("link_failed", AndAll(three)), "link_failed", w)
    BY <1>3, <2>9, <2>10, ReasonGiven
  <2>12. Reason("link_failed", AndAll(three)) \subseteq reasonsOf
    BY <1>6, <1>11 DEF three, d, v, k
  <2> QED
    BY <2>1, <2>11, <2>12 DEF Explains
<1>12. ASSUME un = "", NodeUp(w, nh), l \in Links, LinkUp(w, l)
       PROVE  Explains(reasonsOf, out, w)
  <2>1. out = IF Denied(s.node, "egress", nh, q) THEN "egress_policy" ELSE "forward"
    BY <1>12 DEF Attempt
  <2>2. Denied(s.node, "egress", nh, q) /\ out = "egress_policy"
    BY <2>1
  <2>3. Explains(Reason("egress_policy", here), "egress_policy", w)
    BY <1>3, <1>4, <1>5, ReasonGiven
  <2>4. Reason("egress_policy", here) \subseteq reasonsOf
    BY <1>6, <1>12, <2>2
  <2> QED
    BY <2>2, <2>3, <2>4 DEF Explains
<1> QED
  BY <1>8, <1>9, <1>10, <1>11, <1>12 DEF reasonsOf

\* The candidates of a state for a destination that overlaps no other prefix:
\* those that a packet in world w tries are those that hold there.
LEMMA CandidatesActive ==
    ASSUME DPInv, fib # <<>>, NEW q, q.to = q.dst, Disjoint(q.dst), NEW n \in Node, NEW w,
           NEW cs, cs = SymbolicLookupFIBForPrefixSet(n, q.dst)
    PROVE  /\ IsSequence(cs) /\ IsSequence(Active(q, w, n))
           /\ \A c : c \in ToSet(Active(q, w, n)) <=> c \in ToSet(cs) /\ w \in c.cond.holds
<1>1. FIBOK(fib[n])
  BY DEF DPInv
<1>2. SymbolicLookupFIB(n, q.to) = cs
  BY LookupSame
<1>3. /\ IsSequence(SymbolicLookupFIB(n, q.to)) /\ IsSequence(Active(q, w, n))
      /\ \A c : c \in ToSet(Active(q, w, n)) <=> c \in ToSet(SymbolicLookupFIB(n, q.to)) /\ w \in c.cond.holds
  BY <1>1, ActiveOK
<1> QED
  BY <1>2, <1>3

\* Their conditions.
LEMMA LookupFits ==
    ASSUME DPInv, fib # <<>>, NEW n \in Node, NEW p, NEW T, NEW M, AllFit(Held(rib), T, M),
           NEW T1, NEW M1, NEW T2, NEW M2, NEW T3, NEW M3, Chain(T1, M1, T2, M2, T3, M3, T, M),
           NEW c \in ToSet(SymbolicLookupFIBForPrefixSet(n, p))
    PROVE  Fits(c.cond, T3, M3)
<1> DEFINE f == fib[n]
           K == {e \in ToSet(f) : Overlaps(e.prefix, p)}
           g == [i \in DOMAIN f |-> IF f[i] \in K THEN <<f[i]>> ELSE <<>>]
           kept == FlattenSeq(g)
<1>1. IsSequence(f)
  BY DEF DPInv, FIBOK
<1>2. \A i \in DOMAIN f : f[i] \in ToSet(f)
  BY DEF ToSet
<1>3. g = [i \in DOMAIN f |-> IF Overlaps(f[i].prefix, p) THEN <<f[i]>> ELSE <<>>]
  BY <1>2
<1>4. SymbolicLookupFIBForPrefixSet(n, p) = SymbolicLookup(kept)
  BY <1>3 DEF SymbolicLookupFIBForPrefixSet, Only
<1>5. g = [i \in DOMAIN f |-> IF f[i] \in K THEN <<f[i]>> ELSE <<>>]
  OBVIOUS
<1>6. \A e \in ToSet(f) : Fits(e.cond, T, M)
  BY EntriesFit
<1> HIDE DEF f, g, K
<1>7. IsSequence(kept) /\ ToSet(kept) = ToSet(f) \cap K
  BY <1>1, <1>5, OnlyElements
<1> HIDE DEF kept
<1>8. \A e \in ToSet(kept) : Fits(e.cond, T, M)
  BY <1>6, <1>7
<1>9. c \in ToSet(SymbolicLookup(kept))
  BY <1>4
<1> QED
  BY <1>7, <1>8, <1>9, CandidatesFit

\* What a packet meets behind an active candidate is what the symbolic walk
\* meets in the state behind it.
LEMMA OnwardForwarded ==
    ASSUME net \in Nets, NEW q, NEW s, StateOK(s), ~Visited(s), NEW c,
           NEW w \in Worlds, w \in s.cond.holds, w \in c.cond.holds, NEW walk
    PROVE  /\ Usable(q, s, c) /\ w \in Forwarded(s, c).cond.holds =>
                 Onward(q, w, walk, At(s), c.entry) = walk[At(Forwarded(s, c))]
           /\ ~(Usable(q, s, c) /\ w \in Forwarded(s, c).cond.holds) =>
                 /\ Onward(q, w, walk, At(s), c.entry) = Attempt(q, w, s.node, c.entry)
                 /\ Attempt(q, w, s.node, c.entry) # "forward"
                 /\ Attempt(q, w, s.node, c.entry) # "reached"
<1> DEFINE e == c.entry
           t == Forwarded(s, c)
           a == At(s)
           m == s.node
           out == Attempt(q, w, m, e)
<1>1. a[1] = s.node /\ a[3] = ToSet(Front(s.path))
  BY DEF At
<1>2. out = "forward" <=> Usable(q, s, c) /\ w \in t.cond.holds
  BY ForwardedWhere
<1>3. out # "reached"
  <2> HIDE DEF m, e
  <2> QED
    BY AttemptOK
<1>4. Usable(q, s, c) => At(t) = <<e.nextHop, a[1], a[3] \cup {a[1]}>>
  <2>1. ASSUME Usable(q, s, c) PROVE At(t) = <<c.entry.nextHop, s.node, ToSet(Front(s.path)) \cup {s.node}>>
    BY <2>1, ForwardedOK
  <2> HIDE DEF a, t
  <2> QED
    BY <1>1, <2>1
<1>5. Onward(q, w, walk, a, e) = IF out = "forward" THEN walk[<<e.nextHop, a[1], a[3] \cup {a[1]}>>] ELSE out
  BY <1>1 DEF Onward
<1> HIDE DEF e, t, a, out
<1> QED
  BY <1>2, <1>3, <1>4, <1>5 DEF e, t, a, out

\* The walk of one packet in a state in which candidates are tried.
LEMMA WalkTries ==
    ASSUME DPInv, fib # <<>>, NEW q, NEW s, StateOK(s), ~Visited(s),
           ~Originates(s.node, q.dst), ~Denied(s.node, "ingress", s.peer, q),
           NEW w \in Worlds, w \in s.cond.holds
    PROVE  /\ Active(q, w, s.node) = <<>> => Walk(q, w)[At(s)] = "no_route"
           /\ Active(q, w, s.node) # <<>> =>
                 Walk(q, w)[At(s)] =
                   IF "reached" \in ToSet(Results(q, w, Walk(q, w), At(s))) THEN "reached"
                   ELSE Results(q, w, Walk(q, w), At(s))[1]
<1> DEFINE a == At(s)
           walk == Walk(q, w)
<1>1. net \in Nets /\ \A n \in Node : FIBOK(fib[n])
  BY DEF DPInv, IInv
<1>2. walk = [at \in States |-> WalkFrom(q, w, walk, at)]
  BY <1>1, WalkUnfolds
<1>3. a \in States
  BY PathVisits
<1>4. a[1] = s.node /\ a[2] = s.peer /\ a[3] = ToSet(Front(s.path))
  BY DEF At
<1>5. NodeUp(w, s.node)
  BY DEF StateOK, Up
<1>6. a[1] \notin a[3]
  BY <1>4 DEF Visited
<1> HIDE DEF a, walk
<1>7. walk[a] = WalkFrom(q, w, walk, a)
  BY <1>2, <1>3
<1> QED
  BY <1>4, <1>5, <1>6, <1>7 DEF WalkFrom, a, walk

\* The states behind the usable candidates.
Behind(q, s, cs) == {Forwarded(s, c) : c \in {c \in ToSet(cs) : Usable(q, s, c)}}

\* One state for each of them.
LEMMA StateForEach ==
    ASSUME NEW s, NEW cs, IsSequence(cs), NEW next, next = [i \in DOMAIN cs |-> Forwarded(s, cs[i])]
    PROVE  IsSequence(next) /\ ToSet(next) = {Forwarded(s, c) : c \in ToSet(cs)}
<1>1. Len(cs) \in Nat /\ DOMAIN cs = 1..Len(cs) /\ ToSet(cs) = {cs[i] : i \in 1..Len(cs)}
  BY OwnElements
<1>2. next = [i \in 1..Len(cs) |-> next[i]] /\ \A i \in 1..Len(cs) : next[i] = Forwarded(s, cs[i])
  BY <1>1
<1>3. IsSequence(next) /\ Len(next) = Len(cs)
  BY <1>1, <1>2, FunctionSequence
<1>4. ToSet(next) = {next[i] : i \in 1..Len(cs)}
  <2>1. ToSet(next) = {next[i] : i \in DOMAIN next} /\ DOMAIN next = DOMAIN cs
    BY DEF ToSet
  <2> QED
    BY <1>1, <2>1
<1>5. ToSet(next) = {Forwarded(s, c) : c \in ToSet(cs)}
  BY <1>1, <1>2, <1>4
<1> QED
  BY <1>3, <1>5

\* They are what ForwardToCandidates leaves to visit.
LEMMA NextStates ==
    ASSUME NEW q, NEW s, NEW cs, IsSequence(cs)
    PROVE  LET usable == Only(cs, LAMBDA c : Usable(q, s, c))
               next   == [i \in DOMAIN usable |-> Forwarded(s, usable[i])]
           IN  IsSequence(next) /\ ToSet(next) = Behind(q, s, cs)
<1> DEFINE K == {c \in ToSet(cs) : Usable(q, s, c)}
           g == [i \in DOMAIN cs |-> IF cs[i] \in K THEN <<cs[i]>> ELSE <<>>]
           usable == Only(cs, LAMBDA c : Usable(q, s, c))
           next   == [i \in DOMAIN usable |-> Forwarded(s, usable[i])]
<1>1. \A i \in DOMAIN cs : cs[i] \in ToSet(cs)
  BY DEF ToSet
<1>2. g = [i \in DOMAIN cs |-> IF Usable(q, s, cs[i]) THEN <<cs[i]>> ELSE <<>>]
  BY <1>1
<1>3. usable = FlattenSeq(g)
  BY <1>2 DEF Only
<1>4. g = [i \in DOMAIN cs |-> IF cs[i] \in K THEN <<cs[i]>> ELSE <<>>] /\ ToSet(cs) \cap K = K
  OBVIOUS
<1>5. Behind(q, s, cs) = {Forwarded(s, c) : c \in K}
  BY DEF Behind
<1> HIDE DEF K, g, usable
<1>6. IsSequence(usable) /\ ToSet(usable) = K
  BY <1>3, <1>4, OnlyElements
<1>7. next = [i \in DOMAIN usable |-> Forwarded(s, usable[i])]
  OBVIOUS
<1> HIDE DEF next
<1>8. IsSequence(next) /\ ToSet(next) = {Forwarded(s, c) : c \in ToSet(usable)}
  BY <1>6, <1>7, StateForEach
<1>9. IsSequence(next) /\ ToSet(next) = Behind(q, s, cs)
  BY <1>5, <1>6, <1>8
<1> QED
  BY <1>9 DEF next, usable

\* The packet reaches the destination from a state exactly if it does from
\* one of the states behind its candidates.
LEMMA ForwardReaches ==
    ASSUME DPInv, fib # <<>>, NEW q, q.to = q.dst, Disjoint(q.dst), NEW s, StateOK(s), ~Visited(s),
           ~Originates(s.node, q.dst), ~Denied(s.node, "ingress", s.peer, q),
           NEW w \in Worlds, w \in s.cond.holds, NEW cs, cs = SymbolicLookupFIBForPrefixSet(s.node, q.dst)
    PROVE  Walk(q, w)[At(s)] = "reached" <=>
              \E t \in Behind(q, s, cs) : w \in t.cond.holds /\ Walk(q, w)[At(t)] = "reached"
<1> DEFINE act == Active(q, w, s.node)
           walk == Walk(q, w)
           res == Results(q, w, walk, At(s))
           K == {c \in ToSet(cs) : Usable(q, s, c)}
<1>1. net \in Nets /\ s.node \in Node
  BY DEF DPInv, IInv, StateOK
<1>2. IsSequence(act) /\ \A c : c \in ToSet(act) <=> c \in ToSet(cs) /\ w \in c.cond.holds
  BY <1>1, CandidatesActive
<1>3. Len(act) \in Nat /\ DOMAIN act = 1..Len(act) /\ ToSet(act) = {act[i] : i \in 1..Len(act)}
  BY <1>2, OwnElements
<1>4. res = [i \in DOMAIN act |-> Onward(q, w, walk, At(s), act[i].entry)]
  BY DEF Results, At
<1>5. /\ act = <<>> => walk[At(s)] = "no_route"
      /\ act # <<>> => walk[At(s)] = IF "reached" \in ToSet(res) THEN "reached" ELSE res[1]
  BY WalkTries
<1>6. ASSUME NEW c \in ToSet(act)
      PROVE  /\ Usable(q, s, c) /\ w \in Forwarded(s, c).cond.holds =>
                   Onward(q, w, walk, At(s), c.entry) = walk[At(Forwarded(s, c))]
             /\ ~(Usable(q, s, c) /\ w \in Forwarded(s, c).cond.holds) =>
                   Onward(q, w, walk, At(s), c.entry) # "reached"
  BY <1>1, <1>2, OnwardForwarded
<1>7. Behind(q, s, cs) = {Forwarded(s, c) : c \in K}
  BY DEF Behind
<1>8. ASSUME NEW c \in K, w \in Forwarded(s, c).cond.holds PROVE c \in ToSet(act)
  <2>1. w \in c.cond.holds
    BY <1>1, <1>8, ForwardedOK
  <2> QED
    BY <1>2, <2>1
<1>9. act # <<>> => 1 \in DOMAIN act
  <2>1. act # <<>> => Len(act) > 0
    BY <1>2, Positions
  <2> HIDE DEF act
  <2> QED
    BY <1>3, <2>1
<1>10. act = <<>> => ToSet(act) = {}
  BY ElementsOf
<1> HIDE DEF act, walk, res
<1>11. ToSet(res) = {res[i] : i \in DOMAIN act}
  BY <1>4 DEF ToSet
<1>12. walk[At(s)] = "reached" <=> \E i \in DOMAIN act : res[i] = "reached"
  <2>1. CASE act = <<>>
    <3>1. DOMAIN act = {}
      BY <1>3, <1>10, <2>1
    <3>2. walk[At(s)] = "no_route"
      BY <1>5, <2>1
    <3> QED
      BY <3>1, <3>2
  <2>2. CASE act # <<>>
    <3> DEFINE here == walk[At(s)]
    <3>1. here = IF "reached" \in ToSet(res) THEN "reached" ELSE res[1]
      BY <1>5, <2>2
    <3> HIDE DEF here
    <3>2. here = "reached" <=> "reached" \in ToSet(res)
      BY <1>9, <1>11, <2>2, <3>1
    <3> QED
      BY <1>11, <3>2 DEF here
  <2> QED
    BY <2>1, <2>2
<1>13. (\E i \in DOMAIN act : res[i] = "reached") <=>
         \E c \in ToSet(act) : Onward(q, w, walk, At(s), c.entry) = "reached"
  BY <1>3, <1>4
<1>14. ASSUME NEW c \in ToSet(act), Onward(q, w, walk, At(s), c.entry) = "reached"
       PROVE  \E t \in Behind(q, s, cs) : w \in t.cond.holds /\ walk[At(t)] = "reached"
  <2>1. c \in K /\ w \in Forwarded(s, c).cond.holds /\ walk[At(Forwarded(s, c))] = "reached"
    BY <1>2, <1>6, <1>14
  <2> QED
    BY <1>7, <2>1
<1>15. ASSUME NEW t \in Behind(q, s, cs), w \in t.cond.holds, walk[At(t)] = "reached"
       PROVE  \E c \in ToSet(act) : Onward(q, w, walk, At(s), c.entry) = "reached"
  <2>1. PICK c \in K : t = Forwarded(s, c)
    BY <1>7
  <2>2. c \in ToSet(act) /\ Usable(q, s, c)
    BY <1>8, <1>15, <2>1
  <2> QED
    BY <1>6, <1>15, <2>1, <2>2
<1> QED
  BY <1>12, <1>13, <1>14, <1>15 DEF walk

\* And when it does not, the reasons given there or the states behind say why.
LEMMA ForwardExplains ==
    ASSUME DPInv, fib # <<>>, NEW q, q.to = q.dst, Disjoint(q.dst), NEW s, StateOK(s), ~Visited(s),
           ~Originates(s.node, q.dst), ~Denied(s.node, "ingress", s.peer, q),
           NEW w \in Worlds, w \in s.cond.holds, NEW cs, cs = SymbolicLookupFIBForPrefixSet(s.node, q.dst),
           NEW T, NEW M, Model(T, M), Fits(s.cond, T, M), \A c \in ToSet(cs) : Fits(c.cond, T, M),
           NEW out, out = Walk(q, w)[At(s)], out # "reached"
    PROVE  \/ Explains(NoRoute(s, cs), out, w)
           \/ \E c \in ToSet(cs) : Explains(CandidateReasons(q, s, c), out, w)
           \/ \E t \in Behind(q, s, cs) : w \in t.cond.holds /\ Walk(q, w)[At(t)] = out
<1> DEFINE act == Active(q, w, s.node)
           walk == Walk(q, w)
           res == Results(q, w, walk, At(s))
<1>1. net \in Nets /\ s.node \in Node
  BY DEF DPInv, IInv, StateOK
<1>2. IsSequence(act) /\ IsSequence(cs) /\ \A c : c \in ToSet(act) <=> c \in ToSet(cs) /\ w \in c.cond.holds
  BY <1>1, CandidatesActive
<1>3. Len(act) \in Nat /\ DOMAIN act = 1..Len(act) /\ ToSet(act) = {act[i] : i \in 1..Len(act)}
  BY <1>2, OwnElements
<1>4. /\ act = <<>> => out = "no_route"
      /\ act # <<>> => out = IF "reached" \in ToSet(res) THEN "reached" ELSE res[1]
  BY WalkTries
<1>5. ToSet(cs) = {cs[i] : i \in DOMAIN cs}
  BY DEF ToSet
<1>6. CASE act = <<>>
  <2> DEFINE conds == {cs[i].cond : i \in DOMAIN cs}
             all == OrAll(conds)
             none == Not(all)
             sc == s.cond
             pair == {sc, none}
  <2>1. ToSet(act) = {}
    BY <1>6, ElementsOf
  <2>2. \A c \in conds : Fits(c, T, M) /\ w \notin c.holds
    BY <1>2, <1>5, <2>1
  <2>3. PICK T1, M1, T2, M2, T3, M3 : Deeper(T1, M1, T, M) /\ Deeper(T2, M2, T1, M1) /\ Deeper(T3, M3, T2, M2)
    BY ThreeDeeper
  <2>4. Fits(sc, T, M) /\ w \in sc.holds /\ NoRoute(s, cs) = Reason("no_route", And(sc, none))
    BY DEF NoRoute
  <2> HIDE DEF conds, sc
  <2>5. Fits(all, T1, M1) /\ Fits(sc, T1, M1) /\ w \notin all.holds
    <3>1. w \notin all.holds
      BY <2>2, AndWorlds
    <3>2. Fits(sc, T1, M1) /\ Fits(all, T1, M1)
      BY <2>2, <2>3, <2>4 DEF Deeper
    <3> QED
      BY <3>1, <3>2
  <2> HIDE DEF all
  <2>6. Fits(none, T2, M2) /\ Fits(sc, T2, M2)
    BY <2>3, <2>5 DEF Deeper
  <2>7. w \in none.holds
    BY <2>5, AndWorlds
  <2> HIDE DEF none
  <2>8. \A x \in pair : Fits(x, T2, M2)
    BY <2>6
  <2>9. w \in And(sc, none).holds
    BY <2>4, <2>7, AndWorlds
  <2>10. And(sc, none) = AndAll(pair)
    BY DEF And
  <2> HIDE DEF pair
  <2>11. Fits(And(sc, none), T3, M3) /\ Model(T3, M3)
    BY <2>3, <2>8, <2>10 DEF Deeper
  <2>12. Explains(Reason("no_route", And(sc, none)), "no_route", w)
    BY <2>9, <2>11, ReasonGiven
  <2> QED
    BY <1>4, <1>6, <2>4, <2>12
<1>7. CASE act # <<>>
  <2> DEFINE c == act[1]
  <2>1. Len(act) > 0
    BY <1>2, <1>7, Positions
  <2> HIDE DEF act
  <2>2. 1 \in DOMAIN act /\ c \in ToSet(act)
    BY <1>3, <2>1
  <2>3. res = [i \in DOMAIN act |-> Onward(q, w, walk, At(s), act[i].entry)]
    BY DEF Results, At, act
  <2>4. res[1] = Onward(q, w, walk, At(s), c.entry)
    BY <2>2, <2>3
  <2> HIDE DEF c
  <2>5. out = Onward(q, w, walk, At(s), c.entry)
    BY <1>4, <1>7, <2>4
  <2>6. c \in ToSet(cs) /\ w \in c.cond.holds
    BY <1>2, <2>2
  <2>7. /\ Usable(q, s, c) /\ w \in Forwarded(s, c).cond.holds =>
              Onward(q, w, walk, At(s), c.entry) = walk[At(Forwarded(s, c))]
        /\ ~(Usable(q, s, c) /\ w \in Forwarded(s, c).cond.holds) =>
              /\ Onward(q, w, walk, At(s), c.entry) = Attempt(q, w, s.node, c.entry)
              /\ Attempt(q, w, s.node, c.entry) # "forward"
    BY <1>1, <2>6, OnwardForwarded
  <2>8. CASE Usable(q, s, c) /\ w \in Forwarded(s, c).cond.holds
    <3>1. Forwarded(s, c) \in Behind(q, s, cs)
      BY <2>6, <2>8 DEF Behind
    <3> QED
      BY <2>5, <2>7, <2>8, <3>1
  <2>9. CASE ~(Usable(q, s, c) /\ w \in Forwarded(s, c).cond.holds)
    <3>1. Fits(c.cond, T, M) /\ Attempt(q, w, s.node, c.entry) # "forward"
      BY <2>6, <2>7, <2>9
    <3>2. Explains(CandidateReasons(q, s, c), Attempt(q, w, s.node, c.entry), w)
      BY <1>1, <2>6, <3>1, CandidateExplained
    <3> QED
      BY <2>5, <2>6, <2>7, <2>9, <3>2
  <2> QED
    BY <2>8, <2>9
<1> QED
  BY <1>6, <1>7

---------------------------------------------------------------------------
(***************************************************************************)
(* The symbolic walk: what has been delivered, what has been explained and *)
(* what is still to be visited account for every outcome.                  *)
(***************************************************************************)
\* What has been delivered and given, and what is still to be visited,
\* account for the outcome o of the walk in world w.
Covered(walk, o, w, states, delivered, given) ==
    /\ o = "reached" <=> \/ \E c \in delivered : w \in c.holds
                         \/ \E s \in states : w \in s.cond.holds /\ walk[At(s)] = "reached"
    /\ o # "reached" => \/ Explains(given, o, w)
                        \/ \E s \in states : w \in s.cond.holds /\ walk[At(s)] = o

\* Visiting s loses nothing of what the walk meets there.
Accounts(walk, w, s, next, delivered, given) ==
    /\ w \in s.cond.holds /\ walk[At(s)] = "reached" <=>
          \/ \E c \in delivered : w \in c.holds
          \/ \E t \in next : w \in t.cond.holds /\ walk[At(t)] = "reached"
    /\ w \in s.cond.holds /\ walk[At(s)] # "reached" =>
          \/ Explains(given, walk[At(s)], w)
          \/ \E t \in next : w \in t.cond.holds /\ walk[At(t)] = walk[At(s)]

\* A sequence is its head and its tail.
LEMMA HeadAndTail ==
    ASSUME NEW s, IsSequence(s), s # <<>>
    PROVE  ToSet(s) = {Head(s)} \cup ToSet(Tail(s)) /\ IsSequence(Tail(s))
<1>1. Head(s) \in ToSet(s) /\ IsSequence(Tail(s)) /\ ToSet(Tail(s)) \subseteq ToSet(s)
  BY ElementsOf
<1>2. /\ Len(s) > 0 /\ Len(Tail(s)) = Len(s) - 1 /\ Head(s) = s[1]
      /\ \A i \in 1..(Len(s) - 1) : Tail(s)[i] = s[i + 1]
  BY Positions
<1>3. Len(s) \in Nat /\ ToSet(s) = {s[i] : i \in 1..Len(s)}
  BY OwnElements
<1>4. ToSet(Tail(s)) = {Tail(s)[i] : i \in 1..Len(Tail(s))}
  BY <1>1, OwnElements
<1>5. ASSUME NEW i \in 1..Len(s), i # 1 PROVE s[i] \in ToSet(Tail(s))
  <2>1. i - 1 \in 1..(Len(s) - 1) /\ (i - 1) + 1 = i
    BY <1>3, <1>5
  <2>2. Tail(s)[i - 1] = s[i]
    BY <1>2, <2>1
  <2> QED
    BY <1>2, <1>4, <2>1, <2>2
<1> QED
  BY <1>1, <1>2, <1>3, <1>5

\* A step of the symbolic walk keeps everything accounted for.
LEMMA VisitCovers ==
    ASSUME NEW walk, NEW o, NEW w, NEW states, NEW rest, NEW s, states = {s} \cup rest,
           NEW next, NEW delivered, NEW given, NEW more, NEW because,
           Covered(walk, o, w, states, delivered, given),
           Accounts(walk, w, s, next, more, because)
    PROVE  Covered(walk, o, w, next \cup rest, delivered \cup more, given \cup because)
<1>1. o = "reached" <=> \/ \E c \in delivered \cup more : w \in c.holds
                        \/ \E t \in next \cup rest : w \in t.cond.holds /\ walk[At(t)] = "reached"
  BY DEF Covered, Accounts
<1>2. o # "reached" => \/ Explains(given \cup because, o, w)
                       \/ \E t \in next \cup rest : w \in t.cond.holds /\ walk[At(t)] = o
  BY DEF Covered, Accounts, Explains
<1> QED
  BY <1>1, <1>2 DEF Covered

\* Where the walk of one packet ends at once.
LEMMA WalkEnds ==
    ASSUME DPInv, fib # <<>>, NEW q, NEW s, StateOK(s), NEW w \in Worlds, w \in s.cond.holds
    PROVE  /\ Visited(s) => Walk(q, w)[At(s)] = "loop"
           /\ ~Visited(s) /\ Originates(s.node, q.dst) => Walk(q, w)[At(s)] = "reached"
           /\ ~Visited(s) /\ ~Originates(s.node, q.dst) /\ Denied(s.node, "ingress", s.peer, q) =>
                 Walk(q, w)[At(s)] = "ingress_policy"
<1> DEFINE a == At(s)
           walk == Walk(q, w)
<1>1. net \in Nets /\ \A n \in Node : FIBOK(fib[n])
  BY DEF DPInv, IInv
<1>2. walk = [at \in States |-> WalkFrom(q, w, walk, at)]
  BY <1>1, WalkUnfolds
<1>3. a \in States
  BY PathVisits
<1>4. a[1] = s.node /\ a[2] = s.peer /\ a[3] = ToSet(Front(s.path))
  BY DEF At
<1>5. NodeUp(w, s.node)
  BY DEF StateOK, Up
<1>6. a[1] \in a[3] <=> Visited(s)
  BY <1>4 DEF Visited
<1> HIDE DEF a, walk
<1>7. walk[a] = WalkFrom(q, w, walk, a)
  BY <1>2, <1>3
<1> QED
  BY <1>4, <1>5, <1>6, <1>7 DEF WalkFrom, a, walk

\* For a destination that overlaps no other prefix, being at its origin is
\* being at an origin of a prefix that overlaps it.
LEMMA SameOrigins ==
    ASSUME NEW n, NEW p \in Prefix, Disjoint(p)
    PROVE  OriginatesPrefixSet(n, p) <=> Originates(n, p)
<1>1. \A o : Overlaps(o, p) <=> o = p
  BY WithinAssumption DEF Overlaps, Covers, Disjoint
<1> QED
  BY <1>1 DEF OriginatesPrefixSet, Originates

\* Visits that end there.
LEMMA VisitEnds ==
    ASSUME DPInv, fib # <<>>, NEW q, q.dst \in Prefix, Disjoint(q.dst), NEW s, StateOK(s),
           NEW T, NEW M, Model(T, M), Fits(s.cond, T, M), NEW w \in Worlds
    PROVE  /\ Key(s.cond) = Key(FalseCond) => Accounts(Walk(q, w), w, s, {}, {}, {})
           /\ Visited(s) => Accounts(Walk(q, w), w, s, {}, {}, Reason("loop", s.cond))
           /\ ~Visited(s) /\ OriginatesPrefixSet(s.node, q.dst) =>
                 Accounts(Walk(q, w), w, s, {}, {And(s.cond, NodeVar(s.node))}, {})
           /\ ~Visited(s) /\ ~OriginatesPrefixSet(s.node, q.dst) /\ Denied(s.node, "ingress", s.peer, q) =>
                 Accounts(Walk(q, w), w, s, {}, {}, Reason("ingress_policy", s.cond))
<1> DEFINE walk == Walk(q, w)
           here == walk[At(s)]
           sc == s.cond
<1>1. ASSUME w \in sc.holds
      PROVE  /\ Visited(s) => here = "loop"
             /\ ~Visited(s) /\ OriginatesPrefixSet(s.node, q.dst) => here = "reached"
             /\ ~Visited(s) /\ ~OriginatesPrefixSet(s.node, q.dst) /\ Denied(s.node, "ingress", s.peer, q) =>
                   here = "ingress_policy"
  <2>1. OriginatesPrefixSet(s.node, q.dst) <=> Originates(s.node, q.dst)
    BY SameOrigins
  <2> QED
    BY <1>1, <2>1, WalkEnds
<1>2. ASSUME NEW kind, w \in sc.holds PROVE Explains(Reason(kind, sc), kind, w)
  BY <1>2, ReasonGiven
<1>3. Key(sc) = Key(FalseCond) => sc.holds = {}
  BY FalseKey
<1>4. w \in And(sc, NodeVar(s.node)).holds <=> w \in sc.holds
  <2>1. w \in sc.holds => NodeUp(w, s.node)
    BY DEF StateOK, Up
  <2>2. \A n : w \in And(sc, NodeVar(n)).holds <=> w \in sc.holds /\ NodeUp(w, n)
    <3> HIDE DEF sc
    <3> QED
      BY AndWorlds
  <2> QED
    BY <2>1, <2>2
<1> HIDE DEF here, walk
<1>5. Accounts(walk, w, s, {}, {}, {}) <=> ~(w \in sc.holds)
  BY DEF Accounts, Explains, here
<1>6. ASSUME NEW because, w \in sc.holds => here # "reached" /\ Explains(because, here, w)
      PROVE  Accounts(walk, w, s, {}, {}, because)
  BY <1>6 DEF Accounts, here
<1>7. ASSUME NEW d, w \in d.holds <=> w \in sc.holds, w \in sc.holds => here = "reached"
      PROVE  Accounts(walk, w, s, {}, {d}, {})
  BY <1>7 DEF Accounts, here
<1>8. Key(sc) = Key(FalseCond) => Accounts(walk, w, s, {}, {}, {})
  BY <1>3, <1>5
<1>9. Visited(s) => Accounts(walk, w, s, {}, {}, Reason("loop", sc))
  BY <1>1, <1>2, <1>6
<1>10. ~Visited(s) /\ OriginatesPrefixSet(s.node, q.dst) => Accounts(walk, w, s, {}, {And(sc, NodeVar(s.node))}, {})
  BY <1>1, <1>4, <1>7
<1>11. ~Visited(s) /\ ~OriginatesPrefixSet(s.node, q.dst) /\ Denied(s.node, "ingress", s.peer, q) =>
          Accounts(walk, w, s, {}, {}, Reason("ingress_policy", sc))
  BY <1>1, <1>2, <1>6
<1> QED
  BY <1>8, <1>9, <1>10, <1>11 DEF walk

\* The reasons that ForwardToCandidates gives.
Given(q, s, cs) == NoRoute(s, cs) \cup UNION {CandidateReasons(q, s, cs[i]) : i \in DOMAIN cs}

\* What ForwardToCandidates does.
LEMMA VisitForwards ==
    ASSUME DPInv, fib # <<>>, NEW q, q.to = q.dst, q.dst \in Prefix, Disjoint(q.dst), NEW s, StateOK(s), ~Visited(s),
           ~OriginatesPrefixSet(s.node, q.dst), ~Denied(s.node, "ingress", s.peer, q),
           NEW cs, cs = SymbolicLookupFIBForPrefixSet(s.node, q.dst),
           NEW T, NEW M, Model(T, M), Fits(s.cond, T, M), \A c \in ToSet(cs) : Fits(c.cond, T, M),
           NEW w \in Worlds
    PROVE  Accounts(Walk(q, w), w, s, Behind(q, s, cs), {}, Given(q, s, cs))
<1> DEFINE walk == Walk(q, w)
           here == walk[At(s)]
           next == Behind(q, s, cs)
           because == Given(q, s, cs)
<1>1. ~Originates(s.node, q.dst) /\ net \in Nets /\ s.node \in Node
  BY SameOrigins DEF DPInv, IInv, StateOK
<1>2. ASSUME w \in s.cond.holds
      PROVE  here = "reached" <=> \E t \in next : w \in t.cond.holds /\ walk[At(t)] = "reached"
  BY <1>1, <1>2, ForwardReaches
<1>3. ASSUME w \in s.cond.holds, here # "reached"
      PROVE  \/ Explains(because, here, w)
             \/ \E t \in next : w \in t.cond.holds /\ walk[At(t)] = here
  <2>1. \/ Explains(NoRoute(s, cs), here, w)
        \/ \E c \in ToSet(cs) : Explains(CandidateReasons(q, s, c), here, w)
        \/ \E t \in next : w \in t.cond.holds /\ walk[At(t)] = here
    BY <1>1, <1>3, ForwardExplains
  <2>2. ASSUME NEW c \in ToSet(cs) PROVE CandidateReasons(q, s, c) \subseteq because
    BY DEF ToSet, Given
  <2>3. NoRoute(s, cs) \subseteq because
    BY DEF Given
  <2> HIDE DEF because, here, next
  <2>4. \A x : x \subseteq because /\ Explains(x, here, w) => Explains(because, here, w)
    BY DEF Explains
  <2> QED
    BY <2>1, <2>2, <2>3, <2>4
<1>4. ASSUME NEW t \in next, w \in t.cond.holds PROVE w \in s.cond.holds
  <2>1. PICK c : Usable(q, s, c) /\ t = Forwarded(s, c)
    BY DEF Behind
  <2> QED
    BY <1>1, <1>4, <2>1, ForwardedOK
<1> HIDE DEF walk, next, because
<1>5. Accounts(walk, w, s, next, {}, because)
  BY <1>2, <1>3, <1>4 DEF Accounts, here
<1> QED
  BY <1>5 DEF walk, next, because

\* One node originates the destination, with one prefix.
OneOrigin(q) == \A x, y \in OriginForIP(q.to) : x = y

\* What PacketReachable answers when x is the origin.
Answer(q, x, w) ==
    IF NodeUp(w, q.from) /\ NodeUp(w, x[1]) THEN Walk(q, w)[<<q.from, 0, {}>>] ELSE "node_failed"

\* The conditions of the routes and of the states to visit are made of
\* common terms.
Common(table, left) ==
    \E T, M : Model(T, M) /\ AllFit(Held(table), T, M) /\ \A s \in ToSet(left) : Fits(s.cond, T, M)

\* A query and the states it has still to visit.
Asked(q, fibs, table, left) ==
    /\ fibs # <<>>
    /\ q = [from |-> q.from, to |-> q.to, protocol |-> q.protocol, dst |-> q.dst]
    /\ q.from \in Node /\ q.to \in Prefix /\ q.dst \in Prefix /\ Covers(q.dst, q.to)
    /\ IsSequence(left) /\ \A s \in ToSet(left) : StateOK(s)
    /\ Common(table, left)

\* The result so far and the states to visit account for the outcome in
\* every world.
Accounted(q, left, delivered, given) ==
    /\ OriginForIP(q.to) = {} =>
          left = <<>> /\ delivered = {} /\ \A w \in Worlds : Explains(given, "destination_not_advertised", w)
    /\ Disjoint(q.dst) /\ OneOrigin(q) =>
          \A x \in OriginForIP(q.to) :
              x[2] = q.dst /\ \A w \in Worlds : Covered(Walk(q, w), Answer(q, x, w), w, ToSet(left), delivered, given)

\* The invariant of a query.
WInv ==
    /\ query = {} => work = <<>> /\ paths = {} /\ reasons = {}
    /\ \A q \in query : query = {q} /\ Asked(q, fib, rib, work) /\ Accounted(q, work, paths, reasons)

\* The origin's own prefix lies around the address.
LEMMA OriginFacts ==
    ASSUME net \in Nets, NEW a, NEW x \in OriginForIP(a)
    PROVE  /\ x[1] \in Node /\ x[2] \in Prefix /\ Covers(x[2], a)
           /\ x[2] \in ToSet(NodePrefixes(x[1]))
<1> DEFINE n == x[1]
           c == net.routes[n]
           K == {r \in ToSet(c) : r.kind = "connected"}
           g == [i \in DOMAIN c |-> IF c[i] \in K THEN <<c[i]>> ELSE <<>>]
           conn == FlattenSeq(g)
           own == [i \in DOMAIN conn |-> conn[i].prefix]
           ps == net.networks[n] \o own
           L == {p \in ToSet(ps) : Covers(p, a)}
           h == [i \in DOMAIN ps |-> IF ps[i] \in L THEN <<ps[i]>> ELSE <<>>]
           around == FlattenSeq(h)
<1>1. n \in Node /\ x[2] \in Prefix
  BY DEF OriginForIP
<1>2. IsSequence(c) /\ IsSequence(net.networks[n])
  BY <1>1, NetsAssumption DEF IsSequence
<1>3. NodePrefixes(n) = ps
  <2>1. \A i \in DOMAIN c : c[i] \in ToSet(c)
    BY DEF ToSet
  <2>2. g = [i \in DOMAIN c |-> IF c[i].kind = "connected" THEN <<c[i]>> ELSE <<>>]
    BY <2>1
  <2> QED
    BY <2>2 DEF NodePrefixes, Only
<1>4. g = [i \in DOMAIN c |-> IF c[i] \in K THEN <<c[i]>> ELSE <<>>]
  OBVIOUS
<1> HIDE DEF c, K, g
<1>5. IsSequence(conn)
  BY <1>2, <1>4, OnlyElements
<1> HIDE DEF conn
<1>6. IsSequence(own)
  <2>1. Len(conn) \in Nat /\ DOMAIN conn = 1..Len(conn)
    BY <1>5, OwnElements
  <2>2. own = [i \in 1..Len(conn) |-> own[i]]
    BY <2>1
  <2> HIDE DEF own
  <2> QED
    BY <2>1, <2>2, FunctionSequence
<1> HIDE DEF own
<1>7. IsSequence(ps)
  BY <1>2, <1>6, SequenceBasics
<1>8. around # <<>> /\ x[2] = Head(around)
  <2>1. \A i \in DOMAIN ps : ps[i] \in ToSet(ps)
    BY DEF ToSet
  <2>2. h = [i \in DOMAIN ps |-> IF Covers(ps[i], a) THEN <<ps[i]>> ELSE <<>>]
    BY <2>1
  <2> HIDE DEF ps
  <2> QED
    BY <1>3, <2>2 DEF OriginForIP, Only
<1>9. h = [i \in DOMAIN ps |-> IF ps[i] \in L THEN <<ps[i]>> ELSE <<>>]
  OBVIOUS
<1> HIDE DEF ps, h
<1>10. ToSet(ps) \cap L = L /\ L \subseteq ToSet(ps) /\ \A p \in L : Covers(p, a)
  OBVIOUS
<1> HIDE DEF L
<1>11. IsSequence(around) /\ ToSet(around) = L
  BY <1>7, <1>9, <1>10, OnlyElements
<1> HIDE DEF around
<1>12. Head(around) \in ToSet(around)
  BY <1>8, <1>11, ElementsOf
<1>13. x[2] \in L
  BY <1>8, <1>11, <1>12
<1> QED
  BY <1>1, <1>3, <1>10, <1>13

\* A destination that overlaps no other prefix is asked for by its name.
LEMMA SameAddress ==
    ASSUME NEW q, q.to \in Prefix, Covers(q.dst, q.to), Disjoint(q.dst)
    PROVE  q.to = q.dst
BY DEF Covers, Disjoint

\* What is accounted for depends on the network and the FIBs only.
LEMMA AccountedStable ==
    ASSUME UNCHANGED <<net, fib>>, NEW CONSTANT q, Accounted(q, work', paths', reasons')
    PROVE  Accounted(q, work, paths, reasons)'
<1>1. OriginForIP(q.to)' = OriginForIP(q.to)
  BY OriginStable
<1>2. OneOrigin(q)' <=> OneOrigin(q)
  BY <1>1 DEF OneOrigin
<1>3. ASSUME NEW CONSTANT x, NEW CONSTANT w PROVE Answer(q, x, w)' = Answer(q, x, w) /\ Walk(q, w)' = Walk(q, w)
  BY WalkStable DEF Answer
<1> QED
  BY <1>1, <1>2, <1>3 DEF Accounted

\* Leaving the topmost state keeps the invariant if nothing is lost there.
LEMMA VisitStep ==
    ASSUME DPInv, WInv, NEW q \in query, work # <<>>, NEW next, NEW delivered, NEW because,
           Visit(next, delivered, because), IsSequence(next), \A t \in ToSet(next) : StateOK(t),
           \E T, M : /\ Model(T, M) /\ AllFit(Held(rib), T, M)
                     /\ \A t \in ToSet(next) \cup ToSet(Tail(work)) : Fits(t.cond, T, M),
           Disjoint(q.dst) =>
              \A w \in Worlds : Accounts(Walk(q, w), w, Head(work), ToSet(next), delivered, because)
    PROVE  WInv'
<1> DEFINE s == Head(work)
           rest == ToSet(Tail(work))
<1>1. query = {q} /\ Asked(q, fib, rib, work) /\ Accounted(q, work, paths, reasons)
  BY DEF WInv
<1>2. /\ work' = next \o Tail(work) /\ paths' = paths \cup delivered /\ reasons' = reasons \cup because
      /\ net' = net /\ rib' = rib /\ fib' = fib /\ query' = query
  BY DEF Visit, vars
<1>3. IsSequence(work) /\ \A t \in ToSet(work) : StateOK(t)
  BY <1>1 DEF Asked
<1>4. ToSet(work) = {s} \cup rest /\ IsSequence(Tail(work))
  BY <1>3, HeadAndTail
<1>5. IsSequence(work') /\ ToSet(work') = ToSet(next) \cup rest
  BY <1>2, <1>4, SequenceBasics, ElementsOf
<1>6. Asked(q, fib, rib, work')
  <2>1. \A t \in ToSet(work') : StateOK(t)
    BY <1>3, <1>4, <1>5
  <2>2. Common(rib, work')
    BY <1>5 DEF Common
  <2> QED
    BY <1>1, <1>5, <2>1, <2>2 DEF Asked
<1>7. Accounted(q, work', paths', reasons')
  <2>1. OriginForIP(q.to) # {}
    BY <1>1 DEF Accounted
  <2>2. ASSUME Disjoint(q.dst), OneOrigin(q), NEW x \in OriginForIP(q.to)
        PROVE  x[2] = q.dst /\ \A w \in Worlds : Covered(Walk(q, w), Answer(q, x, w), w, ToSet(work'), paths', reasons')
    <3>1. x[2] = q.dst /\ \A w \in Worlds : Covered(Walk(q, w), Answer(q, x, w), w, ToSet(work), paths, reasons)
      BY <1>1, <2>2 DEF Accounted
    <3>2. ASSUME NEW w \in Worlds
          PROVE  Covered(Walk(q, w), Answer(q, x, w), w, ToSet(next) \cup rest, paths \cup delivered, reasons \cup because)
      <4>1. Accounts(Walk(q, w), w, s, ToSet(next), delivered, because)
        BY <2>2
      <4>2. Covered(Walk(q, w), Answer(q, x, w), w, ToSet(work), paths, reasons)
        BY <3>1
      <4> HIDE DEF s, rest
      <4> QED
        BY <1>4, <4>1, <4>2, VisitCovers
    <3> QED
      BY <1>2, <1>5, <3>1, <3>2
  <2> QED
    BY <2>1, <2>2 DEF Accounted
<1>8. Accounted(q, work, paths, reasons)'
  BY <1>2, <1>7, AccountedStable
<1>9. Asked(q, fib', rib', work')
  BY <1>2, <1>6
<1>10. query' = {q}
  BY <1>1, <1>2
<1> QED
  BY <1>8, <1>9, <1>10 DEF WInv

\* The conditions of the states behind the candidates.
LEMMA BehindFits ==
    ASSUME net \in Nets, NEW q, NEW s, StateOK(s), ~Visited(s), NEW cs,
           NEW T, NEW M, Model(T, M), Fits(s.cond, T, M), \A c \in ToSet(cs) : Fits(c.cond, T, M),
           NEW T1, NEW M1, NEW T2, NEW M2, Deeper(T1, M1, T, M), Deeper(T2, M2, T1, M1),
           NEW t \in Behind(q, s, cs)
    PROVE  StateOK(t) /\ Fits(t.cond, T2, M2)
<1>1. PICK c \in ToSet(cs) : Usable(q, s, c) /\ t = Forwarded(s, c)
  BY DEF Behind
<1> DEFINE nh == c.entry.nextHop
           a == s.cond
           b == c.cond
           l == LinkVar({s.node, nh})
           three == {a, b, l}
<1>2. StateOK(t) /\ t.cond = AndAll(three)
  BY <1>1, ForwardedOK
<1>3. nh \in Node /\ s.node \in Node
  BY <1>1, LinkEnds DEF Usable
<1>4. Fits(a, T1, M1) /\ Fits(b, T1, M1) /\ Fits(l, T1, M1)
  BY <1>3 DEF Deeper
<1> HIDE DEF a, b, l
<1>5. \A x \in three : Fits(x, T1, M1)
  BY <1>4
<1> HIDE DEF three
<1> QED
  BY <1>2, <1>5 DEF Deeper

\* The candidates are a sequence.
LEMMA PrefixSetSequence ==
    ASSUME DPInv, fib # <<>>, NEW n \in Node, NEW p
    PROVE  IsSequence(SymbolicLookupFIBForPrefixSet(n, p))
<1> DEFINE f == fib[n]
           K == {e \in ToSet(f) : Overlaps(e.prefix, p)}
           g == [i \in DOMAIN f |-> IF f[i] \in K THEN <<f[i]>> ELSE <<>>]
<1>1. IsSequence(f)
  BY DEF DPInv, FIBOK
<1>2. \A i \in DOMAIN f : f[i] \in ToSet(f)
  BY DEF ToSet
<1>3. g = [i \in DOMAIN f |-> IF Overlaps(f[i].prefix, p) THEN <<f[i]>> ELSE <<>>]
  BY <1>2
<1>4. SymbolicLookupFIBForPrefixSet(n, p) = SymbolicLookup(FlattenSeq(g))
  BY <1>3 DEF SymbolicLookupFIBForPrefixSet, Only
<1>5. g = [i \in DOMAIN f |-> IF f[i] \in K THEN <<f[i]>> ELSE <<>>]
  OBVIOUS
<1> HIDE DEF f, g, K
<1>6. IsSequence(FlattenSeq(g))
  BY <1>1, <1>5, OnlyElements
<1> QED
  BY <1>4, <1>6, LookupSequence

\* A step of symbolicForward.
LEMMA ForwardStep ==
    ASSUME DPInv, WInv, SymbolicForward
    PROVE  WInv'
<1>1. work # <<>> /\ net \in Nets
  BY DEF SymbolicForward, DPInv, IInv
<1>2. PICK q \in query :
         LET s == Head(work)
         IN  IF Key(s.cond) = Key(FalseCond) THEN Visit(<<>>, {}, {})
             ELSE IF Visited(s) THEN Visit(<<>>, {}, Reason("loop", s.cond))
             ELSE IF OriginatesPrefixSet(s.node, q.dst)
               THEN Visit(<<>>, {And(s.cond, NodeVar(s.node))}, {})
             ELSE IF Len(s.path) > Cardinality(Node) THEN Visit(<<>>, {}, {})
             ELSE IF Denied(s.node, "ingress", s.peer, q)
               THEN Visit(<<>>, {}, Reason("ingress_policy", s.cond))
             ELSE ForwardToCandidates(q, s)
  BY DEF SymbolicForward
<1> DEFINE s == Head(work)
           n == s.node
           key == Key(s.cond) = Key(FalseCond)
           again == Visited(s)
           home == OriginatesPrefixSet(n, q.dst)
           long == Len(s.path) > Cardinality(Node)
           denied == Denied(n, "ingress", s.peer, q)
<1>3. query = {q} /\ Asked(q, fib, rib, work)
  BY DEF WInv
<1>4. /\ fib # <<>> /\ q.to \in Prefix /\ q.dst \in Prefix /\ Covers(q.dst, q.to) /\ IsSequence(work)
      /\ \A t \in ToSet(work) : StateOK(t)
  BY <1>3 DEF Asked
<1>5. ToSet(work) = {s} \cup ToSet(Tail(work))
  BY <1>1, <1>4, HeadAndTail
<1>6. StateOK(s) /\ n \in Node
  BY <1>4, <1>5 DEF StateOK
<1>7. PICK T, M : Model(T, M) /\ AllFit(Held(rib), T, M) /\ \A t \in ToSet(work) : Fits(t.cond, T, M)
  BY <1>3 DEF Asked, Common
<1>8. Fits(s.cond, T, M) /\ \A t \in ToSet(Tail(work)) : Fits(t.cond, T, M)
  BY <1>5, <1>7
<1>9. IsSequence(<<>>) /\ ToSet(<<>>) = {}
  BY SequenceBasics, ElementsOf
<1>10. ASSUME NEW delivered, NEW because, Visit(<<>>, delivered, because),
             Disjoint(q.dst) => \A w \in Worlds : Accounts(Walk(q, w), w, s, {}, delivered, because)
      PROVE  WInv'
  <2> DEFINE none == <<>>
  <2>1. IsSequence(none) /\ ToSet(none) = {} /\ Visit(none, delivered, because)
    BY <1>9, <1>10
  <2> HIDE DEF none
  <2>2. \A t \in ToSet(none) : StateOK(t)
    BY <2>1
  <2>3. \E TT, MM : /\ Model(TT, MM) /\ AllFit(Held(rib), TT, MM)
                    /\ \A t \in ToSet(none) \cup ToSet(Tail(work)) : Fits(t.cond, TT, MM)
    BY <1>7, <1>8, <2>1
  <2>4. Disjoint(q.dst) => \A w \in Worlds : Accounts(Walk(q, w), w, Head(work), ToSet(none), delivered, because)
    BY <1>10, <2>1
  <2> QED
    BY <1>1, <2>1, <2>2, <2>3, <2>4, VisitStep
<1>11. ASSUME Disjoint(q.dst), NEW w \in Worlds
       PROVE  /\ key => Accounts(Walk(q, w), w, s, {}, {}, {})
              /\ again => Accounts(Walk(q, w), w, s, {}, {}, Reason("loop", s.cond))
              /\ ~again /\ home => Accounts(Walk(q, w), w, s, {}, {And(s.cond, NodeVar(n))}, {})
              /\ ~again /\ ~home /\ denied => Accounts(Walk(q, w), w, s, {}, {}, Reason("ingress_policy", s.cond))
  <2> HIDE DEF s
  <2> QED
    BY <1>4, <1>6, <1>7, <1>8, <1>11, VisitEnds
<1>12. ~again => ~long
  BY <1>6, PathVisits DEF Visited
<1>13. \/ key /\ Visit(<<>>, {}, {})
       \/ again /\ Visit(<<>>, {}, Reason("loop", s.cond))
       \/ ~again /\ home /\ Visit(<<>>, {And(s.cond, NodeVar(n))}, {})
       \/ ~again /\ ~home /\ denied /\ Visit(<<>>, {}, Reason("ingress_policy", s.cond))
       \/ ~again /\ ~home /\ ~denied /\ ForwardToCandidates(q, s)
  <2> HIDE DEF s
  <2> QED
    BY <1>2, <1>12 DEF s
<1> HIDE DEF s
<1>14. CASE key /\ Visit(<<>>, {}, {})
  BY <1>10, <1>11, <1>14
<1>15. CASE again /\ Visit(<<>>, {}, Reason("loop", s.cond))
  BY <1>10, <1>11, <1>15
<1>16. CASE ~again /\ home /\ Visit(<<>>, {And(s.cond, NodeVar(n))}, {})
  BY <1>10, <1>11, <1>16
<1>17. CASE ~again /\ ~home /\ denied /\ Visit(<<>>, {}, Reason("ingress_policy", s.cond))
  BY <1>10, <1>11, <1>17
<1>18. CASE ~again /\ ~home /\ ~denied /\ ForwardToCandidates(q, s)
  <2> DEFINE cs == SymbolicLookupFIBForPrefixSet(n, q.dst)
             usable == Only(cs, LAMBDA c : Usable(q, s, c))
             next == [i \in DOMAIN usable |-> Forwarded(s, usable[i])]
             because == Given(q, s, cs)
  <2>1. Visit(next, {}, because)
    BY <1>18 DEF ForwardToCandidates, Given
  <2>2. IsSequence(cs)
    BY <1>4, <1>6, PrefixSetSequence
  <2>3. cs = SymbolicLookupFIBForPrefixSet(s.node, q.dst)
    OBVIOUS
  <2> HIDE DEF cs
  <2>4. IsSequence(next) /\ ToSet(next) = Behind(q, s, cs)
    BY <2>2, NextStates
  <2> HIDE DEF next, because
  <2>5. PICK T1, M1, T2, M2, T3, M3 : Chain(T1, M1, T2, M2, T3, M3, T, M)
    BY <1>7, ThreeDeeper DEF Chain
  <2>6. Deeper(T1, M1, T, M) /\ Deeper(T2, M2, T1, M1) /\ Deeper(T3, M3, T2, M2) /\ Model(T3, M3)
    BY <2>5 DEF Chain, Deeper
  <2>7. \A c \in ToSet(cs) : Fits(c.cond, T3, M3)
    BY <1>4, <1>6, <1>7, <2>5, LookupFits DEF cs
  <2>8. \A c : Fits(c, T, M) => Fits(c, T3, M3)
    BY <2>6 DEF Deeper
  <2>9. PICK T4, M4, T5, M5, T6, M6 : Deeper(T4, M4, T3, M3) /\ Deeper(T5, M5, T4, M4) /\ Deeper(T6, M6, T5, M5)
    BY <2>6, ThreeDeeper
  <2>10. \A c : Fits(c, T3, M3) => Fits(c, T5, M5)
    BY <2>9 DEF Deeper
  <2>11. Fits(s.cond, T3, M3)
    BY <1>8, <2>8
  <2>12. \A t \in ToSet(next) : StateOK(t) /\ Fits(t.cond, T5, M5)
    BY <1>1, <1>6, <1>18, <2>4, <2>6, <2>7, <2>9, <2>11, BehindFits
  <2>13. AllFit(Held(rib), T5, M5) /\ Model(T5, M5)
    BY <1>7, <2>8, <2>9, <2>10 DEF AllFit, RouteFits, Deeper
  <2>14. \A t \in ToSet(next) \cup ToSet(Tail(work)) : Fits(t.cond, T5, M5)
    BY <1>8, <2>8, <2>10, <2>12
  <2>15. ASSUME Disjoint(q.dst), NEW w \in Worlds
         PROVE  Accounts(Walk(q, w), w, s, ToSet(next), {}, because)
    <3>1. q.to = q.dst
      BY <1>4, <2>15, SameAddress
    <3>2. Accounts(Walk(q, w), w, s, Behind(q, s, cs), {}, Given(q, s, cs))
      <4>1. ~Visited(s) /\ ~OriginatesPrefixSet(s.node, q.dst) /\ ~Denied(s.node, "ingress", s.peer, q)
        BY <1>18
      <4>2. fib # <<>> /\ q.dst \in Prefix /\ StateOK(s) /\ Model(T3, M3) /\ Disjoint(q.dst)
        BY <1>4, <1>6, <2>6, <2>15
      <4> HIDE DEF usable, n, key, again, home, long, denied
      <4> QED
        BY <2>7, <2>11, <2>3, <3>1, <4>1, <4>2, VisitForwards
    <3> QED
      BY <2>4, <3>2 DEF because
  <2>16. \E TT, MM : /\ Model(TT, MM) /\ AllFit(Held(rib), TT, MM)
                     /\ \A t \in ToSet(next) \cup ToSet(Tail(work)) : Fits(t.cond, TT, MM)
    BY <2>13, <2>14
  <2>17. Disjoint(q.dst) => \A w \in Worlds : Accounts(Walk(q, w), w, Head(work), ToSet(next), {}, because)
    BY <2>15 DEF s
  <2>18. \A t \in ToSet(next) : StateOK(t)
    BY <2>12
  <2> QED
    BY <1>1, <2>1, <2>4, <2>16, <2>17, <2>18, VisitStep
<1> QED
  BY <1>13, <1>14, <1>15, <1>16, <1>17, <1>18

\* The query's origins that are down.
LEMMA DownExplained ==
    ASSUME NEW T, NEW M, Model(T, M), NEW from \in Node, NEW n \in Node, NEW dst, NEW w \in Worlds,
           ~NodeUp(w, n), n = from \/ OriginatesPrefixSet(n, dst)
    PROVE  Explains(SourceOrDestinationDown(from, dst), "node_failed", w)
<1> DEFINE v == NodeVar(n)
           d == Not(v)
<1>1. PICK T1, M1, T2, M2, T3, M3 : Deeper(T1, M1, T, M) /\ Deeper(T2, M2, T1, M1) /\ Deeper(T3, M3, T2, M2)
  BY ThreeDeeper
<1>2. Fits(v, T1, M1) /\ w \notin v.holds
  BY <1>1, AndWorlds DEF Deeper
<1>3. Reason("node_failed", d) \subseteq SourceOrDestinationDown(from, dst)
  BY DEF SourceOrDestinationDown
<1> HIDE DEF v
<1>4. Fits(d, T2, M2) /\ Model(T2, M2)
  BY <1>1, <1>2 DEF Deeper
<1>5. w \in d.holds
  BY <1>2, AndWorlds
<1> HIDE DEF d
<1>6. Explains(Reason("node_failed", d), "node_failed", w)
  BY <1>4, <1>5, ReasonGiven
<1> QED
  BY <1>3, <1>6 DEF Explains

\* A query starts at its source.
LEMMA StartState ==
    ASSUME NEW from \in Node, NEW n \in Node,
           NEW s, s = [node |-> from, peer |-> 0, path |-> <<from>>, cond |-> And(NodeVar(from), NodeVar(n))]
    PROVE  /\ StateOK(s) /\ At(s) = <<from, 0, {}>>
           /\ \A w \in Worlds : w \in s.cond.holds <=> NodeUp(w, from) /\ NodeUp(w, n)
<1> DEFINE path == <<from>>
           c == And(NodeVar(from), NodeVar(n))
<1>1. s.node = from /\ s.peer = 0 /\ s.path = path /\ s.cond = c
  OBVIOUS
<1>2. IsSequence(path) /\ ToSet(path) = {from} /\ path # <<>> /\ Last(path) = from /\ Front(path) = <<>>
  BY SequenceBasics, ElementsOf, LastAndFront
<1>3. Len(path) = 1 /\ ToSet(Front(path)) = {} /\ Cardinality({}) = 0
  BY <1>2, ElementsOf, FS_EmptySet
<1>4. \A w \in Worlds : w \in c.holds <=> NodeUp(w, from) /\ NodeUp(w, n)
  <2> SUFFICES ASSUME NEW w \in Worlds PROVE w \in c.holds <=> NodeUp(w, from) /\ NodeUp(w, n)
    OBVIOUS
  <2> QED
    BY AndWorlds
<1>5. c.holds \subseteq Worlds
  BY DEF And, AndAll
<1> HIDE DEF path, c
<1>6. s.cond.holds \subseteq Up(s.node)
  BY <1>1, <1>4, <1>5 DEF Up
<1>7. Cardinality(ToSet(Front(s.path))) = Len(s.path) - 1
  BY <1>1, <1>3
<1>8. StateOK(s)
  BY <1>1, <1>2, <1>6, <1>7 DEF StateOK
<1>9. At(s) = <<from, 0, {}>>
  BY <1>1, <1>3 DEF At
<1> QED
  BY <1>1, <1>4, <1>8, <1>9

\* A query is asked.
LEMMA AskStep ==
    ASSUME DPInv, WInv, SymbolicPacketReachability
    PROVE  WInv'
<1>1. /\ fib # <<>> /\ query = {} /\ paths = {} /\ net \in Nets
      /\ UNCHANGED vars /\ fib' = fib /\ paths' = paths /\ net' = net /\ rib' = rib
  BY DEF SymbolicPacketReachability, Ready, WInv, DPInv, IInv, vars
<1>2. PICK from \in Node, a \in Addr, protocol \in Protocol : \E x \in OriginForIP(a) :
         /\ query' = {[from |-> from, to |-> a, protocol |-> protocol, dst |-> x[2]]}
         /\ work' = <<[node |-> from, peer |-> 0, path |-> <<from>>,
                       cond |-> And(NodeVar(from), NodeVar(x[1]))]>>
         /\ reasons' = SourceOrDestinationDown(from, x[2])
  BY DEF SymbolicPacketReachability
<1>3. PICK x \in OriginForIP(a) :
         /\ query' = {[from |-> from, to |-> a, protocol |-> protocol, dst |-> x[2]]}
         /\ work' = <<[node |-> from, peer |-> 0, path |-> <<from>>,
                       cond |-> And(NodeVar(from), NodeVar(x[1]))]>>
         /\ reasons' = SourceOrDestinationDown(from, x[2])
  BY <1>2
<1> DEFINE q == [from |-> from, to |-> a, protocol |-> protocol, dst |-> x[2]]
           c == And(NodeVar(from), NodeVar(x[1]))
           s == [node |-> from, peer |-> 0, path |-> <<from>>, cond |-> c]
<1>4. x[1] \in Node /\ x[2] \in Prefix /\ Covers(x[2], a) /\ x[2] \in ToSet(NodePrefixes(x[1]))
  BY <1>1, OriginFacts
<1>5. /\ q.from = from /\ q.to = a /\ q.protocol = protocol /\ q.dst = x[2] /\ query' = {q} /\ work' = <<s>>
      /\ q = [from |-> q.from, to |-> q.to, protocol |-> q.protocol, dst |-> q.dst] /\ s.cond = c
  BY <1>3
<1>6. /\ StateOK(s) /\ At(s) = <<from, 0, {}>>
      /\ \A w \in Worlds : w \in s.cond.holds <=> NodeUp(w, from) /\ NodeUp(w, x[1])
  BY <1>4, StartState
<1>7. PICK T, M : Model(T, M) /\ AllFit(RoutesOf(rib, stack, todo), T, M)
  BY DEF DPInv, KInv, Told
<1>8. AllFit(Held(rib), T, M)
  BY <1>7 DEF RoutesOf, AllFit
<1> HIDE DEF q, s
<1>9. IsSequence(work') /\ ToSet(work') = {s}
  BY <1>5, SequenceBasics, ElementsOf
<1>10. Common(rib, work')
  <2>1. PICK T1, M1, T2, M2, T3, M3 : Deeper(T1, M1, T, M) /\ Deeper(T2, M2, T1, M1) /\ Deeper(T3, M3, T2, M2)
    BY <1>7, ThreeDeeper
  <2> DEFINE pair == {NodeVar(from), NodeVar(x[1])}
  <2>2. Fits(NodeVar(from), T1, M1) /\ Fits(NodeVar(x[1]), T1, M1)
    BY <1>4, <2>1 DEF Deeper
  <2>3. \A d \in pair : Fits(d, T1, M1)
    BY <2>2
  <2>4. c = AndAll(pair)
    BY DEF And
  <2> HIDE DEF pair, c
  <2>5. Fits(c, T2, M2) /\ Model(T2, M2)
    BY <2>1, <2>3, <2>4 DEF Deeper
  <2>6. AllFit(Held(rib), T1, M1)
    BY <1>8, <2>1, DeeperRoutes
  <2>7. AllFit(Held(rib), T2, M2)
    BY <2>1, <2>6, DeeperRoutes
  <2> QED
    BY <1>5, <1>9, <2>5, <2>7 DEF Common
<1>11. Asked(q, fib, rib, work')
  <2>1. a \in Prefix
    BY AddrAssumption
  <2> QED
    BY <1>1, <1>4, <1>5, <1>6, <1>9, <1>10, <2>1 DEF Asked
<1>12. Accounted(q, work', paths', reasons')
  <2>1. x \in OriginForIP(q.to)
    BY <1>5
  <2>2. ASSUME Disjoint(q.dst), OneOrigin(q), NEW y \in OriginForIP(q.to)
        PROVE  y[2] = q.dst /\ \A w \in Worlds : Covered(Walk(q, w), Answer(q, y, w), w, ToSet(work'), paths', reasons')
    <3>1. y = x
      BY <2>1, <2>2 DEF OneOrigin
    <3>2. ASSUME NEW w \in Worlds PROVE Covered(Walk(q, w), Answer(q, x, w), w, {s}, {}, reasons')
      <4> DEFINE walk == Walk(q, w)
                 o == Answer(q, x, w)
      <4>1. CASE NodeUp(w, from) /\ NodeUp(w, x[1])
        <5>1. w \in s.cond.holds /\ o = walk[At(s)]
          BY <1>5, <1>6, <4>1 DEF Answer
        <5> HIDE DEF o, walk
        <5>2. Covered(walk, o, w, {s}, {}, reasons')
          BY <5>1 DEF Covered
        <5> QED
          BY <5>2 DEF o, walk
      <4>2. CASE ~(NodeUp(w, from) /\ NodeUp(w, x[1]))
        <5>1. w \notin s.cond.holds /\ o = "node_failed"
          BY <1>5, <1>6, <4>2 DEF Answer
        <5>2. OriginatesPrefixSet(x[1], x[2])
          BY <1>4 DEF OriginatesPrefixSet, Overlaps, Covers
        <5>3. ~NodeUp(w, from) => Explains(reasons', "node_failed", w)
          BY <1>3, <1>7, DownExplained
        <5>4. ~NodeUp(w, x[1]) => Explains(reasons', "node_failed", w)
          BY <1>3, <1>4, <1>7, <5>2, DownExplained
        <5> HIDE DEF o, walk
        <5>5. Covered(walk, o, w, {s}, {}, reasons')
          BY <4>2, <5>1, <5>3, <5>4 DEF Covered
        <5> QED
          BY <5>5 DEF o, walk
      <4> QED
        BY <4>1, <4>2
    <3> QED
      BY <1>1, <1>5, <1>9, <3>1, <3>2
  <2> QED
    BY <2>1, <2>2 DEF Accounted
<1>13. Accounted(q, work, paths, reasons)'
  BY <1>1, <1>12, AccountedStable
<1> QED
  BY <1>1, <1>5, <1>11, <1>13 DEF WInv

\* A query for an address that nobody originates is answered at once.
LEMMA NotAdvertisedStep ==
    ASSUME DPInv, WInv, DestinationNotAdvertised
    PROVE  WInv'
<1>1. /\ fib # <<>> /\ query = {} /\ work = <<>> /\ paths = {} /\ net \in Nets
      /\ UNCHANGED vars /\ fib' = fib /\ work' = work /\ paths' = paths /\ net' = net /\ rib' = rib
      /\ reasons' = Reason("destination_not_advertised", TrueCond)
  BY DEF DestinationNotAdvertised, Ready, WInv, DPInv, IInv, vars
<1>2. PICK from \in Node, a \in Addr, protocol \in Protocol :
         /\ OriginForIP(a) = {}
         /\ query' = {[from |-> from, to |-> a, protocol |-> protocol, dst |-> a]}
  BY DEF DestinationNotAdvertised
<1> DEFINE q == [from |-> from, to |-> a, protocol |-> protocol, dst |-> a]
<1>3. /\ q.from = from /\ q.to = a /\ q.protocol = protocol /\ q.dst = a /\ query' = {q}
      /\ q = [from |-> q.from, to |-> q.to, protocol |-> q.protocol, dst |-> q.dst]
  BY <1>2
<1> HIDE DEF q
<1>4. IsSequence(work') /\ ToSet(work') = {}
  BY <1>1, SequenceBasics, ElementsOf
<1>5. PICK T, M : Model(T, M) /\ AllFit(RoutesOf(rib, stack, todo), T, M)
  BY DEF DPInv, KInv, Told
<1>6. AllFit(Held(rib), T, M)
  BY <1>5 DEF RoutesOf, AllFit
<1>7. Common(rib, work')
  BY <1>4, <1>5, <1>6 DEF Common
<1>8. Asked(q, fib, rib, work')
  BY <1>1, <1>3, <1>4, <1>7, AddrAssumption DEF Asked, Covers
<1>9. ASSUME NEW w \in Worlds PROVE Explains(reasons', "destination_not_advertised", w)
  <2>1. PICK T1, M1, T2, M2, T3, M3 : Deeper(T1, M1, T, M) /\ Deeper(T2, M2, T1, M1) /\ Deeper(T3, M3, T2, M2)
    BY <1>5, ThreeDeeper
  <2>2. Model(T1, M1) /\ Fits(TrueCond, T1, M1)
    BY <2>1 DEF Deeper
  <2>3. w \in TrueCond.holds
    BY DEF TrueCond
  <2> QED
    BY <1>1, <2>2, <2>3, ReasonGiven
<1>10. Accounted(q, work', paths', reasons')
  BY <1>1, <1>2, <1>3, <1>9 DEF Accounted
<1>11. Accounted(q, work, paths, reasons)'
  BY <1>1, <1>10, AccountedStable
<1> QED
  BY <1>1, <1>3, <1>8, <1>11 DEF WInv

\* Nothing else changes a query.
LEMMA WStep == DPInv /\ WInv /\ [DPNext]_allVars => WInv'
<1> SUFFICES ASSUME DPInv, WInv, [DPNext]_allVars PROVE WInv'
  OBVIOUS
<1>1. fib = <<>> => query = {}
  BY DEF WInv, Asked
<1>2. CASE fib = <<>> /\ UNCHANGED <<query, work, paths, reasons>>
  BY <1>1, <1>2 DEF WInv
<1>3. CASE Simulate
  BY <1>2, <1>3 DEF Simulate, dpVars
<1>4. CASE DeriveFIB
  BY <1>2, <1>4 DEF DeriveFIB
<1>5. CASE UNCHANGED allVars
  <2>1. /\ net' = net /\ rib' = rib /\ fib' = fib /\ query' = query
        /\ work' = work /\ paths' = paths /\ reasons' = reasons
    BY <1>5 DEF allVars, dpVars, vars
  <2>2. ASSUME NEW q \in query' PROVE query' = {q} /\ Asked(q, fib', rib', work') /\ Accounted(q, work, paths, reasons)'
    <3>1. query = {q} /\ Asked(q, fib, rib, work) /\ Accounted(q, work, paths, reasons)
      BY <2>1, <2>2 DEF WInv
    <3>2. Accounted(q, work', paths', reasons')
      BY <2>1, <3>1
    <3> QED
      BY <2>1, <3>1, <3>2, AccountedStable
  <2>3. query' = {} => work' = <<>> /\ paths' = {} /\ reasons' = {}
    BY <2>1 DEF WInv
  <2> QED
    BY <2>2, <2>3 DEF WInv
<1> QED
  BY <1>3, <1>4, <1>5, AskStep, NotAdvertisedStep, ForwardStep DEF DPNext, AnswerReturned

\* No query has been asked at the start.
LEMMA WStart == DPInit => WInv
BY DEF DPInit, WInv

\* What PacketReachable answers for a destination with one origin.
LEMMA AnswerOf ==
    ASSUME NEW q, q = [from |-> q.from, to |-> q.to, protocol |-> q.protocol, dst |-> q.dst],
           \A x \in OriginForIP(q.to) : x[2] = q.dst, NEW w, NEW o \in PacketReachable(q, w)
    PROVE  \/ OriginForIP(q.to) = {} /\ o = "destination_not_advertised"
           \/ \E x \in OriginForIP(q.to) : o = Answer(q, x, w)
<1>1. CASE OriginForIP(q.to) = {}
  BY <1>1 DEF PacketReachable
<1>2. CASE OriginForIP(q.to) # {}
  <2>1. PICK x \in OriginForIP(q.to) :
           o = IF NodeUp(w, q.from) /\ NodeUp(w, x[1])
               THEN PacketReachableFrom([q EXCEPT !.dst = x[2]], w) ELSE "node_failed"
    BY <1>2 DEF PacketReachable
  <2>2. [q EXCEPT !.dst = x[2]] = q
    OBVIOUS
  <2>3. PacketReachableFrom(q, w) = Walk(q, w)[<<q.from, 0, {}>>]
    BY WalkDef
  <2>4. o = Answer(q, x, w)
    BY <2>1, <2>2, <2>3 DEF Answer
  <2> QED
    BY <2>4
<1> QED
  BY <1>1, <1>2

\* One origin for every destination asked for.
OneOriginOnly == \A q \in query : OneOrigin(q)

\* Once nothing is left to visit, the result accounts for every outcome.
LEMMA ResultExact ==
    ASSUME WInv, Answered, NEW q \in query, Disjoint(q.dst), OneOrigin(q),
           NEW w \in Worlds, NEW o \in PacketReachable(q, w)
    PROVE  /\ w \in Reachable.holds <=> o = "reached"
           /\ o # "reached" => Explains(reasons, o, w)
<1>1. Asked(q, fib, rib, work) /\ Accounted(q, work, paths, reasons) /\ work = <<>>
  BY DEF WInv, Answered
<1>2. ToSet(work) = {}
  BY <1>1, ElementsOf
<1>3. w \in Reachable.holds <=> \E c \in paths : w \in c.holds
  BY DEF Reachable, OrAll
<1>4. \A x \in OriginForIP(q.to) : x[2] = q.dst /\ Covered(Walk(q, w), Answer(q, x, w), w, {}, paths, reasons)
  BY <1>1, <1>2 DEF Accounted
<1>5. \/ OriginForIP(q.to) = {} /\ o = "destination_not_advertised"
      \/ \E x \in OriginForIP(q.to) : o = Answer(q, x, w)
  BY <1>1, <1>4, AnswerOf DEF Asked
<1>6. CASE OriginForIP(q.to) = {} /\ o = "destination_not_advertised"
  BY <1>1, <1>3, <1>6 DEF Accounted
<1>7. ASSUME NEW x \in OriginForIP(q.to), o = Answer(q, x, w)
      PROVE  /\ w \in Reachable.holds <=> o = "reached"
             /\ o # "reached" => Explains(reasons, o, w)
  <2>1. Covered(Walk(q, w), o, w, {}, paths, reasons)
    BY <1>4, <1>7
  <2> QED
    BY <1>3, <2>1 DEF Covered
<1> QED
  BY <1>5, <1>6, <1>7

\* So the paths found are those of the concrete walks,
LEMMA WalkMatches == WInv /\ OneOriginOnly => SymbolicMatchesConcrete
BY ResultExact DEF OneOriginOnly, SymbolicMatchesConcrete, Parity

\* and the reasons are theirs.
LEMMA WalkExplains == WInv /\ OneOriginOnly => ReasonsExplain
BY ResultExact DEF OneOriginOnly, ReasonsExplain, Explains

\* A step keeps both invariants.
LEMMA DPWStep == DPInv /\ WInv /\ [DPNext]_allVars => (DPInv /\ WInv)'
BY DPStep, WStep

\* For every network and every query for a disjoint destination that one node
\* originates: symbolicForward's depth-first search, which gives up a path at
\* a condition with the key of FALSE, at a visited node and after as many hops
\* as there are nodes, finds a path condition that holds in a failure world
\* exactly if PacketReachable's backtracking walk delivers the packet there.
\* (With several origins the two lookups of the origin may differ.)
THEOREM WalkIsExact == DPSpec => [](OneOriginOnly => SymbolicMatchesConcrete)
<1>1. DPInit => DPInv /\ WInv
  BY DPStart, WStart
<1> QED
  BY <1>1, DPWStep, WalkMatches, PTL DEF DPSpec

\* Under the same hypothesis, whenever PacketReachable does not deliver the
\* packet, the reasons that symbolicForward has collected hold one of the very
\* kind that PacketReachable answers, with a condition that holds in that world.
THEOREM ReasonsAreComplete == DPSpec => [](OneOriginOnly => ReasonsExplain)
<1>1. DPInit => DPInv /\ WInv
  BY DPStart, WStart
<1> QED
  BY <1>1, DPWStep, WalkExplains, PTL DEF DPSpec

===========================================================================
