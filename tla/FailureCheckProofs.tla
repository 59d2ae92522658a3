------------------------- MODULE FailureCheckProofs -----------------------
(***************************************************************************)
(* The comparison of live tables with the simulator's is safe for every    *)
(* lab, table and scenario: a match is a match, packet loss is taken away, *)
(* and a failure is explained by the poll that was the last.               *)
(***************************************************************************)
EXTENDS FailureCheck, SequenceFacts

\* The position of the last route of a key, and the route there.
LastAt(s, key, x) ==
    /\ x \in 1..Len(s)
    /\ RouteKey(s[x]) = key
    /\ \A y \in (x + 1)..Len(s) : RouteKey(s[y]) # key

Has(s, key)     == \E i \in 1..Len(s) : RouteKey(s[i]) = key
Ends(s, key, r) == \E x : LastAt(s, key, x) /\ s[x] = r

---------------------------------------------------------------------------
(***************************************************************************)
(* Tables and their index.                                                 *)
(***************************************************************************)

\* A key that occurs has a last occurrence.
LEMMA LastExists ==
    ASSUME NEW S, NEW s \in Seq(S), NEW key, Has(s, key)
    PROVE  \E r : Ends(s, key, r)
<1> DEFINE N == Len(s)
           P == {i \in 1..N : RouteKey(s[i]) = key}
           D == {N - i : i \in P}
<1>1. N \in Nat /\ P \subseteq 1..N /\ P # {}
  BY DEF Has
<1>2. D \subseteq Nat /\ D # {}
  BY <1>1
<1>3. PICK d \in D : \A e \in D : d <= e
  BY <1>2, LeastElement
<1>4. PICK x \in P : d = N - x
  OBVIOUS
<1>5. ASSUME NEW y \in (x + 1)..N PROVE RouteKey(s[y]) # key
  <2> SUFFICES ASSUME RouteKey(s[y]) = key PROVE FALSE
    OBVIOUS
  <2>1. x \in 1..N
    BY <1>1
  <2>2. y \in P
    BY <1>1, <2>1
  <2>3. N - x <= N - y
    BY <1>3, <1>4, <2>2
  <2> QED
    BY <1>1, <2>1, <2>3
<1> QED
  BY <1>1, <1>4, <1>5 DEF Ends, LastAt

\* RouteIndex is the last route of each key.
LEMMA IndexIsLast ==
    ASSUME NEW S, NEW s \in Seq(S), NEW key, NEW r, Ends(s, key, r)
    PROVE  key \in DOMAIN RouteIndex(s) /\ RouteIndex(s)[key] = r
<1> DEFINE last == CHOOSE i \in 1..Len(s) :
                        RouteKey(s[i]) = key /\ \A j \in (i + 1)..Len(s) : RouteKey(s[j]) # key
<1>1. PICK x : LastAt(s, key, x) /\ s[x] = r
  BY DEF Ends
<1>2. Len(s) \in Nat /\ x \in 1..Len(s)
  BY <1>1 DEF LastAt
<1>3. last \in 1..Len(s) /\ RouteKey(s[last]) = key /\ \A j \in (last + 1)..Len(s) : RouteKey(s[j]) # key
  BY <1>1 DEF LastAt
<1>4. last = x
  <2> HIDE DEF last
  <2>1. ~(last < x)
    BY <1>1, <1>2, <1>3 DEF LastAt
  <2>2. ~(x < last)
    BY <1>1, <1>2, <1>3 DEF LastAt
  <2> QED
    BY <1>2, <1>3, <2>1, <2>2
<1>5. key \in {RouteKey(s[i]) : i \in 1..Len(s)}
  BY <1>1 DEF LastAt
<1>6. RouteIndex(s)[key] = s[last]
  BY <1>5 DEF RouteIndex
<1> QED
  BY <1>1, <1>4, <1>5, <1>6 DEF RouteIndex

\* The index has exactly the keys the table has.
LEMMA IndexDomain ==
    ASSUME NEW s, NEW key
    PROVE  key \in DOMAIN RouteIndex(s) <=> Has(s, key)
BY DEF RouteIndex, Has

---------------------------------------------------------------------------
\* Keys and last routes of tables put one after the other.
LEMMA Concat ==
    ASSUME NEW S, NEW s \in Seq(S), NEW t \in Seq(S), NEW key
    PROVE  /\ Has(s \o t, key) <=> Has(s, key) \/ Has(t, key)
           /\ \A r : Ends(t, key, r) => Ends(s \o t, key, r)
           /\ \A r : Ends(s, key, r) /\ ~Has(t, key) => Ends(s \o t, key, r)
<1> DEFINE u == s \o t
           m == Len(s)
           n == Len(t)
<1>1. /\ m \in Nat /\ n \in Nat /\ u \in Seq(S) /\ Len(u) = m + n
      /\ \A i \in 1..m : u[i] = s[i]
      /\ \A i \in 1..n : u[m + i] = t[i]
  OBVIOUS
<1>2. ASSUME NEW i \in 1..(m + n)
      PROVE  i \in 1..m \/ (i - m \in 1..n /\ u[i] = t[i - m])
  <2>1. i \in 1..m \/ (i - m \in 1..n /\ m + (i - m) = i)
    BY <1>1
  <2> QED
    BY <1>1, <2>1
<1>3. \A i \in 1..m : i \in 1..(m + n)
  BY <1>1
<1>4. \A i \in 1..n : m + i \in 1..(m + n)
  BY <1>1
<1> HIDE DEF u, m, n
<1>5. Has(u, key) <=> Has(s, key) \/ Has(t, key)
  BY <1>1, <1>2, <1>3, <1>4 DEF Has, m, n
<1>6. ASSUME NEW r, Ends(t, key, r) PROVE Ends(u, key, r)
  <2>1. PICK x : x \in 1..n /\ RouteKey(t[x]) = key /\ t[x] = r /\ \A y \in (x + 1)..n : RouteKey(t[y]) # key
    BY <1>6 DEF Ends, LastAt, n
  <2>2. m + x \in 1..(m + n) /\ u[m + x] = t[x]
    BY <1>1, <1>4, <2>1
  <2>3. ASSUME NEW y \in (m + x + 1)..(m + n) PROVE RouteKey(u[y]) # key
    <3>1. y \in 1..(m + n) /\ ~(y \in 1..m) /\ (y - m \in 1..n => y - m \in (x + 1)..n)
      BY <1>1, <2>1
    <3> QED
      BY <1>2, <2>1, <3>1
  <2> QED
    BY <1>1, <2>1, <2>2, <2>3 DEF Ends, LastAt
<1>7. ASSUME NEW r, Ends(s, key, r), ~Has(t, key) PROVE Ends(u, key, r)
  <2>1. PICK x : x \in 1..m /\ RouteKey(s[x]) = key /\ s[x] = r /\ \A y \in (x + 1)..m : RouteKey(s[y]) # key
    BY <1>7 DEF Ends, LastAt, m
  <2>2. ASSUME NEW y \in (x + 1)..(m + n) PROVE RouteKey(u[y]) # key
    <3>1. y \in 1..(m + n) /\ (y \in 1..m => y \in (x + 1)..m)
      BY <1>1, <2>1
    <3>2. CASE y \in 1..m
      BY <1>1, <2>1, <3>1, <3>2
    <3>3. CASE y \notin 1..m
      BY <1>2, <1>7, <3>1, <3>3 DEF Has, n
    <3> QED
      BY <3>2, <3>3
  <2> QED
    BY <1>1, <1>3, <2>1, <2>2 DEF Ends, LastAt
<1> QED
  BY <1>5, <1>6, <1>7 DEF u

\* The last table that has a key decides what it is.
LEMMA FlattenIndex ==
    ASSUME NEW S, NEW seqs \in Seq(Seq(S)), NEW key
    PROVE  /\ Has(FlattenSeq(seqs), key) <=> \E i \in 1..Len(seqs) : Has(seqs[i], key)
           /\ \A r : \A i \in 1..Len(seqs) :
                Ends(seqs[i], key, r) /\ (\A j \in (i + 1)..Len(seqs) : ~Has(seqs[j], key))
                => Ends(FlattenSeq(seqs), key, r)
<1> DEFINE N == Len(seqs)
<1>1. PICK F : FlattensUpTo(F, seqs, S, N) /\ FlattenSeq(seqs) = F[N]
  BY FlattenSteps
<1>2. N \in Nat /\ \A i \in 1..N : seqs[i] \in Seq(S)
  OBVIOUS
<1>3. F[0] = <<>> /\ \A i \in 1..N : F[i - 1] \in Seq(S) /\ F[i] = F[i - 1] \o seqs[i]
  <2>1. \A i \in 1..N : i - 1 \in 0..N
    BY <1>2
  <2> QED
    BY <1>1, <2>1 DEF FlattensUpTo
<1> HIDE DEF N
<1> DEFINE T == {n \in 0..N : Has(F[n], key) <=> \E i \in 1..n : Has(seqs[i], key)}
<1>4. 0 \in T
  <2>1. ~Has(<<>>, key)
    BY DEF Has
  <2>2. 0 \in 0..N /\ 1..0 = {}
    BY <1>2
  <2>3. Has(F[0], key) <=> \E i \in 1..0 : Has(seqs[i], key)
    BY <1>3, <2>1, <2>2
  <2> QED
    BY <2>2, <2>3
<1>5. ASSUME NEW n \in 1..N, n - 1 \in T PROVE n \in T
  <2>0. F[n] = F[n - 1] \o seqs[n] /\ F[n - 1] \in Seq(S) /\ seqs[n] \in Seq(S)
    BY <1>2, <1>3
  <2>1. Has(F[n], key) <=> Has(F[n - 1], key) \/ Has(seqs[n], key)
    BY <2>0, Concat
  <2>2. \A i : i \in 1..n <=> i \in 1..(n - 1) \/ i = n
    BY <1>2
  <2>3. n \in 0..N
    BY <1>2
  <2> QED
    BY <1>5, <2>1, <2>2, <2>3
<1>6. 0..N \subseteq T
  <2> HIDE DEF T
  <2> QED
    BY <1>2, <1>4, <1>5, BoundedInduction
<1>7. ASSUME NEW r, NEW i \in 1..N, Ends(seqs[i], key, r), \A j \in (i + 1)..N : ~Has(seqs[j], key)
      PROVE  Ends(F[N], key, r)
  <2> DEFINE U == {n \in 0..N : n >= i => Ends(F[n], key, r)}
  <2>1. 0 \in U
    BY <1>2
  <2>2. ASSUME NEW n \in 1..N, n - 1 \in U PROVE n \in U
    <3>0. n \in 0..N
      BY <1>2
    <3> SUFFICES ASSUME n >= i PROVE Ends(F[n], key, r)
      BY <3>0
    <3>1. F[n] = F[n - 1] \o seqs[n] /\ F[n - 1] \in Seq(S) /\ seqs[n] \in Seq(S)
      BY <1>2, <1>3
    <3>2. CASE n = i
      <4>1. Ends(seqs[n], key, r)
        BY <1>7, <3>2
      <4> QED
        BY <3>1, <4>1, Concat
    <3>3. CASE n # i
      <4>1. n - 1 >= i /\ n \in (i + 1)..N
        BY <1>2, <3>3
      <4>2. Ends(F[n - 1], key, r) /\ ~Has(seqs[n], key)
        BY <1>7, <2>2, <4>1
      <4> QED
        BY <3>1, <4>2, Concat
    <3> QED
      BY <3>2, <3>3
  <2> HIDE DEF U
  <2>3. 0..N \subseteq U
    BY <1>2, <2>1, <2>2, BoundedInduction
  <2> QED
    BY <1>2, <2>3 DEF U
<1> QED
  BY <1>1, <1>2, <1>6, <1>7 DEF N

---------------------------------------------------------------------------
\* The simulator's tables.
LEMMA ExpectedTable ==
    ASSUME NEW n, NEW entries, NEW w
    PROVE  IsSequence(ExpectedRIB(n, entries, w))
<1> DEFINE held == Visible(n, entries, w)
           N == Len(PrefixOrder)
           M == Len(GroupOrder)
           cell(i, j) == GroupRoutes(n, PrefixOrder[i], GroupOrder[j], held, w)
           row(i) == [j \in 1..M |-> cell(i, j)]
           rows == [i \in 1..N |-> FlattenSeq(row(i))]
<1>1. N \in Nat /\ M \in Nat
  BY PrefixOrderAssumption DEF GroupOrder
<1>2. ASSUME NEW i, NEW j PROVE IsSequence(cell(i, j))
  BY SequenceBasics DEF GroupRoutes
<1> HIDE DEF cell, held, N, M
<1>3. ASSUME NEW i PROVE IsSequence(FlattenSeq(row(i)))
  <2>1. row(i) = [j \in 1..M |-> row(i)[j]] /\ \A j \in 1..M : IsSequence(row(i)[j])
    BY <1>2
  <2> HIDE DEF row
  <2> QED
    BY <1>1, <2>1, FlattenSequences
<1>4. IsSequence(FlattenSeq(rows))
  <2> HIDE DEF row
  <2>1. rows = [i \in 1..N |-> rows[i]] /\ \A i \in 1..N : IsSequence(rows[i])
    BY <1>3
  <2> HIDE DEF rows
  <2> QED
    BY <1>1, <2>1, FlattenSequences
<1> QED
  BY <1>4, SequenceBasics DEF ExpectedRIB, rows, row, cell, held, N, M

\* The tables of the devices, command by command.
LEMMA AnswerTable ==
    ASSUME NEW n, NEW command
    PROVE  IsSequence(Answer(n, command))
<1>1. ASSUME NEW prefix PROVE IsSequence(LiveBGP(n, prefix, live[n]))
  BY SequenceBasics DEF LiveBGP
<1>2. IsSequence(FlattenSeq([i \in 1..Len(PrefixOrder) |-> LiveBGP(n, PrefixOrder[i], live[n])]))
  <2> DEFINE N == Len(PrefixOrder)
             f == [i \in 1..N |-> LiveBGP(n, PrefixOrder[i], live[n])]
  <2>1. N \in Nat
    BY PrefixOrderAssumption
  <2>2. f = [i \in 1..N |-> f[i]] /\ \A i \in 1..N : IsSequence(f[i])
    BY <1>1
  <2> HIDE DEF f, N
  <2>3. IsSequence(FlattenSeq(f))
    BY <2>1, <2>2, FlattenSequences
  <2> QED
    BY <2>3 DEF f, N
<1>3. IsSequence(LiveOther(n, live[n]))
  <2> DEFINE rib == ExpectedRIB(n, table[n], live[n])
             other == OtherThanBGP(rib)
             f == [i \in 1..Len(rib) |-> IF rib[i].protocol = "bgp" THEN <<>> ELSE <<rib[i]>>]
             plain(i) == [other[i] EXCEPT !.eligible = TRUE, !.best = TRUE]
             shown == [i \in 1..Len(other) |-> plain(i)]
             management == [prefix |-> "management", protocol |-> "connected", eligible |-> TRUE,
                            best |-> TRUE, paths |-> <<>>]
  <2>1. IsSequence(rib)
    BY ExpectedTable
  <2> HIDE DEF rib
  <2>2. Len(rib) \in Nat
    BY <2>1 DEF IsSequence
  <2>3. f = [i \in 1..Len(rib) |-> f[i]] /\ \A i \in 1..Len(rib) : IsSequence(f[i])
    BY SequenceBasics
  <2>4. IsSequence(other)
    <3>1. other = FlattenSeq(f)
      BY DEF OtherThanBGP
    <3> HIDE DEF f, other
    <3> QED
      BY <2>2, <2>3, <3>1, FlattenSequences
  <2> HIDE DEF other
  <2>5. Len(other) \in Nat
    BY <2>4 DEF IsSequence
  <2>6. IsSequence(shown)
    <3> HIDE DEF plain
    <3>1. shown \in Seq({plain(i) : i \in 1..Len(other)})
      BY <2>5
    <3> QED
      BY <3>1 DEF IsSequence
  <2>7. LiveOther(n, live[n]) = Append(shown, management)
    BY DEF LiveOther, other, rib
  <2> HIDE DEF shown, management
  <2> QED
    BY <2>6, <2>7, SequenceBasics
<1> QED
  BY <1>1, <1>2, <1>3, SequenceBasics DEF Answer

---------------------------------------------------------------------------
(***************************************************************************)
(* A match, prefix by prefix.                                              *)
(***************************************************************************)
Key(p) == <<"bgp", p>>

\* A table holds a prefix when it has a BGP route of it.
LEMMA HoldsHas == \A s, p : Holds(s, p) <=> Has(s, Key(p))
BY DEF Holds, Has, Key, RouteKey

\* Leaving out other protocols leaves the BGP routes as they are.
LEMMA BGPOnlyIndex ==
    ASSUME NEW s, IsSequence(s), NEW p
    PROVE  /\ IsSequence(BGPOnly(s))
           /\ Has(BGPOnly(s), Key(p)) <=> Has(s, Key(p))
           /\ \A r : Ends(s, Key(p), r) => Ends(BGPOnly(s), Key(p), r)
<1> DEFINE n == Len(s)
           f == [i \in 1..n |-> IF s[i].protocol = "bgp" THEN <<s[i]>> ELSE <<>>]
<1>1. n \in Nat
  BY DEF IsSequence
<1>2. f = [i \in 1..n |-> f[i]] /\ \A i \in 1..n : IsSequence(f[i])
  BY SequenceBasics
<1>3. BGPOnly(s) = FlattenSeq(f)
  BY DEF BGPOnly
<1>4. ASSUME NEW i \in 1..n PROVE Has(f[i], Key(p)) <=> RouteKey(s[i]) = Key(p)
  <2>1. RouteKey(s[i]) = Key(p) => s[i].protocol = "bgp"
    BY DEF RouteKey, Key
  <2>2. CASE s[i].protocol = "bgp"
    <3>1. f[i] = <<s[i]>>
      BY <2>2
    <3>2. Len(<<s[i]>>) = 1 /\ <<s[i]>>[1] = s[i]
      OBVIOUS
    <3> QED
      BY <3>1, <3>2 DEF Has
  <2>3. CASE s[i].protocol # "bgp"
    <3>1. f[i] = <<>>
      BY <2>3
    <3>2. ~Has(<<>>, Key(p))
      BY DEF Has
    <3> QED
      BY <2>1, <2>3, <3>1, <3>2
  <2> QED
    BY <2>2, <2>3
<1>5. ASSUME NEW i \in 1..n, RouteKey(s[i]) = Key(p) PROVE Ends(f[i], Key(p), s[i])
  <2>1. s[i].protocol = "bgp"
    BY <1>5 DEF RouteKey, Key
  <2>2. f[i] = <<s[i]>>
    BY <2>1
  <2>3. Len(<<s[i]>>) = 1 /\ <<s[i]>>[1] = s[i] /\ 1 \in 1..1 /\ (1 + 1)..1 = {}
    OBVIOUS
  <2>4. LastAt(<<s[i]>>, Key(p), 1)
    BY <1>5, <2>3 DEF LastAt
  <2> QED
    BY <2>2, <2>3, <2>4 DEF Ends
<1> HIDE DEF f
<1>6. PICK S : f \in Seq(Seq(S)) /\ Len(f) = n
  BY <1>1, <1>2, CommonSet
<1>7. IsSequence(BGPOnly(s))
  BY <1>3, <1>6, FlattenType DEF IsSequence
<1>8. Has(BGPOnly(s), Key(p)) <=> Has(s, Key(p))
  <2>1. Has(FlattenSeq(f), Key(p)) <=> \E i \in 1..n : Has(f[i], Key(p))
    BY <1>6, FlattenIndex
  <2> QED
    BY <1>3, <1>4, <2>1 DEF Has
<1>9. ASSUME NEW r, Ends(s, Key(p), r) PROVE Ends(BGPOnly(s), Key(p), r)
  <2>1. PICK x : LastAt(s, Key(p), x) /\ s[x] = r
    BY <1>9 DEF Ends
  <2>2. x \in 1..n /\ RouteKey(s[x]) = Key(p) /\ \A y \in (x + 1)..n : RouteKey(s[y]) # Key(p)
    BY <2>1 DEF LastAt
  <2>3. Ends(f[x], Key(p), r)
    BY <1>5, <2>1, <2>2
  <2>4. \A y \in (x + 1)..n : y \in 1..n /\ ~Has(f[y], Key(p))
    BY <1>1, <1>4, <2>2
  <2>5. x \in 1..Len(f) /\ \A y \in (x + 1)..Len(f) : ~Has(f[y], Key(p))
    BY <1>6, <2>2, <2>4
  <2> QED
    BY <1>3, <1>6, <2>3, <2>5, FlattenIndex
<1> QED
  BY <1>7, <1>8, <1>9

\* A sequence of tables.
AreTables(f, n) ==
    /\ f = [i \in 1..n |-> f[i]]
    /\ \A i \in 1..n : IsSequence(f[i])

\* The route of a prefix that one table alone has is the route of that prefix
\* in all tables together.
LEMMA AloneIndex ==
    ASSUME NEW n \in Nat, NEW f, AreTables(f, n), NEW i \in 1..n, NEW p,
           \A j \in 1..n \ {i} : ~Has(f[j], Key(p))
    PROVE  /\ IsSequence(FlattenSeq(f))
           /\ Has(FlattenSeq(f), Key(p)) <=> Has(f[i], Key(p))
           /\ \A r : Ends(f[i], Key(p), r) => Ends(FlattenSeq(f), Key(p), r)
<1>1. PICK S : f \in Seq(Seq(S)) /\ Len(f) = n
  BY CommonSet DEF AreTables
<1>2. Has(FlattenSeq(f), Key(p)) <=> \E j \in 1..n : Has(f[j], Key(p))
  BY <1>1, FlattenIndex
<1>3. \A j \in (i + 1)..Len(f) : ~Has(f[j], Key(p))
  <2>1. \A j \in (i + 1)..n : j \in 1..n \ {i}
    OBVIOUS
  <2> QED
    BY <1>1, <2>1
<1>4. ASSUME NEW r, Ends(f[i], Key(p), r) PROVE Ends(FlattenSeq(f), Key(p), r)
  <2>1. i \in 1..Len(f)
    BY <1>1
  <2> QED
    BY <1>1, <1>3, <1>4, <2>1, FlattenIndex
<1>5. IsSequence(FlattenSeq(f))
  BY <1>1, FlattenType DEF IsSequence
<1> QED
  BY <1>2, <1>4, <1>5

\* What a match says of one prefix.
Agree(model, shown, p, opts) ==
    /\ Holds(model, p) => Holds(shown, p)
    /\ Holds(shown, p) => opts.extraPrefixes \/ Holds(model, p)
    /\ Holds(shown, p) /\ Holds(model, p) =>
       /\ Shown(model, p, opts) \subseteq Shown(shown, p, opts)
       /\ opts.extraPaths \/ Shown(shown, p, opts) = Shown(model, p, opts)

ShownBy(paths, opts) ==
    LET index == PathIndex(paths, opts).index
    IN  {[f \in opts.fields |-> index[k][f]] : k \in DOMAIN index}

\* What a table shows of a prefix depends only on the route its index holds.
LEMMA ShownByRoute ==
    \A s, p, opts : Shown(s, p, opts) = ShownBy(ComparablePaths(RouteIndex(s)[Key(p)]), opts)
BY DEF Shown, ShownBy, Key

\* Paths without a difference show the same attributes.
LEMMA NoDiffShows ==
    ASSUME NEW ps, NEW qs, NEW opts, NoDiff(ComparePaths(ps, qs, opts))
    PROVE  /\ ShownBy(ps, opts) \subseteq ShownBy(qs, opts)
           /\ opts.extraPaths \/ ShownBy(qs, opts) = ShownBy(ps, opts)
<1> DEFINE e == PathIndex(ps, opts).index
           a == PathIndex(qs, opts).index
           attributes(index, k) == [f \in opts.fields |-> index[k][f]]
           of(index) == {attributes(index, k) : k \in DOMAIN index}
<1>1. /\ DOMAIN e \ DOMAIN a = {}
      /\ opts.extraPaths \/ DOMAIN a \ DOMAIN e = {}
      /\ {d \in (DOMAIN e \cap DOMAIN a) \X opts.fields : e[d[1]][d[2]] # a[d[1]][d[2]]} = {}
  BY DEF NoDiff, ComparePaths
<1> HIDE DEF e, a
<1>2. ASSUME NEW k \in DOMAIN e \cap DOMAIN a, NEW f \in opts.fields PROVE e[k][f] = a[k][f]
  <2>1. <<k, f>> \in (DOMAIN e \cap DOMAIN a) \X opts.fields
    OBVIOUS
  <2> QED
    BY <1>1, <2>1
<1>3. \A k \in DOMAIN e \cap DOMAIN a : attributes(e, k) = attributes(a, k)
  BY <1>2
<1> HIDE DEF attributes
<1>4. of(e) \subseteq of(a)
  BY <1>1, <1>3
<1>5. opts.extraPaths \/ of(a) \subseteq of(e)
  BY <1>1, <1>3
<1>6. of(e) = ShownBy(ps, opts) /\ of(a) = ShownBy(qs, opts)
  BY DEF e, a, attributes, ShownBy
<1> QED
  BY <1>4, <1>5, <1>6

\* Two tables that match agree on every prefix.
LEMMA CompareAgrees ==
    ASSUME NEW e, NEW a, IsSequence(a), NEW o, CompareRoutes(e, a, o).ok, NEW p
    PROVE  Agree(e, a, p, FillCompareDefaults(o))
<1> DEFINE opts == FillCompareDefaults(o)
           E == RouteIndex(e)
           A == RouteIndex(a)
           k == Key(p)
<1>1. /\ DOMAIN E \ DOMAIN A = {}
      /\ {q \in DOMAIN A \ DOMAIN E : A[q].protocol = "bgp" /\ ~opts.extraPrefixes} = {}
      /\ \A q \in DOMAIN E \cap DOMAIN A :
           NoDiff(ComparePaths(ComparablePaths(E[q]), ComparablePaths(A[q]), opts))
  BY DEF CompareRoutes
<1>2. (k \in DOMAIN E <=> Holds(e, p)) /\ (k \in DOMAIN A <=> Holds(a, p))
  BY IndexDomain, HoldsHas
<1>3. k \in DOMAIN A => A[k].protocol = "bgp"
  <2> SUFFICES ASSUME Has(a, k) PROVE A[k].protocol = "bgp"
    BY IndexDomain
  <2>1. PICK S : a \in Seq(S)
    BY DEF IsSequence
  <2>2. PICK r : Ends(a, k, r)
    BY <2>1, LastExists
  <2>3. A[k] = r
    BY <2>1, <2>2, IndexIsLast
  <2>4. RouteKey(r) = Key(p)
    BY <2>2 DEF Ends, LastAt
  <2> QED
    BY <2>3, <2>4 DEF RouteKey, Key
<1>4. ASSUME Holds(a, p), Holds(e, p)
      PROVE  /\ Shown(e, p, opts) \subseteq Shown(a, p, opts)
             /\ opts.extraPaths \/ Shown(a, p, opts) = Shown(e, p, opts)
  <2>1. NoDiff(ComparePaths(ComparablePaths(E[k]), ComparablePaths(A[k]), opts))
    BY <1>1, <1>2, <1>4
  <2> HIDE DEF E, A, opts
  <2> QED
    BY <2>1, NoDiffShows, ShownByRoute DEF E, A
<1>5. Holds(a, p) => opts.extraPrefixes \/ Holds(e, p)
  BY <1>1, <1>2, <1>3
<1> QED
  BY <1>1, <1>2, <1>4, <1>5 DEF Agree

\* What is shown of a prefix is what the last route of its key shows.
LEMMA SameShown ==
    ASSUME NEW s, IsSequence(s), NEW t, IsSequence(t), NEW p, Has(s, Key(p)),
           \A r : Ends(s, Key(p), r) => Ends(t, Key(p), r)
    PROVE  \A opts : Shown(s, p, opts) = Shown(t, p, opts)
<1>1. PICK S, T : s \in Seq(S) /\ t \in Seq(T)
  BY DEF IsSequence
<1>2. PICK r : Ends(s, Key(p), r)
  BY <1>1, LastExists
<1>3. RouteIndex(s)[Key(p)] = r /\ RouteIndex(t)[Key(p)] = r
  BY <1>1, <1>2, IndexIsLast
<1> QED
  BY <1>3 DEF Shown, Key

\* Agreement on a prefix carries over to tables whose last routes of it are the same.
LEMMA SameAgree ==
    ASSUME NEW e, NEW f, IsSequence(e), IsSequence(f), NEW a, NEW b, IsSequence(a), IsSequence(b), NEW p, NEW opts,
           Has(e, Key(p)) <=> Has(f, Key(p)), \A r : Ends(e, Key(p), r) => Ends(f, Key(p), r),
           Has(a, Key(p)) <=> Has(b, Key(p)), \A r : Ends(a, Key(p), r) => Ends(b, Key(p), r),
           Agree(f, b, p, opts)
    PROVE  Agree(e, a, p, opts)
<1>1. (Holds(e, p) <=> Holds(f, p)) /\ (Holds(a, p) <=> Holds(b, p))
  BY HoldsHas
<1>2. Holds(e, p) => Shown(e, p, opts) = Shown(f, p, opts)
  BY HoldsHas, SameShown
<1>3. Holds(a, p) => Shown(a, p, opts) = Shown(b, p, opts)
  BY HoldsHas, SameShown
<1> QED
  BY <1>1, <1>2, <1>3 DEF Agree

\* The comparison of all nodes at once, for a prefix of one node alone.
LEMMA AloneAgrees ==
    ASSUME NEW n \in Nat, NEW e, AreTables(e, n), NEW g, AreTables(g, n), NEW i \in 1..n, NEW p,
           \A j \in 1..n \ {i} : ~Holds(g[j], p) /\ ~Holds(e[j], p),
           NEW a \in {FlattenSeq(g), BGPOnly(FlattenSeq(g))},
           NEW o, CompareRoutes(FlattenSeq(e), a, o).ok
    PROVE  Agree(e[i], g[i], p, FillCompareDefaults(o))
<1>1. /\ IsSequence(FlattenSeq(e))
      /\ Has(FlattenSeq(e), Key(p)) <=> Has(e[i], Key(p))
      /\ \A r : Ends(e[i], Key(p), r) => Ends(FlattenSeq(e), Key(p), r)
  BY AloneIndex, HoldsHas
<1>2. /\ IsSequence(FlattenSeq(g))
      /\ Has(FlattenSeq(g), Key(p)) <=> Has(g[i], Key(p))
      /\ \A r : Ends(g[i], Key(p), r) => Ends(FlattenSeq(g), Key(p), r)
  BY AloneIndex, HoldsHas
<1>3. /\ IsSequence(a)
      /\ Has(a, Key(p)) <=> Has(g[i], Key(p))
      /\ \A r : Ends(g[i], Key(p), r) => Ends(a, Key(p), r)
  BY <1>2, BGPOnlyIndex
<1>4. Agree(FlattenSeq(e), a, p, FillCompareDefaults(o))
  BY <1>3, CompareAgrees
<1>5. IsSequence(e[i]) /\ IsSequence(g[i])
  BY DEF AreTables
<1> QED
  BY <1>1, <1>3, <1>4, <1>5, SameAgree

---------------------------------------------------------------------------
(***************************************************************************)
(* The check as a whole.                                                   *)
(***************************************************************************)
Nodes == Len(scenario.active)

\* The simulator's tables of the active nodes, and those they are part of.
ModelTables ==
    [i \in 1..Nodes |-> ExpectedRIB(scenario.active[i], table[scenario.active[i]], scenario.world)]

Before == {"expect", "inject"}
During == {"poll", "exec", "compare", "sleep"}

TypeOK ==
    /\ scenario \in Scenarios
    /\ pc \in Before \cup During \cup {"cleanup", "done"}
    /\ at \in Nat
    /\ bad \in Nat
    /\ err \in BOOLEAN
    /\ injected \in BOOLEAN
    /\ verdict \in {"none", "match", "notConverged", "error"}

\* One table has been read of every node before the one being collected, and
\* perhaps a part of that node's own.
Collecting ==
    /\ pc # "expect" => expected = FlattenSeq(ModelTables)
    /\ pc = "exec" => at \in 1..Nodes /\ \E n \in {at - 1, at} : AreTables(got, n)
    /\ pc = "compare" => AreTables(got, Nodes)

\* A match has been found on the tables that are still at hand.
Matched ==
    verdict = "match" =>
        /\ pc \in {"cleanup", "done"}
        /\ AreTables(got, Nodes)
        /\ CompareRoutes(expected, Collected, CompareOptions).ok

\* Both endpoints of a link are impaired from the injection to the cleanup.
Impaired ==
    /\ pc \in Before => ~injected
    /\ pc = "cleanup" => scenario.kind = "link"
    /\ scenario.kind # "link" => loss = {} /\ unreset = {}
    /\ scenario.kind = "link" =>
         /\ pc \in Before => loss \subseteq {scenario.link[1]}
         /\ pc \in During \cup {"cleanup"} => loss = Range(scenario.link)

IInv == TypeOK /\ Collecting /\ Matched /\ Impaired /\ LossRemoved

\* The ends of a failed link are its two nodes.
LEMMA LinkEnds ==
    ASSUME NEW s \in Scenarios, s.kind = "link"
    PROVE  Range(s.link) = {s.link[1], s.link[2]}
<1>1. s.link = <<s.link[1], s.link[2]>>
  BY ScenariosAssumption
<1>2. \A a, b : Range(<<a, b>>) = {a, b}
  BY DEF Range
<1> QED
  BY <1>1, <1>2

\* The active nodes of a scenario are counted from one.
LEMMA NodesNat == scenario \in Scenarios => Nodes \in Nat /\ 1 \in 1..Nodes
<1> SUFFICES ASSUME scenario \in Scenarios PROVE Nodes \in Nat /\ 1 \in 1..Nodes
  OBVIOUS
<1>1. scenario.active \in Seq(Node) /\ scenario.active # <<>>
  BY ScenariosAssumption
<1> QED
  BY <1>1 DEF Nodes

\* A failure check starts with the invariant.
LEMMA InitIInv == Init => IInv
<1> SUFFICES ASSUME Init PROVE IInv
  OBVIOUS
<1>1. /\ scenario \in Scenarios /\ loss = {} /\ unreset = {} /\ injected = FALSE
      /\ pc = "expect" /\ at = 0 /\ bad = 0 /\ err = FALSE /\ verdict = "none"
  BY DEF Init
<1>2. TypeOK
  BY <1>1 DEF TypeOK, Before
<1>3. Collecting /\ Matched /\ Impaired /\ LossRemoved
  BY <1>1 DEF Collecting, Matched, Impaired, LossRemoved, Before, During
<1> QED
  BY <1>2, <1>3 DEF IInv

\* The answer to a command extends the tables collected.
LEMMA ProceedCollects ==
    ASSUME IInv, pc = "exec", NEW routes, IsSequence(routes), Proceed(routes), UNCHANGED <<scenario, table>>
    PROVE  /\ pc' \in {"exec", "compare"} /\ at' \in Nat /\ bad' = 0
           /\ pc' = "exec" => at' \in 1..Nodes /\ \E n \in {at' - 1, at'} : AreTables(got', n)
           /\ pc' = "compare" => AreTables(got', Nodes)
<1>1. at \in 1..Nodes /\ Nodes \in Nat /\ at \in Nat
  BY NodesNat DEF IInv, TypeOK, Collecting
<1>2. PICK n \in {at - 1, at} : AreTables(got, n)
  BY DEF IInv, Collecting
<1>3. n \in Nat
  BY <1>1
<1>4. PICK S : got \in Seq(Seq(S)) /\ Len(got) = n
  BY <1>2, <1>3, CommonSet DEF AreTables
<1>5. AreTables(got', at)
  <2>1. got' = Extended(scenario.active[at], routes)
    BY DEF Proceed
  <2>2. CASE n = at - 1
    <3>1. got' = Append(got, routes)
      BY <1>1, <1>4, <2>1, <2>2 DEF Extended
    <3>2. got \in Seq(Seq(S) \cup {routes})
      BY <1>4
    <3>3. got' = [i \in 1..at |-> IF i = at THEN routes ELSE got[i]]
      <4>1. n + 1 = at
        BY <1>1, <2>2
      <4>2. got' \in Seq(Seq(S) \cup {routes}) /\ Len(got') = at
        BY <1>4, <3>1, <3>2, <4>1
      <4>3. \A i \in 1..at : got'[i] = IF i = at THEN routes ELSE got[i]
        BY <1>1, <1>3, <1>4, <3>1, <3>2, <4>1
      <4> QED
        BY <4>2, <4>3
    <3>4. \A i \in 1..at : i # at => i \in 1..n
      BY <1>1, <2>2
    <3> QED
      BY <1>2, <3>3, <3>4 DEF AreTables
  <2>3. CASE n = at
    <3>1. got' = [got EXCEPT ![at] = got[at] \o routes]
      BY <1>1, <1>4, <2>1, <2>3 DEF Extended
    <3>2. got = [i \in 1..at |-> got[i]] /\ \A i \in 1..at : IsSequence(got[i])
      BY <1>2, <2>3 DEF AreTables
    <3>3. IsSequence(got[at] \o routes)
      BY <1>1, <3>2, SequenceBasics
    <3>4. got' = [i \in 1..at |-> IF i = at THEN got[at] \o routes ELSE got[i]]
      BY <3>1, <3>2
    <3> QED
      BY <3>2, <3>3, <3>4 DEF AreTables
  <2> QED
    BY <2>2, <2>3
<1>6. /\ pc' \in {"exec", "compare"} /\ bad' = 0
      /\ pc' = "exec" => at' = at \/ (at < Nodes /\ at' = at + 1)
      /\ pc' = "compare" => at' = at /\ ~(at < Nodes)
  BY DEF Proceed, Nodes
<1>7. CASE pc' = "exec"
  <2>1. at' \in 1..Nodes /\ at' \in Nat /\ at \in {at' - 1, at'}
    BY <1>1, <1>6, <1>7
  <2> QED
    BY <1>5, <1>6, <1>7, <2>1
<1>8. CASE pc' = "compare"
  <2>1. at = Nodes
    BY <1>1, <1>6, <1>8
  <2> QED
    BY <1>1, <1>5, <1>6, <1>8, <2>1
<1> QED
  BY <1>6, <1>7, <1>8

\* Every step of the check and of its surroundings.
LEMMA NextIInv == IInv /\ [Next]_vars => IInv'
<1> SUFFICES ASSUME IInv, [Next]_vars PROVE IInv'
  OBVIOUS
<1>0. scenario \in Scenarios /\ scenario' = scenario /\ table' = table /\ options' = options
  BY DEF IInv, TypeOK, Next, vars, config, Expect, InjectNothing, SetLinkLoss, StopNode, InjectFails,
     StartPoll, Exec, BGPNotRunning, ExecRetries, ExecFails, ParseFails, Compare, Tick, TimesOut, Cleanup, Expire,
     Converge, Returned
<1>1. Nodes' = Nodes /\ ModelTables' = ModelTables /\ CompareOptions' = CompareOptions
  BY <1>0 DEF Nodes, ModelTables, CompareOptions
<1>2. scenario.kind \in {"none", "link", "node"}
  BY <1>0, ScenariosAssumption
\* A step that leaves what the check has collected and the lab alone.
<1>3. ASSUME UNCHANGED <<pc, at, got, expected, verdict, lab, err>>, bad' \in Nat
      PROVE  IInv'
  BY <1>0, <1>1, <1>3 DEF IInv, TypeOK, Collecting, Matched, Impaired, LossRemoved, lab, Collected
\* A step of the poll that leaves the lab alone.
<1>4. ASSUME pc \in During, pc' \in During, UNCHANGED <<lab, verdict>>, TypeOK', Collecting'
      PROVE  IInv'
  <2>1. verdict' # "match"
    BY <1>4 DEF IInv, Matched, During
  <2> QED
    BY <1>0, <1>4, <2>1 DEF IInv, Matched, Impaired, LossRemoved, lab, Before, During
\* Polling ends.
<1>5. ASSUME pc \in During, pc' = IF scenario.kind = "link" THEN "cleanup" ELSE "done",
             UNCHANGED <<lab, expected, at, got>>, bad' \in Nat, err' \in BOOLEAN,
             verdict' \in {"match", "notConverged"}, Matched'
      PROVE  IInv'
  <2>1. TypeOK' /\ Collecting'
    BY <1>0, <1>1, <1>5 DEF IInv, TypeOK, Collecting, During, lab
  <2>2. Impaired' /\ LossRemoved'
    BY <1>0, <1>2, <1>5 DEF IInv, Impaired, LossRemoved, Before, During, lab
  <2> QED
    BY <1>5, <2>1, <2>2 DEF IInv
<1>6. ASSUME pc \in During, PollFailed, UNCHANGED <<lab, expected, at, got>>, bad' \in Nat, err' \in BOOLEAN
      PROVE  IInv'
  <2>1. CASE pc' = "sleep" /\ UNCHANGED verdict
    <3>1. TypeOK' /\ Collecting'
      BY <1>0, <1>1, <1>6, <2>1 DEF IInv, TypeOK, Collecting, During, lab
    <3> QED
      BY <1>4, <1>6, <2>1, <3>1 DEF During
  <2>2. CASE GiveUp
    BY <1>5, <1>6, <2>2 DEF GiveUp, Matched
  <2> QED
    BY <1>6, <2>1, <2>2 DEF PollFailed
<1>7. CASE Expect
  BY <1>0, <1>1, <1>7 DEF Expect, IInv, TypeOK, Collecting, Matched, Impaired, LossRemoved, Before, During,
     lab, poll, ModelTables, Nodes
<1>8. CASE InjectNothing
  BY <1>0, <1>1, <1>8 DEF InjectNothing, Injected, IInv, TypeOK, Collecting, Matched, Impaired, LossRemoved,
     Before, During, poll
<1>9. CASE SetLinkLoss
  <2>1. Range(scenario.link) = {scenario.link[1], scenario.link[2]}
    BY <1>0, <1>9, LinkEnds DEF SetLinkLoss
  <2>2. NextEnd = IF scenario.link[1] \in loss THEN scenario.link[2] ELSE scenario.link[1]
    BY DEF NextEnd
  <2>3. loss \subseteq {scenario.link[1]} /\ loss' = loss \cup {NextEnd} /\ pc = "inject"
    BY <1>9 DEF IInv, Impaired, SetLinkLoss, Before
  <2>4. CASE NextEnd = scenario.link[2]
    <3>1. loss' = Range(scenario.link) /\ pc' = "poll" /\ injected' = TRUE
      BY <1>9, <2>1, <2>2, <2>3, <2>4 DEF SetLinkLoss, Injected
    <3> QED
      BY <1>0, <1>1, <1>9, <2>3, <3>1
      DEF SetLinkLoss, IInv, TypeOK, Collecting, Matched, Impaired, LossRemoved, Before, During, poll
  <2>5. CASE NextEnd # scenario.link[2]
    <3>1. loss' \subseteq {scenario.link[1]} /\ pc' = pc /\ injected' = injected
      BY <1>9, <2>2, <2>3, <2>5 DEF SetLinkLoss
    <3> QED
      BY <1>0, <1>1, <1>9, <2>3, <3>1
      DEF SetLinkLoss, IInv, TypeOK, Collecting, Matched, Impaired, LossRemoved, Before, During, poll
  <2> QED
    BY <2>4, <2>5
<1>10. CASE StopNode
  BY <1>0, <1>1, <1>10 DEF StopNode, Injected, IInv, TypeOK, Collecting, Matched, Impaired, LossRemoved,
     Before, During, poll
<1>11. CASE InjectFails
  BY <1>0, <1>1, <1>11 DEF InjectFails, IInv, TypeOK, Collecting, Matched, Impaired, LossRemoved,
     Before, During, poll, lab
<1>12. CASE StartPoll
  <2>1. AreTables(<<>>, 0)
    BY DEF AreTables
  <2>2. pc = "poll" /\ pc' = "exec" /\ at' = 1 /\ bad' = 0 /\ got' = <<>> /\ UNCHANGED <<lab, expected, err, verdict>>
    BY <1>12 DEF StartPoll
  <2>3. 1 \in 1..Nodes /\ 1 \in Nat /\ 0 \in Nat /\ 0 = 1 - 1
    BY <1>0, NodesNat
  <2>4. TypeOK'
    BY <1>0, <2>2, <2>3 DEF IInv, TypeOK, During, lab
  <2>5. Collecting'
    BY <1>1, <2>1, <2>2, <2>3 DEF IInv, Collecting
  <2> QED
    BY <1>4, <2>2, <2>4, <2>5 DEF During
<1>13. ASSUME NEW routes, IsSequence(routes), pc = "exec", Proceed(routes), UNCHANGED <<lab, expected, err, verdict>>
       PROVE  IInv'
  <2>1. /\ pc' \in {"exec", "compare"} /\ at' \in Nat /\ bad' = 0
        /\ pc' = "exec" => at' \in 1..Nodes /\ \E n \in {at' - 1, at'} : AreTables(got', n)
        /\ pc' = "compare" => AreTables(got', Nodes)
    BY <1>0, <1>13, ProceedCollects
  <2>2. TypeOK'
    BY <1>0, <1>13, <2>1 DEF IInv, TypeOK, During, lab
  <2>3. Collecting'
    BY <1>1, <1>13, <2>1 DEF IInv, Collecting
  <2> QED
    BY <1>4, <1>13, <2>1, <2>2, <2>3 DEF During
<1>14. CASE Exec
  BY <1>13, <1>14, AnswerTable DEF Exec
<1>15. CASE BGPNotRunning
  BY <1>13, <1>15, SequenceBasics DEF BGPNotRunning
<1>16. CASE ExecRetries
  <2>1. bad' \in Nat
    BY <1>16 DEF ExecRetries, IInv, TypeOK
  <2> QED
    BY <1>3, <1>16, <2>1 DEF ExecRetries
<1>17. CASE ExecFails
  <2>1. bad' \in Nat
    BY <1>17 DEF ExecFails, IInv, TypeOK
  <2> QED
    BY <1>6, <1>17, <2>1 DEF ExecFails, During
<1>25. CASE ParseFails
  <2>1. bad' \in Nat
    BY <1>25 DEF ParseFails, IInv, TypeOK
  <2> QED
    BY <1>6, <1>25, <2>1 DEF ParseFails, During
<1>18. CASE Compare
  <2>1. pc = "compare" /\ UNCHANGED <<lab, expected, at, got, bad>> /\ err' = FALSE /\ bad \in Nat
    BY <1>18 DEF Compare, IInv, TypeOK
  <2>2. CASE PollFailed
    BY <1>6, <2>1, <2>2 DEF During
  <2>3. CASE CompareRoutes(expected, Collected, CompareOptions).ok
    <3>1. verdict' = "match" /\ pc' = IF scenario.kind = "link" THEN "cleanup" ELSE "done"
      BY <1>18, <2>3 DEF Compare
    <3>2. Collected' = Collected
      BY <2>1 DEF Collected
    <3>3. AreTables(got', Nodes')
      BY <1>1, <2>1 DEF IInv, Collecting
    <3>4. Matched'
      BY <1>1, <2>1, <2>3, <3>1, <3>2, <3>3 DEF Matched
    <3> QED
      BY <1>5, <2>1, <3>1, <3>4 DEF During
  <2> QED
    BY <1>18, <2>2, <2>3 DEF Compare
<1>19. CASE Tick
  <2>1. TypeOK' /\ Collecting'
    BY <1>0, <1>1, <1>19 DEF Tick, IInv, TypeOK, Collecting, During, poll, lab
  <2> QED
    BY <1>4, <1>19, <2>1 DEF Tick, During
<1>20. CASE TimesOut
  BY <1>5, <1>20 DEF TimesOut, GiveUp, Matched, During, poll, IInv, TypeOK
<1>21. CASE Cleanup
  <2>1. PICK failing \in SUBSET Range(scenario.link) : Reset(failing)
    BY <1>21 DEF Cleanup
  <2>2. pc = "cleanup" /\ scenario.kind = "link" /\ loss = Range(scenario.link)
    BY <1>21 DEF Cleanup, IInv, Impaired
  <2>3. loss' = unreset'
    BY <2>1, <2>2 DEF Reset
  <2>4. /\ pc' = "done" /\ UNCHANGED <<injected, expected, at, bad, got, err, verdict>>
    BY <1>21 DEF Cleanup, poll
  <2>5. Collected' = Collected
    BY <2>4 DEF Collected
  <2> QED
    BY <1>0, <1>1, <2>2, <2>3, <2>4, <2>5
    DEF IInv, TypeOK, Collecting, Matched, Impaired, LossRemoved, Before, During
<1>22. CASE Expire
  BY <1>3, <1>22 DEF Expire, poll, IInv, TypeOK
<1>23. ASSUME NEW n \in Node, Converge(n) PROVE IInv'
  BY <1>3, <1>23 DEF Converge, poll, IInv, TypeOK
<1>24. CASE UNCHANGED vars
  BY <1>3, <1>24 DEF vars, lab, IInv, TypeOK
<1> QED
  BY <1>7, <1>8, <1>9, <1>10, <1>11, <1>12, <1>14, <1>15, <1>16, <1>17, <1>18, <1>19, <1>20, <1>21, <1>22,
     <1>23, <1>24, <1>25 DEF Next, Returned

---------------------------------------------------------------------------
(***************************************************************************)
(* The theorems.                                                           *)
(***************************************************************************)
\* The inductive invariant holds throughout.
LEMMA Inductive == Spec => []IInv
BY InitIInv, NextIInv, PTL DEF Spec

\* The check's variables keep their types.
THEOREM TypeCorrect == Spec => []TypeOK
<1>1. IInv => TypeOK
  BY DEF IInv
<1> QED
  BY <1>1, Inductive, PTL

\* CompareRIBsWithFailures throws the tables of all nodes into one comparison
\* that knows no nodes.  Still, whatever the tables and the options, success
\* means that each prefix a node alone has is shown by that node with the
\* attributes the simulator expects.
THEOREM MatchIsAgreement == Spec => []MatchMeansAgreement
<1>1. IInv => MatchMeansAgreement
  <2> SUFFICES ASSUME IInv, verdict = "match", NEW i \in 1..Nodes, NEW p,
                      \A j \in 1..Nodes \ {i} : ~Holds(got[j], p) /\ ~Holds(ModelTables[j], p)
               PROVE  Agree(ModelTables[i], got[i], p, FillCompareDefaults(CompareOptions))
    BY DEF MatchMeansAgreement, Agree, Nodes, ModelTables
  <2>1. Nodes \in Nat
    BY NodesNat DEF IInv, TypeOK
  <2>2. AreTables(got, Nodes) /\ CompareRoutes(expected, Collected, CompareOptions).ok
    BY DEF IInv, Matched
  <2>3. AreTables(ModelTables, Nodes)
    BY ExpectedTable DEF AreTables, ModelTables
  <2>4. expected = FlattenSeq(ModelTables)
    BY DEF IInv, Matched, Collecting
  <2>5. Collected \in {FlattenSeq(got), BGPOnly(FlattenSeq(got))}
    BY DEF Collected
  <2> QED
    BY <2>1, <2>2, <2>3, <2>4, <2>5, AloneAgrees
<1> QED
  BY <1>1, Inductive, PTL

\* Once Inject has succeeded the deferred Cleanup leaves packet loss behind
\* only where its own reset failed, on every way out of the check.
THEOREM LossIsRemoved == Spec => []LossRemoved
<1>1. IInv => LossRemoved
  BY DEF IInv
<1> QED
  BY <1>1, Inductive, PTL

\* The error that is kept and the commands that are left say the same of the
\* last poll as soon as it is over.
ReasonTracked ==
    /\ pc \in Before => ~err /\ commands = <<>>
    /\ pc = "exec" => commands # <<>>
    /\ pc = "compare" => commands = <<>>
    /\ pc \in {"sleep", "cleanup", "done"} => (err <=> commands # <<>>)
    /\ verdict = "notConverged" => pc \in {"cleanup", "done"}

\* Every device is asked for something.
LEMMA SomeCommand == \A n : Commands(n) # <<>>
BY DEF Commands

\* Every step of the check and of its surroundings.
LEMMA NextReason == TypeOK /\ ReasonTracked /\ [Next]_vars => ReasonTracked'
<1> SUFFICES ASSUME TypeOK, ReasonTracked, [Next]_vars PROVE ReasonTracked'
  OBVIOUS
<1> USE DEF ReasonTracked, Before
<1>1. CASE Expect \/ InjectNothing \/ SetLinkLoss \/ StopNode \/ InjectFails
  BY <1>1 DEF Expect, InjectNothing, SetLinkLoss, StopNode, InjectFails, Injected, poll
<1>2. CASE StartPoll
  BY <1>2, SomeCommand DEF StartPoll
<1>3. ASSUME NEW routes, pc = "exec", Proceed(routes), UNCHANGED <<err, verdict>> PROVE ReasonTracked'
  BY <1>3, SomeCommand DEF Proceed
<1>4. CASE Exec \/ BGPNotRunning
  BY <1>3, <1>4 DEF Exec, BGPNotRunning
<1>5. CASE ExecRetries
  BY <1>5 DEF ExecRetries
\* A poll that is over without success.
<1>6. ASSUME pc \in {"exec", "compare"}, PollFailed, commands' = commands, err' <=> commands # <<>>
      PROVE  ReasonTracked'
  BY <1>6 DEF PollFailed, GiveUp
<1>7. CASE ExecFails \/ ParseFails
  BY <1>6, <1>7 DEF ExecFails, ParseFails
<1>8. CASE Compare
  BY <1>6, <1>8 DEF Compare
<1>9. CASE Tick \/ TimesOut
  BY <1>9 DEF Tick, TimesOut, GiveUp, poll
<1>10. CASE Cleanup
  BY <1>10 DEF Cleanup, poll
<1>11. CASE Expire \/ \E n \in Node : Converge(n)
  BY <1>11 DEF Expire, Converge, poll
<1>12. CASE UNCHANGED vars
  BY <1>12 DEF vars
<1> QED
  BY <1>1, <1>2, <1>4, <1>5, <1>7, <1>8, <1>9, <1>10, <1>11, <1>12 DEF Next, Returned

\* WaitForMatchingRIBs forgets the error of a poll when a later one reads all
\* the tables, and not before: whatever the polls brought and however the
\* check ends, its error explains the state the last poll left.
THEOREM ReasonOfLastPoll == Spec => []ReasonIsCurrent
<1>1. Init => ReasonTracked
  BY DEF Init, ReasonTracked, Before
<1>2. ReasonTracked => ReasonIsCurrent
  BY DEF ReasonTracked, ReasonIsCurrent
<1> QED
  BY <1>1, <1>2, TypeCorrect, NextReason, PTL DEF Spec

===========================================================================
