------------------------- MODULE TrafficGraphProofs -----------------------
(***************************************************************************)
(* The cache of traffic distribution graphs is never touched by the        *)
(* failures simulated on top of it, for all networks and both commands,    *)
(* and the search for the failures that overload a link finds the smallest *)
(* ones: it visits the sets of elements by size and misses none.           *)
(***************************************************************************)
EXTENDS TrafficGraph, SequenceFacts

\* CachePristine alone is not inductive: that the assumption on classes
\* applies to net is needed for the graphs that are built later.
IInv == net \in Nets /\ CachePristine

\* A call of GetOrBuild leaves a pristine cache, whether it starts from the
\* cache of earlier calls or, as Analyze does, from an empty one: it keeps what
\* is cached and adds only graphs of its own ingress.
LEMMA CallPristine ==
    ASSUME IInv, NEW entries, NEW root,
           entries = cache \/ DOMAIN entries = {},
           cache' = GetOrBuild(entries, root), net' = net
    PROVE  IInv'
<1> SUFFICES ASSUME NEW i \in DOMAIN net.classes, NEW r \in Node,
                    Key(r, net.classes[i]) \in DOMAIN GetOrBuild(entries, root)
             PROVE  GetOrBuild(entries, root)[Key(r, net.classes[i])]
                      = BuildTDG(net.fibs, r, net.classes[i].dst)
  BY DEF IInv, CachePristine
<1> DEFINE key  == Key(r, net.classes[i])
           keys == {Key(root, net.classes[j]) : j \in DOMAIN net.classes}
           b    == CHOOSE j \in DOMAIN net.classes : Key(root, net.classes[j]) = key
<1>1. key \in DOMAIN entries \cup keys
  BY DEF GetOrBuild
<1>2. CASE key \in DOMAIN entries
  <2>1. entries[key] = BuildTDG(net.fibs, r, net.classes[i].dst)
    BY <1>2 DEF IInv, CachePristine
  <2>2. GetOrBuild(entries, root)[key] = entries[key]
    BY <1>1, <1>2 DEF GetOrBuild
  <2> QED
    BY <2>1, <2>2
<1>3. CASE key \notin DOMAIN entries
  <2>1. \E j \in DOMAIN net.classes : Key(root, net.classes[j]) = key
    BY <1>1, <1>3
  <2>2. b \in DOMAIN net.classes /\ Key(root, net.classes[b]) = key
    BY <2>1
  <2>3. r = root /\ net.classes[b].id = net.classes[i].id
    BY <2>2 DEF Key
  <2>4. net.classes[b].dst = net.classes[i].dst
    BY <2>2, <2>3, ClassAssumption DEF IInv
  <2>5. GetOrBuild(entries, root)[key] = BuildTDG(net.fibs, root, net.classes[b].dst)
    BY <1>1, <1>3 DEF GetOrBuild
  <2> QED
    BY <2>3, <2>4, <2>5
<1> QED
  BY <1>2, <1>3

\* A command starts with an empty cache.
LEMMA InitPristine == Init => IInv
BY DEF Init, IInv, CachePristine

\* No step of a command puts another graph into the cache.
LEMMA NextPristine == IInv /\ [Next]_vars => IInv'
<1> SUFFICES ASSUME IInv, [Next]_vars PROVE IInv'
  OBVIOUS
<1>1. CASE WhatIfBase
  BY <1>1, CallPristine DEF WhatIfBase
<1>2. CASE WhatIfFailed
  BY <1>2, CallPristine DEF WhatIfFailed
<1>3. CASE AnalyzeBase
  <2>1. DOMAIN <<>> = {}
    OBVIOUS
  <2> QED
    BY <1>3, <2>1, CallPristine DEF AnalyzeBase
<1>4. CASE AnalyzeCombo
  BY <1>4, CallPristine DEF AnalyzeCombo
<1>5. CASE MergeFindings
  BY <1>5 DEF MergeFindings, IInv, CachePristine
<1>6. CASE UNCHANGED vars
  BY <1>6 DEF vars, IInv, CachePristine
<1> QED
  BY <1>1, <1>2, <1>3, <1>4, <1>5, <1>6 DEF Next, Finished

\* TDGCache, "the cached TDG is cloned": for all networks, command lines and
\* sequences of failures, the cache holds the graphs of the unfailed network.
THEOREM CacheNeverPolluted == Spec => []CachePristine
<1>1. IInv => CachePristine
  BY DEF IInv
<1> QED
  BY InitPristine, NextPristine, <1>1, PTL DEF Spec

---------------------------------------------------------------------------
(***************************************************************************)
(* The search of kfail: the combinations in their order.                   *)
(***************************************************************************)
\* k positions of D in ascending order.
Ascending(c, k, D) == c \in [1..k -> D] /\ \A i, j \in 1..k : i < j => c[i] < c[j]

\* The elements that may fail are numbered.
LEMMA SearchSequence ==
    ASSUME net \in Nets
    PROVE  IsSequence(SearchElements)
<1> DEFINE links == [i \in LinkIndices |->
                      IF LinkEligible(net.links[i])
                      THEN <<[kind |-> "link", name |-> net.links[i].name]>> ELSE <<>>]
           N     == Cardinality(Node)
           nodes == [n \in 1..N |-> IF NodeEligible(n) THEN <<[kind |-> "node", name |-> <<n>>]>> ELSE <<>>]
<1>1. LinkIndices = 1..Len(net.links) /\ Len(net.links) \in Nat
  BY TopologyAssumption DEF LinkIndices
<1>2. N \in Nat
  BY TopologyAssumption, FS_CardinalityType
<1>3. /\ links = [i \in 1..Len(net.links) |-> links[i]]
      /\ \A i \in 1..Len(net.links) : IsSequence(links[i])
  BY <1>1, SequenceBasics
<1>4. nodes = [n \in 1..N |-> nodes[n]] /\ \A n \in 1..N : IsSequence(nodes[n])
  BY SequenceBasics
<1>5. SearchElements = FlattenSeq(links) \o FlattenSeq(nodes)
  BY DEF SearchElements
<1> HIDE DEF links, nodes, N
<1>6. IsSequence(FlattenSeq(links)) /\ IsSequence(FlattenSeq(nodes))
  BY <1>1, <1>2, <1>3, <1>4, FlattenSequences
<1> QED
  BY <1>5, <1>6, SequenceBasics

\* Combinations are ascending sequences of positions.
LEMMA ComboShape ==
    ASSUME net \in Nets
    PROVE  /\ DOMAIN SearchElements \subseteq Nat /\ IsFiniteSet(DOMAIN SearchElements)
           /\ \A c : c \in Combos <=> \E k \in 1..net.maxK : Ascending(c, k, DOMAIN SearchElements)
           /\ \A k \in Nat : \A c : Ascending(c, k, DOMAIN SearchElements) =>
                 Len(c) = k /\ DOMAIN c = 1..k
<1>1. Len(SearchElements) \in Nat /\ DOMAIN SearchElements = 1..Len(SearchElements)
  BY SearchSequence, OwnElements
<1> DEFINE D == DOMAIN SearchElements
<1>2. D \subseteq Nat /\ IsFiniteSet(D)
  BY <1>1, FS_Interval
<1>3. \A c : c \in Combos <=> \E k \in 1..net.maxK : Ascending(c, k, D)
  BY DEF Combos, Ascending
<1>4. ASSUME NEW k \in Nat, NEW c, Ascending(c, k, D) PROVE Len(c) = k /\ DOMAIN c = 1..k
  <2>1. c = [i \in 1..k |-> c[i]] /\ DOMAIN c = 1..k
    BY <1>4 DEF Ascending
  <2> QED
    BY <2>1, FunctionSequence
<1> QED
  BY <1>2, <1>3, <1>4

\* Before is lexicographic, so that some combination left comes first.
LEMMA LeastCombo ==
    ASSUME net \in Nets, LaterCombos # {}
    PROVE  NextCombo \in LaterCombos /\ \A d \in LaterCombos : d = NextCombo \/ Before(NextCombo, d)
<1> DEFINE D == DOMAIN SearchElements
<1>1. /\ D \subseteq Nat
      /\ \A c \in LaterCombos : Len(c) \in Nat /\ DOMAIN c = 1..Len(c) /\ c \in [1..Len(c) -> D]
  <2>1. ASSUME NEW c \in LaterCombos
        PROVE  Len(c) \in Nat /\ DOMAIN c = 1..Len(c) /\ c \in [1..Len(c) -> D]
    <3>1. PICK k \in 1..net.maxK : Ascending(c, k, D)
      BY ComboShape DEF LaterCombos
    <3>2. k \in Nat
      BY TopologyAssumption
    <3>3. Len(c) = k /\ DOMAIN c = 1..k
      BY <3>1, <3>2, ComboShape
    <3> QED
      BY <3>1, <3>2, <3>3 DEF Ascending
  <2> QED
    BY <2>1, ComboShape
<1> HIDE DEF D
<1> DEFINE L == {Len(c) : c \in LaterCombos}
<1>2. PICK k \in L : \A m \in L : k <= m
  <2>1. L \subseteq Nat /\ L # {}
    BY <1>1
  <2> HIDE DEF L
  <2> QED
    BY <2>1, LeastElement
<1> DEFINE S == {c \in LaterCombos : Len(c) = k}
           Agree(c, d, i) == \A j \in 1..i : c[j] = d[j]
           Ahead(c, d, i) == \E j \in 1..i : c[j] < d[j] /\ \A h \in 1..(j - 1) : c[h] = d[h]
           T == {i \in 0..k : \E c \in S : \A d \in S : Agree(c, d, i) \/ Ahead(c, d, i)}
<1>3. k \in Nat /\ S # {} /\ \A c \in S : c \in LaterCombos /\ c \in [1..k -> D] /\ Len(c) = k /\ DOMAIN c = 1..k
  BY <1>1, <1>2
<1>4. 0 \in T
  <2>1. PICK c \in S : TRUE
    BY <1>3
  <2>2. \A d \in S : Agree(c, d, 0)
    OBVIOUS
  <2> QED
    BY <1>3, <2>2
<1> HIDE DEF S, L
<1>5. ASSUME NEW i \in 1..k, i - 1 \in T PROVE i \in T
  <2>1. PICK c \in S : \A d \in S : Agree(c, d, i - 1) \/ Ahead(c, d, i - 1)
    BY <1>5
  <2> DEFINE E == {d \in S : Agree(c, d, i - 1)}
             V == {d[i] : d \in E}
  <2>2. c \in E
    OBVIOUS
  <2>3. V \subseteq Nat /\ V # {}
    <3>1. ASSUME NEW d \in E PROVE d[i] \in Nat
      <4>1. d \in [1..k -> D]
        BY <1>3
      <4> QED
        BY <1>1, <4>1
    <3> QED
      BY <2>2, <3>1
  <2>4. PICK v \in V : \A x \in V : v <= x
    <3> HIDE DEF V
    <3> QED
      BY <2>3, LeastElement
  <2>5. PICK b \in E : v = b[i]
    BY <2>4
  <2>6. i \in 0..k /\ i \in Nat /\ \A j \in 1..i : j = i \/ j \in 1..(i - 1)
    BY <1>3
  <2>7. ASSUME NEW d \in S PROVE Agree(b, d, i) \/ Ahead(b, d, i)
    <3>1. CASE Agree(c, d, i - 1)
      <4>1. b[i] <= d[i] /\ b[i] \in Nat /\ d[i] \in Nat
        BY <2>3, <2>4, <2>5, <3>1
      <4>2. \A j \in 1..(i - 1) : b[j] = d[j]
        BY <2>5, <3>1
      <4>3. CASE b[i] = d[i]
        BY <2>6, <4>2, <4>3
      <4>4. CASE b[i] < d[i]
        <5>1. i \in 1..i
          BY <2>6
        <5> QED
          BY <4>2, <4>4, <5>1
      <4> QED
        BY <4>1, <4>3, <4>4
    <3>2. CASE Ahead(c, d, i - 1)
      <4>1. PICK j \in 1..(i - 1) : c[j] < d[j] /\ \A h \in 1..(j - 1) : c[h] = d[h]
        BY <3>2
      <4>2. j \in 1..i /\ \A h \in 1..(j - 1) : h \in 1..(i - 1)
        BY <2>6
      <4>3. b[j] < d[j] /\ \A h \in 1..(j - 1) : b[h] = d[h]
        BY <2>5, <4>1, <4>2
      <4> QED
        BY <4>2, <4>3
    <3> QED
      BY <2>1, <3>1, <3>2
  <2> QED
    BY <2>5, <2>6, <2>7
<1>6. k \in T
  <2> HIDE DEF T
  <2>1. k \in Nat /\ k \in 0..k
    BY <1>3
  <2>2. 0..k \subseteq T
    BY <1>4, <1>5, <2>1, BoundedInduction
  <2> QED
    BY <2>1, <2>2
<1>7. PICK c \in S : \A d \in S : Agree(c, d, k) \/ Ahead(c, d, k)
  BY <1>6
<1>8. ASSUME NEW d \in LaterCombos PROVE d = c \/ Before(c, d)
  <2>1. CASE Len(d) = k
    <3>1. d \in S /\ d \in [1..k -> D] /\ c \in [1..k -> D] /\ Len(c) = k /\ DOMAIN c = 1..k
      BY <1>3, <2>1 DEF S
    <3>2. CASE Agree(c, d, k)
      BY <3>1, <3>2
    <3>3. CASE Ahead(c, d, k)
      BY <2>1, <3>1, <3>3 DEF Before
    <3> QED
      BY <1>7, <3>1, <3>2, <3>3
  <2>2. CASE Len(d) # k
    <3>1. Len(d) \in L /\ Len(d) \in Nat /\ Len(c) = k
      BY <1>1, <1>3 DEF L
    <3>2. k <= Len(d) /\ k \in Nat
      BY <1>2, <1>3, <3>1
    <3> QED
      BY <2>2, <3>1, <3>2 DEF Before
  <2> QED
    BY <2>1, <2>2
<1>9. c \in LaterCombos
  BY <1>3
<1> QED
  BY <1>8, <1>9, Zenon DEF NextCombo

\* A finite set of numbers can be listed in ascending order.
LEMMA AscendingList ==
    ASSUME NEW I, I \subseteq Nat, IsFiniteSet(I)
    PROVE  \E c : Ascending(c, Cardinality(I), I) /\ \A x \in I : \E i \in 1..Cardinality(I) : c[i] = x
<1> DEFINE Lists(c, k, J) == Ascending(c, k, J) /\ \A x \in J : \E i \in 1..k : c[i] = x
           T == {k \in Nat : \A J \in SUBSET I : Cardinality(J) = k => \E c : Lists(c, k, J)}
<1>1. 0 \in T
  <2> SUFFICES ASSUME NEW J \in SUBSET I, Cardinality(J) = 0 PROVE \E c : Lists(c, 0, J)
    OBVIOUS
  <2>1. J = {}
    BY FS_Subset, FS_EmptySet
  <2>2. 1..0 = {}
    OBVIOUS
  <2>3. Lists([i \in 1..0 |-> i], 0, J)
    BY <2>1, <2>2 DEF Ascending
  <2> QED
    BY <2>3
<1>2. ASSUME NEW k \in Nat, k \in T PROVE k + 1 \in T
  <2> SUFFICES ASSUME NEW J \in SUBSET I, Cardinality(J) = k + 1 PROVE \E c : Lists(c, k + 1, J)
    OBVIOUS
  <2>1. IsFiniteSet(J) /\ J \subseteq Nat /\ J # {}
    <3>1. IsFiniteSet(J)
      BY FS_Subset
    <3>2. Cardinality(J) # 0
      OBVIOUS
    <3> QED
      BY <3>1, <3>2, FS_EmptySet
  <2>2. PICK b \in Nat : \A n \in J : n <= b
    BY <2>1, FiniteBound
  <2> DEFINE x == Max(J)
             R == J \ {x}
  <2>3. x \in J /\ \A m \in J : x >= m
    BY <2>1, <2>2, GreatestElement
  <2> HIDE DEF x
  <2>4. R \in SUBSET I /\ Cardinality(R) = k
    <3>1. Cardinality(R) = Cardinality(J) - 1
      BY <2>1, <2>3, FS_RemoveElement
    <3>2. R \in SUBSET I
      OBVIOUS
    <3> HIDE DEF R, T
    <3> QED
      BY <3>1, <3>2
  <2>5. PICK c : Lists(c, k, R)
    BY <1>2, <2>4
  <2> DEFINE d == [i \in 1..(k + 1) |-> IF i = k + 1 THEN x ELSE c[i]]
  <2>6. \A i \in 1..(k + 1) : i = k + 1 \/ (i \in 1..k /\ i # k + 1)
    OBVIOUS
  <2>7. \A i \in 1..k : i \in 1..(k + 1) /\ i # k + 1 /\ d[i] = c[i] /\ c[i] \in R
    BY <2>5 DEF Ascending
  <2>8. d[k + 1] = x /\ k + 1 \in 1..(k + 1)
    OBVIOUS
  <2> HIDE DEF d
  <2>9. d \in [1..(k + 1) -> J]
    <3>1. \A i \in 1..(k + 1) : d[i] \in J
      BY <2>3, <2>6, <2>7, <2>8
    <3> QED
      BY <3>1 DEF d
  <2>10. ASSUME NEW i \in 1..(k + 1), NEW j \in 1..(k + 1), i < j PROVE d[i] < d[j]
    <3>1. i \in 1..k
      BY <2>10
    <3>2. CASE j = k + 1
      <4>1. d[i] \in J /\ d[i] # x
        BY <2>7, <3>1
      <4>2. x >= d[i] /\ x \in Nat /\ d[i] \in Nat
        BY <2>1, <2>3, <4>1
      <4> QED
        BY <2>8, <3>2, <4>1, <4>2
    <3>3. CASE j # k + 1
      BY <2>5, <2>6, <2>7, <2>10, <3>1, <3>3 DEF Ascending
    <3> QED
      BY <3>2, <3>3
  <2>11. ASSUME NEW y \in J PROVE \E i \in 1..(k + 1) : d[i] = y
    <3>1. CASE y = x
      BY <2>8, <3>1
    <3>2. CASE y # x
      <4>1. PICK i \in 1..k : c[i] = y
        BY <2>5, <3>2
      <4> QED
        BY <2>7, <4>1
    <3> QED
      BY <3>1, <3>2
  <2>12. Lists(d, k + 1, J)
    BY <2>9, <2>10, <2>11 DEF Ascending
  <2> QED
    BY <2>12
<1>3. Nat \subseteq T
  <2> HIDE DEF T
  <2> QED
    BY <1>1, <1>2, Induction
<1>4. Cardinality(I) \in T
  BY <1>3, FS_CardinalityType
<1> QED
  BY <1>4

\* Every set of elements is what some combination of its size fails.
LEMMA ComboOf ==
    ASSUME net \in Nets, NEW F, F \subseteq ToSet(SearchElements)
    PROVE  /\ IsFiniteSet(F)
           /\ \E c : Ascending(c, Cardinality(F), DOMAIN SearchElements) /\ Elements(c) = F
<1> DEFINE D == DOMAIN SearchElements
           at == [e \in F |-> CHOOSE i \in D : SearchElements[i] = e]
           I == {at[e] : e \in F}
<1>1. \A e \in F : at[e] \in D /\ SearchElements[at[e]] = e
  BY DEF ToSet
<1>2. I \subseteq D /\ D \subseteq Nat /\ IsFiniteSet(D)
  BY <1>1, ComboShape
<1>3. IsFiniteSet(I)
  BY <1>2, FS_Subset
<1>4. at \in Injection(F, I) /\ at \in Surjection(F, I)
  <2>1. at \in [F -> I]
    OBVIOUS
  <2>2. \A e, g \in F : at[e] = at[g] => e = g
    BY <1>1
  <2>3. \A i \in I : \E e \in F : at[e] = i
    OBVIOUS
  <2> HIDE DEF at, I
  <2> QED
    BY <2>1, <2>2, <2>3 DEF Injection, Surjection, IsInjective
<1> HIDE DEF at
<1>5. IsFiniteSet(F) /\ Cardinality(F) = Cardinality(I)
  <2> HIDE DEF I
  <2> QED
    BY <1>3, <1>4, FS_Injection
<1>6. PICK c : Ascending(c, Cardinality(I), I) /\ \A x \in I : \E i \in 1..Cardinality(I) : c[i] = x
  <2> HIDE DEF I
  <2> QED
    BY <1>2, <1>3, AscendingList
<1>7. c \in [1..Cardinality(F) -> I] /\ DOMAIN c = 1..Cardinality(F)
  BY <1>5, <1>6 DEF Ascending
<1>8. Ascending(c, Cardinality(F), D)
  BY <1>2, <1>5, <1>6, <1>7 DEF Ascending
<1>9. ASSUME NEW e \in F PROVE e \in Elements(c)
  <2>1. PICK i \in 1..Cardinality(F) : c[i] = at[e]
    BY <1>5, <1>6
  <2> QED
    BY <1>1, <1>7, <2>1 DEF Elements
<1>10. ASSUME NEW i \in DOMAIN c PROVE SearchElements[c[i]] \in F
  <2>1. PICK e \in F : c[i] = at[e]
    BY <1>7
  <2> QED
    BY <1>1, <2>1
<1> QED
  BY <1>5, <1>8, <1>9, <1>10 DEF Elements

\* A combination fails at most as many elements as it is long.
LEMMA ComboSize ==
    ASSUME net \in Nets, NEW c \in Combos
    PROVE  /\ Elements(c) \subseteq ToSet(SearchElements)
           /\ IsFiniteSet(Elements(c)) /\ Cardinality(Elements(c)) <= Len(c)
           /\ Len(c) \in 1..net.maxK /\ Len(c) \in Nat
<1>1. PICK k \in 1..net.maxK : Ascending(c, k, DOMAIN SearchElements)
  BY ComboShape
<1>2. k \in Nat /\ net.maxK \in Int
  BY TopologyAssumption
<1>3. Len(c) = k /\ DOMAIN c = 1..k /\ \A i \in 1..k : c[i] \in DOMAIN SearchElements
  BY <1>1, <1>2, ComboShape DEF Ascending
<1> DEFINE f == [i \in 1..k |-> SearchElements[c[i]]]
<1>4. f \in Surjection(1..k, Elements(c))
  <2>1. f \in [1..k -> Elements(c)] /\ \A e \in Elements(c) : \E i \in 1..k : f[i] = e
    BY <1>3 DEF Elements
  <2> QED
    BY <2>1 DEF Surjection
<1>5. IsFiniteSet(1..k) /\ Cardinality(1..k) = k
  BY <1>2, FS_Interval
<1>6. IsFiniteSet(Elements(c)) /\ Cardinality(Elements(c)) <= k
  <2> HIDE DEF f
  <2> QED
    BY <1>4, <1>5, FS_Surjection
<1>7. Elements(c) \subseteq ToSet(SearchElements)
  BY <1>3 DEF Elements, ToSet
<1> QED
  BY <1>2, <1>3, <1>6, <1>7

---------------------------------------------------------------------------
(***************************************************************************)
(* What the search knows of the combinations it has tried.                 *)
(***************************************************************************)
OverloadedBy(F) == OverloadedLinks(LoadsUnder(Head(roots), SetFromElements(F)))

\* The base case and the combinations that are not left.
Tried == {<<>>} \cup (Combos \ LaterCombos)

\* A finding was overloaded by a combination, and by none tried of fewer elements.
FindingOK(f) ==
    /\ f.k <= Len(combo)
    /\ \E d \in {<<>>} \cup Combos :
          f.k = Len(d) /\ f.failures = Elements(d) /\ f.link \in OverloadedBy(Elements(d))
    /\ \A d \in Tried : f.link \in OverloadedBy(Elements(d)) => f.k <= Len(d)

\* Each graph is taken from the cache as if it were built anew; a link that a
\* combination tried overloads is found, once.
Searched ==
    stage = "search" =>
        /\ cache = GetOrBuild(<<>>, Head(roots))
        /\ combo \in {<<>>} \cup Combos
        /\ \A d \in Tried : \A l \in OverloadedBy(Elements(d)) : \E f \in findings : f.link = l
        /\ \A f, g \in findings : f.link = g.link => f = g
        /\ \A f \in findings : FindingOK(f)

SearchInv == net \in Nets /\ Searched

\* GetOrBuild on the graphs of the same ingress builds nothing.
LEMMA BuildOnce ==
    ASSUME NEW root
    PROVE  GetOrBuild(GetOrBuild(<<>>, root), root) = GetOrBuild(<<>>, root)
<1> DEFINE keys == {Key(root, net.classes[i]) : i \in DOMAIN net.classes}
           g == GetOrBuild(<<>>, root)
<1>1. DOMAIN <<>> \cup keys = keys
  OBVIOUS
<1>2. DOMAIN g = keys /\ g = [key \in keys |-> g[key]]
  BY <1>1 DEF GetOrBuild
<1> HIDE DEF g
<1>3. GetOrBuild(g, root) = [key \in DOMAIN g \cup keys |-> IF key \in DOMAIN g THEN g[key] ELSE
          BuildTDG(net.fibs, root, net.classes[CHOOSE i \in DOMAIN net.classes : Key(root, net.classes[i]) = key].dst)]
  BY DEF GetOrBuild
<1> QED
  BY <1>2, <1>3 DEF g

\* No elements, no failure; and a combination that is not the base case.
LEMMA NothingFails ==
    ASSUME net \in Nets
    PROVE  /\ Elements(<<>>) = {} /\ SetFromElements({}) = NoFailure /\ Len(<<>>) = 0
           /\ \A c \in Combos : Len(c) > 0 /\ Len(c) \in Nat /\ Before(<<>>, c)
<1>1. Elements(<<>>) = {} /\ Len(<<>>) = 0
  BY DEF Elements
<1>2. SetFromElements({}) = NoFailure
  BY DEF SetFromElements, NoFailure
<1>3. ASSUME NEW c \in Combos PROVE Len(c) > 0 /\ Len(c) \in Nat /\ Before(<<>>, c)
  <2>1. Len(c) \in 1..net.maxK /\ Len(c) \in Nat /\ net.maxK \in Int
    BY ComboSize, TopologyAssumption
  <2>2. Len(c) > 0
    BY <2>1
  <2> QED
    BY <1>1, <2>1, <2>2 DEF Before
<1> QED
  BY <1>1, <1>2, <1>3

\* What the search reads of the network does not change with its state.
LEMMA Frame ==
    ASSUME net' = net, roots' = roots
    PROVE  /\ Combos' = Combos
           /\ \A F : OverloadedBy(F)' = OverloadedBy(F)
           /\ \A c : Elements(c)' = Elements(c)
           /\ \A r : GetOrBuild(<<>>, r)' = GetOrBuild(<<>>, r)
<1>1. SearchElements' = SearchElements
  BY DEF SearchElements, LinkIndices, LinkEligible, NodeEligible
<1>2. Combos' = Combos /\ \A c : Elements(c)' = Elements(c)
  BY <1>1 DEF Combos, Elements
<1>3. \A F : OverloadedBy(F)' = OverloadedBy(F)
  BY DEF OverloadedBy, OverloadedLinks, LoadsUnder, LinkLoads, GetOrBuild, LinkBandwidthForName, LinkIndices
<1>4. \A r : GetOrBuild(<<>>, r)' = GetOrBuild(<<>>, r)
  BY DEF GetOrBuild
<1> QED
  BY <1>2, <1>3, <1>4

\* The base case of a search.
LEMMA BaseSearched == SearchInv /\ AnalyzeBase => SearchInv'
<1> SUFFICES ASSUME SearchInv, AnalyzeBase PROVE SearchInv'
  OBVIOUS
<1>1. net \in Nets /\ net' = net /\ roots' = roots /\ combo' = <<>> /\ cache' = GetOrBuild(<<>>, Head(roots))
  BY DEF SearchInv, AnalyzeBase
<1>2. /\ Combos' = Combos /\ cache' = GetOrBuild(<<>>, Head(roots))'
      /\ \A F : OverloadedBy(F)' = OverloadedBy(F)
      /\ \A c : Elements(c)' = Elements(c)
  BY <1>1, Frame
<1>3. Tried' = {<<>>}
  BY <1>1, <1>2, NothingFails DEF Tried, LaterCombos, Before
<1> DEFINE O == OverloadedBy({})
<1>4. findings' = {[link |-> l, k |-> 0, failures |-> {}] : l \in O}
  BY <1>1, NothingFails DEF AnalyzeBase, OverloadedBy, LoadsUnder
<1> HIDE DEF O
<1>5. Elements(<<>>) = {} /\ Len(<<>>) = 0
  BY <1>1, NothingFails
<1>6. \A f \in findings' : f.k = 0 /\ f.failures = {} /\ f.link \in O /\ f = [link |-> f.link, k |-> 0, failures |-> {}]
  BY <1>4
<1>7. ASSUME NEW f \in findings' PROVE FindingOK(f)'
  <2>1. f.k = 0 /\ f.failures = {} /\ f.link \in OverloadedBy({})
    BY <1>6 DEF O
  <2>2. (f.k <= Len(combo))'
    BY <1>1, <1>5, <2>1
  <2>3. (f.k = Len(<<>>) /\ f.failures = Elements(<<>>) /\ f.link \in OverloadedBy(Elements(<<>>)))'
    BY <1>2, <1>5, <2>1
  <2>4. \A d \in Tried' : f.k <= Len(d)
    BY <1>3, <1>5, <2>1
  <2> QED
    BY <2>2, <2>3, <2>4 DEF FindingOK
<1>8. ASSUME NEW l \in O PROVE \E f \in findings' : f.link = l
  <2>1. [link |-> l, k |-> 0, failures |-> {}] \in findings'
    BY <1>4
  <2> QED
    BY <2>1
<1>9. \A f, g \in findings' : f.link = g.link => f = g
  BY <1>6
<1>10. Searched'
  BY <1>1, <1>2, <1>3, <1>5, <1>7, <1>8, <1>9 DEF Searched, O
<1> QED
  BY <1>1, <1>10 DEF SearchInv

\* The next combination leaves those before it behind.
LEMMA ComboSearched == SearchInv /\ AnalyzeCombo => SearchInv'
<1> SUFFICES ASSUME SearchInv, AnalyzeCombo PROVE SearchInv'
  OBVIOUS
<1> DEFINE c == NextCombo
           root == Head(roots)
           O == OverloadedBy(Elements(c))
           found == {f.link : f \in findings}
           New(l) == [link |-> l, k |-> Len(c), failures |-> Elements(c)]
<1>1. /\ net \in Nets /\ net' = net /\ roots' = roots /\ stage = "search" /\ stage' = stage
      /\ LaterCombos # {} /\ combo' = c /\ cache' = GetOrBuild(cache, root)
  BY DEF SearchInv, AnalyzeCombo
<1>2. /\ cache = GetOrBuild(<<>>, root) /\ combo \in {<<>>} \cup Combos
      /\ \A d \in Tried : \A l \in OverloadedBy(Elements(d)) : \E f \in findings : f.link = l
      /\ \A f, g \in findings : f.link = g.link => f = g
      /\ \A f \in findings : FindingOK(f)
  BY <1>1 DEF SearchInv, Searched
<1>3. cache' = GetOrBuild(<<>>, root)
  BY <1>1, <1>2, BuildOnce
<1>4. findings' = findings \cup {New(l) : l \in O \ found}
  BY <1>3 DEF AnalyzeCombo, OverloadedBy, LoadsUnder
<1>5. /\ Combos' = Combos /\ cache' = GetOrBuild(<<>>, Head(roots))'
      /\ \A F : OverloadedBy(F)' = OverloadedBy(F)
      /\ \A d : Elements(d)' = Elements(d)
  BY <1>1, <1>3, Frame
<1>6. c \in LaterCombos /\ \A d \in LaterCombos : d = c \/ Before(c, d)
  BY <1>1, LeastCombo
<1> HIDE DEF c
<1>7. c \in Combos /\ Before(combo, c)
  BY <1>6 DEF LaterCombos
<1>8. Tried' \subseteq Tried \cup {c}
  BY <1>1, <1>5, <1>6 DEF Tried, LaterCombos
<1>9. Len(combo) \in Nat /\ Len(c) \in Nat /\ Len(combo) <= Len(c)
  <2>1. Len(combo) \in Nat /\ Len(c) \in Nat
    BY <1>1, <1>2, <1>7, NothingFails
  <2> QED
    BY <1>7, <2>1 DEF Before
<1> HIDE DEF O, found
<1>10. ASSUME NEW f \in findings PROVE FindingOK(f)'
  <2>1. FindingOK(f)
    BY <1>2
  <2>2. f.k \in Nat
    <3>1. PICK d \in {<<>>} \cup Combos : f.k = Len(d)
      BY <2>1 DEF FindingOK
    <3> QED
      BY <1>1, <3>1, NothingFails
  <2>3. f.k <= Len(c)
    BY <1>9, <2>1, <2>2 DEF FindingOK
  <2>4. \A d \in Tried' : f.link \in OverloadedBy(Elements(d)) => f.k <= Len(d)
    BY <1>8, <2>1, <2>3 DEF FindingOK
  <2> QED
    BY <1>1, <1>5, <2>1, <2>3, <2>4 DEF FindingOK
<1>11. ASSUME NEW f \in findings', f \notin findings PROVE FindingOK(f)'
  <2>1. PICK l \in O \ found : f = New(l)
    BY <1>4, <1>11
  <2>2. f.k = Len(c) /\ f.link = l /\ f.failures = Elements(c)
    BY <2>1
  <2>3. \A d \in Tried : l \notin OverloadedBy(Elements(d))
    BY <1>2, <2>1 DEF found
  <2>4. \A d \in Tried' : l \in OverloadedBy(Elements(d)) => d = c
    BY <1>8, <2>3
  <2>5. l \in OverloadedBy(Elements(c))
    BY <2>1 DEF O
  <2>6. f.k <= Len(combo') /\ \A d \in Tried' : l \in OverloadedBy(Elements(d)) => f.k <= Len(d)
    BY <1>1, <1>9, <2>2, <2>4
  <2> QED
    BY <1>5, <1>7, <2>2, <2>5, <2>6 DEF FindingOK
<1>12. ASSUME NEW f \in findings' PROVE FindingOK(f)'
  BY <1>10, <1>11
<1>13. \A d \in Tried' : \A l \in OverloadedBy(Elements(d)) : \E f \in findings' : f.link = l
  <2> SUFFICES ASSUME NEW d \in Tried', NEW l \in OverloadedBy(Elements(d)) PROVE \E f \in findings' : f.link = l
    OBVIOUS
  <2>1. CASE l \in found
    BY <1>4, <2>1 DEF found
  <2>2. CASE l \notin found
    <3>1. d \notin Tried
      BY <1>2, <2>2 DEF found
    <3>2. l \in O
      BY <1>8, <3>1 DEF O
    <3>3. New(l) \in findings' /\ New(l).link = l
      BY <1>4, <2>2, <3>2
    <3> QED
      BY <3>3
  <2> QED
    BY <2>1, <2>2
<1>14. \A f, g \in findings' : f.link = g.link => f = g
  BY <1>2, <1>4 DEF found
<1>15. Searched'
  BY <1>1, <1>5, <1>7, <1>12, <1>13, <1>14 DEF Searched
<1> QED
  BY <1>1, <1>15 DEF SearchInv

\* Every step keeps what the search knows.
LEMMA NextSearched == SearchInv /\ [Next]_vars => SearchInv'
<1> SUFFICES ASSUME SearchInv, [Next]_vars PROVE SearchInv'
  OBVIOUS
<1>1. CASE WhatIfBase
  BY <1>1 DEF WhatIfBase, SearchInv, Searched
<1>2. CASE WhatIfFailed
  BY <1>2 DEF WhatIfFailed, SearchInv, Searched
<1>3. CASE MergeFindings
  BY <1>3 DEF MergeFindings, SearchInv, Searched
<1>4. CASE UNCHANGED vars
  <2>1. net' = net /\ roots' = roots /\ combo' = combo /\ stage' = stage /\ cache' = cache /\ findings' = findings
    BY <1>4 DEF vars
  <2>2. /\ Combos' = Combos
        /\ \A F : OverloadedBy(F)' = OverloadedBy(F)
        /\ \A d : Elements(d)' = Elements(d)
        /\ GetOrBuild(<<>>, Head(roots))' = GetOrBuild(<<>>, Head(roots))
    BY <2>1, Frame
  <2>3. Tried' = Tried
    BY <2>1, <2>2 DEF Tried, LaterCombos
  <2>4. \A f \in findings : FindingOK(f)' <=> FindingOK(f)
    BY <2>1, <2>2, <2>3 DEF FindingOK
  <2> QED
    BY <2>1, <2>2, <2>3, <2>4 DEF SearchInv, Searched
<1> QED
  BY <1>1, <1>2, <1>3, <1>4, BaseSearched, ComboSearched DEF Next, Finished

\* A set of failures the search covers is failed by a combination of its size,
\* and every combination fails such a set.
LEMMA SetsCovered ==
    ASSUME net \in Nets
    PROVE  LET sets == {F \in SUBSET ToSet(SearchElements) : F = {} \/ Cardinality(F) <= net.maxK}
           IN  /\ \A F \in sets : \E d \in {<<>>} \cup Combos : Elements(d) = F /\ Len(d) = Cardinality(F)
               /\ \A d \in {<<>>} \cup Combos : Elements(d) \in sets
<1> DEFINE sets == {F \in SUBSET ToSet(SearchElements) : F = {} \/ Cardinality(F) <= net.maxK}
<1>1. ASSUME NEW F \in sets PROVE \E d \in {<<>>} \cup Combos : Elements(d) = F /\ Len(d) = Cardinality(F)
  <2>1. IsFiniteSet(F) /\ Cardinality(F) \in Nat /\ net.maxK \in Int
    BY ComboOf, FS_CardinalityType, TopologyAssumption
  <2>2. PICK c : Ascending(c, Cardinality(F), DOMAIN SearchElements) /\ Elements(c) = F
    BY ComboOf
  <2>3. CASE F = {}
    <3>1. Cardinality(F) = 0
      BY <2>3, FS_EmptySet
    <3> QED
      BY <2>3, <3>1, NothingFails
  <2>4. CASE F # {}
    <3>1. Cardinality(F) # 0 /\ Cardinality(F) <= net.maxK
      BY <2>1, <2>4, FS_EmptySet
    <3>2. Cardinality(F) \in 1..net.maxK
      BY <2>1, <3>1
    <3>3. c \in Combos /\ Len(c) = Cardinality(F)
      BY <2>1, <2>2, <3>2, ComboShape
    <3> QED
      BY <2>2, <3>3
  <2> QED
    BY <2>3, <2>4
<1>2. ASSUME NEW d \in {<<>>} \cup Combos PROVE Elements(d) \in sets
  <2>1. CASE d = <<>>
    BY <2>1, NothingFails
  <2>2. CASE d \in Combos
    <3>1. /\ Elements(d) \subseteq ToSet(SearchElements) /\ IsFiniteSet(Elements(d))
          /\ Cardinality(Elements(d)) <= Len(d) /\ Len(d) \in 1..net.maxK
      BY <2>2, ComboSize
    <3>2. Cardinality(Elements(d)) \in Nat /\ net.maxK \in Int
      BY <3>1, FS_CardinalityType, TopologyAssumption
    <3>3. Cardinality(Elements(d)) <= net.maxK
      BY <3>1, <3>2
    <3> QED
      BY <3>1, <3>3
  <2> QED
    BY <2>1, <2>2
<1> QED
  BY <1>1, <1>2

\* When no combination is left, the findings are the minimal ones.
LEMMA SearchedFindsMinimum == SearchInv => FindsMinimum
<1> SUFFICES ASSUME SearchInv, stage = "search", LaterCombos = {}, NEW l \in Node \X Node
             PROVE  LET sets == {F \in SUBSET ToSet(SearchElements) : F = {} \/ Cardinality(F) <= net.maxK}
                        overloads == [F \in sets |-> OverloadedBy(F)]
                        sizes == {Cardinality(F) : F \in {F \in sets : l \in overloads[F]}}
                        found == {f \in findings : f.link = l}
                    IN  /\ found = {} <=> sizes = {}
                        /\ Cardinality(found) <= 1
                        /\ \A f \in found : l \in overloads[f.failures] /\ \A k \in sizes : f.k <= k
  BY DEF FindsMinimum, OverloadedBy
<1> DEFINE sets == {F \in SUBSET ToSet(SearchElements) : F = {} \/ Cardinality(F) <= net.maxK}
           overloads == [F \in sets |-> OverloadedBy(F)]
           sizes == {Cardinality(F) : F \in {F \in sets : l \in overloads[F]}}
           found == {f \in findings : f.link = l}
<1>1. net \in Nets /\ Tried = {<<>>} \cup Combos
  BY DEF SearchInv, Tried
<1>2. /\ \A d \in Tried : \A m \in OverloadedBy(Elements(d)) : \E f \in findings : f.link = m
      /\ \A f, g \in findings : f.link = g.link => f = g
      /\ \A f \in findings : FindingOK(f)
  BY DEF SearchInv, Searched
<1>3. /\ \A F \in sets : \E d \in Tried : Elements(d) = F /\ Len(d) = Cardinality(F)
      /\ \A d \in Tried : Elements(d) \in sets
  BY <1>1, SetsCovered
<1>4. \A F \in sets : overloads[F] = OverloadedBy(F)
  OBVIOUS
<1> HIDE DEF sets, overloads
<1>5. ASSUME NEW f \in found
      PROVE  l \in overloads[f.failures] /\ f.failures \in sets /\ \A k \in sizes : f.k <= k
  <2>1. FindingOK(f) /\ f.link = l
    BY <1>2, <1>5
  <2>2. f.failures \in sets /\ l \in OverloadedBy(f.failures)
    BY <1>1, <1>3, <2>1 DEF FindingOK
  <2>3. ASSUME NEW k \in sizes PROVE f.k <= k
    <3>1. PICK F \in sets : k = Cardinality(F) /\ l \in overloads[F]
      BY <2>3
    <3>2. PICK d \in Tried : Elements(d) = F /\ Len(d) = Cardinality(F)
      BY <1>3
    <3>3. f.k <= Len(d)
      BY <1>4, <2>1, <3>1, <3>2 DEF FindingOK
    <3> QED
      BY <3>1, <3>2, <3>3
  <2> QED
    BY <1>4, <2>2, <2>3
<1>6. ASSUME NEW F \in sets, l \in overloads[F] PROVE found # {}
  <2>1. PICK d \in Tried : Elements(d) = F
    BY <1>3
  <2>2. l \in OverloadedBy(Elements(d))
    BY <1>4, <1>6, <2>1
  <2> QED
    BY <1>2, <2>2
<1>7. found = {} <=> sizes = {}
  BY <1>5, <1>6
<1>8. Cardinality(found) <= 1
  <2>1. CASE found = {}
    <3>1. Cardinality(found) = 0
      BY <2>1, FS_EmptySet
    <3> QED
      BY <3>1
  <2>2. CASE found # {}
    <3>1. PICK f : f \in found
      BY <2>2
    <3>2. found = {f}
      BY <1>2, <3>1
    <3>3. Cardinality(found) = 1
      BY <3>2, FS_Singleton
    <3> QED
      BY <3>3
  <2> QED
    BY <2>1, <2>2
<1> QED
  BY <1>5, <1>7, <1>8 DEF sets, overloads

\* KFailAnalyzer.Analyze, "it finds the minimum number of additional failures
\* that would cause overload on any link": for all networks, thresholds and
\* values of --max-k, a search that ends has reported every link that the
\* failures it may assume can overload, once, with a smallest set of them.
THEOREM MinimumFound == Spec => []FindsMinimum
<1>1. Init => SearchInv
  BY DEF Init, SearchInv, Searched
<1> QED
  BY <1>1, NextSearched, SearchedFindsMinimum, PTL DEF Spec

===========================================================================
