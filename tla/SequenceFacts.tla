--------------------------- MODULE SequenceFacts --------------------------
(***************************************************************************)
(* What the proofs need to know of natural numbers, of sequences whose     *)
(* elements need no type, and of FlattenSeq, for inputs of every length.   *)
(***************************************************************************)
EXTENDS Integers, Sequences, SequencesExt, WellFoundedInduction, NaturalsInduction,
        FiniteSetTheorems, TLAPS

\* A nonempty set of natural numbers has a least element.
LEMMA LeastElement ==
    ASSUME NEW S, S \subseteq Nat, S # {}
    PROVE  \E n \in S : \A m \in S : n <= m
<1> DEFINE R == OpToRel(<, Nat)
<1>1. IsWellFoundedOn(R, Nat)
  BY NatLessThanWellFounded
<1> HIDE DEF R
<1>2. PICK x \in S : \A y \in S : ~(<<y, x>> \in R)
  BY <1>1, WFMin
<1>3. \A y \in S : ~(y < x)
  BY <1>2 DEF R, OpToRel
<1> QED
  BY <1>3

\* Induction, with the numbers that have the property as a set.
LEMMA Induction ==
    ASSUME NEW S, 0 \in S, \A n \in Nat : n \in S => n + 1 \in S
    PROVE  Nat \subseteq S
<1> SUFFICES ASSUME \E n \in Nat : n \notin S PROVE FALSE
  OBVIOUS
<1>1. PICK n \in Nat \ S : \A m \in Nat \ S : n <= m
  BY LeastElement
<1>2. n # 0 /\ n - 1 \in Nat
  BY <1>1
<1>3. n - 1 \in S
  BY <1>1, <1>2
<1> QED
  BY <1>2, <1>3

\* Induction up to a bound.
LEMMA BoundedInduction ==
    ASSUME NEW N \in Nat, NEW S, 0 \in S, \A i \in 1..N : i - 1 \in S => i \in S
    PROVE  0..N \subseteq S
<1> DEFINE T == {n \in Nat : n <= N => n \in S}
<1>1. 0 \in T
  OBVIOUS
<1>2. \A n \in Nat : n \in T => n + 1 \in T
  <2> SUFFICES ASSUME NEW n \in T, n + 1 <= N PROVE n + 1 \in S
    OBVIOUS
  <2>1. n + 1 \in 1..N /\ (n + 1) - 1 = n /\ n \in S
    OBVIOUS
  <2> QED
    BY <2>1
<1> HIDE DEF T
<1>3. Nat \subseteq T
  BY <1>1, <1>2, Induction
<1> QED
  BY <1>3 DEF T

---------------------------------------------------------------------------
\* F holds the results of flattening the first n of seqs.
FlattensUpTo(F, seqs, S, n) ==
    /\ F \in [0..n -> Seq(S)]
    /\ F[0] = <<>>
    /\ \A i \in 1..n : F[i] = F[i - 1] \o seqs[i]

\* One more sequence.
LEMMA FlattenExtend ==
    ASSUME NEW S, NEW seqs \in Seq(Seq(S)), NEW n \in 1..Len(seqs),
           NEW F, FlattensUpTo(F, seqs, S, n - 1)
    PROVE  \E G : FlattensUpTo(G, seqs, S, n)
<1> DEFINE G == [i \in 0..n |-> IF i = n THEN F[n - 1] \o seqs[n] ELSE F[i]]
<1>1. F \in [0..(n - 1) -> Seq(S)] /\ F[0] = <<>> /\ \A i \in 1..(n - 1) : F[i] = F[i - 1] \o seqs[i]
  BY DEF FlattensUpTo
<1>2. n \in Nat /\ n # 0 /\ n - 1 \in 0..(n - 1) /\ 0 \in 0..n
  OBVIOUS
<1>3. seqs[n] \in Seq(S) /\ F[n - 1] \in Seq(S)
  BY <1>1, <1>2
<1>4. F[n - 1] \o seqs[n] \in Seq(S)
  BY <1>3
<1>5. ASSUME NEW i \in 0..n, i # n PROVE i \in 0..(n - 1)
  BY <1>2, <1>5
<1>6. G \in [0..n -> Seq(S)]
  BY <1>1, <1>4, <1>5
<1>7. G[0] = <<>>
  BY <1>1, <1>2
<1>8. ASSUME NEW i \in 1..n PROVE G[i] = G[i - 1] \o seqs[i]
  <2>1. i \in 0..n /\ i - 1 \in 0..n /\ i - 1 # n
    BY <1>2
  <2>2. G[i - 1] = F[i - 1]
    BY <2>1
  <2>3. CASE i = n
    BY <2>1, <2>2, <2>3
  <2>4. CASE i # n
    <3>1. i \in 1..(n - 1)
      BY <1>2, <2>4
    <3>2. G[i] = F[i]
      BY <2>1, <2>4
    <3> QED
      BY <1>1, <2>2, <3>1, <3>2
  <2> QED
    BY <2>3, <2>4
<1> HIDE DEF G
<1> QED
  BY <1>6, <1>7, <1>8 DEF FlattensUpTo

\* Every sequence of sequences has a table of its partial concatenations.
LEMMA FlattenExists ==
    ASSUME NEW S, NEW seqs \in Seq(Seq(S))
    PROVE  \E F : FlattensUpTo(F, seqs, S, Len(seqs))
<1> DEFINE T == {n \in Nat : \E F : FlattensUpTo(F, seqs, S, n)}
<1>1. 0 \in T
  <2> DEFINE F == [i \in 0..0 |-> <<>>]
  <2>1. F \in [0..0 -> Seq(S)] /\ F[0] = <<>> /\ 1..0 = {}
    OBVIOUS
  <2>2. FlattensUpTo(F, seqs, S, 0)
    BY <2>1 DEF FlattensUpTo
  <2> QED
    BY <2>2
<1>2. Len(seqs) \in Nat
  OBVIOUS
<1>3. ASSUME NEW n \in 1..Len(seqs), n - 1 \in T PROVE n \in T
  BY <1>3, FlattenExtend
<1> HIDE DEF T
<1>4. 0..Len(seqs) \subseteq T
  BY <1>1, <1>2, <1>3, BoundedInduction
<1> QED
  BY <1>2, <1>4 DEF T

\* FlattenSeq concatenates one sequence after the other.
LEMMA FlattenSteps ==
    ASSUME NEW S, NEW seqs \in Seq(Seq(S))
    PROVE  \E F : FlattensUpTo(F, seqs, S, Len(seqs)) /\ FlattenSeq(seqs) = F[Len(seqs)]
<1> DEFINE N == Len(seqs)
<1>1. N \in Nat /\ \A i \in 1..N : seqs[i] \in Seq(S)
  OBVIOUS
<1>2. PICK F : FlattensUpTo(F, seqs, S, N)
  BY FlattenExists
<1>3. F[0] = <<>> /\ \A i \in 1..N : F[i] = F[i - 1] \o seqs[i]
  BY <1>2 DEF FlattensUpTo
<1>4. N # 0 => F[1] = seqs[1]
  <2> SUFFICES ASSUME N # 0 PROVE F[1] = seqs[1]
    OBVIOUS
  <2>1. 1 \in 1..N
    BY <1>1
  <2>2. F[1] = F[1 - 1] \o seqs[1]
    BY <1>3, <2>1
  <2>3. seqs[1] \in Seq(S) /\ 1 - 1 = 0
    BY <1>1, <2>1
  <2>4. \A x \in Seq(S) : <<>> \o x = x
    OBVIOUS
  <2> QED
    BY <1>3, <2>2, <2>3, <2>4
<1> DEFINE eq(f) == f = [i \in 1..N |-> IF i = 1 THEN seqs[i] ELSE f[i - 1] \o seqs[i]]
           flatten == CHOOSE f : eq(f)
           G == [i \in 1..N |-> F[i]]
<1>5. eq(G)
  <2>1. ASSUME NEW i \in 1..N PROVE F[i] = IF i = 1 THEN seqs[i] ELSE G[i - 1] \o seqs[i]
    <3>1. CASE i = 1
      BY <1>1, <1>4, <3>1
    <3>2. CASE i # 1
      <4>1. i - 1 \in 1..N
        BY <1>1, <3>2
      <4> QED
        BY <1>3, <3>2, <4>1
    <3> QED
      BY <3>1, <3>2
  <2> QED
    BY <2>1
<1> HIDE DEF G
<1>6. eq(flatten)
  BY <1>5, Zenon
<1>7. N = 0 => FlattenSeq(seqs) = <<>>
  BY DEF FlattenSeq
<1>8. N # 0 => FlattenSeq(seqs) = flatten[N]
  BY DEF FlattenSeq
<1> HIDE DEF flatten
<1> DEFINE U == {n \in 0..N : n = 0 \/ flatten[n] = F[n]}
<1>9. 0 \in U
  BY <1>1
<1>10. ASSUME NEW n \in 1..N, n - 1 \in U PROVE n \in U
  <2>1. flatten[n] = IF n = 1 THEN seqs[n] ELSE flatten[n - 1] \o seqs[n]
    BY <1>6
  <2>2. n \in 0..N /\ N # 0
    BY <1>1
  <2>3. CASE n = 1
    BY <1>4, <2>1, <2>2, <2>3
  <2>4. CASE n # 1
    <3>1. n - 1 # 0
      BY <2>4
    <3>2. flatten[n - 1] = F[n - 1]
      BY <1>10, <3>1
    <3> QED
      BY <1>3, <2>1, <2>2, <2>4, <3>2
  <2> QED
    BY <2>3, <2>4
<1> HIDE DEF U
<1>11. 0..N \subseteq U
  BY <1>1, <1>9, <1>10, BoundedInduction
<1>12. N # 0 => flatten[N] = F[N]
  BY <1>1, <1>11 DEF U
<1> QED
  BY <1>2, <1>3, <1>7, <1>8, <1>12

\* Flattening sequences over a set is a sequence over that set.
LEMMA FlattenType ==
    ASSUME NEW S, NEW seqs \in Seq(Seq(S))
    PROVE  FlattenSeq(seqs) \in Seq(S)
<1>1. PICK F : FlattensUpTo(F, seqs, S, Len(seqs)) /\ FlattenSeq(seqs) = F[Len(seqs)]
  BY FlattenSteps
<1> QED
  BY <1>1 DEF FlattensUpTo

---------------------------------------------------------------------------
(***************************************************************************)
(* Sequences of anything.                                                  *)
(***************************************************************************)
IsSequence(s) == \E S : s \in Seq(S)

\* How sequences are made.
LEMMA SequenceBasics ==
    /\ IsSequence(<<>>)
    /\ \A x : IsSequence(<<x>>)
    /\ \A s, x : IsSequence(s) => IsSequence(Append(s, x)) /\ Len(Append(s, x)) = Len(s) + 1
    /\ \A s, t : IsSequence(s) /\ IsSequence(t) => IsSequence(s \o t)
<1>1. IsSequence(<<>>)
  <2>1. <<>> \in Seq({})
    OBVIOUS
  <2> QED
    BY <2>1 DEF IsSequence
<1>2. ASSUME NEW x PROVE IsSequence(<<x>>)
  <2>1. <<x>> \in Seq({x})
    OBVIOUS
  <2> QED
    BY <2>1 DEF IsSequence
<1>3. ASSUME NEW s, NEW x, IsSequence(s)
      PROVE  IsSequence(Append(s, x)) /\ Len(Append(s, x)) = Len(s) + 1
  <2>1. PICK S : s \in Seq(S)
    BY <1>3 DEF IsSequence
  <2>2. s \in Seq(S \cup {x})
    BY <2>1
  <2>3. Append(s, x) \in Seq(S \cup {x}) /\ Len(Append(s, x)) = Len(s) + 1
    BY <2>2
  <2> QED
    BY <2>3 DEF IsSequence
<1>4. ASSUME NEW s, NEW t, IsSequence(s), IsSequence(t) PROVE IsSequence(s \o t)
  <2>1. PICK S, T : s \in Seq(S) /\ t \in Seq(T)
    BY <1>4 DEF IsSequence
  <2>2. s \in Seq(S \cup T) /\ t \in Seq(S \cup T)
    BY <2>1
  <2>3. s \o t \in Seq(S \cup T)
    BY <2>2
  <2> QED
    BY <2>3 DEF IsSequence
<1> QED
  BY <1>1, <1>2, <1>3, <1>4

\* A sequence is a sequence over its own elements.
LEMMA OwnElements ==
    ASSUME NEW s, IsSequence(s)
    PROVE  /\ Len(s) \in Nat /\ DOMAIN s = 1..Len(s) /\ s = [i \in 1..Len(s) |-> s[i]]
           /\ ToSet(s) = {s[i] : i \in 1..Len(s)}
           /\ s \in Seq(ToSet(s))
<1>1. PICK S : s \in Seq(S)
  BY DEF IsSequence
<1>2. Len(s) \in Nat /\ DOMAIN s = 1..Len(s) /\ s = [i \in 1..Len(s) |-> s[i]]
  BY <1>1
<1>3. ToSet(s) = {s[i] : i \in 1..Len(s)}
  BY <1>2 DEF ToSet
<1>4. \A i \in 1..Len(s) : s[i] \in ToSet(s)
  BY <1>3
<1>5. s \in Seq(ToSet(s))
  <2> DEFINE T == ToSet(s)
  <2>1. \A i \in 1..Len(s) : s[i] \in T
    BY <1>4
  <2> HIDE DEF T
  <2>2. s \in Seq(T)
    BY <1>2, <2>1
  <2> QED
    BY <2>2 DEF T
<1> QED
  BY <1>2, <1>3, <1>5

\* A function on 1..n is a sequence of its values.
LEMMA FunctionSequence ==
    ASSUME NEW n \in Nat, NEW f, f = [i \in 1..n |-> f[i]]
    PROVE  IsSequence(f) /\ Len(f) = n
<1> DEFINE S == {f[i] : i \in 1..n}
<1>1. \A i \in 1..n : f[i] \in S
  OBVIOUS
<1> HIDE DEF S
<1>2. f \in Seq(S) /\ Len(f) = n
  BY <1>1
<1> QED
  BY <1>2 DEF IsSequence

\* The elements of the sequences made from others.
LEMMA ElementsOf ==
    /\ ToSet(<<>>) = {}
    /\ \A x : ToSet(<<x>>) = {x}
    /\ \A s, x : IsSequence(s) => ToSet(Append(s, x)) = ToSet(s) \cup {x}
    /\ \A s, t : IsSequence(s) /\ IsSequence(t) => ToSet(s \o t) = ToSet(s) \cup ToSet(t)
    /\ \A s : IsSequence(s) /\ s # <<>> =>
          Head(s) \in ToSet(s) /\ IsSequence(Tail(s)) /\ ToSet(Tail(s)) \subseteq ToSet(s)
<1>1. ToSet(<<>>) = {}
  BY DEF ToSet
<1>2. ASSUME NEW x PROVE ToSet(<<x>>) = {x}
  <2>1. IsSequence(<<x>>) /\ Len(<<x>>) = 1 /\ <<x>>[1] = x /\ 1..1 = {1}
    BY SequenceBasics
  <2>2. ToSet(<<x>>) = {<<x>>[i] : i \in 1..1}
    BY <2>1, OwnElements
  <2> QED
    BY <2>1, <2>2
<1>3. ASSUME NEW s, NEW t, IsSequence(s), IsSequence(t)
      PROVE  ToSet(s \o t) = ToSet(s) \cup ToSet(t)
  <2> DEFINE u == s \o t
             m == Len(s)
             n == Len(t)
             T == ToSet(s) \cup ToSet(t)
  <2>1. s \in Seq(ToSet(s)) /\ t \in Seq(ToSet(t))
    BY <1>3, OwnElements
  <2>2. s \in Seq(T) /\ t \in Seq(T)
    BY <2>1
  <2> HIDE DEF T
  <2>3. /\ m \in Nat /\ n \in Nat /\ Len(u) = m + n
        /\ \A i \in 1..m : u[i] = s[i]
        /\ \A i \in 1..n : u[m + i] = t[i]
        /\ \A i \in (m + 1)..(m + n) : u[i] = t[i - m]
    BY <2>2
  <2>4. /\ ToSet(u) = {u[i] : i \in 1..Len(u)}
        /\ ToSet(s) = {s[i] : i \in 1..m} /\ ToSet(t) = {t[i] : i \in 1..n}
    BY <1>3, SequenceBasics, OwnElements
  <2> HIDE DEF u, m, n
  <2>5. ASSUME NEW i \in 1..Len(u) PROVE u[i] \in ToSet(s) \cup ToSet(t)
    <3>1. CASE i \in 1..m
      BY <2>3, <2>4, <3>1
    <3>2. CASE i \notin 1..m
      <4>1. i \in (m + 1)..(m + n) /\ i - m \in 1..n
        BY <2>3, <3>2
      <4> QED
        BY <2>3, <2>4, <4>1
    <3> QED
      BY <3>1, <3>2
  <2>6. \A i \in 1..m : i \in 1..Len(u)
    BY <2>3
  <2>7. \A i \in 1..n : m + i \in 1..Len(u)
    BY <2>3
  <2>8. ToSet(s) \subseteq ToSet(u)
    BY <2>3, <2>4, <2>6
  <2>9. ToSet(t) \subseteq ToSet(u)
    BY <2>3, <2>4, <2>7
  <2>10. ToSet(u) \subseteq ToSet(s) \cup ToSet(t)
    BY <2>4, <2>5
  <2> QED
    BY <2>8, <2>9, <2>10 DEF u
<1>4. ASSUME NEW s, NEW x, IsSequence(s) PROVE ToSet(Append(s, x)) = ToSet(s) \cup {x}
  <2> DEFINE T == ToSet(s) \cup {x}
  <2>1. s \in Seq(T) /\ x \in T
    BY <1>4, OwnElements
  <2> HIDE DEF T
  <2>2. Append(s, x) = s \o <<x>>
    BY <2>1
  <2> QED
    BY <1>2, <1>3, <1>4, <2>2, SequenceBasics
<1>5. ASSUME NEW s, IsSequence(s), s # <<>>
      PROVE  Head(s) \in ToSet(s) /\ IsSequence(Tail(s)) /\ ToSet(Tail(s)) \subseteq ToSet(s)
  <2> DEFINE T == ToSet(s)
  <2>1. s \in Seq(T)
    BY <1>5, OwnElements
  <2> HIDE DEF T
  <2>2. Head(s) \in T /\ Tail(s) \in Seq(T)
    BY <1>5, <2>1
  <2>3. \A i \in 1..Len(Tail(s)) : Tail(s)[i] \in T
    BY <2>2
  <2>4. IsSequence(Tail(s))
    BY <2>2 DEF IsSequence
  <2>5. ToSet(Tail(s)) = {Tail(s)[i] : i \in 1..Len(Tail(s))}
    BY <2>4, OwnElements
  <2>6. ToSet(Tail(s)) \subseteq T
    BY <2>3, <2>5
  <2> QED
    BY <2>2, <2>4, <2>6 DEF T
<1> QED
  BY <1>1, <1>2, <1>3, <1>4, <1>5

\* Inserting puts one element more into a sequence.
LEMMA InsertElements ==
    ASSUME NEW S, NEW s \in Seq(S), NEW x \in S, NEW k \in 1..(Len(s) + 1)
    PROVE  InsertAt(s, k, x) \in Seq(S) /\ ToSet(InsertAt(s, k, x)) = ToSet(s) \cup {x}
<1> DEFINE left  == SubSeq(s, 1, k - 1)
           right == SubSeq(s, k, Len(s))
<1>1. Len(s) \in Nat /\ k \in Nat /\ k - 1 \in 0..Len(s) /\ IsSequence(s)
  BY DEF IsSequence
<1>2. left \in Seq(S) /\ Len(left) = k - 1 /\ \A i \in 1..(k - 1) : left[i] = s[i]
  BY <1>1
<1>3. right \in Seq(S) /\ Len(right) = Len(s) + 1 - k
  BY <1>1
<1>4. \A i \in 1..(Len(s) + 1 - k) : right[i] = s[k + i - 1]
  BY <1>1
<1> HIDE DEF left, right
<1>5. InsertAt(s, k, x) = left \o <<x>> \o right
  BY DEF InsertAt, left, right
<1>6. IsSequence(left) /\ IsSequence(right) /\ IsSequence(<<x>>)
  BY <1>2, <1>3, SequenceBasics DEF IsSequence
<1>7. IsSequence(left \o <<x>>) /\ ToSet(left \o <<x>>) = ToSet(left) \cup {x}
  BY <1>6, SequenceBasics, ElementsOf
<1>8. ToSet(InsertAt(s, k, x)) = ToSet(left) \cup {x} \cup ToSet(right)
  BY <1>5, <1>6, <1>7, ElementsOf
<1>9. /\ ToSet(s) = {s[i] : i \in 1..Len(s)} /\ ToSet(left) = {left[i] : i \in 1..(k - 1)}
      /\ ToSet(right) = {right[i] : i \in 1..(Len(s) + 1 - k)}
  BY <1>1, <1>2, <1>3, <1>6, OwnElements
<1>10. ToSet(left) \cup ToSet(right) \subseteq ToSet(s)
  <2>1. \A i \in 1..(k - 1) : i \in 1..Len(s)
    BY <1>1
  <2>2. \A i \in 1..(Len(s) + 1 - k) : k + i - 1 \in 1..Len(s)
    BY <1>1
  <2> QED
    BY <1>2, <1>4, <1>9, <2>1, <2>2
<1>11. ToSet(s) \subseteq ToSet(left) \cup ToSet(right)
  <2> SUFFICES ASSUME NEW i \in 1..Len(s) PROVE s[i] \in ToSet(left) \cup ToSet(right)
    BY <1>9
  <2>1. CASE i < k
    <3>1. i \in 1..(k - 1)
      BY <1>1, <2>1
    <3> QED
      BY <1>2, <1>9, <3>1
  <2>2. CASE i >= k
    <3>1. i - k + 1 \in 1..(Len(s) + 1 - k) /\ k + (i - k + 1) - 1 = i
      BY <1>1, <2>2
    <3> QED
      BY <1>4, <1>9, <3>1
  <2> QED
    BY <1>1, <2>1, <2>2
<1>12. InsertAt(s, k, x) \in Seq(S)
  BY <1>2, <1>3, <1>5
<1> QED
  BY <1>8, <1>10, <1>11, <1>12

\* The last element of a sequence and what comes before it.
LEMMA LastAndFront ==
    /\ \A x : Last(<<x>>) = x /\ Front(<<x>>) = <<>>
    /\ \A s, x : IsSequence(s) =>
          Append(s, x) # <<>> /\ Last(Append(s, x)) = x /\ Front(Append(s, x)) = s
    /\ \A s : IsSequence(s) /\ s # <<>> =>
          Last(s) \in ToSet(s) /\ ToSet(s) = ToSet(Front(s)) \cup {Last(s)}
<1>1. ASSUME NEW x PROVE Last(<<x>>) = x /\ Front(<<x>>) = <<>>
  <2>1. <<x>> \in Seq({x}) /\ Len(<<x>>) = 1 /\ <<x>>[1] = x
    OBVIOUS
  <2>2. SubSeq(<<x>>, 1, 0) = <<>>
    <3>1. SubSeq(<<x>>, 1, 0) \in Seq({x}) /\ Len(SubSeq(<<x>>, 1, 0)) = 0
      BY <2>1
    <3> QED
      BY <3>1
  <2> QED
    BY <2>1, <2>2 DEF Last, Front
<1>2. ASSUME NEW s, NEW x, IsSequence(s)
      PROVE  Append(s, x) # <<>> /\ Last(Append(s, x)) = x /\ Front(Append(s, x)) = s
  <2> DEFINE S == ToSet(s) \cup {x}
             t == Append(s, x)
             u == SubSeq(t, 1, Len(t) - 1)
  <2>1. s \in Seq(ToSet(s))
    BY <1>2, OwnElements
  <2>2. s \in Seq(S) /\ x \in S
    BY <2>1
  <2> HIDE DEF S
  <2>3. /\ t \in Seq(S) /\ Len(t) = Len(s) + 1 /\ t[Len(s) + 1] = x /\ Len(s) \in Nat
        /\ \A i \in 1..Len(s) : t[i] = s[i]
    BY <2>2
  <2>4. t # <<>>
    BY <2>3
  <2> HIDE DEF t
  <2>5. u \in Seq(S) /\ Len(u) = Len(s) /\ \A i \in 1..Len(s) : u[i] = t[i]
    BY <2>3
  <2> HIDE DEF u
  <2>6. u = s
    <3>1. \A i \in 1..Len(s) : u[i] = s[i]
      BY <2>3, <2>5
    <3> QED
      BY <2>2, <2>5, <3>1
  <2> QED
    BY <2>3, <2>4, <2>6 DEF Last, Front, t, u
<1>3. ASSUME NEW s, IsSequence(s), s # <<>>
      PROVE  Last(s) \in ToSet(s) /\ ToSet(s) = ToSet(Front(s)) \cup {Last(s)}
  <2> DEFINE S == ToSet(s)
             N == Len(s)
             u == SubSeq(s, 1, N - 1)
  <2>1. s \in Seq(S) /\ S = {s[i] : i \in 1..N} /\ N \in Nat
    BY <1>3, OwnElements
  <2>2. Last(s) = s[N] /\ Front(s) = u
    BY DEF Last, Front
  <2>2a. N # 0
    <3>1. ASSUME NEW T, s \in Seq(T) PROVE Len(s) # 0
      BY <1>3, <3>1
    <3> QED
      BY <2>1, <3>1
  <2> HIDE DEF S
  <2>3. u \in Seq(S) /\ Len(u) = N - 1 /\ \A i \in 1..(N - 1) : u[i] = s[i]
    <3> DEFINE k == N - 1
    <3>1. k \in 0..Len(s) /\ s \in Seq(S)
      BY <2>1, <2>2a
    <3>2. u = SubSeq(s, 1, k)
      OBVIOUS
    <3> HIDE DEF u, k
    <3>3. u \in Seq(S)
      BY <3>1, <3>2
    <3>4. Len(u) = k
      BY <3>1, <3>2
    <3>5. \A i \in 1..k : u[i] = s[i]
      BY <3>1, <3>2
    <3> QED
      BY <3>3, <3>4, <3>5 DEF k
  <2> HIDE DEF N, u
  <2>4. ToSet(u) = {u[i] : i \in 1..(N - 1)}
    <3>1. IsSequence(u)
      BY <2>3 DEF IsSequence
    <3> QED
      BY <2>3, <3>1, OwnElements
  <2>5. 1..N = 1..(N - 1) \cup {N} /\ N \in 1..N
    BY <2>1, <2>2a
  <2>6. ToSet(u) = {s[i] : i \in 1..(N - 1)}
    BY <2>3, <2>4
  <2>7. S = {s[i] : i \in 1..(N - 1)} \cup {s[N]}
    BY <2>1, <2>5
  <2> QED
    BY <2>2, <2>6, <2>7 DEF S
<1> QED
  BY <1>1, <1>2, <1>3

\* Positions in a concatenation and in a tail.
LEMMA Positions ==
    /\ \A s, t : IsSequence(s) /\ IsSequence(t) =>
          /\ Len(s \o t) = Len(s) + Len(t)
          /\ \A i \in 1..Len(s) : (s \o t)[i] = s[i]
          /\ \A i \in 1..Len(t) : (s \o t)[Len(s) + i] = t[i]
    /\ \A s : IsSequence(s) /\ s # <<>> =>
          /\ Len(s) > 0 /\ Len(Tail(s)) = Len(s) - 1 /\ Head(s) = s[1]
          /\ \A i \in 1..(Len(s) - 1) : Tail(s)[i] = s[i + 1]
<1>1. ASSUME NEW s, NEW t, IsSequence(s), IsSequence(t)
      PROVE  /\ Len(s \o t) = Len(s) + Len(t)
             /\ \A i \in 1..Len(s) : (s \o t)[i] = s[i]
             /\ \A i \in 1..Len(t) : (s \o t)[Len(s) + i] = t[i]
  <2> DEFINE S == ToSet(s) \cup ToSet(t)
  <2>1. s \in Seq(ToSet(s)) /\ t \in Seq(ToSet(t))
    BY <1>1, OwnElements
  <2>2. s \in Seq(S) /\ t \in Seq(S)
    BY <2>1
  <2> HIDE DEF S
  <2>3. Len(s) \in Nat /\ Len(t) \in Nat
    BY <2>2
  <2>4. Len(s \o t) = Len(s) + Len(t)
    BY <2>2
  <2>5. \A i \in 1..Len(s) : (s \o t)[i] = s[i]
    BY <2>2
  <2>6. ASSUME NEW i \in 1..Len(t) PROVE (s \o t)[Len(s) + i] = t[i]
    <3>1. Len(s) + i \in 1..(Len(s) + Len(t)) /\ ~(Len(s) + i <= Len(s)) /\ Len(s) + i - Len(s) = i
      BY <2>3
    <3> QED
      BY <2>2, <3>1
  <2> QED
    BY <2>4, <2>5, <2>6
<1>2. ASSUME NEW s, IsSequence(s), s # <<>>
      PROVE  /\ Len(s) > 0 /\ Len(Tail(s)) = Len(s) - 1 /\ Head(s) = s[1]
             /\ \A i \in 1..(Len(s) - 1) : Tail(s)[i] = s[i + 1]
  <2> DEFINE S == ToSet(s)
  <2>1. s \in Seq(S)
    BY <1>2, OwnElements
  <2> HIDE DEF S
  <2>2. Len(s) > 0 /\ Head(s) = s[1]
    BY <1>2, <2>1
  <2>3. Len(Tail(s)) = Len(s) - 1
    BY <1>2, <2>1
  <2>4. \A i \in 1..(Len(s) - 1) : Tail(s)[i] = s[i + 1]
    BY <1>2, <2>1
  <2> QED
    BY <2>2, <2>3, <2>4
<1> QED
  BY <1>1, <1>2

\* Concatenation is associative.
LEMMA ConcatAssociative ==
    ASSUME NEW s, NEW t, NEW u, IsSequence(s), IsSequence(t), IsSequence(u)
    PROVE  (s \o t) \o u = s \o (t \o u)
<1> DEFINE S == ToSet(s) \cup ToSet(t) \cup ToSet(u)
<1>1. s \in Seq(ToSet(s)) /\ t \in Seq(ToSet(t)) /\ u \in Seq(ToSet(u))
  BY OwnElements
<1>2. s \in Seq(S) /\ t \in Seq(S) /\ u \in Seq(S)
  BY <1>1
<1> HIDE DEF S
<1> QED
  BY <1>2

---------------------------------------------------------------------------
\* Sequences of sequences have their elements in a common set.
LEMMA CommonSet ==
    ASSUME NEW n \in Nat, NEW f, f = [i \in 1..n |-> f[i]], \A i \in 1..n : IsSequence(f[i])
    PROVE  LET S == UNION {ToSet(f[i]) : i \in 1..n} IN f \in Seq(Seq(S)) /\ Len(f) = n
<1> DEFINE S == UNION {ToSet(f[i]) : i \in 1..n}
<1>1. ASSUME NEW i \in 1..n PROVE f[i] \in Seq(S)
  <2>1. f[i] \in Seq(ToSet(f[i])) /\ ToSet(f[i]) \subseteq S
    BY OwnElements
  <2> HIDE DEF S
  <2> QED
    BY <2>1
<1> HIDE DEF S
<1>2. f \in Seq(Seq(S)) /\ Len(f) = n
  BY <1>1
<1> QED
  BY <1>2 DEF S

\* Flattening adds and loses order only: the result is a sequence, and what it
\* contains comes from one of the flattened sequences.
LEMMA FlattenSequences ==
    ASSUME NEW n \in Nat, NEW f, f = [i \in 1..n |-> f[i]], \A i \in 1..n : IsSequence(f[i])
    PROVE  /\ IsSequence(FlattenSeq(f))
           /\ \A x \in ToSet(FlattenSeq(f)) : \E i \in 1..n : x \in ToSet(f[i])
<1> DEFINE S == UNION {ToSet(f[i]) : i \in 1..n}
<1>1. f \in Seq(Seq(S))
  BY CommonSet
<1> HIDE DEF S
<1>2. FlattenSeq(f) \in Seq(S)
  BY <1>1, FlattenType
<1>3. \A i \in 1..Len(FlattenSeq(f)) : FlattenSeq(f)[i] \in S
  BY <1>2
<1>4. IsSequence(FlattenSeq(f))
  BY <1>2 DEF IsSequence
<1>5. ToSet(FlattenSeq(f)) = {FlattenSeq(f)[i] : i \in 1..Len(FlattenSeq(f))}
  BY <1>4, OwnElements
<1>6. ToSet(FlattenSeq(f)) \subseteq S
  BY <1>3, <1>5
<1> QED
  BY <1>4, <1>6 DEF S

\* Flattening loses no element.
LEMMA FlattenKeeps ==
    ASSUME NEW n \in Nat, NEW f, f = [i \in 1..n |-> f[i]], \A i \in 1..n : IsSequence(f[i])
    PROVE  \A i \in 1..n : ToSet(f[i]) \subseteq ToSet(FlattenSeq(f))
<1> DEFINE S == UNION {ToSet(f[i]) : i \in 1..n}
<1>1. f \in Seq(Seq(S)) /\ Len(f) = n
  BY CommonSet
<1> HIDE DEF S
<1>2. PICK F : FlattensUpTo(F, f, S, n) /\ FlattenSeq(f) = F[n]
  BY <1>1, FlattenSteps
<1> DEFINE T == {k \in 0..n : \A i \in 1..k : ToSet(f[i]) \subseteq ToSet(F[k])}
<1>3. 0 \in T
  OBVIOUS
<1>4. ASSUME NEW k \in 1..n, k - 1 \in T PROVE k \in T
  <2>1. k \in 0..n /\ k - 1 \in 0..n /\ \A i \in 1..k : i = k \/ i \in 1..(k - 1)
    OBVIOUS
  <2>2. F[k] = F[k - 1] \o f[k] /\ F[k - 1] \in Seq(S)
    BY <1>2, <2>1 DEF FlattensUpTo
  <2>3. IsSequence(F[k - 1]) /\ IsSequence(f[k])
    BY <2>2 DEF IsSequence
  <2>4. ToSet(F[k]) = ToSet(F[k - 1]) \cup ToSet(f[k])
    BY <2>2, <2>3, ElementsOf
  <2>5. \A i \in 1..(k - 1) : ToSet(f[i]) \subseteq ToSet(F[k - 1])
    BY <1>4
  <2> QED
    BY <2>1, <2>4, <2>5
<1> HIDE DEF T
<1>5. 0..n \subseteq T
  BY <1>3, <1>4, BoundedInduction
<1>6. n \in T
  BY <1>5
<1> QED
  BY <1>2, <1>6 DEF T

\* Flattening one-element and empty pieces of a sequence selects from it.
LEMMA FilterSequence ==
    ASSUME NEW s, IsSequence(s), NEW f, f = [i \in DOMAIN s |-> f[i]],
           \A i \in DOMAIN s : f[i] = <<>> \/ f[i] = <<s[i]>>
    PROVE  /\ IsSequence(FlattenSeq(f))
           /\ ToSet(FlattenSeq(f)) \subseteq ToSet(s)
           /\ \A x \in ToSet(FlattenSeq(f)) : \E i \in DOMAIN s : x = s[i] /\ f[i] # <<>>
<1>1. Len(s) \in Nat /\ DOMAIN s = 1..Len(s) /\ ToSet(s) = {s[i] : i \in 1..Len(s)}
  BY OwnElements
<1>2. \A i \in 1..Len(s) : IsSequence(f[i])
  BY <1>1, SequenceBasics
<1>3. /\ IsSequence(FlattenSeq(f))
      /\ \A x \in ToSet(FlattenSeq(f)) : \E i \in 1..Len(s) : x \in ToSet(f[i])
  BY <1>1, <1>2, FlattenSequences
<1>4. ASSUME NEW i \in 1..Len(s), NEW x \in ToSet(f[i]) PROVE x = s[i] /\ f[i] # <<>>
  <2>1. f[i] = <<>> \/ f[i] = <<s[i]>>
    BY <1>1
  <2>2. ToSet(<<>>) = {} /\ ToSet(<<s[i]>>) = {s[i]}
    BY ElementsOf
  <2> QED
    BY <2>1, <2>2
<1>5. \A x \in ToSet(FlattenSeq(f)) : \E i \in DOMAIN s : x = s[i] /\ f[i] # <<>>
  BY <1>1, <1>3, <1>4
<1> QED
  BY <1>1, <1>3, <1>5

\* Appending nothing, and appending one element.
LEMMA ShortConcat ==
    ASSUME NEW S, NEW t \in Seq(S), NEW x
    PROVE  /\ t \o <<>> = t /\ <<>> # <<x>>
           /\ <<x>> \in Seq(S) => x \in S /\ t \o <<x>> = Append(t, x)
<1>1. t \o <<>> = t
  OBVIOUS
<1>4. <<>> # <<x>>
  <2>1. Len(<<>>) = 0 /\ Len(<<x>>) = 1
    OBVIOUS
  <2> QED
    BY <2>1
<1>2. ASSUME <<x>> \in Seq(S) PROVE x \in S
  <2>1. <<x>> \in [1..Len(<<x>>) -> S] /\ Len(<<x>>) = 1 /\ <<x>>[1] = x /\ 1 \in 1..1
    BY <1>2
  <2> QED
    BY <2>1
<1>3. ASSUME x \in S PROVE t \o <<x>> = Append(t, x)
  BY <1>3
<1> QED
  BY <1>1, <1>2, <1>3, <1>4

\* No element of s has to come before an earlier one.
Ordered(s, before) == \A i, j \in 1..Len(s) : i < j => <<s[j], s[i]>> \notin before

\* Selecting from a sequence loses nothing that is selected, and no order.
LEMMA FilterOrdered ==
    ASSUME NEW s, IsSequence(s), NEW f, f = [i \in DOMAIN s |-> f[i]],
           \A i \in DOMAIN s : f[i] = <<>> \/ f[i] = <<s[i]>>,
           NEW before, Ordered(s, before)
    PROVE  /\ Ordered(FlattenSeq(f), before)
           /\ \A i \in DOMAIN s : f[i] = <<s[i]>> => s[i] \in ToSet(FlattenSeq(f))
<1> DEFINE N == Len(s)
           S == UNION {ToSet(f[i]) : i \in 1..N}
<1>1. N \in Nat /\ DOMAIN s = 1..N
  BY OwnElements
<1> HIDE DEF N
<1>2. \A i \in 1..N : IsSequence(f[i])
  BY <1>1, SequenceBasics
<1>3. f \in Seq(Seq(S)) /\ Len(f) = N
  BY <1>1, <1>2, CommonSet
<1> HIDE DEF S
<1>4. PICK F : FlattensUpTo(F, f, S, N) /\ FlattenSeq(f) = F[N]
  BY <1>3, FlattenSteps
<1> DEFINE From(t, k) == \A x \in 1..Len(t) : \E i \in 1..k : t[x] = s[i]
           Has(t, k) == \A i \in 1..k : f[i] = <<s[i]>> => \E x \in 1..Len(t) : t[x] = s[i]
           T == {k \in 0..N : From(F[k], k) /\ Has(F[k], k) /\ Ordered(F[k], before)}
<1>5. 0 \in T
  <2>1. F[0] = <<>> /\ Len(<<>>) = 0 /\ 1..0 = {} /\ 0 \in 0..N
    BY <1>1, <1>4 DEF FlattensUpTo
  <2> QED
    BY <2>1 DEF Ordered
<1>6. ASSUME NEW k \in 1..N, k - 1 \in T PROVE k \in T
  <2> DEFINE t == F[k - 1]
  <2>1. From(t, k - 1) /\ Has(t, k - 1) /\ Ordered(t, before)
    BY <1>6
  <2>2. k \in 0..N /\ k - 1 \in 0..N /\ k \in DOMAIN s /\ k \in 1..k /\ \A i \in 1..k : i = k \/ i \in 1..(k - 1)
    BY <1>1
  <2>3. \A i \in 1..(k - 1) : i \in 1..k /\ i < k /\ i \in 1..N
    BY <1>1
  <2>4. t \in Seq(S) /\ F[k] = t \o f[k] /\ f[k] \in Seq(S)
    BY <1>3, <1>4, <2>2 DEF FlattensUpTo
  <2> HIDE DEF t
  <2>5. CASE f[k] = <<>>
    <3>1. F[k] = t /\ f[k] # <<s[k]>>
      <4>1. F[k] = t \o <<>>
        BY <2>4, <2>5, Zenon
      <4>2. t \o <<>> = t /\ <<>> # <<s[k]>>
        BY <2>4, ShortConcat
      <4> QED
        BY <2>5, <4>1, <4>2, Zenon
    <3>2. From(F[k], k)
      BY <2>1, <2>3, <3>1
    <3>3. Has(F[k], k)
      BY <2>1, <2>2, <3>1
    <3> QED
      BY <2>1, <2>2, <3>1, <3>2, <3>3
  <2>6. CASE f[k] = <<s[k]>>
    <3> DEFINE u == F[k]
               m == Len(t)
    <3>1. /\ m \in Nat /\ Len(u) = m + 1 /\ u[m + 1] = s[k]
          /\ \A x \in 1..m : u[x] = t[x]
      <4>1. s[k] \in S /\ u = Append(t, s[k])
        <5>1. u = t \o <<s[k]>> /\ <<s[k]>> \in Seq(S)
          BY <2>4, <2>6, Zenon
        <5> QED
          BY <2>4, <5>1, ShortConcat
      <4>2. m \in Nat /\ Len(Append(t, s[k])) = m + 1 /\ Append(t, s[k])[m + 1] = s[k]
        BY <2>4, <4>1
      <4>3. \A x \in 1..m : Append(t, s[k])[x] = t[x]
        BY <2>4, <4>1
      <4> QED
        BY <4>1, <4>2, <4>3
    <3>2. m + 1 \in 1..(m + 1) /\ \A x \in 1..(m + 1) : x = m + 1 \/ x \in 1..m
      BY <3>1
    <3>3. \A x \in 1..m : x \in 1..(m + 1)
      BY <3>1
    <3> HIDE DEF u, m
    <3>4. From(u, k)
      BY <2>1, <2>2, <2>3, <3>1, <3>2 DEF m
    <3>5. Has(u, k)
      BY <2>1, <2>2, <3>1, <3>2, <3>3 DEF m
    <3>6. ASSUME NEW i \in 1..(m + 1), NEW j \in 1..(m + 1), i < j PROVE <<u[j], u[i]>> \notin before
      <4>1. i \in 1..m
        BY <3>1, <3>6
      <4>2. CASE j = m + 1
        <5>1. PICK h \in 1..(k - 1) : u[i] = s[h]
          BY <2>1, <3>1, <4>1 DEF m
        <5>2. <<s[k], s[h]>> \notin before
          <6>1. h \in 1..N /\ k \in 1..N /\ h < k
            BY <2>3
          <6> QED
            BY <6>1 DEF Ordered, N
        <5> QED
          BY <3>1, <4>2, <5>1, <5>2
      <4>3. CASE j \in 1..m
        BY <2>1, <3>1, <3>6, <4>1, <4>3 DEF m, Ordered
      <4> QED
        BY <3>2, <4>2, <4>3
    <3>7. Ordered(u, before)
      BY <3>1, <3>6 DEF Ordered
    <3> QED
      BY <2>2, <3>4, <3>5, <3>7 DEF u
  <2> QED
    BY <2>2, <2>5, <2>6
<1> HIDE DEF T
<1>7. 0..N \subseteq T
  BY <1>1, <1>5, <1>6, BoundedInduction
<1>8. N \in T
  BY <1>1, <1>7
<1>9. Has(F[N], N) /\ Ordered(F[N], before) /\ IsSequence(F[N])
  BY <1>1, <1>4, <1>8 DEF T, FlattensUpTo, IsSequence
<1>10. ToSet(F[N]) = {F[N][x] : x \in 1..Len(F[N])}
  BY <1>9, OwnElements
<1> QED
  BY <1>1, <1>4, <1>9, <1>10

---------------------------------------------------------------------------
\* A nonempty set of natural numbers with an upper bound has a greatest element.
LEMMA GreatestElement ==
    ASSUME NEW S, S \subseteq Nat, S # {}, NEW b \in Nat, \A n \in S : n <= b
    PROVE  Max(S) \in S /\ \A m \in S : Max(S) >= m
<1> DEFINE D == {b - n : n \in S}
<1>1. D \subseteq Nat /\ D # {}
  <2>1. \A n \in S : b - n \in Nat
    OBVIOUS
  <2> QED
    BY <2>1
<1>2. PICK d \in D : \A e \in D : d <= e
  BY <1>1, LeastElement
<1>3. PICK x \in S : d = b - x
  OBVIOUS
<1>4. ASSUME NEW m \in S PROVE x >= m
  <2>1. d <= b - m
    BY <1>2
  <2>2. b \in Nat /\ x \in Nat /\ m \in Nat
    OBVIOUS
  <2> QED
    BY <1>3, <2>1, <2>2
<1>5. \E y \in S : \A m \in S : y >= m
  BY <1>4
<1> QED
  BY <1>5, Zenon DEF Max

\* A finite set of natural numbers has an upper bound.
LEMMA FiniteBound ==
    ASSUME NEW S, S \subseteq Nat, IsFiniteSet(S)
    PROVE  \E b \in Nat : \A n \in S : n <= b
<1>1. PICK k \in Nat : ExistsSurjection(1..k, S)
  BY FS_NatSurjection
<1>2. PICK q \in [1..k -> S] : \A n \in S : \E i \in 1..k : q[i] = n
  BY <1>1 DEF ExistsSurjection, Surjection
<1>3. \A i \in 1..k : q[i] \in Nat
  BY <1>2
<1> DEFINE T == {j \in 0..k : \E b \in Nat : \A i \in 1..j : q[i] <= b}
<1>4. 0 \in T
  OBVIOUS
<1>5. ASSUME NEW j \in 1..k, j - 1 \in T PROVE j \in T
  <2>1. PICK b \in Nat : \A i \in 1..(j - 1) : q[i] <= b
    BY <1>5
  <2>2. q[j] \in Nat /\ b + q[j] \in Nat /\ j \in 0..k
    BY <1>3
  <2>3. ASSUME NEW i \in 1..j PROVE q[i] <= b + q[j]
    <3>1. i = j \/ i \in 1..(j - 1)
      OBVIOUS
    <3>2. q[i] \in Nat
      BY <1>3
    <3> QED
      BY <2>1, <2>2, <3>1, <3>2
  <2> QED
    BY <2>2, <2>3
<1> HIDE DEF T
<1>6. 0..k \subseteq T
  BY <1>4, <1>5, BoundedInduction
<1>7. k \in 0..k
  OBVIOUS
<1>8. PICK b \in Nat : \A i \in 1..k : q[i] <= b
  BY <1>6, <1>7 DEF T
<1> QED
  BY <1>2, <1>8

---------------------------------------------------------------------------
\* F starts at b and applies G up to n.
Iterates(F, n, S, b, G) ==
    F \in [0..n -> S] /\ F[0] = b /\ \A i \in 1..n : F[i] = G[<<i, F[i - 1]>>]

\* A function defined by recursion up to N exists.
LEMMA BoundedRecursion ==
    ASSUME NEW N \in Nat, NEW S, NEW b \in S, NEW G \in [(1..N) \X S -> S]
    PROVE  \E F : Iterates(F, N, S, b, G)
<1> USE DEF Iterates
<1> DEFINE T == {n \in 0..N : \E F : Iterates(F, n, S, b, G)}
<1>1. 0 \in T
  <2> DEFINE F == [i \in 0..0 |-> b]
  <2>1. F \in [0..0 -> S] /\ F[0] = b /\ 1..0 = {} /\ 0 \in 0..N
    OBVIOUS
  <2> QED
    BY <2>1
<1>2. ASSUME NEW n \in 1..N, n - 1 \in T PROVE n \in T
  <2>1. PICK F : Iterates(F, n - 1, S, b, G)
    BY <1>2
  <2> DEFINE E == [i \in 0..n |-> IF i = n THEN G[<<n, F[n - 1]>>] ELSE F[i]]
  <2>2. n \in 0..N /\ n - 1 \in 0..(n - 1) /\ n # 0 /\ 0 \in 0..n /\ n \in 0..n
    OBVIOUS
  <2>3. F[n - 1] \in S /\ <<n, F[n - 1]>> \in (1..N) \X S
    BY <2>1, <2>2
  <2>4. G[<<n, F[n - 1]>>] \in S
    BY <2>3
  <2>5. ASSUME NEW i \in 0..n, i # n PROVE i \in 0..(n - 1)
    BY <2>5
  <2>6. E \in [0..n -> S]
    BY <2>1, <2>4, <2>5
  <2>7. E[0] = b
    BY <2>1, <2>2
  <2>8. ASSUME NEW i \in 1..n PROVE E[i] = G[<<i, E[i - 1]>>]
    <3>1. i \in 0..n /\ i - 1 \in 0..n /\ i - 1 # n
      OBVIOUS
    <3>2. E[i - 1] = F[i - 1]
      BY <3>1
    <3>3. CASE i = n
      BY <3>1, <3>2, <3>3
    <3>4. CASE i # n
      <4>1. i \in 1..(n - 1)
        BY <3>4
      <4>2. E[i] = F[i]
        BY <3>1, <3>4
      <4> QED
        BY <2>1, <3>2, <4>1, <4>2
    <3> QED
      BY <3>3, <3>4
  <2> HIDE DEF E
  <2>9. Iterates(E, n, S, b, G)
    BY <2>6, <2>7, <2>8
  <2> QED
    BY <2>2, <2>9
<1> HIDE DEF T
<1>3. 0..N \subseteq T
  BY <1>1, <1>2, BoundedInduction
<1>4. N \in 0..N
  OBVIOUS
<1> QED
  BY <1>3, <1>4 DEF T

===========================================================================
