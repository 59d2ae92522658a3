----------------------- MODULE ConditionedPathsProofs ---------------------
(***************************************************************************)
(* No path outlives its nodes and links.  The invariant to carry through   *)
(* the induction also speaks of the paths still being announced, since the *)
(* next hop inherits its worlds from them and not from the RIB.            *)
(***************************************************************************)
EXTENDS ConditionedPaths, TLAPS

\* A nonempty path, and worlds that leave it intact.
Sound(path, worlds) ==
    /\ path \in Seq(Node)
    /\ path # <<>>
    /\ \A w \in worlds : Intact(w, path)

AnnouncedSound == \A a \in announced : Sound(a.path, a.worlds)

\* Aggregates shrink a base condition and leave the selected condition of an
\* earlier round in place, so all three are tied to the path, none to another.
RoutesIntact ==
    \A r \in routes : Sound(r.path, r.base \cup r.cond \cup r.sel)

IInv == AnnouncedSound /\ RoutesIntact

---------------------------------------------------------------------------
\* A node's own route is sound.
LEMMA OwnSound ==
    ASSUME NEW path, NEW worlds, Own(path, worlds)
    PROVE  Sound(path, worlds)
<1>1. PICK n \in Node : path = <<n>> /\ worlds \subseteq Up(n)
  BY DEF Own
<1>2. path \in Seq(Node) /\ path # <<>> /\ Len(path) = 1 /\ path[1] = n
  BY <1>1
<1>3. \A w \in worlds : NodeUp(w, n)
  BY <1>1 DEF Up
<1> QED
  BY <1>2, <1>3 DEF Sound, Intact

\* A hop adds one node and one link, and the worlds of both are required.
LEMMA HopSound ==
    ASSUME NEW path, NEW worlds, Hop(path, worlds), AnnouncedSound
    PROVE  Sound(path, worlds)
<1>1. PICK a \in announced, n \in Node :
        /\ path = Append(a.path, n)
        /\ worlds \subseteq a.worlds \cap Across(a.path[Len(a.path)], n)
  BY DEF Hop
<1>2. Sound(a.path, a.worlds)
  BY <1>1 DEF AnnouncedSound
<1> DEFINE k == Len(a.path)
<1>3. /\ a.path \in Seq(Node) /\ k \in Nat \ {0}
      /\ path \in Seq(Node) /\ path # <<>> /\ Len(path) = k + 1
      /\ \A i \in 1..k : path[i] = a.path[i]
      /\ path[k + 1] = n
  BY <1>1, <1>2 DEF Sound
<1>4. ASSUME NEW w \in worlds PROVE Intact(w, path)
  <2>1. Intact(w, a.path) /\ LinkUp(w, {a.path[k], n}) /\ NodeUp(w, n)
    BY <1>1, <1>2 DEF Sound, Across
  <2>2. \A i \in 1..Len(path) : NodeUp(w, path[i])
    BY <1>3, <2>1 DEF Intact
  <2>3. ASSUME NEW i \in 1..(Len(path) - 1) PROVE LinkUp(w, {path[i], path[i + 1]})
    <3>1. CASE i = k
      <4>1. path[i] = a.path[k] /\ path[i + 1] = n
        BY <1>3, <3>1
      <4> QED
        BY <2>1, <4>1
    <3>2. CASE i # k
      <4>1. i \in 1..(k - 1) /\ path[i] = a.path[i] /\ path[i + 1] = a.path[i + 1]
        BY <1>3, <3>2
      <4> QED
        BY <2>1, <4>1 DEF Intact
    <3> QED
      BY <3>1, <3>2
  <2> QED
    BY <2>2, <2>3 DEF Intact
<1> QED
  BY <1>3, <1>4 DEF Sound

\* Soundness survives losing worlds.
LEMMA SubsetSound ==
    ASSUME NEW path, NEW worlds, NEW fewer, Sound(path, worlds), fewer \subseteq worlds
    PROVE  Sound(path, fewer)
BY DEF Sound

\* Every step preserves the invariant.
LEMMA StepSound == IInv /\ [Next]_vars => IInv'
<1> SUFFICES ASSUME IInv, [Next]_vars PROVE IInv'
  OBVIOUS
<1>1. CASE Propagate
  <2>1. ASSUME NEW a \in announced' PROVE Sound(a.path, a.worlds)
    BY <1>1, OwnSound, HopSound DEF Propagate, IInv, AnnouncedSound
  <2>2. ASSUME NEW r \in routes' PROVE Sound(r.path, r.base \cup r.cond \cup r.sel)
    <3>1. CASE r \in routes
      BY <3>1 DEF IInv, RoutesIntact
    <3>2. CASE r \notin routes
      <4>1. Sound(r.path, r.base)
        BY <1>1, <3>2, OwnSound, HopSound DEF Propagate, IInv
      <4>2. r.base \cup r.cond \cup r.sel \subseteq r.base
        BY <1>1, <3>2 DEF Propagate
      <4> QED
        BY <4>1, <4>2, SubsetSound
    <3> QED
      BY <3>1, <3>2
  <2> QED
    BY <2>1, <2>2 DEF IInv, AnnouncedSound, RoutesIntact, Sound, Intact, NodeUp, LinkUp
<1>2. CASE Restrict
  <2>1. AnnouncedSound'
    BY <1>2 DEF Restrict, IInv, AnnouncedSound, Sound, Intact, NodeUp, LinkUp
  <2>2. ASSUME NEW r \in routes' PROVE Sound(r.path, r.base \cup r.cond \cup r.sel)
    <3>1. PICK q \in routes : /\ r.path = q.path
                              /\ (r.base \cup r.cond \cup r.sel)
                                   \subseteq (q.base \cup q.cond \cup q.sel)
      BY <1>2 DEF Restrict
    <3>2. Sound(q.path, q.base \cup q.cond \cup q.sel)
      BY DEF IInv, RoutesIntact
    <3> QED
      BY <3>1, <3>2, SubsetSound
  <2> QED
    BY <2>1, <2>2 DEF IInv, RoutesIntact, Sound, Intact, NodeUp, LinkUp
<1>3. CASE UNCHANGED vars
  BY <1>3 DEF vars, IInv, AnnouncedSound, RoutesIntact, Sound, Intact, NodeUp, LinkUp
<1> QED
  BY <1>1, <1>2, <1>3 DEF Next

\* In no failure world does a RIB hold or select a path over something that
\* has failed.
THEOREM PathsCovered == Spec => []Covered
<1>1. Init => IInv
  BY DEF Init, IInv, AnnouncedSound, RoutesIntact
<1>2. IInv => Covered
  BY DEF IInv, RoutesIntact, Sound, Covered
<1> QED
  BY <1>1, <1>2, StepSound, PTL DEF Spec

===========================================================================
