----------------------- MODULE TrafficParallelProofs ----------------------
(***************************************************************************)
(* SimulateParallel is correct for every number of classes and workers.    *)
(*                                                                         *)
(* The inductive invariant says what the two counters count and where the  *)
(* result of a class is: nowhere before it is sent, afterwards either in   *)
(* the channel, once, or in the total, once.                               *)
(***************************************************************************)
EXTENDS TrafficParallel, FiniteSetTheorems, TLAPS

\* The classes the producer has passed are exactly those with a goroutine.
SpawnedInOrder ==
    /\ \A e \in Class : worker[e] = "none" <=> e >= next
    /\ prod = "spawn" => next <= N
    /\ prod \in {"wait", "close", "exit"} => next = N + 1

\* The semaphore counts the live goroutines and the one about to be started.
SemCounts == sem = Cardinality(In(Alive)) + IF prod = "spawn" THEN 1 ELSE 0

\* The WaitGroup counts the goroutines that have not called Done.
WgCounts == wg = Cardinality(In({"run", "sent"}))

\* After wg.Wait() every goroutine has sent its result.
WaitedForAll == prod \in {"close", "exit"} => \A e \in Class : worker[e] \in {"done", "exited"}

ClosedAtExit == closed <=> prod = "exit"

\* The results in the channel are distinct, sent, and not merged yet.
ChannelOnce ==
    /\ \A i, j \in 1..Len(ch) : ch[i] = ch[j] => i = j
    /\ \A i \in 1..Len(ch) : worker[ch[i]] \in Sent /\ merged[ch[i]] = 0

\* Every result sent is in the channel or merged, and nothing else is.
ResultsAccounted ==
    /\ \A e \in Class : merged[e] \in {0, 1}
    /\ \A e \in Class : merged[e] = 1 => worker[e] \in Sent
    /\ \A e \in Class : worker[e] \in Sent =>
          merged[e] = 1 \/ \E i \in 1..Len(ch) : ch[i] = e

ReturnedAfterClose == caller = "returned" => closed /\ ch = <<>>

\* The counters' range is a consequence, so the induction starts from less
\* than TypeOK.
Types ==
    /\ prod \in {"acquire", "spawn", "wait", "close", "exit"}
    /\ next \in 1..(N + 1)
    /\ worker \in [Class -> Alive \cup {"none", "exited"}]
    /\ sem \in 0..Workers
    /\ wg \in Nat
    /\ ch \in Seq(Class) /\ Len(ch) <= Workers
    /\ closed \in BOOLEAN
    /\ merged \in [Class -> Nat]
    /\ caller \in {"range", "returned"}

IInv ==
    /\ Types
    /\ SpawnedInOrder
    /\ SemCounts
    /\ WgCounts
    /\ WaitedForAll
    /\ ClosedAtExit
    /\ ChannelOnce
    /\ ResultsAccounted
    /\ ReturnedAfterClose

---------------------------------------------------------------------------
\* Any set of goroutines is finite, and no larger than the number of classes.
LEMMA InFinite ==
    ASSUME NEW S
    PROVE  /\ IsFiniteSet(In(S))
           /\ Cardinality(In(S)) \in Nat
           /\ Cardinality(In(S)) <= N
<1>1. IsFiniteSet(Class) /\ Cardinality(Class) = N
  BY FS_Interval, NAssumption DEF Class
<1>2. In(S) \in SUBSET Class
  BY DEF In
<1> QED
  BY <1>1, <1>2, FS_Subset, FS_CardinalityType

\* A goroutine that enters, or leaves, a set of states changes its count by one.
LEMMA CountChange ==
    ASSUME NEW A, NEW e, IsFiniteSet(A)
    PROVE  /\ e \notin A => Cardinality(A \cup {e}) = Cardinality(A) + 1
           /\ e \in A => Cardinality(A \ {e}) = Cardinality(A) - 1
BY FS_AddElement, FS_RemoveElement

\* The invariant holds initially.
LEMMA InitInv == Init => IInv
<1> SUFFICES ASSUME Init PROVE IInv
  OBVIOUS
<1>1. In(Alive) = {} /\ In({"run", "sent"}) = {}
  BY DEF Init, In, Alive
<1>2. Cardinality(In(Alive)) = 0 /\ Cardinality(In({"run", "sent"})) = 0
  BY <1>1, FS_EmptySet
<1>3. Types
  <2>1. worker \in [Class -> Alive \cup {"none", "exited"}] /\ merged \in [Class -> Nat]
    BY DEF Init, Alive
  <2>2. ch \in Seq(Class) /\ Len(ch) = 0
    BY DEF Init
  <2>3. next \in 1..(N + 1) /\ sem \in 0..Workers /\ wg \in Nat /\ Len(ch) <= Workers
    BY <2>2, NAssumption, WorkersAssumption DEF Init
  <2>4. /\ prod \in {"acquire", "spawn", "wait", "close", "exit"}
        /\ closed \in BOOLEAN
        /\ caller \in {"range", "returned"}
    BY Zenon DEF Init
  <2> QED
    BY <2>1, <2>2, <2>3, <2>4 DEF Types
<1>4. SemCounts /\ WgCounts
  BY <1>2 DEF Init, SemCounts, WgCounts
<1>5. SpawnedInOrder /\ WaitedForAll /\ ClosedAtExit
  BY NAssumption DEF Init, SpawnedInOrder, WaitedForAll, ClosedAtExit, Class
<1>6. ChannelOnce /\ ResultsAccounted /\ ReturnedAfterClose
  BY DEF Init, ChannelOnce, ResultsAccounted, ReturnedAfterClose, Sent
<1> QED
  BY <1>3, <1>4, <1>5, <1>6 DEF IInv

\* Every step preserves the invariant.
LEMMA NextInv == IInv /\ [Next]_vars => IInv'
<1> SUFFICES ASSUME IInv, [Next]_vars PROVE IInv'
  OBVIOUS
<1> USE NAssumption, WorkersAssumption DEF IInv
<1> DEFINE Live == In(Alive)
           Busy == In({"run", "sent"})
<1>fin. /\ IsFiniteSet(Live) /\ Cardinality(Live) \in Nat
        /\ IsFiniteSet(Busy) /\ Cardinality(Busy) \in Nat
  BY InFinite
<1>1. CASE Acquire
  <2>1. Types' /\ SpawnedInOrder'
    BY <1>1 DEF Acquire, Types, SpawnedInOrder, Class, Alive
  <2>2. SemCounts' /\ WgCounts'
    BY <1>1, <1>fin DEF Acquire, SemCounts, WgCounts, In, Types
  <2>3. WaitedForAll' /\ ClosedAtExit' /\ ReturnedAfterClose'
    BY <1>1 DEF Acquire, WaitedForAll, ClosedAtExit, ReturnedAfterClose
  <2>4. ChannelOnce' /\ ResultsAccounted'
    BY <1>1 DEF Acquire, ChannelOnce, ResultsAccounted
  <2> QED BY <2>1, <2>2, <2>3, <2>4
<1>2. CASE Spawn
  <2>1. next \in Class /\ worker[next] = "none"
    BY <1>2 DEF Spawn, SpawnedInOrder, Types, Class
  <2>2. Types' /\ SpawnedInOrder'
    BY <1>2, <2>1 DEF Spawn, Types, SpawnedInOrder, Class, Alive
  <2>3. /\ Live' = Live \cup {next} /\ next \notin Live
        /\ Busy' = Busy \cup {next} /\ next \notin Busy
    BY <1>2, <2>1 DEF Spawn, Types, In, Alive
  <2>c. /\ Cardinality(Live') = Cardinality(Live) + 1
        /\ Cardinality(Busy') = Cardinality(Busy) + 1
    BY <1>fin, <2>3, CountChange
  <2>4. SemCounts' /\ WgCounts'
    BY <1>2, <1>fin, <2>c DEF Spawn, SemCounts, WgCounts, Types
  <2>5. WaitedForAll' /\ ClosedAtExit' /\ ReturnedAfterClose'
    BY <1>2 DEF Spawn, WaitedForAll, ClosedAtExit, ReturnedAfterClose
  <2>6. ChannelOnce' /\ ResultsAccounted'
    BY <1>2, <2>1 DEF Spawn, ChannelOnce, ResultsAccounted, Types, Sent
  <2> QED BY <2>2, <2>4, <2>5, <2>6
<1>3. CASE LoopEnds
  <2>1. Types' /\ SpawnedInOrder'
    BY <1>3 DEF LoopEnds, Types, SpawnedInOrder, Class, Alive
  <2>2. SemCounts' /\ WgCounts'
    BY <1>3, <1>fin DEF LoopEnds, SemCounts, WgCounts, In, Types
  <2>3. WaitedForAll' /\ ClosedAtExit' /\ ReturnedAfterClose'
    BY <1>3 DEF LoopEnds, WaitedForAll, ClosedAtExit, ReturnedAfterClose
  <2>4. ChannelOnce' /\ ResultsAccounted'
    BY <1>3 DEF LoopEnds, ChannelOnce, ResultsAccounted
  <2> QED BY <2>1, <2>2, <2>3, <2>4
<1>4. CASE Wait
  <2>1. Types' /\ SpawnedInOrder'
    BY <1>4 DEF Wait, Types, SpawnedInOrder, Class, Alive
  <2>2. SemCounts' /\ WgCounts'
    BY <1>4, <1>fin DEF Wait, SemCounts, WgCounts, In, Types
  <2>3. Busy = {}
    BY <1>4, <1>fin, FS_EmptySet DEF Wait, WgCounts
  <2>4. \A e \in Class : worker[e] # "none"
    BY <1>4 DEF Wait, SpawnedInOrder, Class
  <2>5. WaitedForAll'
    BY <1>4, <2>3, <2>4 DEF Wait, WaitedForAll, Types, In, Alive
  <2>6. ClosedAtExit' /\ ReturnedAfterClose' /\ ChannelOnce' /\ ResultsAccounted'
    BY <1>4 DEF Wait, ClosedAtExit, ReturnedAfterClose, ChannelOnce, ResultsAccounted
  <2> QED BY <2>1, <2>2, <2>5, <2>6
<1>5. CASE Close
  <2>1. Types' /\ SpawnedInOrder'
    BY <1>5 DEF Close, Types, SpawnedInOrder, Class, Alive
  <2>2. SemCounts' /\ WgCounts'
    BY <1>5, <1>fin DEF Close, SemCounts, WgCounts, In, Types
  <2>3. WaitedForAll' /\ ClosedAtExit' /\ ReturnedAfterClose'
    BY <1>5 DEF Close, WaitedForAll, ClosedAtExit, ReturnedAfterClose
  <2>4. ChannelOnce' /\ ResultsAccounted'
    BY <1>5 DEF Close, ChannelOnce, ResultsAccounted
  <2> QED BY <2>1, <2>2, <2>3, <2>4
<1>6. ASSUME NEW e \in Class, Send(e) PROVE IInv'
  <2>1. Types' /\ SpawnedInOrder'
    BY <1>6 DEF Send, Types, SpawnedInOrder, Class, Alive
  <2>2. Live' = Live /\ Busy' = Busy
    BY <1>6 DEF Send, Types, In, Alive
  <2>3. SemCounts' /\ WgCounts'
    BY <1>6, <2>2 DEF Send, SemCounts, WgCounts
  <2>4. WaitedForAll' /\ ClosedAtExit'
    BY <1>6 DEF Send, WaitedForAll, ClosedAtExit, Types
  <2>5. ReturnedAfterClose'
    BY <1>6 DEF Send, ReturnedAfterClose, WaitedForAll, ClosedAtExit
  <2>6. \A i \in 1..Len(ch) : ch[i] \in Class /\ ch[i] # e
    BY <1>6 DEF Send, ChannelOnce, Types, Sent
  <2>7. merged[e] = 0
    BY <1>6 DEF Send, ResultsAccounted, Sent
  <2>8. /\ Len(ch') = Len(ch) + 1 /\ Len(ch) \in Nat
        /\ \A i \in 1..Len(ch) : ch'[i] = ch[i]
        /\ ch'[Len(ch) + 1] = e
    BY <1>6 DEF Send, Types
  <2>9. ChannelOnce'
    BY <1>6, <2>6, <2>7, <2>8 DEF Send, ChannelOnce, Types, Sent
  <2>10. ResultsAccounted'
    BY <1>6, <2>6, <2>8 DEF Send, ResultsAccounted, Types, Sent
  <2> QED BY <2>1, <2>3, <2>4, <2>5, <2>9, <2>10
<1>7. ASSUME NEW e \in Class, Done(e) PROVE IInv'
  <2>1. Live' = Live /\ Busy' = Busy \ {e} /\ e \in Busy
    BY <1>7 DEF Done, Types, In, Alive
  <2>2. SemCounts' /\ WgCounts'
    BY <1>7, <1>fin, <2>1, CountChange DEF Done, SemCounts, WgCounts, Types
  <2>3. Cardinality(Busy') \in Nat
    BY <1>fin, <2>1, FS_RemoveElement, FS_CardinalityType
  <2>4. Types' /\ SpawnedInOrder'
    BY <1>7, <2>2, <2>3 DEF Done, Types, SpawnedInOrder, WgCounts, Class, Alive
  <2>5. WaitedForAll' /\ ClosedAtExit' /\ ReturnedAfterClose'
    BY <1>7 DEF Done, WaitedForAll, ClosedAtExit, ReturnedAfterClose, Types
  <2>6. ChannelOnce' /\ ResultsAccounted'
    BY <1>7 DEF Done, ChannelOnce, ResultsAccounted, Types, Sent
  <2> QED BY <2>2, <2>4, <2>5, <2>6
<1>8. ASSUME NEW e \in Class, Release(e) PROVE IInv'
  <2>1. Live' = Live \ {e} /\ e \in Live /\ Busy' = Busy
    BY <1>8 DEF Release, Types, In, Alive
  <2>c. Cardinality(Live') = Cardinality(Live) - 1 /\ Cardinality(Busy') = Cardinality(Busy)
    BY <1>fin, <2>1, CountChange
  <2>2. SemCounts' /\ WgCounts'
    BY <1>8, <1>fin, <2>c DEF Release, SemCounts, WgCounts, Types
  <2>3. Cardinality(Live') \in Nat
    BY <1>fin, <2>1, FS_RemoveElement, FS_CardinalityType
  <2>4. Types' /\ SpawnedInOrder'
    BY <1>8, <2>2, <2>3 DEF Release, Types, SpawnedInOrder, SemCounts, Class, Alive
  <2>5. WaitedForAll' /\ ClosedAtExit' /\ ReturnedAfterClose'
    BY <1>8 DEF Release, WaitedForAll, ClosedAtExit, ReturnedAfterClose, Types
  <2>6. ChannelOnce' /\ ResultsAccounted'
    BY <1>8 DEF Release, ChannelOnce, ResultsAccounted, Types, Sent
  <2> QED BY <2>2, <2>4, <2>5, <2>6
<1>9. CASE Receive
  <2>1. /\ Head(ch) = ch[1] /\ ch[1] \in Class
        /\ Len(ch') = Len(ch) - 1 /\ Len(ch) \in Nat \ {0}
        /\ \A i \in 1..Len(ch') : ch'[i] = ch[i + 1] /\ ch'[i] # ch[1]
        /\ ch' \in Seq(Class)
    BY <1>9 DEF Receive, Types, ChannelOnce
  <2>2. merged[ch[1]] = 0 /\ worker[ch[1]] \in Sent
    BY <2>1 DEF ChannelOnce
  <2>3. /\ merged'[ch[1]] = 1
        /\ \A e \in Class \ {ch[1]} : merged'[e] = merged[e]
    BY <1>9, <2>1, <2>2 DEF Receive, Types
  <2>4. Types' /\ SpawnedInOrder'
    BY <1>9, <2>1, <2>3 DEF Receive, Types, SpawnedInOrder, Class, Alive
  <2>5. SemCounts' /\ WgCounts'
    BY <1>9, <1>fin DEF Receive, SemCounts, WgCounts, In, Types
  <2>6. WaitedForAll' /\ ClosedAtExit' /\ ReturnedAfterClose'
    BY <1>9 DEF Receive, WaitedForAll, ClosedAtExit, ReturnedAfterClose
  <2>7. \A i \in 1..Len(ch') : i + 1 \in 1..Len(ch) /\ ch[i + 1] \in Class
    BY <2>1 DEF Types
  <2>8. ChannelOnce'
    BY <1>9, <2>1, <2>3, <2>7 DEF Receive, ChannelOnce
  <2>9. ASSUME NEW e \in Class, worker[e] \in Sent, e # ch[1], merged[e] # 1
        PROVE  \E i \in 1..Len(ch') : ch'[i] = e
    <3>1. PICK i \in 1..Len(ch) : ch[i] = e
      BY <2>9 DEF ResultsAccounted
    <3>2. i - 1 \in 1..Len(ch') /\ ch'[i - 1] = e
      BY <3>1, <2>1, <2>9
    <3> QED BY <3>2
  <2>10. ResultsAccounted'
    BY <1>9, <2>2, <2>3, <2>9 DEF Receive, ResultsAccounted
  <2> QED BY <2>4, <2>5, <2>6, <2>8, <2>10
<1>10. CASE Return
  <2>1. Types' /\ SpawnedInOrder'
    BY <1>10 DEF Return, Types, SpawnedInOrder, Class, Alive
  <2>2. SemCounts' /\ WgCounts'
    BY <1>10, <1>fin DEF Return, SemCounts, WgCounts, In, Types
  <2>3. WaitedForAll' /\ ClosedAtExit' /\ ReturnedAfterClose'
    BY <1>10 DEF Return, WaitedForAll, ClosedAtExit, ReturnedAfterClose
  <2>4. ChannelOnce' /\ ResultsAccounted'
    BY <1>10 DEF Return, ChannelOnce, ResultsAccounted
  <2> QED BY <2>1, <2>2, <2>3, <2>4
<1>11. CASE UNCHANGED vars
  BY <1>11 DEF vars, Types, SpawnedInOrder, SemCounts, WgCounts, WaitedForAll, ClosedAtExit,
               ChannelOnce, ResultsAccounted, ReturnedAfterClose, In
<1> QED
  BY <1>1, <1>2, <1>3, <1>4, <1>5, <1>6, <1>7, <1>8, <1>9, <1>10, <1>11
     DEF Next, Producer, Goroutine, Caller, Finished

\* The inductive invariant holds throughout.
THEOREM Invariance == Spec => []IInv
BY InitInv, NextInv, PTL DEF Spec

\* SimulateParallel's counters and channels stay within their bounds for any
\* number of classes and workers: the semaphore and the results channel are
\* never over capacity and the WaitGroup's counter never drops below zero.
THEOREM TypeCorrect == Spec => []TypeOK
<1>1. IInv => TypeOK
  BY InFinite, NAssumption DEF IInv, Types, TypeOK, WgCounts
<1> QED
  BY <1>1, Invariance, PTL

\* No goroutine sends on the closed results channel.
THEOREM ChannelSafe == Spec => []NoSendOnClosed
<1>1. IInv => NoSendOnClosed
  BY DEF IInv, ClosedAtExit, WaitedForAll, NoSendOnClosed, In
<1> QED
  BY <1>1, Invariance, PTL

\* At most Workers classes are simulated at a time.
THEOREM Bounded == Spec => []BoundedBySemaphore
<1>1. IInv => BoundedBySemaphore
  BY InFinite, WorkersAssumption DEF IInv, Types, SemCounts, BoundedBySemaphore
<1> QED
  BY <1>1, Invariance, PTL

\* The invariant leaves one possible total once the caller has returned.
LEMMA ReturnedSum ==
    ASSUME IInv, caller = "returned"
    PROVE  merged = [e \in Class |-> 1]
<1>1. ch = <<>> /\ \A e \in Class : worker[e] \in Sent
  BY DEF IInv, ReturnedAfterClose, ClosedAtExit, WaitedForAll, Sent
<1>2. \A e \in Class : merged[e] = 1
  BY <1>1 DEF IInv, ResultsAccounted
<1> QED
  BY <1>2 DEF IInv, Types

\* SimulateParallel returns the sum in which every class counts once.
THEOREM SumCorrect == Spec => []EveryClassOnce
<1>1. IInv => EveryClassOnce
  BY ReturnedSum DEF EveryClassOnce
<1> QED
  BY <1>1, Invariance, PTL

\* Every behaviour of SimulateParallel is, seen from the caller, one step
\* that returns the sum (the safety part of ImplementsSum; that the step is
\* taken is a liveness property, which TLC checks).
THEOREM RefinesSum == Spec => Sequential!Safety
<1>1. Init => Sequential!Init
  BY DEF Init, Sequential!Init, Class
<1>2. ASSUME IInv, EveryClassOnce', [Next]_vars
      PROVE  [Sequential!Return]_<<IF caller = "returned" THEN merged ELSE [e \in Class |-> 0],
                                   caller = "returned">>
  <2>1. CASE Return
    <3>1. merged' = [e \in Class |-> 1]
      BY <1>2, <2>1 DEF Return, EveryClassOnce
    <3> QED
      BY <2>1, <3>1 DEF Return, Sequential!Return, Class
  <2>2. CASE caller = "range" /\ caller' = "range"
    BY <2>2
  <2>3. CASE caller = "returned" /\ UNCHANGED <<caller, merged>>
    BY <2>3
  <2> QED
    BY <1>2, <2>1, <2>2, <2>3
       DEF IInv, Types, Next, Producer, Goroutine, Caller, Finished, vars, Acquire, Spawn,
           LoopEnds, Wait, Close, Send, Done, Release, Receive
<1> QED
  BY <1>1, <1>2, Invariance, SumCorrect, PTL DEF Spec, Sequential!Safety

===========================================================================
