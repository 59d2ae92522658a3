-------------------------- MODULE TrafficParallel -------------------------
(***************************************************************************)
(* TrafficSimulator.SimulateParallel (internal/engine/traffic/simulator.go)*)
(* simulates the flow equivalence classes concurrently.  A producer        *)
(* goroutine starts one goroutine per class, at most Workers at a time (a  *)
(* buffered channel is the semaphore); each of them sends its result over  *)
(* a second buffered channel; the caller adds up what it receives until    *)
(* the producer, having waited for all of them, closes that channel.       *)
(*                                                                         *)
(* Adding two link-load maps is commutative and associative, also modulo   *)
(* 2^64, so the total is determined by how often each class's result was   *)
(* added to it: "merged".  A result is identified with its class.  Only    *)
(* the caller touches the total, which makes merging one result atomic.    *)
(***************************************************************************)
EXTENDS Naturals, Sequences, FiniteSets

CONSTANTS N,        \* len(ecs)
          Workers   \* the bound, GOMAXPROCS when the argument is not positive

ASSUME NAssumption       == N \in Nat
ASSUME WorkersAssumption == Workers \in Nat \ {0}

VARIABLES
    prod,     \* where the producer is: "acquire", "spawn", "wait", "close", "exit"
    next,     \* the class the producer's loop is at
    worker,   \* where the goroutine of each class is
    sem,      \* tokens in the semaphore channel
    wg,       \* the WaitGroup's counter
    ch,       \* the results channel's buffer
    closed,   \* ch has been closed
    merged,   \* how often each class has been added to linkBytes
    caller    \* "range" or "returned"

vars == <<prod, next, worker, sem, wg, ch, closed, merged, caller>>

Class == 1..N

\* Goroutines between go and their last statement, and those whose result
\* has been sent.
Alive == {"run", "sent", "done"}
Sent  == {"sent", "done", "exited"}

In(states) == {e \in Class : worker[e] \in states}

Init ==
    /\ prod = "acquire"
    /\ next = 1
    /\ worker = [e \in Class |-> "none"]
    /\ sem = 0
    /\ wg = 0
    /\ ch = <<>>
    /\ closed = FALSE
    /\ merged = [e \in Class |-> 0]
    /\ caller = "range"

---------------------------------------------------------------------------
(***************************************************************************)
(* The producer.                                                           *)
(***************************************************************************)
\* sem <- struct{}{}, which blocks while the semaphore is full.
Acquire ==
    /\ prod = "acquire"
    /\ next <= N
    /\ sem < Workers
    /\ sem' = sem + 1
    /\ prod' = "spawn"
    /\ UNCHANGED <<next, worker, wg, ch, closed, merged, caller>>

\* wg.Add(1); go func(ec).
Spawn ==
    /\ prod = "spawn"
    /\ wg' = wg + 1
    /\ worker' = [worker EXCEPT ![next] = "run"]
    /\ next' = next + 1
    /\ prod' = "acquire"
    /\ UNCHANGED <<sem, ch, closed, merged, caller>>

LoopEnds ==
    /\ prod = "acquire"
    /\ next > N
    /\ prod' = "wait"
    /\ UNCHANGED <<next, worker, sem, wg, ch, closed, merged, caller>>

\* Mutant: the producer does not wait.
WaitNot ==
    /\ prod = "wait"
    /\ prod' = "close"
    /\ UNCHANGED <<next, worker, sem, wg, ch, closed, merged, caller>>

\* wg.Wait().
Wait ==
    /\ prod = "wait"
    /\ wg = 0
    /\ prod' = "close"
    /\ UNCHANGED <<next, worker, sem, wg, ch, closed, merged, caller>>

Close ==
    /\ prod = "close"
    /\ closed' = TRUE
    /\ prod' = "exit"
    /\ UNCHANGED <<next, worker, sem, wg, ch, merged, caller>>

---------------------------------------------------------------------------
(***************************************************************************)
(* The goroutine of class e: simulate and send, then the deferred calls,   *)
(* last one first.                                                         *)
(***************************************************************************)
\* ch <- result, which blocks while the buffer is full.
Send(e) ==
    /\ worker[e] = "run"
    /\ Len(ch) < Workers
    /\ ch' = Append(ch, e)
    /\ worker' = [worker EXCEPT ![e] = "sent"]
    /\ UNCHANGED <<prod, next, sem, wg, closed, merged, caller>>

\* wg.Done().
Done(e) ==
    /\ worker[e] = "sent"
    /\ wg' = wg - 1
    /\ worker' = [worker EXCEPT ![e] = "done"]
    /\ UNCHANGED <<prod, next, sem, ch, closed, merged, caller>>

\* <-sem.
Release(e) ==
    /\ worker[e] = "done"
    /\ sem' = sem - 1
    /\ worker' = [worker EXCEPT ![e] = "exited"]
    /\ UNCHANGED <<prod, next, wg, ch, closed, merged, caller>>

---------------------------------------------------------------------------
(***************************************************************************)
(* The caller: range over ch.                                              *)
(***************************************************************************)
Receive ==
    /\ caller = "range"
    /\ ch # <<>>
    /\ ch' = Tail(ch)
    /\ merged' = [merged EXCEPT ![Head(ch)] = @ + 1]
    /\ UNCHANGED <<prod, next, worker, sem, wg, closed, caller>>

\* Mutant: the caller stops when there is nothing to receive just now.
ReturnEarly ==
    /\ caller = "range"
    /\ ch = <<>>
    /\ caller' = "returned"
    /\ UNCHANGED <<prod, next, worker, sem, wg, ch, closed, merged>>

Return ==
    /\ caller = "range"
    /\ ch = <<>>
    /\ closed
    /\ caller' = "returned"
    /\ UNCHANGED <<prod, next, worker, sem, wg, ch, closed, merged>>

AllExited ==
    /\ caller = "returned"
    /\ prod = "exit"
    /\ \A e \in Class : worker[e] = "exited"

\* The call is over; what goroutines are left may be blocked for ever.
Finished == caller = "returned" /\ UNCHANGED vars

Producer == Acquire \/ Spawn \/ LoopEnds \/ Wait \/ Close
Goroutine(e) == Send(e) \/ Done(e) \/ Release(e)
Caller == Receive \/ Return

Next == Producer \/ (\E e \in Class : Goroutine(e)) \/ Caller \/ Finished

\* The Go scheduler runs every goroutine that is not blocked.
Fairness ==
    /\ WF_vars(Producer)
    /\ \A e \in Class : WF_vars(Goroutine(e))
    /\ WF_vars(Caller)

Spec == Init /\ [][Next]_vars /\ Fairness

---------------------------------------------------------------------------
(***************************************************************************)
(* Properties.                                                             *)
(***************************************************************************)
\* Type invariant.  The channels' lengths stay within their capacities, and
\* the WaitGroup's counter, which would panic below zero, within the number
\* of classes.
TypeOK ==
    /\ prod \in {"acquire", "spawn", "wait", "close", "exit"}
    /\ next \in 1..(N + 1)
    /\ worker \in [Class -> Alive \cup {"none", "exited"}]
    /\ sem \in 0..Workers
    /\ wg \in 0..N
    /\ ch \in Seq(Class) /\ Len(ch) <= Workers
    /\ closed \in BOOLEAN
    /\ merged \in [Class -> Nat]
    /\ caller \in {"range", "returned"}

\* No goroutine is ever about to send on the closed channel (which panics):
\* wg.Add before go, and wg.Done after the send, keep the producer waiting.
NoSendOnClosed == closed => In({"run"}) = {} /\ prod = "exit"

\* The doc comment's bound: at most Workers classes are simulated at a time.
BoundedBySemaphore == Cardinality(In(Alive)) <= Workers

\* When SimulateParallel returns, the result of every class has been added
\* to linkBytes exactly once: nothing is left in the channel, dropped when
\* it is closed, or counted twice.
EveryClassOnce == caller = "returned" => merged = [e \in Class |-> 1]

\* No interleaving leaves a goroutine behind: the caller returns, and the
\* producer and every class's goroutine end, also the ones that release the
\* semaphore only after the caller is gone.
NoGoroutineLeak == <>[]AllExited

(***************************************************************************)
(* What SimulateParallel promises: the sum over all classes, in one step.  *)
(***************************************************************************)
Sequential == INSTANCE TrafficSum
    WITH total    <- IF caller = "returned" THEN merged ELSE [e \in Class |-> 0],
         returned <- caller = "returned"

\* SimulateParallel implements the sequential sum, and returns.
ImplementsSum == Sequential!Spec

===========================================================================
