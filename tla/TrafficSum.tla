---------------------------- MODULE TrafficSum ----------------------------
(***************************************************************************)
(* What the callers of SimulateParallel rely on: the result is the sum of  *)
(* the link loads of all equivalence classes, as if they had been          *)
(* simulated one after the other.  "total" counts how often each class     *)
(* contributes to the result.                                              *)
(***************************************************************************)
EXTENDS Naturals

CONSTANT N

VARIABLES total, returned

Init == total = [e \in 1..N |-> 0] /\ returned = FALSE

Return ==
    /\ ~returned
    /\ total' = [e \in 1..N |-> 1]
    /\ returned' = TRUE

Safety == Init /\ [][Return]_<<total, returned>>

\* The call returns.
Spec == Safety /\ WF_<<total, returned>>(Return)

===========================================================================
