-------------------------- MODULE LiveCheckProofs -------------------------
(***************************************************************************)
(* The live check is safe for every number of labs, devices and polls and  *)
(* every combination of flags.                                             *)
(*                                                                         *)
(* None of the three properties is inductive.  They follow from what is    *)
(* known of the lab being checked at each step (whether its containers     *)
(* run, whether an error is pending) and from what was true of each        *)
(* finished lab when its check returned.                                   *)
(***************************************************************************)
EXTENDS LiveCheck, TLAPS

Errors   == {"", "model", "snapshot", "deploy", "start", "convergence", "destroy"}
Verdicts == {"none", "pass", "model", "snapshot", "deploy", "start", "convergence", "destroy"}

\* The steps before containerlab deploy, those of a lab that is running, and
\* those after the result of the check is known.
NotDeployed == {"load", "model", "snapshot", "build", "deploy"}
Deployed    == {"containers", "sleep containers", "srlinux", "sleep srlinux", "policies",
                "poll", "collect rib", "collect fib", "sleep poll"}
Ending      == {"destroy", "report", "exit"}

TypeOK ==
    /\ opts \in Options
    /\ lab \in Lab
    /\ pc \in NotDeployed \cup Deployed \cup Ending
    /\ expired \in BOOLEAN
    /\ live \subseteq Table
    /\ shown \subseteq Table
    /\ polls \in Nat
    /\ at \in Nat
    /\ matched \subseteq Table
    /\ err \in Errors
    /\ running \subseteq Lab
    /\ verdict \in [Lab -> Verdicts]
    /\ destroyed \in [Lab -> {"no", "ok", "failed"}]
    /\ status \in {"running", "ok", "error"}

\* Until Run returns no error is pending.  What this collection found to match
\* did so at some moment of it, and what matches now may be found to.
CheckUnderWay ==
    /\ pc \in NotDeployed \cup Deployed => err = ""
    /\ matched \subseteq shown
    /\ live \subseteq shown

\* Where the containers of the labs are: nothing runs that was not reached.
ContainersTracked ==
    /\ \A l \in running : l <= lab
    /\ pc \in NotDeployed => lab \notin running
    /\ pc \in Deployed \cup {"destroy"} => lab \in running
    /\ destroyed[lab] # "no" => pc \in {"report", "exit"}
    /\ \A l \in Lab : l > lab => destroyed[l] = "no"

\* What the finished check of lab l with error e must have left behind.
Accounted(l, e) ==
    /\ l \in running /\ e \notin {"deploy", "start"} =>
         opts.skipDestroy \/ (opts.keepOnFailure /\ e # "") \/ destroyed[l] = "failed"
    /\ e = "convergence" /\ opts.keepOnFailure => l \in running
    /\ destroyed[l] = "failed" => e # ""

\* A check that is about to be reported, and those that have been.
LabsAccounted ==
    /\ pc = "report" => Accounted(lab, err)
    /\ \A l \in Lab : verdict[l] # "none" =>
         /\ Accounted(l, IF verdict[l] = "pass" THEN "" ELSE verdict[l])
         /\ l <= lab
    /\ pc # "exit" => verdict[lab] = "none" /\ status = "running"
    /\ \A l \in Lab : l < lab => verdict[l] # "none"

\* The command's exit status.
StatusCoversAll == status = "ok" => \A l \in Lab : verdict[l] = "pass"

IInv ==
    /\ TypeOK
    /\ CheckUnderWay
    /\ ContainersTracked
    /\ LabsAccounted
    /\ StatusCoversAll
    /\ PassIsCurrent

---------------------------------------------------------------------------
\* The labs in the order of the loop.
LEMMA LabOrder ==
    /\ 1 \in Lab /\ NumLabs \in Nat
    /\ \A l \in Lab : l \in Nat /\ 1 <= l /\ l <= NumLabs
    /\ \A l \in Lab : l < NumLabs => l + 1 \in Lab
BY SizeAssumption DEF Lab

\* The command starts with nothing running and nothing reported.
LEMMA InitIInv == Init => IInv
<1> SUFFICES ASSUME Init PROVE IInv
  OBVIOUS
<1>1. lab = 1 /\ pc = "load" /\ running = {} /\ status = "running"
  BY DEF Init
<1>2. \A l \in Lab : verdict[l] = "none" /\ destroyed[l] = "no"
  BY DEF Init
<1>3. TypeOK
  BY LabOrder DEF Init, TypeOK, Errors, Verdicts, NotDeployed
<1>4. CheckUnderWay /\ PassIsCurrent /\ StatusCoversAll
  BY DEF Init, CheckUnderWay, PassIsCurrent, StatusCoversAll
<1>5. ContainersTracked
  BY <1>1, <1>2, LabOrder DEF ContainersTracked, NotDeployed, Deployed
<1>6. \A l \in Lab : ~(l < lab)
  BY <1>1, LabOrder
<1>7. LabsAccounted
  BY <1>1, <1>2, <1>3, <1>6 DEF LabsAccounted, TypeOK
<1> QED
  BY <1>3, <1>4, <1>5, <1>7 DEF IInv

\* Bringing the containers up, all or some of them.
LEMMA DeployIInv == IInv /\ (Deploy \/ DeployFails) => IInv'
<1> SUFFICES ASSUME IInv, Deploy \/ DeployFails PROVE IInv'
  OBVIOUS
<1> USE DEF Deploy, DeployFails
<1>1. lab' = lab /\ destroyed' = destroyed /\ verdict' = verdict /\ opts' = opts /\ status' = status
  BY DEF command
<1>2. pc = "deploy" /\ running \subseteq running' /\ running' \subseteq running \cup {lab} /\ lab \in Lab
  BY DEF IInv, TypeOK
<1>3. TypeOK'
  BY <1>1, <1>2 DEF IInv, TypeOK, Errors, Deployed, Ending, check
<1>4. CheckUnderWay' /\ PassIsCurrent' /\ StatusCoversAll'
  BY <1>1 DEF IInv, CheckUnderWay, PassIsCurrent, StatusCoversAll, NotDeployed, Deployed, check
<1>5. (\A l \in running : l <= lab)'
  BY <1>1, <1>2, LabOrder DEF IInv, ContainersTracked
<1>6. ContainersTracked'
  BY <1>1, <1>2, <1>5 DEF IInv, ContainersTracked, NotDeployed, Deployed
<1>7. destroyed[lab] = "no"
  BY <1>2 DEF IInv, TypeOK, ContainersTracked
<1>8. (pc = "report" => Accounted(lab, err))'
  BY <1>1, <1>7 DEF Accounted
<1>9. ASSUME NEW l \in Lab, verdict[l] # "none" PROVE l \in running' <=> l \in running
  BY <1>2, <1>9 DEF IInv, LabsAccounted
<1>10. LabsAccounted'
  BY <1>1, <1>2, <1>8, <1>9 DEF IInv, LabsAccounted, Accounted
<1> QED
  BY <1>3, <1>4, <1>6, <1>10 DEF IInv

\* The steps of a poll other than a match.
LEMMA PollIInv == IInv /\ (StartPoll \/ CollectRIB \/ CollectFIB \/ CollectFails \/ Differs) => IInv'
<1> SUFFICES ASSUME IInv, StartPoll \/ CollectRIB \/ CollectFIB \/ CollectFails \/ Differs PROVE IInv'
  OBVIOUS
<1> USE DEF StartPoll, CollectRIB, CollectFIB, CollectFails, Differs, NotConverged, Proceed, ReturnError
<1>1. /\ pc \in {"poll", "collect rib", "collect fib"}
      /\ pc' \in {"collect rib", "collect fib", "destroy", "sleep poll"}
  OBVIOUS
<1>2. /\ lab' = lab /\ destroyed' = destroyed /\ verdict' = verdict /\ opts' = opts /\ status' = status
      /\ running' = running /\ expired' = expired /\ live' = live
  BY DEF command, check
<1>3. \/ matched' = {} /\ shown' = live
      \/ matched' \subseteq matched \cup live /\ shown' = shown
  BY DEF check
<1>4. polls' \in Nat /\ at' \in Nat
  <2>1. polls \in Nat /\ at \in Nat
    BY DEF IInv, TypeOK
  <2>2. polls' \in {polls, polls + 1} /\ at' \in {1, at, at + 1}
    BY DEF check
  <2> QED
    BY ONLY <2>1, <2>2
<1>5. err' = IF pc' = "destroy" THEN "convergence" ELSE err
  BY <1>1 DEF check
<1>6. TypeOK'
  BY ONLY IInv, <1>1, <1>2, <1>3, <1>4, <1>5 DEF IInv, TypeOK, CheckUnderWay, Deployed, Ending, Errors
<1>7. (PassIsCurrent /\ StatusCoversAll)'
  BY ONLY IInv, <1>1, <1>2, <1>5 DEF IInv, PassIsCurrent, StatusCoversAll, Asked
<1>8. CheckUnderWay'
  BY ONLY IInv, <1>1, <1>2, <1>3, <1>5 DEF IInv, CheckUnderWay, NotDeployed, Deployed
<1>9. ContainersTracked' /\ LabsAccounted'
  BY ONLY IInv, <1>1, <1>2 DEF IInv, ContainersTracked, LabsAccounted, Accounted, NotDeployed, Deployed
<1> QED
  BY ONLY <1>6, <1>7, <1>8, <1>9 DEF IInv

\* The result of a lab is recorded, and the next check starts or the command
\* ends.
LEMMA ReportIInv == IInv /\ Report => IInv'
<1> SUFFICES ASSUME IInv, Report PROVE IInv'
  OBVIOUS
<1> DEFINE v     == IF err = "" THEN "pass" ELSE err
           loops == lab < NumLabs /\ (err = "" \/ opts.continueOnError)
<1>1. pc = "report" /\ verdict' = [verdict EXCEPT ![lab] = v]
      /\ opts' = opts /\ running' = running /\ destroyed' = destroyed
  BY DEF Report
<1>2. lab \in Lab /\ lab \in Nat /\ verdict[lab] = "none" /\ status = "running"
  BY <1>1, LabOrder DEF IInv, TypeOK, LabsAccounted
<1>3. \A l \in Lab : verdict'[l] = IF l = lab THEN v ELSE verdict[l]
  BY <1>1 DEF IInv, TypeOK
<1>4. v \in Verdicts /\ v # "none" /\ (v = "pass" <=> err = "") /\ (IF v = "pass" THEN "" ELSE v) = err
  BY DEF IInv, TypeOK, Errors, Verdicts
<1>5. (\A l \in Lab : verdict[l] # "none" => Accounted(l, IF verdict[l] = "pass" THEN "" ELSE verdict[l]))'
  <2> SUFFICES ASSUME NEW l \in Lab, verdict'[l] # "none"
               PROVE  Accounted(l, IF verdict'[l] = "pass" THEN "" ELSE verdict'[l])
    BY <1>1 DEF Accounted
  <2>1. CASE l = lab
    <3>1. (IF verdict'[l] = "pass" THEN "" ELSE verdict'[l]) = err
      BY <1>3, <1>4, <2>1
    <3>2. Accounted(lab, err)
      BY <1>1 DEF IInv, LabsAccounted
    <3> QED
      BY <2>1, <3>1, <3>2
  <2>2. CASE l # lab
    <3>1. verdict'[l] = verdict[l]
      BY <1>3, <2>2
    <3> QED
      BY <3>1 DEF IInv, LabsAccounted
  <2> QED
    BY <2>1, <2>2
<1>6. \A l \in Lab : verdict'[l] # "none" <=> l <= lab
  <2>1. \A l \in Lab : (verdict[l] # "none" => l <= lab) /\ (l < lab => verdict[l] # "none")
    BY DEF IInv, LabsAccounted
  <2>2. \A l \in Lab : l \in Nat
    BY LabOrder
  <2>3. verdict'[lab] # "none" /\ \A l \in Lab : l # lab => verdict'[l] = verdict[l]
    BY <1>2, <1>3, <1>4
  <2> QED
    BY <1>2, <2>1, <2>2, <2>3
<1>7. verdict' \in [Lab -> Verdicts]
  BY <1>1, <1>4 DEF IInv, TypeOK
<1>8. CASE loops
  <2>1. NewCheck(lab + 1) /\ status' = status
    BY <1>8 DEF Report
  <2>2. lab + 1 \in Lab /\ lab' = lab + 1 /\ pc' = "load"
    BY <1>2, <1>8, <2>1, LabOrder DEF NewCheck
  <2>3. TypeOK'
    BY <1>1, <1>7, <2>1, <2>2 DEF IInv, TypeOK, NewCheck, NotDeployed, Errors
  <2>4. CheckUnderWay' /\ PassIsCurrent' /\ StatusCoversAll'
    BY <1>2, <2>1 DEF CheckUnderWay, PassIsCurrent, StatusCoversAll, NewCheck
  <2>5. lab + 1 \notin running /\ destroyed[lab + 1] = "no" /\ (\A l \in running : l <= lab + 1)
        /\ (\A l \in Lab : l > lab + 1 => l > lab)
    BY <1>2, <2>2, LabOrder DEF IInv, TypeOK, ContainersTracked
  <2>6. ContainersTracked'
    BY <1>1, <2>2, <2>5 DEF IInv, ContainersTracked, NotDeployed, Deployed
  <2>7. verdict'[lab + 1] = "none" /\ \A l \in Lab : (l <= lab => l <= lab + 1) /\ (l < lab + 1 => l <= lab)
    BY <1>2, <1>6, <2>2, LabOrder DEF IInv, TypeOK
  <2>8. LabsAccounted'
    BY <1>2, <1>5, <1>6, <2>1, <2>2, <2>7 DEF LabsAccounted
  <2> QED
    BY <2>3, <2>4, <2>6, <2>8 DEF IInv
<1>9. CASE ~loops
  <2>1. /\ pc' = "exit" /\ UNCHANGED <<lab, check>>
        /\ status' = IF \A l \in 1..lab : verdict'[l] = "pass" THEN "ok" ELSE "error"
    BY <1>9 DEF Report
  <2>2. TypeOK'
    BY <1>1, <1>7, <2>1 DEF IInv, TypeOK, check, Ending
  <2>3. CheckUnderWay' /\ PassIsCurrent'
    BY <2>1 DEF IInv, CheckUnderWay, PassIsCurrent, check, NotDeployed, Deployed
  <2>4. StatusCoversAll'
    <3>1. SUFFICES ASSUME \A l \in 1..lab : verdict'[l] = "pass" PROVE lab = NumLabs
      BY <2>1 DEF StatusCoversAll, Lab
    <3>2. lab \in 1..lab
      BY <1>2, LabOrder
    <3>3. v = "pass"
      BY <1>2, <1>3, <3>1, <3>2
    <3>4. ~(lab < NumLabs)
      BY <1>4, <1>9, <3>3
    <3> QED
      BY <1>2, <3>4, LabOrder
  <2>5. ContainersTracked' /\ LabsAccounted'
    <3>1. ContainersTracked'
      BY <1>1, <2>1 DEF IInv, ContainersTracked, NotDeployed, Deployed
    <3>2. \A l \in Lab : l < lab => l <= lab
      BY <1>2, LabOrder
    <3> QED
      BY <1>5, <1>6, <2>1, <3>1, <3>2, <1>1 DEF LabsAccounted
  <2> QED
    BY <2>2, <2>3, <2>4, <2>5 DEF IInv
<1> QED
  BY <1>8, <1>9

\* Every step of the command, of time and of the devices.
LEMMA NextIInv == IInv /\ [Next]_vars => IInv'
<1> SUFFICES ASSUME IInv, [Next]_vars PROVE IInv'
  OBVIOUS
<1> USE DEF IInv, TypeOK, CheckUnderWay, ContainersTracked, LabsAccounted, Accounted,
    StatusCoversAll, PassIsCurrent, Asked, NotDeployed, Deployed, Ending, Errors,
    Verdicts, check, command, Proceed, ReturnError
<1>1. CASE Load
  BY <1>1 DEF Load
<1>2. CASE LoadFails
  BY <1>2 DEF LoadFails
<1>26. CASE BuildModel \/ BuildModelFails
  BY <1>26 DEF BuildModel, BuildModelFails
<1>3. CASE CompareSnapshot
  BY <1>3 DEF CompareSnapshot
<1>4. CASE SnapshotFails
  BY <1>4 DEF SnapshotFails
<1>5. CASE BuildLocalImages
  BY <1>5 DEF BuildLocalImages
<1>6. CASE Deploy
  BY <1>6, DeployIInv
<1>7. CASE DeployFails
  BY <1>7, DeployIInv
<1>8. CASE Ready
  BY <1>8 DEF Ready
<1>9. CASE NotReady
  BY <1>9 DEF NotReady
<1>10. CASE ApplyNftablesPolicies
  BY <1>10 DEF ApplyNftablesPolicies
<1>11. CASE StartFails
  BY <1>11 DEF StartFails
<1>12. CASE Tick
  BY <1>12 DEF Tick
<1>13. CASE TimesOut
  BY <1>13 DEF TimesOut
<1>14. CASE StartPoll
  BY <1>14, PollIInv
<1>15. CASE CollectRIB \/ CollectFIB
  BY <1>15, PollIInv
<1>16. CASE CollectFails
  BY <1>16, PollIInv
<1>17. CASE Matches
  BY <1>17 DEF Matches
<1>18. CASE Differs
  BY <1>18, PollIInv
<1>19. CASE KeepLab
  BY <1>19 DEF KeepLab, Keep
<1>20. CASE Destroy
  BY <1>20 DEF Destroy, Keep
<1>21. CASE DestroyFails
  BY <1>21 DEF DestroyFails, Keep
<1>22. CASE Report
  BY <1>22, ReportIInv
<1>23. CASE Expire
  BY <1>23 DEF Expire
<1>24. ASSUME NEW t \in Table, Change(t) PROVE IInv'
  <2>1. live' \subseteq live \cup {t} /\ shown' = shown \cup live'
    BY <1>24 DEF Change
  <2> QED
    BY <1>24, <2>1 DEF Change
<1>25. CASE UNCHANGED vars
  BY <1>25 DEF vars
<1> QED
  BY <1>1, <1>2, <1>3, <1>4, <1>5, <1>6, <1>7, <1>8, <1>9, <1>10, <1>11, <1>12, <1>13, <1>14, <1>15,
     <1>16, <1>17, <1>18, <1>19, <1>20, <1>21, <1>22, <1>23, <1>24, <1>25, <1>26
  DEF Next, Program, Start, Polling, Exited

---------------------------------------------------------------------------
(***************************************************************************)
(* The theorems.                                                           *)
(***************************************************************************)
\* The inductive invariant holds throughout.
LEMMA Inductive == Spec => []IInv
BY InitIInv, NextIInv, PTL DEF Spec

\* The command's variables keep their types through all labs.
THEOREM TypeCorrect == Spec => []TypeOK
<1>1. IInv => TypeOK
  BY DEF IInv
<1> QED
  BY <1>1, Inductive, PTL

\* However many devices there are and however often their tables begin and
\* cease to match while CollectSnapshot reads them one after the other: a live
\* check that passes found each table it was asked about matching at some
\* moment of its last collection, and relies on no earlier poll for any.
THEOREM PassesOnCurrentTables == Spec => []PassIsCurrent
<1>1. IInv => PassIsCurrent
  BY DEF IInv
<1> QED
  BY <1>1, Inductive, PTL

\* Run's deferred function leaves a lab running only where it is asked to or
\* cannot help it, and never destroys one that is to be inspected.
THEOREM LabsDestroyed == Spec => []DestroyedUnlessWanted
<1>1. IInv => DestroyedUnlessWanted
  BY DEF IInv, TypeOK, Verdicts, LabsAccounted, Accounted, DestroyedUnlessWanted, LeftOnRequest
<1> QED
  BY <1>1, Inductive, PTL

\* "hoyan labs check" succeeds only if every selected lab passed, whatever
\* --continue-on-error says, and leaves none behind by itself.
THEOREM StatusHonest == Spec => []OkMeansAllPassed
<1>1. IInv => OkMeansAllPassed
  BY DEF IInv, LabsAccounted, Accounted, StatusCoversAll, OkMeansAllPassed
<1> QED
  BY <1>1, Inductive, PTL

===========================================================================
