----------------------------- MODULE LiveCheck ----------------------------
(***************************************************************************)
(* "hoyan labs check" (internal/adapter/cli/labs.go), the live check it    *)
(* runs for one lab after the other (internal/usecase/livecheck) and the   *)
(* containerlab runtime below it: deploy the lab, wait until its devices   *)
(* answer, collect their state again and again until it matches the model, *)
(* and destroy the lab.                                                    *)
(*                                                                         *)
(* Every external command may fail, and fails once the deadline of its     *)
(* check has passed.  Of a device's RIB and of its FIB it is only known    *)
(* whether the table matches the model; either may begin or cease to match *)
(* between any two reads of a collection.                                  *)
(***************************************************************************)
EXTENDS Naturals, FiniteSets

CONSTANTS NumLabs,    \* the labs selected, checked in this order
          NumNodes,   \* the devices of each lab, collected in this order
          MaxPolls,   \* --max-polls
          Options     \* the flag combinations considered

Lab  == 1..NumLabs
Node == 1..NumNodes

\* What a collection reads: the RIB and the FIB of each device.
Table == Node \X {"rib", "fib"}

ASSUME SizeAssumption == NumLabs \in Nat \ {0} /\ NumNodes \in Nat /\ MaxPolls \in Nat \ {0}
ASSUME OptionsAssumption ==
    Options \subseteq [keepOnFailure : BOOLEAN, skipDestroy : BOOLEAN, continueOnError : BOOLEAN,
                       checkFIB : BOOLEAN, snapshot : {"none", "same", "differs"}, offline : BOOLEAN]

VARIABLES
    opts,        \* the flags; never change
    lab,         \* the lab being checked
    pc,          \* the step of the check
    expired,     \* the context of this check is past its deadline
    live,        \* the tables that match the model now
    shown,       \* history: those that did at some moment since the current
                 \* collection began
    polls,       \* collections started in this check
    at,          \* the next device to collect
    matched,     \* the tables that matched when this collection read them
    err,         \* the error Run is about to return, "" for nil
    running,     \* the labs whose containers are running
    verdict,     \* what Run returned for each lab
    destroyed,   \* how containerlab destroy ended for each lab
    status       \* the command: "running", "ok" or "error"

check   == <<expired, live, shown, polls, at, matched, err>>
command == <<opts, lab, verdict, status>>
vars    == <<opts, lab, pc, expired, live, shown, polls, at, matched, err, running, verdict, destroyed, status>>

NewCheck(l) ==
    /\ lab' = l
    /\ pc' = "load"
    /\ expired' = FALSE
    /\ live' = {} /\ shown' = {}
    /\ polls' = 0
    /\ at' = 1
    /\ matched' = {}
    /\ err' = ""

Init ==
    /\ opts \in Options
    /\ lab = 1 /\ pc = "load" /\ expired = FALSE /\ live = {} /\ shown = {} /\ polls = 0
    /\ at = 1 /\ matched = {} /\ err = ""
    /\ running = {}
    /\ verdict = [l \in Lab |-> "none"]
    /\ destroyed = [l \in Lab |-> "no"]
    /\ status = "running"

---------------------------------------------------------------------------
(***************************************************************************)
(* A step of the check that succeeds, and one that makes Run return with   *)
(* an error: before the deferred function is registered ("report") or      *)
(* through it ("destroy").                                                 *)
(***************************************************************************)
Proceed(from, to) ==
    /\ pc = from
    /\ pc' = to
    /\ UNCHANGED <<check, command, running, destroyed>>

ReturnError(from, to, what) ==
    /\ pc = from
    /\ pc' = to
    /\ err' = what
    /\ UNCHANGED <<expired, live, shown, polls, at, matched, command, running, destroyed>>

\* LoadDomainTopologyWithRuntime: an error ends the command.
Load == Proceed("load", "model")

LoadFails ==
    /\ pc = "load"
    /\ pc' = "exit"
    /\ status' = "error"
    /\ UNCHANGED <<opts, lab, verdict, check, running, destroyed>>

\* Run loads the topology once more and builds the simulator: an error is one
\* of this check, and --continue-on-error goes on to the next lab.
BuildModel == Proceed("model", IF opts.snapshot = "none" THEN "build" ELSE "snapshot")

BuildModelFails == ReturnError("model", "report", "model")

\* Run with a snapshot: the model is compared with the file first.
CompareSnapshot ==
    /\ opts.snapshot = "same"
    /\ Proceed("snapshot", IF opts.offline THEN "report" ELSE "build")

SnapshotFails == ReturnError("snapshot", "report", "snapshot")

---------------------------------------------------------------------------
(***************************************************************************)
(* Runtime.Start, under the deadline.                                      *)
(***************************************************************************)
BuildLocalImages == ~expired /\ Proceed("build", "deploy")

Deploy ==
    /\ pc = "deploy"
    /\ ~expired
    /\ pc' = "containers"
    /\ running' = running \cup {lab}
    /\ UNCHANGED <<check, command, destroyed>>

\* containerlab may fail when some of the containers are up already.
DeployFails ==
    /\ pc = "deploy"
    /\ pc' = "report"
    /\ err' = "deploy"
    /\ running' \in {running, running \cup {lab}}
    /\ UNCHANGED <<expired, live, shown, polls, at, matched, command, destroyed>>

\* WaitContainers and WaitSRLinuxCLI: probe, sleep, probe again.
Ready ==
    /\ ~expired
    /\ Proceed("containers", "srlinux") \/ Proceed("srlinux", "policies")

NotReady ==
    \/ Proceed("containers", "sleep containers")
    \/ Proceed("srlinux", "sleep srlinux")

ApplyNftablesPolicies ==
    /\ ~expired
    /\ Proceed("policies", IF opts.snapshot = "none" THEN "poll" ELSE "destroy")

StartFails ==
    \/ ReturnError("build", "report", "start")
    \/ ReturnError("policies", "report", "start")

---------------------------------------------------------------------------
(***************************************************************************)
(* poll: the select between the timer and the context.  When both are      *)
(* ready it takes either.                                                  *)
(***************************************************************************)
Tick ==
    \/ Proceed("sleep containers", "containers")
    \/ Proceed("sleep srlinux", "srlinux")
    \/ Proceed("sleep poll", "poll")

\* Mutant: the wait for the SR Linux CLI only listens to its timer.
TimesOutButForCLI ==
    /\ expired
    /\ \/ ReturnError("sleep containers", "report", "start")
       \/ ReturnError("sleep poll", "destroy", "convergence")

TimesOut ==
    /\ expired
    /\ \/ ReturnError("sleep containers", "report", "start")
       \/ ReturnError("sleep srlinux", "report", "start")
       \/ ReturnError("sleep poll", "destroy", "convergence")

---------------------------------------------------------------------------
(***************************************************************************)
(* WaitForMatchingCollectors: one collection visits the devices in turn    *)
(* and reads the RIB of each before its FIB, whatever --check-fib says.    *)
(***************************************************************************)
\* Mutant: what an earlier poll found to match still counts.
StartPollKeepingMatches ==
    /\ pc = "poll"
    /\ pc' = "collect rib"
    /\ polls' = polls + 1
    /\ at' = 1
    /\ shown' = live
    /\ UNCHANGED <<expired, live, matched, err, command, running, destroyed>>

StartPoll ==
    /\ pc = "poll"
    /\ pc' = "collect rib"
    /\ polls' = polls + 1
    /\ at' = 1
    /\ matched' = {}
    /\ shown' = live
    /\ UNCHANGED <<expired, live, err, command, running, destroyed>>

CollectRIB ==
    /\ pc = "collect rib"
    /\ at <= NumNodes
    /\ ~expired
    /\ matched' = matched \cup ({<<at, "rib">>} \cap live)
    /\ pc' = "collect fib"
    /\ UNCHANGED <<expired, live, shown, polls, at, err, command, running, destroyed>>

CollectFIB ==
    /\ pc = "collect fib"
    /\ ~expired
    /\ matched' = matched \cup ({<<at, "fib">>} \cap live)
    /\ at' = at + 1
    /\ pc' = "collect rib"
    /\ UNCHANGED <<expired, live, shown, polls, err, command, running, destroyed>>

\* After a collection that is no match: give up, or sleep.
NotConverged(from) ==
    IF polls >= MaxPolls
    THEN ReturnError(from, "destroy", "convergence")
    ELSE Proceed(from, "sleep poll")

\* Also the collection from the simulator, which comes first.
CollectFails ==
    \/ at <= NumNodes /\ NotConverged("collect rib")
    \/ NotConverged("collect fib")

\* filterSnapshotComparison: differences of FIBs are dropped unless asked for.
Asked == {t \in Table : t[2] = "rib" \/ opts.checkFIB}

Matches == at > NumNodes /\ Asked \subseteq matched /\ Proceed("collect rib", "destroy")

Differs == at > NumNodes /\ ~(Asked \subseteq matched) /\ NotConverged("collect rib")

---------------------------------------------------------------------------
(***************************************************************************)
(* Run's deferred function, and the loop over the labs.                    *)
(***************************************************************************)
\* Mutant: the result does not matter for --keep-on-failure.
KeepAlways == opts.skipDestroy \/ opts.keepOnFailure

Keep == opts.skipDestroy \/ (err # "" /\ opts.keepOnFailure)

KeepLab == Keep /\ Proceed("destroy", "report")

Destroy ==
    /\ pc = "destroy"
    /\ ~Keep
    /\ pc' = "report"
    /\ running' = running \ {lab}
    /\ destroyed' = [destroyed EXCEPT ![lab] = "ok"]
    /\ UNCHANGED <<check, command>>

DestroyFails ==
    /\ pc = "destroy"
    /\ ~Keep
    /\ pc' = "report"
    /\ err' = IF err = "" THEN "destroy" ELSE err
    /\ destroyed' = [destroyed EXCEPT ![lab] = "failed"]
    /\ UNCHANGED <<expired, live, shown, polls, at, matched, command, running>>

\* Mutant: only the last lab's result counts.
ReportLast ==
    /\ pc = "report"
    /\ verdict' = [verdict EXCEPT ![lab] = IF err = "" THEN "pass" ELSE err]
    /\ UNCHANGED <<opts, running, destroyed>>
    /\ IF lab < NumLabs
       THEN NewCheck(lab + 1) /\ UNCHANGED status
       ELSE /\ pc' = "exit"
            /\ status' = IF err = "" THEN "ok" ELSE "error"
            /\ UNCHANGED <<lab, check>>

Report ==
    /\ pc = "report"
    /\ verdict' = [verdict EXCEPT ![lab] = IF err = "" THEN "pass" ELSE err]
    /\ UNCHANGED <<opts, running, destroyed>>
    /\ IF lab < NumLabs /\ (err = "" \/ opts.continueOnError)
       THEN NewCheck(lab + 1) /\ UNCHANGED status
       ELSE /\ pc' = "exit"
            /\ status' = IF \A l \in 1..lab : verdict'[l] = "pass" THEN "ok" ELSE "error"
            /\ UNCHANGED <<lab, check>>

---------------------------------------------------------------------------
(***************************************************************************)
(* The surroundings: time, and the devices of the lab.                     *)
(***************************************************************************)
UnderDeadline == pc \notin {"load", "model", "snapshot", "destroy", "report", "exit"}

Expire ==
    /\ UnderDeadline
    /\ ~expired
    /\ expired' = TRUE
    /\ UNCHANGED <<live, shown, polls, at, matched, err, pc, command, running, destroyed>>

\* A table begins or ceases to match.  Only before and during a collection
\* does anybody look.
Change(t) ==
    /\ pc \in {"poll", "collect rib", "collect fib"}
    /\ live' = IF t \in live THEN live \ {t} ELSE live \cup {t}
    /\ shown' = shown \cup live'
    /\ UNCHANGED <<expired, polls, at, matched, err, pc, command, running, destroyed>>

Exited == pc = "exit" /\ UNCHANGED vars

Start   == BuildLocalImages \/ Deploy \/ DeployFails \/ Ready \/ NotReady
             \/ ApplyNftablesPolicies \/ StartFails
Polling == StartPoll \/ CollectRIB \/ CollectFIB \/ CollectFails \/ Matches \/ Differs
Program == \/ Load \/ LoadFails \/ BuildModel \/ BuildModelFails
           \/ CompareSnapshot \/ SnapshotFails
           \/ Start \/ Tick \/ TimesOut \/ Polling
           \/ KeepLab \/ Destroy \/ DestroyFails \/ Report

Next == Program \/ Expire \/ (\E t \in Table : Change(t)) \/ Exited

\* The command takes its next step (an external command ends, at the latest
\* when its context does), and time passes.  A select that finds timer and
\* context ready again and again takes the context in the end: Go chooses at
\* random, and the timer has to be waited for while the context is ready.
Fairness == WF_vars(Program) /\ WF_vars(Expire) /\ SF_vars(TimesOut)

Spec == Init /\ [][Next]_vars /\ Fairness

---------------------------------------------------------------------------
(***************************************************************************)
(* Properties.                                                             *)
(***************************************************************************)
\* Tables change while they are read one after the other, and results of
\* earlier polls are at hand: still, when a live check ends without an error,
\* every table it was asked about matched the model at some moment since its
\* last collection began.  (Not all at one moment: a collection is not atomic.)
PassIsCurrent ==
    pc = "destroy" /\ err = "" /\ opts.snapshot = "none" => Asked \subseteq shown

\* When may the lab of a finished check be left running?
LeftOnRequest(l) ==
    opts.skipDestroy \/ (opts.keepOnFailure /\ verdict[l] # "pass") \/ destroyed[l] = "failed"

\* A lab whose check got past Runtime.Start is left running only if that was
\* asked for or destroying it failed, and a lab that --keep-on-failure wants
\* to be inspected is still there.
DestroyedUnlessWanted ==
    \A l \in Lab : verdict[l] # "none" =>
        /\ l \in running /\ verdict[l] \notin {"deploy", "start"} => LeftOnRequest(l)
        /\ verdict[l] = "convergence" /\ opts.keepOnFailure => l \in running

\* The exit status covers all labs: "ok" means that every lab was checked and
\* passed, and that none of them is running unless --skip-destroy was given.
OkMeansAllPassed ==
    status = "ok" => \A l \in Lab : verdict[l] = "pass" /\ (l \in running => opts.skipDestroy)

\* Every check ends: waiting for containers, for the SR Linux CLI and for
\* convergence is bounded by the deadline, whatever the devices do.
CheckReturns == <>(status # "running")

===========================================================================
