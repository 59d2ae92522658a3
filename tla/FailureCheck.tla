---------------------------- MODULE FailureCheck ----------------------------
(***************************************************************************)
(* CompareRIBsWithFailures: impair a running lab, wait until the tables of *)
(* its devices match those the simulator expects under that failure, and   *)
(* take the impairment away again.                                         *)
(*                                                                         *)
(* The tables are collected device by device and command by command while  *)
(* the network converges.  Every external command may fail, and the        *)
(* deadline of the context may pass at any time; SR Linux commands are     *)
(* retried by ExecJSON, unless they are answered with JSON that the        *)
(* collector does not understand.                                          *)
(***************************************************************************)
EXTENDS Observation

CONSTANTS
    Scenarios,  \* [kind, link, node, world, active]: see RIBFailureScenario
    Tables,     \* the simulator's tables: [Node -> sequence of entries]
    Options,    \* the CompareOptions a caller passes
    Terminals,  \* the nodes whose session can run a command with a terminal
    MaxPolls    \* opts.MaxPolls

ASSUME MaxPollsAssumption == MaxPolls \in Nat \ {0}
ASSUME ScenariosAssumption ==
    \A s \in Scenarios :
        /\ s.kind \in {"none", "link", "node"}
        /\ s.kind = "link" => s.link = <<s.link[1], s.link[2]>>
        /\ s.active \in Seq(Node) /\ s.active # <<>>

VARIABLES
    scenario, table, options,
    odd,        \* the devices whose MEDs are not those of the model
    live,       \* [Node -> world]: the world a device's table shows
    loss,       \* the endpoints with packet loss
    stopped,    \* the nodes that were stopped
    pc,
    expected,   \* the simulator's routes of all active nodes
    polls,
    at,         \* the active node being collected
    commands,   \* the commands still to be run on it
    bad,        \* unusable answers to the current command
    got,        \* the tables collected in this poll, node by node
    err,        \* lastErr # nil
    injected,   \* Inject returned without an error
    unreset,    \* the endpoints ResetLinkLoss failed for
    expired,    \* the context's deadline has passed
    verdict

vars == <<scenario, table, options, odd, live, loss, stopped, pc, expected, polls, at, commands,
          bad, got, err, injected, unreset, expired, verdict>>

config == <<scenario, table, options, odd>>
lab    == <<loss, stopped, injected, unreset>>
poll   == <<polls, at, commands, bad, got, err>>

maxAttempts == 3
NoFailure   == "none"

(***************************************************************************)
(* The devices (external).  A device shows one path per next hop and AS    *)
(* path, local routes the simulator leaves out, and its own spelling of    *)
(* the origin.                                                             *)
(***************************************************************************)

\* What a device shows of the entries of a table that hold in a world.
LivePath(n, entry, held, w) ==
    LET same(e)  == ExpectedBGPPath(n, e, w).hop = ExpectedBGPPath(n, entry, w).hop /\ e.asPath = entry.asPath
    IN  [ExpectedBGPPath(n, entry, w) EXCEPT
            !.best  = \E i \in 1..Len(held) : same(held[i]) /\ w \in held[i].sel,
            !.valid = \E i \in 1..Len(held) : same(held[i]) /\ held[i].valid,
            !.med   = IF n \in odd THEN @ + 1 ELSE @,
            !.code  = IF @ = "igp" THEN "i" ELSE @,
            !.peer  = entry.via]

LiveBGPRoute(n, prefix, held, w) ==
    LET paths == SetToSeq({LivePath(n, held[i], held, w) : i \in 1..Len(held)})
    IN  [prefix |-> prefix, protocol |-> "bgp",
         eligible |-> \E i \in 1..Len(paths) : paths[i].valid,
         best |-> \E i \in 1..Len(paths) : paths[i].best, paths |-> paths]

HeldBGP(n, prefix, w) == OfGroup(Visible(n, table[n], w), prefix, <<"bgp", "">>)

\* The BGP route of a prefix, or none.
LiveBGP(n, prefix, w) ==
    IF HeldBGP(n, prefix, w) = <<>> THEN <<>>
    ELSE <<LiveBGPRoute(n, prefix, HeldBGP(n, prefix, w), w)>>

LivePrefixes(n, w) == SelectSeq(PrefixOrder, LAMBDA p : LiveBGP(n, p, w) # <<>>)

\* The routes of other protocols, and a management network.
LiveOther(n, w) ==
    LET other == OtherThanBGP(ExpectedRIB(n, table[n], w))
    IN  Append([i \in 1..Len(other) |-> [other[i] EXCEPT !.eligible = TRUE, !.best = TRUE]],
               [prefix |-> "management", protocol |-> "connected", eligible |-> TRUE,
                best |-> TRUE, paths |-> <<>>])

\* A device's table, when all of it is read in one world.
LiveRIB(n, w) ==
    FlattenSeq([i \in 1..Len(PrefixOrder) |-> LiveBGP(n, PrefixOrder[i], w)]) \o LiveOther(n, w)

(***************************************************************************)
(* CompareRIBsWithFailures.                                                *)
(***************************************************************************)

Init ==
    /\ scenario \in Scenarios /\ table \in Tables /\ options \in Options
    /\ odd \in {{}} \cup {{n} : n \in Node}
    /\ live = [n \in Node |-> NoFailure]
    /\ loss = {} /\ stopped = {} /\ injected = FALSE /\ unreset = {}
    /\ pc = "expect" /\ expected = <<>>
    /\ polls = 0 /\ at = 0 /\ commands = <<>> /\ bad = 0 /\ got = <<>> /\ err = FALSE
    /\ expired = FALSE /\ verdict = "none"

\* The simulator's routes of the active nodes in the failure world: the
\* tables of all nodes one after the other, without the nodes' names.
Expect ==
    /\ pc = "expect"
    /\ expected' = FlattenSeq([i \in 1..Len(scenario.active) |->
                      ExpectedRIB(scenario.active[i], table[scenario.active[i]], scenario.world)])
    /\ pc' = "inject"
    /\ UNCHANGED <<config, live, lab, poll, expired, verdict>>

\* Wait for matching RIBs: the first poll starts.
Injected == injected' = TRUE /\ pc' = "poll"

\* The endpoint Inject impairs next.
NextEnd == scenario.link[1 + IF scenario.link[1] \in loss THEN 1 ELSE 0]

InjectNothing ==
    /\ pc = "inject" /\ scenario.kind = "none"
    /\ Injected
    /\ UNCHANGED <<config, live, loss, stopped, unreset, expected, poll, expired, verdict>>

SetLinkLoss ==
    /\ pc = "inject" /\ scenario.kind = "link" /\ ~expired
    /\ loss' = loss \cup {NextEnd}
    /\ IF NextEnd = scenario.link[2] THEN Injected ELSE UNCHANGED <<pc, injected>>
    /\ UNCHANGED <<config, live, stopped, unreset, expected, poll, expired, verdict>>

StopNode ==
    /\ pc = "inject" /\ scenario.kind = "node" /\ ~expired
    /\ stopped' = {scenario.node}
    /\ Injected
    /\ UNCHANGED <<config, live, loss, unreset, expected, poll, expired, verdict>>

\* A failing command ends the check before Cleanup is deferred.
InjectFails ==
    /\ pc = "inject" /\ scenario.kind # "none"
    /\ pc' = "done" /\ verdict' = "error"
    /\ UNCHANGED <<config, live, lab, expected, poll, expired>>

(***************************************************************************)
(* WaitForMatchingRIBs.                                                    *)
(***************************************************************************)

\* The commands that read the table of a node.  On SR Linux the summary of
\* the BGP routes tells which details are asked for; on FRR the OSPF table
\* adds the types of the OSPF routes, which are not compared.
Commands(n) ==
    CASE DeviceKind[n] = "srlinux" -> <<"summary", "table">>
      [] DeviceKind[n] = "frr"     -> <<"bgp", "table", "ospf">>
      [] OTHER                     -> <<"bgp", "table">>

StartPoll ==
    /\ pc = "poll"
    /\ polls' = polls + 1 /\ got' = <<>> /\ at' = 1 /\ bad' = 0
    /\ commands' = Commands(scenario.active[1])
    /\ pc' = "exec"
    /\ UNCHANGED <<config, live, lab, expected, err, expired, verdict>>

\* What the answer to a command adds to the table of the node.
Answer(n, command) ==
    CASE command = "bgp"     -> FlattenSeq([i \in 1..Len(PrefixOrder) |-> LiveBGP(n, PrefixOrder[i], live[n])])
      [] command = "table"   -> LiveOther(n, live[n])
      [] command \in {"summary", "ospf"} -> <<>>
      [] OTHER               -> LiveBGP(n, command, live[n])

\* The node's table so far, with the routes the command adds to it.
Extended(n, routes) ==
    IF Len(got) < at THEN Append(got, routes) ELSE [got EXCEPT ![at] = @ \o routes]

\* The command is answered: go on with the next one, the next node, or the
\* comparison.
Proceed(routes) ==
    LET n     == scenario.active[at]
        rest  == (IF Head(commands) = "summary" THEN LivePrefixes(n, live[n]) ELSE <<>>) \o Tail(commands)
    IN  /\ got' = Extended(n, routes) /\ bad' = 0
        /\ IF rest # <<>> THEN commands' = rest /\ UNCHANGED <<at, pc>>
           ELSE IF at < Len(scenario.active)
           THEN commands' = Commands(scenario.active[at + 1]) /\ at' = at + 1 /\ UNCHANGED pc
           ELSE commands' = <<>> /\ pc' = "compare" /\ UNCHANGED at

Exec ==
    /\ pc = "exec" /\ ~expired
    /\ Proceed(Answer(scenario.active[at], Head(commands)))
    /\ UNCHANGED <<config, live, lab, expected, polls, err, expired, verdict>>

\* FRR without bgpd has no BGP routes.
BGPNotRunning ==
    /\ pc = "exec" /\ ~expired /\ Head(commands) = "bgp" /\ DeviceKind[scenario.active[at]] = "frr"
    /\ Proceed(<<>>)
    /\ UNCHANGED <<config, live, lab, expected, polls, err, expired, verdict>>

\* Polling ends with an error: the deferred Cleanup of a link follows.
GiveUp == verdict' = "notConverged" /\ pc' = IF scenario.kind = "link" THEN "cleanup" ELSE "done"

\* A poll that was not successful: the last one, or wait for the next.
PollFailed == IF polls >= MaxPolls THEN GiveUp ELSE pc' = "sleep" /\ UNCHANGED verdict

\* ExecJSON: an error or malformed output is followed by another attempt
\* after a pause the deadline may cut short; after the attempts one more
\* command is tried if the session has a terminal to run it with.
Attempts(n) == maxAttempts + IF n \in Terminals THEN 1 ELSE 0

Retries(n, answers) == DeviceKind[n] = "srlinux" /\ answers < Attempts(n)

ExecRetries ==
    /\ pc = "exec" /\ Retries(scenario.active[at], bad + 1)
    /\ bad' = bad + 1
    /\ UNCHANGED <<config, live, lab, expected, polls, at, commands, got, err, pc, expired, verdict>>

ExecFails ==
    /\ pc = "exec"
    /\ Retries(scenario.active[at], bad + 1) => expired
    /\ bad' = bad + 1 /\ err' = TRUE
    /\ PollFailed
    /\ UNCHANGED <<config, live, lab, expected, polls, at, commands, got, expired>>

\* The answer is JSON, but not what the collector's parser expects: the poll
\* fails at once, on SR Linux too.
ParseFails ==
    /\ pc = "exec" /\ ~expired
    /\ err' = TRUE
    /\ PollFailed
    /\ UNCHANGED <<config, live, lab, expected, polls, at, commands, bad, got, expired>>

\* Without an expected route of another protocol only BGP is compared.
Collected ==
    LET routes == FlattenSeq(got)
    IN  IF \E i \in 1..Len(expected) : expected[i].protocol # "bgp" THEN routes ELSE BGPOnly(routes)

CompareOptions ==
    IF options.fields = {} /\ ~options.extraPrefixes /\ ~options.extraPaths
    THEN DefaultCompareOptions ELSE options

\* Mutant: the error of an earlier poll is not forgotten.
CompareKeepingError ==
    /\ pc = "compare"
    /\ err' = err
    /\ IF CompareRoutes(expected, Collected, CompareOptions).ok
       THEN verdict' = "match" /\ pc' = IF scenario.kind = "link" THEN "cleanup" ELSE "done"
       ELSE PollFailed
    /\ UNCHANGED <<config, live, lab, expected, polls, at, commands, bad, got, expired>>

Compare ==
    /\ pc = "compare"
    /\ err' = FALSE
    /\ IF CompareRoutes(expected, Collected, CompareOptions).ok
       THEN verdict' = "match" /\ pc' = IF scenario.kind = "link" THEN "cleanup" ELSE "done"
       ELSE PollFailed
    /\ UNCHANGED <<config, live, lab, expected, polls, at, commands, bad, got, expired>>

\* The timer and the context race: both may be ready.
Tick ==
    /\ pc = "sleep" /\ pc' = "poll"
    /\ UNCHANGED <<config, live, lab, expected, poll, expired, verdict>>

TimesOut ==
    /\ pc = "sleep" /\ expired
    /\ GiveUp
    /\ UNCHANGED <<config, live, lab, expected, poll, expired>>

(***************************************************************************)
(* Cleanup resets both endpoints, with a context that has no deadline.     *)
(***************************************************************************)

\* A reset that is skipped when the first endpoint's fails.
ResetUntilError(failing) ==
    /\ loss' = loss \ (IF scenario.link[1] \in failing THEN {} ELSE Range(scenario.link) \ failing)
    /\ unreset' = failing

Reset(failing) ==
    /\ loss' = loss \ (Range(scenario.link) \ failing)
    /\ unreset' = failing

Cleanup ==
    /\ pc = "cleanup"
    /\ \E failing \in SUBSET Range(scenario.link) : Reset(failing)
    /\ pc' = "done"
    /\ UNCHANGED <<config, live, stopped, injected, expected, poll, expired, verdict>>

(***************************************************************************)
(* The environment.                                                        *)
(***************************************************************************)

\* A device learns of the failure.
Converge(n) ==
    /\ injected /\ pc \notin {"cleanup", "done"}
    /\ n \notin stopped /\ live[n] # scenario.world
    /\ live' = [live EXCEPT ![n] = scenario.world]
    /\ UNCHANGED <<config, lab, pc, expected, poll, expired, verdict>>

Expire ==
    /\ ~expired /\ pc \notin {"cleanup", "done"}
    /\ expired' = TRUE
    /\ UNCHANGED <<config, live, lab, pc, expected, poll, verdict>>

Returned == pc = "done" /\ UNCHANGED vars

Next ==
    \/ Expect \/ InjectNothing \/ SetLinkLoss \/ StopNode \/ InjectFails
    \/ StartPoll \/ Exec \/ BGPNotRunning \/ ExecRetries \/ ExecFails \/ ParseFails
    \/ Compare \/ Tick \/ TimesOut \/ Cleanup
    \/ Expire \/ \E n \in Node : Converge(n)
    \/ Returned

Spec == Init /\ [][Next]_vars

(***************************************************************************)
(* Properties.                                                             *)
(***************************************************************************)

\* A lab that shows the modelled state is not reported as different: when
\* the check gives up after a complete last poll, some device did not show
\* its table of the failure world.  The simulator's duplicates of a path,
\* the devices' extra routes and their spelling must not count.
ConvergedPasses ==
    verdict = "notConverged" /\ ~err /\ odd = {} /\ Len(got) = Len(scenario.active)
    => \E i \in 1..Len(got) : got[i] # LiveRIB(scenario.active[i], scenario.world)

\* The attributes of the paths a route shows, whatever their number.
Shown(routes, prefix, opts) ==
    LET index == PathIndex(ComparablePaths(RouteIndex(routes)[<<"bgp", prefix>>]), opts).index
    IN  {[f \in opts.fields |-> index[k][f]] : k \in DOMAIN index}

Holds(routes, prefix) == \E i \in 1..Len(routes) : routes[i].protocol = "bgp" /\ routes[i].prefix = prefix

\* A match is a match: when the check succeeds, a prefix that one of the
\* nodes alone has is shown by that node with the expected attributes.
MatchMeansAgreement ==
    verdict = "match" =>
    \A i \in 1..Len(scenario.active), p \in Range(PrefixOrder) :
        LET model == ExpectedRIB(scenario.active[i], table[scenario.active[i]], scenario.world)
            alone == \A j \in 1..Len(scenario.active) \ {i} :
                        /\ ~Holds(got[j], p)
                        /\ ~Holds(ExpectedRIB(scenario.active[j], table[scenario.active[j]], scenario.world), p)
            opts == FillCompareDefaults(CompareOptions)
        IN  alone =>
            /\ Holds(model, p) => Holds(got[i], p)
            /\ Holds(got[i], p) => opts.extraPrefixes \/ Holds(model, p)
            /\ Holds(got[i], p) /\ Holds(model, p) =>
               /\ Shown(model, p, opts) \subseteq Shown(got[i], p, opts)
               /\ opts.extraPaths \/ Shown(got[i], p, opts) = Shown(model, p, opts)

\* Once the failure is injected, packet loss survives the check only where
\* its own reset failed, whatever the verdict and the deadline.
LossRemoved == pc = "done" /\ injected => loss = unreset

\* What is reported is the outcome of the last poll: whichever polls failed
\* or were completed before it, and whether it was the polls or the time that
\* ran out, a collection error is given as the reason exactly if some table
\* had not been read to its end when the last poll was over.
ReasonIsCurrent == verdict = "notConverged" => (err <=> commands # <<>>)

=============================================================================
