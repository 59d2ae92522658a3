------------------------------ MODULE Intents -----------------------------
(***************************************************************************)
(* hoyan intent verify: internal/adapter/cli/intent.go and                 *)
(* internal/usecase/intent/verify.go.  The file is parsed declaration by   *)
(* declaration, the document is validated and expanded, and its intents    *)
(* are evaluated one by one against the snapshot of their scenario.        *)
(*                                                                         *)
(* A snapshot is loaded once and kept; since it does not change while the  *)
(* command runs, the cache is left out.                                    *)
(***************************************************************************)
EXTENDS IntentEval

CONSTANTS Sources,         \* the syntax trees of the intents a file may hold
          LaterSources,    \* those that may follow another intent (a bound)
          LetDecls,        \* the variable declarations, [name, val]
          ScenarioDecls,   \* the scenario declarations, [name, def]; def is [snapshot, max, elements]
          MaxDecls         \* bound on the declarations

ASSUME IntentsAssumption ==
    /\ MaxDecls \in Nat /\ LaterSources \subseteq Sources
    /\ \A d \in ScenarioDecls : d.def.max \in Nat

VARIABLES
    scenarios,   \* declared scenarios
    unloadable,  \* snapshots whose lab does not load
    vars,        \* declared variables
    intents,     \* [scenario, source, declared, expr]: declared are the variables at the time
    stage,       \* "parse", "verify" or "end"
    results,     \* the statuses so far
    exit         \* exit code, -1 while running

state == <<scenarios, unloadable, vars, intents, stage, results, exit>>

Init ==
    /\ scenarios = <<>>
    /\ unloadable \in {{}, {"post"}}
    /\ vars = <<>> /\ intents = <<>>
    /\ stage = "parse"
    /\ results = <<>> /\ exit = -1

Fail ==
    /\ stage' = "end" /\ exit' = 2
    /\ UNCHANGED <<scenarios, unloadable, vars, intents, results>>

MoreDecls == Cardinality(DOMAIN vars) + Cardinality(DOMAIN scenarios) + Len(intents) < MaxDecls

\* A name that is declared again has its last value.
ParseVarDecl ==
    /\ stage = "parse" /\ MoreDecls
    /\ \E d \in LetDecls : vars' = (d.name :> d.val) @@ vars
    /\ UNCHANGED <<scenarios, unloadable, intents, stage, results, exit>>

ParseScenarioDecl ==
    /\ stage = "parse" /\ MoreDecls
    /\ \E d \in ScenarioDecls : scenarios' = (d.name :> d.def) @@ scenarios
    /\ UNCHANGED <<vars, unloadable, intents, stage, results, exit>>

ParseIntentDecl ==
    /\ stage = "parse" /\ MoreDecls
    /\ \E source \in (IF intents = <<>> THEN Sources ELSE LaterSources), scenario \in {"", "normal", "failures"} :
         LET expr == ParseRCLExpr(source, vars)
         IN  IF HasParseError(expr) THEN Fail
             ELSE /\ intents' = Append(intents, [scenario |-> scenario, source |-> source, declared |-> vars, expr |-> expr])
                  /\ UNCHANGED <<scenarios, unloadable, vars, stage, results, exit>>

\* Expand: Validate, then every intent with the variables of the whole file.
Expand ==
    /\ stage = "parse"
    /\ IF \A i \in DOMAIN intents : ValidIntent(intents[i], vars, scenarios, DOMAIN Snapshots)
       THEN /\ intents' = [i \in DOMAIN intents |-> [intents[i] EXCEPT !.expr = ExpandRCLExpr(@, vars)]]
            /\ stage' = "verify"
            /\ UNCHANGED <<scenarios, unloadable, vars, results, exit>>
       ELSE Fail

\* The scenario of an intent that names none.
ScenarioName(in) == IF in.scenario = "" THEN "normal" ELSE in.scenario

Loads == DOMAIN Snapshots \ unloadable

VerifyIntent ==
    /\ stage = "verify" /\ Len(results) < Len(intents)
    /\ LET in   == intents[Len(results) + 1]
           name == ScenarioName(in)
       IN  IF name \in DOMAIN scenarios /\ scenarios[name].snapshot \in Loads
           THEN /\ \E status \in EvalRCLExpr(in.expr, scenarios[name], <<>>, Loads) : results' = Append(results, status)
                /\ UNCHANGED <<scenarios, unloadable, vars, intents, stage, exit>>
           ELSE Fail

Report ==
    /\ stage = "verify" /\ Len(results) = Len(intents)
    /\ stage' = "end"
    /\ exit' = IF "fail" \in ToSet(results) THEN 1 ELSE 0
    /\ UNCHANGED <<scenarios, unloadable, vars, intents, results>>

\* The command has ended.
Ended == stage = "end" /\ UNCHANGED state

Next ==
    \/ ParseVarDecl
    \/ ParseScenarioDecl
    \/ ParseIntentDecl
    \/ Expand
    \/ VerifyIntent
    \/ Report
    \/ Ended

Spec == Init /\ [][Next]_state

---------------------------------------------------------------------------
(***************************************************************************)
(* What an intent means: its text read as a formula about the rows of the  *)
(* snapshot.  env binds the variables of the foralls around; scope holds   *)
(* the clauses of the guards and foralls around, each with its bindings.   *)
(***************************************************************************)
ValueOf(v, env) ==
    LET all   == env @@ vars
        bound == {x \in DOMAIN all : v.t = "str" /\ v.s = Ref(x)}
    IN  IF bound = {} THEN v ELSE all[CHOOSE x \in bound : TRUE]

KeyHolds(row, key, v) ==
    CASE key = "device_in"     -> row.device \in ToSet(v.l)
      [] key = "prefix"        -> row.prefix = v.s \/ PrefixWithin(row.prefix, v.s)
      [] key = "prefix_within" -> PrefixWithin(row.prefix, v.s)
      [] key = "communities"   -> v.s \in row.communities
      [] key = "nexthop"       -> NextHopContains(row, v.s)
      [] key \notin {"device_in", "prefix", "prefix_within", "communities", "nexthop"} -> row[key] = v.s

RECURSIVE ClauseHolds(_, _, _)
ClauseHolds(clause, row, env) ==
    \A i \in DOMAIN clause :
        LET p == clause[i]
        IN  CASE p.k = "pred" -> IF p.op = "within" THEN KeyHolds(row, "prefix_within", ValueOf(p.val, env))
                                 ELSE (p.op # "!=") = KeyHolds(row, p.key, ValueOf(p.val, env))
              [] p.k = "not"  -> ~ClauseHolds(p.args[1], row, env)
              [] p.k = "and"  -> \A j \in DOMAIN p.args : ClauseHolds(p.args[j], row, env)
              [] p.k = "or"   -> \E j \in DOMAIN p.args : ClauseHolds(p.args[j], row, env)
              [] p.k = "if"   -> ClauseHolds(p.args[1], row, env) => ClauseHolds(p.args[2], row, env)

RowsIn(snapshot, scope) ==
    SelectSeq(Snapshots[snapshot], LAMBDA row : \A s \in scope : ClauseHolds(s.clause, row, s.env))

RECURSIVE ClauseMentions(_, _)
ClauseMentions(clause, ref) ==
    \E i \in DOMAIN clause :
        InValue(clause[i].val, ref) \/ \E j \in DOMAIN clause[i].args : ClauseMentions(clause[i].args[j], ref)

RECURSIVE Mentions(_, _)
Mentions(e, ref) ==
    \/ ClauseMentions(e.where, ref) \/ e.from = ref \/ e.to = ref \/ ref \in ToSet(e.cmp.names)
    \/ \E i \in DOMAIN e.args : Mentions(e.args[i], ref)

BoundValues(b, declared) == ToSet(ForallValues(b.vals, declared))

RECURSIVE Holds(_, _, _, _, _)
Holds(e, scenario, scope, env, declared) ==
    LET Sub(x, s, v) == Holds(x, scenario, s, v, declared)
        Every(s, v)  == \A i \in DOMAIN e.args : Sub(e.args[i], s, v)
        here         == scope \cup {[clause |-> e.where, env |-> env]}
        names        == {e.binds[i].name : i \in DOMAIN e.binds}
        Assignments  == {f \in [names -> UNION {BoundValues(e.binds[i], declared) : i \in DOMAIN e.binds}] :
                           \A i \in DOMAIN e.binds : f[e.binds[i].name] \in BoundValues(e.binds[i], declared)}
        Bind(f)      == [x \in DOMAIN f |-> Str(f[x])] @@ env
        End(s)       == IF \E x \in DOMAIN env : s = Ref(x) THEN ValueOf(Str(s), env).s ELSE SubstituteString(s, vars)
    IN  CASE e.k = "when" -> RowsIn(scenario.snapshot, here) = <<>> \/ Every(here, env)
          [] e.k = "forall" ->
               \A f \in Assignments :
                   IF Cardinality(names) = 1 /\ ~\E i \in DOMAIN e.args, x \in names : Mentions(e.args[i], Ref(x))
                   THEN \A x \in names : Every(scope \cup {[clause |-> <<Pred(x, "=", Str(f[x]))>>, env |-> env]}, env)
                   ELSE Every(scope, Bind(f))
          [] e.k = "and" -> Every(scope, env)
          [] e.k = "or"  -> \E i \in DOMAIN e.args : Sub(e.args[i], scope, env)
          [] e.k = "not" -> ~Every(scope, env)
          [] e.k = "if"  -> Sub(e.args[1], scope, env) => Sub(e.args[2], scope, env)
          [] e.k = "diff" -> ToSet(RowsIn(e.left, here)) = ToSet(RowsIn(e.right, here))
          [] e.k = "rib" -> AggregateHolds(e.args[1], RowsIn(scenario.snapshot, here))
          [] e.k = "aggregate" -> AggregateHolds(e, RowsIn(scenario.snapshot, scope))
          [] e.k = "packet" ->
               LET Arrives(failed) == PacketReachable(Graphs[scenario.snapshot], End(e.from), End(e.to), failed)
               IN  IF scenario.max = 0 THEN Arrives({}) = e.expect
                   ELSE e.expect = \A failed \in SUBSET scenario.elements :
                                       Cardinality(failed) <= scenario.max => Arrives(failed)

---------------------------------------------------------------------------
(***************************************************************************)
(* The texts for which the meaning is the one intended: a clause has at    *)
(* most one predicate per key and one negation, and "if" stands alone; the *)
(* keys are known and their values have the right type; nested guards are  *)
(* about different keys; a forall has values, declared above.              *)
(***************************************************************************)
MapKey(p) == CASE p.k # "pred" -> p.k [] p.op = "!=" -> "not" [] p.op = "within" -> "prefix_within"
               [] p.k = "pred" /\ p.op \notin {"!=", "within"} -> p.key

TypeFor(key) == CASE key = "device_in" -> "list" [] key = "selected" -> "bool"
                  [] key \notin {"device_in", "selected"} -> "str"

Keys(clause) == {MapKey(clause[i]) : i \in DOMAIN clause}

RECURSIVE PlainClause(_, _)
PlainClause(clause, env) ==
    /\ Cardinality(Keys(clause)) = Len(clause)
    /\ "if" \in Keys(clause) => Len(clause) = 1
    /\ \A i \in DOMAIN clause :
         LET p == clause[i]
         IN  /\ p.k = "pred" => /\ p.key \in ValidWhereKeys \ {"node"}
                                /\ ValueOf(p.val, env).t = TypeFor(p.key)
                                /\ (p.key = "communities") = (p.op = "contains")
             /\ \A j \in DOMAIN p.args : PlainClause(p.args[j], env)

RECURSIVE Plain(_, _, _, _)
Plain(e, around, env, declared) ==
    LET names   == {e.binds[i].name : i \in DOMAIN e.binds}
        unused  == e.k = "forall" /\ ~\E i \in DOMAIN e.args, x \in names : Mentions(e.args[i], Ref(x))
        added   == IF e.k = "when" THEN Keys(e.where) ELSE IF unused THEN names ELSE {}
        inner   == IF e.k = "forall" THEN [x \in names |-> Str("")] @@ env ELSE env
    IN  /\ PlainClause(e.where, env)
        /\ added \cap around = {}
        /\ "if" \in added \cup around => Cardinality(added \cup around) = 1
        /\ unused => Cardinality(names) > 1 \/ names \subseteq {"device", "protocol"}
        /\ \A i \in DOMAIN e.binds :
             /\ e.binds[i].name \notin DOMAIN env \cup DOMAIN vars
             /\ ForallValues(e.binds[i].vals, declared) # <<>>
             /\ e.binds[i].vals.t = "list" \/ \E x \in DOMAIN declared : e.binds[i].vals.s = Ref(x)
        /\ e.k = "rib" => Len(e.args) = 1 /\ e.args[1].k = "aggregate"
        /\ e.agg = "distCnt" => e.cmp.form = "one"
        /\ \A i \in DOMAIN e.args : Plain(e.args[i], around \cup added, inner, declared)

(***************************************************************************)
(* Properties.                                                             *)
(***************************************************************************)
Meaning(in) == Holds(in.source, scenarios[ScenarioName(in)], {}, <<>>, in.declared)

\* No row has a prefix that is shorter than a written one around its address.
NoShorterPrefix ==
    \A s \in DOMAIN Snapshots, v \in DOMAIN PrefixOf : \A i \in DOMAIN Snapshots[s] :
        LET name == Snapshots[s][i].prefix IN MatchesPrefix(name, v) => name = v \/ PrefixWithin(name, v)

\* Parsing, expanding and evaluating give every plainly written intent the
\* verdict its text asks for, whatever order the entries of a where map are
\* visited in: rewriting a forall into a conjunction, the filters inherited
\* by the rows under guards and foralls, and the search for breaking failures
\* in the symbolic condition do not change its meaning, which for a packet is
\* the concrete walk under every failure.
VerdictsAgree ==
    NoShorterPrefix => \A i \in DOMAIN results :
        LET in == intents[i]
        IN  unloadable = {} /\ Plain(in.source, {}, <<>>, in.declared)
              /\ (scenarios[ScenarioName(in)].max > 0 => scenarios[ScenarioName(in)].elements # {})
              => results[i] = Verdict(Meaning(in))

Alone(keys) == keys \subseteq ValidWhereKeys /\ ("imply" \in keys => Cardinality(keys) = 1)

RECURSIVE WhereOrderSafe(_)
WhereOrderSafe(w) ==
    Alone(DOMAIN w) /\ \A key \in DOMAIN w : \A i \in DOMAIN w[key].args : WhereOrderSafe(w[key].args[i])

RECURSIVE OrderSafe(_, _)
OrderSafe(e, around) ==
    LET inner == around \cup (CASE e.k = "guard" -> DOMAIN e.where [] e.k = "forall" -> {e.var}
                                 [] e.k \notin {"guard", "forall"} -> {})
    IN  WhereOrderSafe(e.where) /\ Alone(inner) /\ \A i \in DOMAIN e.args : OrderSafe(e.args[i], inner)

\* Go visits the entries of a where map in random order.  Unless an "if"
\* shares its clause with another predicate or a key is unknown, evaluating
\* an accepted intent twice gives the same verdict, plainly written or not.
VerdictsRepeat ==
    stage = "verify" => \A i \in DOMAIN intents :
        LET name == ScenarioName(intents[i])
        IN  OrderSafe(intents[i].expr, {}) /\ name \in DOMAIN scenarios =>
                Cardinality(EvalRCLExpr(intents[i].expr, scenarios[name], <<>>, Loads)) = 1

\* An accepted document is reported on: if every intent names its scenario
\* and every lab loads, verification ends with 0 or 1, never with 2.
AcceptedIsReported ==
    [][stage = "verify" /\ unloadable = {} /\ (\A i \in DOMAIN intents : intents[i].scenario # "")
         => exit' # 2]_state

===========================================================================
