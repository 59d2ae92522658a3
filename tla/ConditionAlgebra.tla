-------------------------- MODULE ConditionAlgebra ------------------------
(***************************************************************************)
(* The recursive functions over conditions of internal/domain/failure, and *)
(* the pruning check built on them: Eval, SimplifyCond, NegatedLinkCount,  *)
(* ExpandLinkVars (the form handed to the solver, which knows nothing of   *)
(* the topology) and CheckPrune.                                           *)
(*                                                                         *)
(* The state machine is a caller of the API that keeps two conditions and  *)
(* combines them, up to MaxSteps calls.                                    *)
(***************************************************************************)
EXTENDS Conditions, Integers, FiniteSetsExt

CONSTANTS Links,      \* the links of the topology
          Operands,   \* the conditions a caller starts from
          MaxSteps    \* bound on the API calls of a behaviour

ASSUME LinksAssumption == Links \subseteq LinkID

---------------------------------------------------------------------------
\* What a link variable means: to Eval a failed endpoint fails the link, to
\* the solver it is a variable of its own.
LinkHolds(asSolver, w, l) == IF asSolver THEN l \notin w.links ELSE LinkUp(w, l)

RECURSIVE EvalWith(_, _, _)
EvalWith(asSolver, t, w) ==
    CASE "lit" \in DOMAIN t  -> t.lit
      [] "node" \in DOMAIN t -> NodeUp(w, t.node)
      [] "link" \in DOMAIN t -> LinkHolds(asSolver, w, t.link)
      [] "and" \in DOMAIN t  -> \A x \in t.and : EvalWith(asSolver, x, w)
      [] "or" \in DOMAIN t   -> \E x \in t.or : EvalWith(asSolver, x, w)
      [] "not" \in DOMAIN t  -> ~EvalWith(asSolver, t.not, w)

Eval(t, w) == EvalWith(FALSE, t, w)

IsNegation(s, t) == ("not" \in DOMAIN s /\ s.not = t) \/ ("not" \in DOMAIN t /\ t.not = s)

\* Mutant: one negated operand is enough.
SomeNegated(parts, op) ==
    \E t \in parts : /\ op \in DOMAIN t
                     /\ \E x \in t[op] : \E y \in parts : IsNegation(x, y)

\* All of a child's operands, under the given operator, occur negated.
AllNegated(parts, op) ==
    \E t \in parts : /\ op \in DOMAIN t
                     /\ \A x \in t[op] : \E y \in parts : IsNegation(x, y)

Clash(parts) == \E s, t \in parts : IsNegation(s, t)

SimplifyAnd(t) ==
    IF "and" \in DOMAIN t /\ (Clash(t.and) \/ AllNegated(t.and, "or"))
    THEN FalseCond.term ELSE t

SimplifyOr(t) ==
    IF "or" \in DOMAIN t /\ (Clash(t.or) \/ AllNegated(t.or, "and"))
    THEN TrueCond.term ELSE t

RECURSIVE SimplifyCond(_)
SimplifyCond(t) ==
    CASE "and" \in DOMAIN t -> SimplifyAnd(AndTerm({SimplifyCond(x) : x \in t.and}))
      [] "or" \in DOMAIN t  -> SimplifyOr(OrTerm({SimplifyCond(x) : x \in t.or}))
      [] OTHER -> t

\* An operand counts once however often it occurs: normal forms have no
\* duplicates.
RECURSIVE NegatedLinkCount(_)
NegatedLinkCount(t) ==
    CASE "not" \in DOMAIN t -> IF "link" \in DOMAIN t.not THEN 1 ELSE 0
      [] "and" \in DOMAIN t -> MapThenSumSet(NegatedLinkCount, t.and)
      [] "or" \in DOMAIN t  -> MapThenSumSet(NegatedLinkCount, t.or)
      [] OTHER -> 0

\* Mutant: a negated link is left as it is.
RECURSIVE ExpandPositive(_)
ExpandPositive(t) ==
    CASE "link" \in DOMAIN t /\ t.link \in Links ->
           AndTerm({t} \cup {NodeVar(n).term : n \in t.link})
      [] "and" \in DOMAIN t -> AndTerm({ExpandPositive(x) : x \in t.and})
      [] "or" \in DOMAIN t  -> OrTerm({ExpandPositive(x) : x \in t.or})
      [] OTHER -> t

RECURSIVE ExpandLinkVars(_)
ExpandLinkVars(t) ==
    CASE "link" \in DOMAIN t /\ t.link \in Links ->
           AndTerm({t} \cup {NodeVar(n).term : n \in t.link})
      [] "and" \in DOMAIN t -> AndTerm({ExpandLinkVars(x) : x \in t.and})
      [] "or" \in DOMAIN t  -> OrTerm({ExpandLinkVars(x) : x \in t.or})
      [] "not" \in DOMAIN t -> NotTerm(ExpandLinkVars(t.not))
      [] OTHER -> t

\* Mutant: exactly maxFailures failures are too many.
CheckPruneAtLimit(t, maxFailures) ==
    CASE maxFailures < 0 -> "none"
      [] maxFailures >= 0 /\ SimplifyCond(t) = FalseCond.term -> "impossible"
      [] /\ maxFailures >= 0
         /\ SimplifyCond(t) # FalseCond.term
         /\ NegatedLinkCount(SimplifyCond(t)) >= maxFailures -> "more_than_k"
      [] OTHER -> "none"

CheckPrune(t, maxFailures) ==
    CASE maxFailures < 0 -> "none"
      [] maxFailures >= 0 /\ SimplifyCond(t) = FalseCond.term -> "impossible"
      [] /\ maxFailures >= 0
         /\ SimplifyCond(t) # FalseCond.term
         /\ NegatedLinkCount(SimplifyCond(t)) > maxFailures -> "more_than_k"
      [] OTHER -> "none"

---------------------------------------------------------------------------
VARIABLES left, right, steps

callerVars == <<left, right, steps>>

CallerInit == left \in Operands /\ right \in Operands /\ steps = 0

Call == steps < MaxSteps /\ steps' = steps + 1

Conjoin == Call /\ left' = And(left, right) /\ UNCHANGED right
Disjoin == Call /\ left' = OrAll({left, right}) /\ UNCHANGED right
Negate  == Call /\ left' = Not(left) /\ UNCHANGED right
Swap    == Call /\ left' = right /\ right' = left
Fetch   == Call /\ right' \in Operands /\ UNCHANGED left

CallerNext == Conjoin \/ Disjoin \/ Negate \/ Swap \/ Fetch

---------------------------------------------------------------------------
\* The normal form of the API means what was asked for: And, Or and Not
\* flatten, deduplicate and cancel, and Eval of the result is still the
\* conjunction, disjunction or negation, in every failure world.
NormalFormSound == \A w \in Worlds : Eval(left.term, w) = (w \in left.holds)

\* SimplifyCond's contradiction, tautology and De Morgan rules preserve the
\* meaning of a condition, so CheckPrune calls a condition impossible only
\* if it holds in no world.
SimplifySound ==
    LET simplified == SimplifyCond(left.term)
    IN  \A w \in Worlds : Eval(simplified, w) = Eval(left.term, w)

\* The solver treats a link variable as independent of its endpoints.  On the
\* condition ExpandLinkVars hands to it, it nevertheless agrees with Eval,
\* for which a failed endpoint fails the link, also below negations.
ExpansionAgrees ==
    LET expanded == ExpandLinkVars(left.term)
    IN  \A w \in Worlds : EvalWith(TRUE, expanded, w) = Eval(left.term, w)

\* A condition over a single path (no alternatives, no negated groups) that
\* CheckPrune drops for needing more than k link failures holds in no world
\* with at most k failed links and every node up.
Conjunctive(t) ==
    \A x \in AndParts(t) : DOMAIN x \cap {"lit", "node", "link"} # {}
                              \/ ("not" \in DOMAIN x /\ "link" \in DOMAIN x.not)

PruneSound ==
    \A k \in -1..2 :
        LET verdict == CheckPrune(left.term, k)
        IN  /\ verdict = "impossible" => \A w \in Worlds : ~Eval(left.term, w)
            /\ verdict = "more_than_k" /\ Conjunctive(left.term) =>
                 \A w \in Worlds : w.nodes = {} /\ Cardinality(w.links) <= k => ~Eval(left.term, w)

===========================================================================
