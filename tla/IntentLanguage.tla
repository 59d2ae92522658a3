--------------------------- MODULE IntentLanguage -------------------------
(***************************************************************************)
(* From the text of an intent to the expression that is evaluated:         *)
(* internal/adapter/intentdsl/parser.go and internal/usecase/intent        *)
(* (expand.go, validate.go).                                               *)
(*                                                                         *)
(* The text is given as its syntax tree; tokens, positions and syntax      *)
(* errors are left out.  What the parser makes of the tree is modelled: it *)
(* folds the predicates of a where clause into a map, rewrites a forall    *)
(* whose variable is used into a conjunction, and copies the aggregate of  *)
(* a block into the rib expression around it.                              *)
(***************************************************************************)
EXTENDS Integers, FiniteSets, SequencesExt

CONSTANT VarNames    \* the names that are referred to

(***************************************************************************)
(* Values.  A reference to a variable is the string the parser writes.     *)
(***************************************************************************)
Str(s)  == [t |-> "str", s |-> s, l |-> <<>>]
Bool(s) == [t |-> "bool", s |-> s, l |-> <<>>]
List(l) == [t |-> "list", s |-> "", l |-> l]
Ref(x)  == "$" \o x

(***************************************************************************)
(* The syntax tree.  A where clause is a sequence of predicates; those     *)
(* with a block hold clauses.  Expressions with a block hold expressions.  *)
(***************************************************************************)
Pred(key, op, val) == [k |-> "pred", key |-> key, op |-> op, val |-> val, args |-> <<>>]
Compound(k, args)  == [k |-> k, key |-> "", op |-> "", val |-> Str(""), args |-> args]

NoCompare == [op |-> "", form |-> "one", nums |-> <<>>, names |-> <<>>]

Blank ==
    [k |-> "", where |-> <<>>, args |-> <<>>, binds |-> <<>>, var |-> "", in |-> <<>>,
     left |-> "", right |-> "", agg |-> "", field |-> "", cmp |-> NoCompare, from |-> "", to |-> "", expect |-> FALSE]

ParseError == [Blank EXCEPT !.k = "error"]

---------------------------------------------------------------------------
(***************************************************************************)
(* Where clauses.  A parsed where is a map from keys to entries; inserting *)
(* a key twice keeps the later entry.  "!=" is inserted under "not".       *)
(***************************************************************************)
Entry(op, val, args) == [op |-> op, val |-> val, args |-> args]

RECURSIVE ParseWherePredicates(_)

ParsePredicate(p) ==
    CASE p.op = "!="     -> "not" :> Entry("", Str(""), <<p.key :> Entry("=", p.val, <<>>)>>)
      [] p.op = "within" -> "prefix_within" :> Entry("=", p.val, <<>>)
      [] p.k = "pred" /\ p.op \notin {"!=", "within"} -> p.key :> Entry(p.op, p.val, <<>>)
      [] p.k # "pred"    -> (IF p.k = "if" THEN "imply" ELSE p.k)
                              :> Entry("", Str(""), [i \in DOMAIN p.args |-> ParseWherePredicates(p.args[i])])

ParseWherePredicates(clause) == FoldLeft(LAMBDA map, p : ParsePredicate(p) @@ map, <<>>, clause)

---------------------------------------------------------------------------
(***************************************************************************)
(* References in a parsed expression: rclContainsString looks for values   *)
(* that are the reference, substituteRCLVarRef replaces them.  Snapshot    *)
(* names, aggregates and protocols are not looked at.                      *)
(***************************************************************************)
InValue(v, ref) == ref \in {v.s} \cup ToSet(v.l)

RECURSIVE InWhere(_, _)
InWhere(w, ref) ==
    \E key \in DOMAIN w : InValue(w[key].val, ref) \/ \E i \in DOMAIN w[key].args : InWhere(w[key].args[i], ref)

RECURSIVE RclContainsString(_, _)
RclContainsString(e, ref) ==
    \/ InWhere(e.where, ref)
    \/ e.var = ref \/ e.from = ref \/ e.to = ref
    \/ ref \in ToSet(e.in) \cup ToSet(e.cmp.names)
    \/ \E i \in DOMAIN e.args : RclContainsString(e.args[i], ref)

Replace(s, ref, value) == IF s = ref THEN value ELSE s

ReplaceValue(v, ref, value) ==
    [v EXCEPT !.s = Replace(@, ref, value), !.l = [i \in DOMAIN @ |-> Replace(@[i], ref, value)]]

RECURSIVE SubstituteWhere(_, _, _)
SubstituteWhere(w, ref, value) ==
    [key \in DOMAIN w |->
        [w[key] EXCEPT !.val = ReplaceValue(@, ref, value),
                       !.args = [i \in DOMAIN @ |-> SubstituteWhere(@[i], ref, value)]]]

RECURSIVE SubstituteRCLVarRef(_, _, _)
SubstituteRCLVarRef(e, ref, value) ==
    [e EXCEPT !.where = SubstituteWhere(@, ref, value),
              !.var = Replace(@, ref, value), !.from = Replace(@, ref, value), !.to = Replace(@, ref, value),
              !.in = [i \in DOMAIN @ |-> Replace(@[i], ref, value)],
              !.cmp.names = [i \in DOMAIN @ |-> Replace(@[i], ref, value)],
              !.args = [i \in DOMAIN @ |-> SubstituteRCLVarRef(@[i], ref, value)]]

---------------------------------------------------------------------------
(***************************************************************************)
(* Expressions.  vars holds the variables declared so far.                 *)
(***************************************************************************)
\* blockToRCLExpr.
Block(es) == IF Len(es) = 1 THEN es[1] ELSE [Blank EXCEPT !.k = "and", !.args = es]

\* forallValues: a reference stands for the variable's values if it is
\* declared above, and for itself otherwise.
ForallValues(v, vars) ==
    LET Listed(u) == IF u.t = "list" THEN u.l ELSE <<u.s>>
        declared  == {x \in DOMAIN vars : v.t = "str" /\ v.s = Ref(x)}
    IN  IF declared = {} THEN Listed(v) ELSE Listed(vars[CHOOSE x \in declared : TRUE])

\* The cartesian product of the bindings, the last one varying fastest.
Combos(binds) ==
    FoldLeft(LAMBDA combos, b :
                FlattenSeq([i \in DOMAIN combos |-> [j \in DOMAIN b.vals |-> (b.name :> b.vals[j]) @@ combos[i]]]),
             << <<>> >>, binds)

BindCombo(e, binds, combo) ==
    FoldLeft(LAMBDA x, b : SubstituteRCLVarRef(x, Ref(b.name), combo[b.name]), e, binds)

\* parseForall: without a use of the variables, one variable is left to the
\* evaluation, and several repeat the block.
ParseForall(binds, block) ==
    LET inner  == Block(block)
        combos == Combos(binds)
        used   == \E i \in DOMAIN binds : RclContainsString(inner, Ref(binds[i].name))
    IN  IF block = <<>> THEN ParseError
        ELSE IF used /\ combos # <<>>
        THEN [Blank EXCEPT !.k = "and", !.args = [i \in DOMAIN combos |-> BindCombo(inner, binds, combos[i])]]
        ELSE IF Len(binds) = 1
        THEN [Blank EXCEPT !.k = "forall", !.var = binds[1].name, !.in = binds[1].vals, !.args = <<inner>>]
        ELSE [Blank EXCEPT !.k = "and", !.args = [i \in DOMAIN combos |-> inner]]

ParseGuard(where, block) ==
    IF block = <<>> THEN ParseError ELSE [Blank EXCEPT !.k = "guard", !.where = where, !.args = <<Block(block)>>]

ParseCombinator(kw, args) == [Blank EXCEPT !.k = kw, !.args = args]

ParseNot(block) == IF block = <<>> THEN ParseError ELSE [Blank EXCEPT !.k = "not", !.args = <<Block(block)>>]

ParseImply(args) == [Blank EXCEPT !.k = "imply", !.args = args]

\* blockToAggregate: the block's aggregate is copied, its own clause is lost.
BlockToAggregate(block) == IF Len(block) = 1 /\ block[1].k = "rib" THEN block[1] ELSE ParseError

ParseRibEval(where, block) == [BlockToAggregate(block) EXCEPT !.where = where]

\* parseAggregateExpr: the alternatives of "==" and "!=".  For the distinct
\* aggregates a list becomes one alternative; read as a number it is 0.
ParseCompare(agg, c) ==
    [c EXCEPT !.nums = IF agg = "distCnt" /\ c.form = "list" THEN <<0>> ELSE @]

ParseBareAggregateExpr(e) == [e EXCEPT !.k = "rib", !.where = <<>>, !.cmp = ParseCompare(e.agg, @)]

ParseDiff(e, where) == [Blank EXCEPT !.k = "diff", !.left = e.left, !.right = e.right, !.where = where]

ParsePacket(e) == [Blank EXCEPT !.k = "packet", !.from = e.from, !.to = e.to, !.expect = e.expect]

RECURSIVE ParseRCLExpr(_, _)
ParseRCLExpr(e, vars) ==
    LET args  == [i \in DOMAIN e.args |-> ParseRCLExpr(e.args[i], vars)]
        binds == [i \in DOMAIN e.binds |-> [e.binds[i] EXCEPT !.vals = ForallValues(@, vars)]]
        where == ParseWherePredicates(e.where)
    IN  CASE e.k = "when"          -> ParseGuard(where, args)
          [] e.k = "forall"        -> ParseForall(binds, args)
          [] e.k \in {"and", "or"} -> ParseCombinator(e.k, args)
          [] e.k = "not"           -> ParseNot(args)
          [] e.k = "if"            -> ParseImply(args)
          [] e.k = "rib"           -> ParseRibEval(where, args)
          [] e.k = "aggregate"     -> ParseBareAggregateExpr(e)
          [] e.k = "diff"          -> ParseDiff(e, where)
          [] e.k = "packet"        -> ParsePacket(e)

RECURSIVE HasParseError(_)
HasParseError(e) == e.k = "error" \/ \E i \in DOMAIN e.args : HasParseError(e.args[i])

---------------------------------------------------------------------------
(***************************************************************************)
(* Validate.  The keys of a where map are not checked, nor the scenario of *)
(* an intent that names none.                                              *)
(***************************************************************************)
\* The references among some strings.
Refs(ss) == ss \cap {Ref(x) : x \in VarNames}

RECURSIVE WhereStrings(_)
WhereStrings(w) ==
    UNION {{w[key].val.s} \cup ToSet(w[key].val.l)
             \cup UNION {WhereStrings(w[key].args[i]) : i \in DOMAIN w[key].args} : key \in DOMAIN w}

\* validateRefsRCL: every reference is declared or bound by a forall around it.
RECURSIVE ValidateRefsRCL(_, _)
ValidateRefsRCL(e, declared) ==
    /\ Refs(WhereStrings(e.where) \cup {e.from, e.to}) \subseteq {Ref(x) : x \in declared}
    /\ \A i \in DOMAIN e.args :
         ValidateRefsRCL(e.args[i], IF e.k = "forall" THEN declared \cup {e.var} ELSE declared)

ValidateRIBEqExpr(e, snapshots) == {e.left, e.right} \subseteq snapshots

\* The values of distVals are compared with a list.
ValidateRIBEvalExpr(e) == e.agg = "distVals" /\ e.cmp.op \in {"==", "!="} => e.cmp.form = "list"

RECURSIVE ValidateRCLExpr(_, _)
ValidateRCLExpr(e, snapshots) ==
    /\ e.k \in {"and", "or"} => Len(e.args) >= 2
    /\ e.k = "diff" => ValidateRIBEqExpr(e, snapshots)
    /\ e.k = "rib" => ValidateRIBEvalExpr(e)
    /\ \A i \in DOMAIN e.args : ValidateRCLExpr(e.args[i], snapshots)

\* Mutant: a named scenario need not be declared.
ValidIntentAnyScenario(in, vars, scenarios, snapshots) ==
    ValidateRCLExpr(in.expr, snapshots) /\ ValidateRefsRCL(in.expr, DOMAIN vars)

\* An intent [scenario, expr]; scenario is "" when the text names none.
ValidIntent(in, vars, scenarios, snapshots) ==
    /\ ValidateRCLExpr(in.expr, snapshots)
    /\ in.scenario # "" => in.scenario \in DOMAIN scenarios /\ scenarios[in.scenario].snapshot \in snapshots
    /\ ValidateRefsRCL(in.expr, DOMAIN vars)

---------------------------------------------------------------------------
(***************************************************************************)
(* Expand.  A value that is a reference becomes the variable's value, be   *)
(* it a list; a string elsewhere only if the variable is a string.         *)
(***************************************************************************)
SubstituteString(s, vars) ==
    LET bound == {x \in DOMAIN vars : s = Ref(x) /\ vars[x].t = "str"}
    IN  IF bound = {} THEN s ELSE vars[CHOOSE x \in bound : TRUE].s

SubstituteAny(v, vars) ==
    LET bound == {x \in DOMAIN vars : v.t = "str" /\ v.s = Ref(x)}
    IN  IF bound # {} THEN vars[CHOOSE x \in bound : TRUE]
        ELSE [v EXCEPT !.l = [i \in DOMAIN @ |-> SubstituteString(@[i], vars)]]

RECURSIVE SubstituteMap(_, _)
SubstituteMap(w, vars) ==
    [key \in DOMAIN w |->
        [w[key] EXCEPT !.val = SubstituteAny(@, vars),
                       !.args = [i \in DOMAIN @ |-> SubstituteMap(@[i], vars)]]]

RECURSIVE ExpandRCLExpr(_, _)
ExpandRCLExpr(e, vars) ==
    [e EXCEPT !.where = SubstituteMap(@, vars),
              !.var = SubstituteString(@, vars), !.from = SubstituteString(@, vars), !.to = SubstituteString(@, vars),
              !.in = [i \in DOMAIN @ |-> SubstituteString(@[i], vars)],
              !.cmp.names = [i \in DOMAIN @ |-> SubstituteString(@[i], vars)],
              !.args = [i \in DOMAIN @ |-> ExpandRCLExpr(@[i], vars)]]

===========================================================================
