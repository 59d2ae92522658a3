---------------------------- MODULE Conditions ----------------------------
(***************************************************************************)
(* The failure conditions of internal/domain/failure: Boolean formulas     *)
(* over "link l is up" and "node n is up" that the engine attaches to      *)
(* every route.                                                            *)
(*                                                                         *)
(* A condition is a pair.  "term" is the normal form flattenAnd, flattenOr *)
(* and simplifyNot build; two conditions have the same Key() exactly when  *)
(* their terms are equal (children are deduplicated and sorted by key, so  *)
(* a set of children says the same).  "holds" is the set of failure worlds *)
(* in which Eval is true.  The engine looks at terms only (change          *)
(* detection compares keys); the properties look at worlds.                *)
(***************************************************************************)
EXTENDS Naturals, FiniteSets

CONSTANTS Node,     \* the topology's nodes
          Worlds    \* the failure sets considered: failed nodes and links

(***************************************************************************)
(* BuildTopologyIndex rejects two links between the same pair of nodes, so *)
(* a link is its set of endpoints.                                         *)
(***************************************************************************)
LinkID == {{a, b} : a \in Node, b \in Node}

ASSUME WorldsAssumption ==
    Worlds \subseteq [nodes : SUBSET Node, links : SUBSET LinkID]

NoFailure == [nodes |-> {}, links |-> {}]

NodeUp(w, n) == n \notin w.nodes

\* A failed endpoint fails the link.
LinkUp(w, l) == l \notin w.links /\ l \cap w.nodes = {}

---------------------------------------------------------------------------
TrueCond  == [term |-> [lit |-> TRUE],  holds |-> Worlds]
FalseCond == [term |-> [lit |-> FALSE], holds |-> {}]

NodeVar(n) == [term |-> [node |-> n], holds |-> {w \in Worlds : NodeUp(w, n)}]
LinkVar(l) == [term |-> [link |-> l], holds |-> {w \in Worlds : LinkUp(w, l)}]

Key(c) == c.term

\* The only element of a set, or the set under an operator.
Collapse(parts, empty, nary) ==
    CASE parts = {} -> empty
      [] \E t \in parts : parts = {t} -> CHOOSE t \in parts : TRUE
      [] OTHER -> nary

AndParts(t) ==
    CASE "and" \in DOMAIN t -> t.and
      [] t = TrueCond.term  -> {}
      [] OTHER -> {t}

OrParts(t) ==
    CASE "or" \in DOMAIN t -> t.or
      [] t = FalseCond.term -> {}
      [] OTHER -> {t}

AndTerm(ts) ==
    LET parts == UNION {AndParts(t) : t \in ts}
    IN  IF FalseCond.term \in ts THEN FalseCond.term
        ELSE Collapse(parts, TrueCond.term, [and |-> parts])

\* Mutant: TRUE is dropped like any neutral operand.
OrTermWithoutTrue(ts) ==
    LET parts == UNION {OrParts(t) : t \in ts} \ {TrueCond.term}
    IN  Collapse(parts, FalseCond.term, [or |-> parts])

OrTerm(ts) ==
    LET parts == UNION {OrParts(t) : t \in ts}
    IN  IF TrueCond.term \in ts THEN TrueCond.term
        ELSE Collapse(parts, FalseCond.term, [or |-> parts])

NotTerm(t) ==
    CASE t = TrueCond.term  -> FalseCond.term
      [] t = FalseCond.term -> TrueCond.term
      [] "not" \in DOMAIN t -> t.not
      [] OTHER -> [not |-> t]

\* Conjunction and disjunction of a finite set of conditions.
AndAll(cs) == [term  |-> AndTerm({c.term : c \in cs}),
               holds |-> {w \in Worlds : \A c \in cs : w \in c.holds}]
OrAll(cs)  == [term  |-> OrTerm({c.term : c \in cs}),
               holds |-> {w \in Worlds : \E c \in cs : w \in c.holds}]

And(c, d) == AndAll({c, d})
Not(c)    == [term |-> NotTerm(c.term), holds |-> Worlds \ c.holds]

===========================================================================
