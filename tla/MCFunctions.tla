---------------------------- MODULE MCFunctions ----------------------------
(***************************************************************************)
(* The functions that work on data alone, for one run: the algebra of      *)
(* conditions, with two links that share a node and every failure of them, *)
(* and the prefix and packet classes, over addresses of three bits.  A     *)
(* behaviour is one caller of either: the other one stays at its start.    *)
(***************************************************************************)
EXTENDS ConditionAlgebra, PrefixSpace

MCNode   == {1, 2, 3}
MCLinks  == {{1, 2}, {2, 3}}
MCWorlds == [nodes : SUBSET MCNode, links : SUBSET MCLinks]

MCOperands == {FalseCond, NodeVar(2)} \cup {LinkVar(l) : l \in MCLinks} \cup {Not(LinkVar(l)) : l \in MCLinks}

(***************************************************************************)
(* Nested, neighbouring and single-address prefixes at both ends and in    *)
(* the middle of the space, prefix-lists with every kind of bound, and     *)
(* rules that mention some of the header fields.                           *)
(***************************************************************************)
P(addr, bits) == [addr |-> addr, bits |-> bits]

\* Bounds that do not fit give no set.
MCRouteSets ==
    {AnySet, Exact(P(0, 1))}
      \cup UNION {NewPrefixSet(p, ge, le) : p \in {P(0, 1), P(4, 2), P(6, 3)}, ge \in {0, 2, 3}, le \in {0, 1, 2}}

MCFIBPrefixes == {P(0, 0), P(0, 2), P(2, 3), P(4, 1), P(5, 3), P(7, 3)}

AnyPort   == [kind |-> "any"]
Port(n)   == [kind |-> "exact", port |-> n]
Ports(a, b) == [kind |-> "range", min |-> a, max |-> b]

Rule(protocol, dst, srcPort, dstPort, ingress) ==
    [protocol |-> protocol, dst |-> dst, src |-> Unset, srcPort |-> srcPort, dstPort |-> dstPort,
     ingress |-> ingress, egress |-> ""]

MCRules ==
    {Rule(protocol, dst, Unset, dstPort, "") :
        protocol \in {"", "tcp"}, dst \in {Unset, Exact(P(0, 1))}, dstPort \in {Unset, Port(1), Ports(2, 3)}}
      \cup {Rule("tcp", Exact(P(2, 2)), Unset, dstPort, "") : dstPort \in {Unset, Ports(2, 3)}}
      \cup {Rule("udp", Exact(P(2, 3)), Port(2), AnyPort, "e1"), Rule("tcp", AnySet, Ports(1, 2), Unset, "e2"),
            [Rule("", Exact(P(4, 1)), Unset, Unset, "") EXCEPT !.src = Exact(P(6, 2))],
            [Rule("", Unset, Unset, Unset, "e1") EXCEPT !.src = Exact(P(0, 2))],
            [Rule("tcp", Exact(P(0, 1)), Unset, Port(1), "") EXCEPT !.egress = "e1"]}

---------------------------------------------------------------------------
vars == <<callerVars, spaceVars>>

Init == CallerInit /\ SpaceInit

\* One choice of operands stands for all: the classes do not depend on it.
CallerAtStart == steps = 0 /\ left = FalseCond /\ right = FalseCond

SpaceAtStart == predicates = <<>> /\ rules = <<>> /\ stage = "collect"

\* The caller has made its calls.
Finished == steps = MaxSteps /\ UNCHANGED vars

Next ==
    \/ SpaceAtStart /\ CallerNext /\ UNCHANGED spaceVars
    \/ CallerAtStart /\ SpaceNext /\ UNCHANGED callerVars
    \/ Finished

Spec == Init /\ [][Next]_vars

===========================================================================
