---------------------------- MODULE RoutePolicy ---------------------------
(***************************************************************************)
(* internal/domain/routing/policy: route-maps applied on export and on     *)
(* import.  A route-map is a sequence of rules; the empty sequence is "no  *)
(* route-map bound to the session", which accepts everything.  A clause of *)
(* a rule is a set with at most one value ({}: not configured).  A list of *)
(* ordered permit and deny entries stands for what it permits: a set of    *)
(* prefixes, of next-hop addresses or of AS paths.  A community list keeps *)
(* its entries, because it judges a whole set of communities.              *)
(*                                                                         *)
(* An address is a pair: <<n, p>> is n's on its link with p, and <<x, x>>  *)
(* that of nobody's interface, or a name that did not resolve to one.      *)
(* "at" is where the route-map runs: the node, the peer of the session     *)
(* (0: redistribution, which has none) and the links of the network.       *)
(***************************************************************************)
EXTENDS Integers, Sequences

DefaultLocalPreference == 100

DefaultLocalPref(v) == IF v = 0 THEN DefaultLocalPreference ELSE v

\* The forwarding next-hop that is an address of no neighbour.
AddressOnly == -1

\* A rule that matches the given prefixes and sets nothing.
Permit(prefixes) ==
    [deny |-> FALSE, prefixes |-> prefixes, nextHops |-> {}, asPaths |-> {}, comms |-> {},
     localPref |-> {}, localPrefDelta |-> {}, med |-> {}, medDelta |-> {},
     prepend |-> <<>>, setComms |-> {}, additive |-> FALSE,
     originCode |-> {}, nextHopSelf |-> FALSE, setNextHop |-> {}]

\* *ptr if the pointer is set, else the value as it was.
SetOr(clause, v) == IF clause = {} THEN v ELSE CHOOSE x \in clause : TRUE
Plus(clause, v)  == v + SetOr(clause, 0)

\* The address a next-hop list judges: the next-hop's towards the session's
\* peer, towards this node, or where it was a hop of the route's path.
NextHopForPolicy(at, r) ==
    LET nh    == r.nextHop
        hops  == {i \in 1..(Len(r.path) - 1) : r.path[i] = nh}
        first == CHOOSE i \in hops : \A j \in hops : i <= j
    IN  IF nh = at.node THEN <<nh, at.peer>>
        ELSE IF {nh, at.node} \in at.links THEN <<nh, at.node>>
        ELSE IF hops # {} THEN <<nh, r.path[first + 1]>>
        ELSE <<nh, nh>>

\* The neighbour that has the address on a link with this node.
NextHopForSet(at, addr) ==
    IF addr[2] = at.node /\ {addr[1], at.node} \in at.links THEN addr[1] ELSE AddressOnly

\* With several communities the least one the list mentions decides (they
\* are sorted), unless the match is exact.
CommunityListPermits(list, comms) ==
    IF list.exact
    THEN comms = list.permit /\ comms \cap list.deny = {}
    ELSE \E c \in comms \cap (list.permit \ list.deny) :
            \A d \in comms \cap (list.permit \cup list.deny) : c <= d

RuleMatches(rule, at, r) ==
    /\ r.prefix \in rule.prefixes
    /\ \A permitted \in rule.nextHops : r.nextHop # 0 /\ NextHopForPolicy(at, r) \in permitted
    /\ \A permitted \in rule.asPaths : r.attrs.asPath \in permitted
    /\ \A list \in rule.comms : CommunityListPermits(list, r.attrs.comms)

SetAttrs(rule, attrs) ==
    LET lp == SetOr(rule.localPref, attrs.localPref)
    IN  [attrs EXCEPT
          !.localPref  = IF rule.localPrefDelta = {} THEN lp
                         ELSE Plus(rule.localPrefDelta, DefaultLocalPref(lp)),
          !.med        = Plus(rule.medDelta, SetOr(rule.med, @)),
          !.asPath     = rule.prepend \o @,
          !.comms      = CASE rule.setComms = {} -> @
                           [] rule.setComms # {} /\ rule.additive -> @ \cup rule.setComms
                           [] OTHER -> rule.setComms,
          !.originCode = SetOr(rule.originCode, @)]

\* The first rule that matches decides; nothing matching is an implicit deny.
Decides(policy, i, at, r) ==
    /\ RuleMatches(policy[i], at, r)
    /\ \A j \in 1..(i - 1) : ~RuleMatches(policy[j], at, r)

PolicyAccepts(policy, at, r) ==
    policy = <<>> \/ \E i \in DOMAIN policy : Decides(policy, i, at, r) /\ ~policy[i].deny

\* next-hop-self, then an address.
SetNextHop(rule, at, nextHop) ==
    LET self == IF rule.nextHopSelf THEN at.node ELSE nextHop
    IN  SetOr({NextHopForSet(at, addr) : addr \in rule.setNextHop}, self)

\* The route an accepting policy returns.
PolicyRoute(policy, at, r) ==
    IF policy = <<>> THEN r
    ELSE LET rule == policy[CHOOSE i \in DOMAIN policy : Decides(policy, i, at, r)]
         IN  [r EXCEPT !.attrs = SetAttrs(rule, @), !.nextHop = SetNextHop(rule, at, @)]

===========================================================================
