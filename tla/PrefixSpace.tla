---------------------------- MODULE PrefixSpace ---------------------------
(***************************************************************************)
(* Prefix classes and packet classes: internal/domain/model (prefix.go,    *)
(* prefix_set.go, prefix_universe.go, header_space.go, packet.go) and the  *)
(* predicates of internal/engine/sim.                                      *)
(*                                                                         *)
(* Predicates are collected from announced routes, prefix-lists, packet    *)
(* filters, RIBs and FIBs; their boundaries cut the address space into     *)
(* prefix classes; these and the header fields the filters mention give    *)
(* packet classes.  Everything downstream takes one packet for its class.  *)
(*                                                                         *)
(* Addresses have Width bits instead of 32.                                *)
(***************************************************************************)
EXTENDS Integers, FiniteSets, SequencesExt

CONSTANTS Width,           \* bits of an address
          RouteSets,       \* prefix sets of routes and prefix-lists
          FIBPrefixes,     \* prefixes of RIB and FIB entries
          Rules,           \* packet filter rules, with their binding
          MaxPredicates    \* bound on what is collected

ASSUME PrefixSpaceAssumption == Width \in Nat \ {0} /\ MaxPredicates \in Nat

VARIABLES
    predicates,   \* sequence of [kind, set]
    rules,        \* sequence of the filter rules collected
    universe,     \* sequence of prefix classes [space, matching]
    space,        \* the packet classes
    stage         \* "collect", "universe" or "headers"

spaceVars == <<predicates, rules, universe, space, stage>>

---------------------------------------------------------------------------
(***************************************************************************)
(* Prefixes and prefix sets.                                               *)
(***************************************************************************)
Address == 0..(2^Width - 1)

Size(p)         == 2^(Width - p.bits)
Covers(p, a)  == a \div Size(p) = p.addr \div Size(p)
Overlaps(p, q)  == Covers(p, q.addr) \/ Covers(q, p.addr)

\* netip.Prefix, masked.
AllPrefixes == {p \in [addr : Address, bits : 0..Width] : p.addr % Size(p) = 0}

AnySet             == [kind |-> "any"]
Exact(p)           == [kind |-> "exact", base |-> p]
RangeSet(p, low, high) == [kind |-> "range", base |-> p, min |-> low, max |-> high]

\* NewPrefixSet: ge and le are 0 when not given; no set when they do not fit.
NewPrefixSet(p, ge, le) ==
    LET low  == IF ge # 0 THEN ge ELSE p.bits
        high == IF le # 0 THEN le ELSE Width
    IN  IF ge = 0 /\ le = 0 THEN {Exact(p)}
        ELSE IF low < p.bits \/ high > Width \/ low > high THEN {}
        ELSE {RangeSet(p, low, high)}

ContainsAddr(set, a) == set.kind = "any" \/ Covers(set.base, a)

\* ContainsPrefix: does the set, as a predicate on routes, match p?
MatchesNLRI(set, p) ==
    CASE set.kind = "any"   -> TRUE
      [] set.kind = "exact" -> p = set.base
      [] set.kind = "range" -> Covers(set.base, p.addr) /\ p.bits \in set.min..set.max

AddressSpaceOverlaps(s, t) == s.kind = "any" \/ t.kind = "any" \/ Overlaps(s.base, t.base)

\* Mutant: a single common length does not count.
PrefixRangeSetsOverlapShort(s, t) ==
    /\ Overlaps(s.base, t.base)
    /\ Max({s.min, t.min, s.base.bits, t.base.bits}) < Min({s.max, t.max})

PrefixRangeSetsOverlap(s, t) ==
    /\ Overlaps(s.base, t.base)
    /\ Max({s.min, t.min, s.base.bits, t.base.bits}) <= Min({s.max, t.max})

NLRIPredicateOverlaps(s, t) ==
    CASE s.kind = "any" \/ t.kind = "any" -> TRUE
      [] s.kind = "exact" /\ t.kind # "any" -> MatchesNLRI(t, s.base)
      [] s.kind = "range" /\ t.kind = "exact" -> MatchesNLRI(s, t.base)
      [] s.kind = "range" /\ t.kind = "range" -> PrefixRangeSetsOverlap(s, t)

---------------------------------------------------------------------------
(***************************************************************************)
(* Collecting.  Routes and prefix-lists give predicates on routes, filters *)
(* and the entries of RIBs and FIBs predicates on addresses.  A rule that  *)
(* matches everything and is bound to no interface is no header predicate. *)
(***************************************************************************)
Collected == Len(predicates) + Len(rules)

Collect(ps, rs) ==
    /\ stage = "collect"
    /\ Collected < MaxPredicates
    /\ predicates' = predicates \o ps
    /\ rules' = rules \o rs
    /\ UNCHANGED <<universe, space, stage>>

CollectRoute == \E s \in RouteSets : Collect(<<[kind |-> "nlri", set |-> s]>>, <<>>)

CollectFIBEntry ==
    \E p \in FIBPrefixes : Collect(<<[kind |-> "address_space", set |-> Exact(p)]>>, <<>>)

\* A field of a rule that is not given: every value matches.
Unset == [kind |-> "unset"]

Matches(field, set) == IF field = Unset THEN <<>> ELSE <<[kind |-> "address_space", set |-> set]>>

CollectRule ==
    \E r \in Rules :
        Collect(Matches(r.dst, r.dst) \o Matches(r.src, r.src),
                IF /\ {r.dst, r.src, r.srcPort, r.dstPort} = {Unset}
                   /\ {r.protocol, r.ingress, r.egress} = {""}
                THEN <<>> ELSE <<r>>)

---------------------------------------------------------------------------
(***************************************************************************)
(* BuildPrefixUniverseFromPredicates.  Predicates that print the same are  *)
(* looked at once for their boundaries; they have the same boundaries.     *)
(***************************************************************************)
Interval(set) ==
    IF set.kind = "any" THEN [lo |-> 0, hi |-> 2^Width - 1]
    ELSE [lo |-> set.base.addr, hi |-> set.base.addr + Size(set.base) - 1]

Predicates == {predicates[i] : i \in DOMAIN predicates}

Boundaries ==
    UNION {{Interval(p.set).lo, Interval(p.set).hi + 1} : p \in Predicates}

\* Mutant: an interval that starts at zero is taken for a single prefix.
PrefixesForIPv4RangeAtZero(lo, hi) ==
    LET from[c \in lo..(hi + 1)] ==
          LET fits == {k \in 0..Width : c % 2^k = 0 /\ (2^k <= hi - c + 1 \/ c = 0)}
          IN  IF c > hi THEN {} ELSE {[addr |-> c, bits |-> Width - Max(fits)]}
                  \cup IF c + 2^Max(fits) > hi THEN {} ELSE from[c + 2^Max(fits)]
    IN  from[lo]

\* prefixesForIPv4Range: the largest aligned block that fits, and on.
PrefixesForIPv4Range(lo, hi) ==
    LET from[c \in lo..(hi + 1)] ==
          LET k == Max({k \in 0..Width : c % 2^k = 0 /\ 2^k <= hi - c + 1})
          IN  IF c > hi THEN {} ELSE {[addr |-> c, bits |-> Width - k]} \cup from[c + 2^k]
    IN  from[lo]

\* prefixMatchesNLRIPredicateSpace: may the predicate match a prefix inside c?
PrefixMatchesNLRISpace(c, set) ==
    CASE set.kind = "any"   -> TRUE
      [] set.kind = "exact" -> Overlaps(set.base, c)
      [] set.kind = "range" -> /\ Overlaps(set.base, c)
                               /\ Max({set.min, set.base.bits, c.bits}) <= set.max

PrefixClassMatchesPredicate(cidrs, p) ==
    IF p.kind = "nlri" THEN \E c \in cidrs : PrefixMatchesNLRISpace(c, p.set)
    ELSE \E c \in cidrs : AddressSpaceOverlaps(Exact(c), p.set)

\* Mutant: a boundary is the last address of a predicate.
ClassesBetweenLast(bs) ==
    LET cut == SetToSortSeq({IF b = 0 THEN b ELSE b - 1 : b \in bs}, LAMBDA a, b : a < b)
        all == [i \in 1..(Len(cut) - 1) |->
                  LET cidrs == PrefixesForIPv4Range(cut[i], cut[i + 1] - 1)
                  IN  [space |-> cidrs,
                       matching |-> {j \in DOMAIN predicates : PrefixClassMatchesPredicate(cidrs, predicates[j])}]]
    IN  SelectSeq(all, LAMBDA c : c.matching # {})

\* One class for every pair of neighbouring boundaries some predicate matches.
ClassesBetween(bs) ==
    LET cut == SetToSortSeq(bs, LAMBDA a, b : a < b)
        all == [i \in 1..(Len(cut) - 1) |->
                  LET cidrs == PrefixesForIPv4Range(cut[i], cut[i + 1] - 1)
                  IN  [space |-> cidrs,
                       matching |-> {j \in DOMAIN predicates : PrefixClassMatchesPredicate(cidrs, predicates[j])}]]
    IN  SelectSeq(all, LAMBDA c : c.matching # {})

BuildPrefixUniverse ==
    /\ stage = "collect"
    /\ universe' = IF predicates = <<>> THEN <<>> ELSE ClassesBetween(Boundaries)
    /\ stage' = "universe"
    /\ UNCHANGED <<predicates, rules, space>>

\* ClassForPrefix: the first class around the prefix, if any.
ClassForPrefix(p) ==
    LET around == {i \in DOMAIN universe :
                     \E c \in universe[i].space : Covers(c, p.addr) /\ p.bits >= c.bits}
    IN  IF around = {} THEN {} ELSE {Min(around)}

ClassesMatching(set) ==
    {i \in DOMAIN universe : \E c \in universe[i].space : AddressSpaceOverlaps(Exact(c), set)}

---------------------------------------------------------------------------
(***************************************************************************)
(* BuildHeaderSpaceFromPredicates: for every prefix class, every protocol, *)
(* port set and interface the rules about it mention, in turn.  A field    *)
(* nobody mentions stays open.                                             *)
(***************************************************************************)
PortContains(set, n) ==
    CASE set.kind = "any"   -> n > 0
      [] set.kind = "exact" -> n = set.port
      [] set.kind = "range" -> n \in set.min..set.max

PortOverlaps(s, t) ==
    CASE s.kind = "any"   -> TRUE
      [] s.kind = "exact" -> PortContains(t, s.port)
      [] s.kind = "range" -> \E n \in s.min..s.max : PortContains(t, n)

\* portSetsOverlap: an open field overlaps everything.
PortSetsOverlap(s, t) == s = Unset \/ t = Unset \/ PortOverlaps(s, t)

Compatible(name, class) == name = "" \/ class = "" \/ name = class

RuleFor(r, cidrs) == r.dst = Unset \/ \E c \in cidrs : AddressSpaceOverlaps(r.dst, Exact(c))

\* headerProtocolClasses, headerInterfaceClasses and headerPortClasses.
Mentioned(values, none) == IF values \subseteq {none} THEN {none} ELSE values \ {none}

HeaderPredicatesForProtocol(rs, protocol) == {r \in rs : Compatible(r.protocol, protocol)}

HeadersForPrefix(cidrs) ==
    LET forPrefix == {r \in ToSet(rules) : RuleFor(r, cidrs)}
        Protocols == Mentioned({r.protocol : r \in forPrefix}, "")
        OfProtocol(a) == HeaderPredicatesForProtocol(forPrefix, a)
        SrcPorts(a) == Mentioned({r.srcPort : r \in OfProtocol(a)}, Unset)
        OfSrc(a, s) == {r \in OfProtocol(a) : PortSetsOverlap(r.srcPort, s)}
        DstPorts(a, s) == Mentioned({r.dstPort : r \in OfSrc(a, s)}, Unset)
        OfDst(a, s, d) == {r \in OfSrc(a, s) : PortSetsOverlap(r.dstPort, d)}
        Ingress(a, s, d) == Mentioned({r.ingress : r \in OfDst(a, s, d)}, "")
        OfIngress(a, s, d, i) == {r \in OfDst(a, s, d) : Compatible(r.ingress, i)}
        Egress(a, s, d, i) == Mentioned({r.egress : r \in OfIngress(a, s, d, i)}, "")
    IN  UNION {UNION {UNION {UNION {{<<a, s, d, i, e>> : e \in Egress(a, s, d, i)} :
            i \in Ingress(a, s, d)} : d \in DstPorts(a, s)} : s \in SrcPorts(a)} : a \in Protocols}

\* Mutant: ports are compared only when the rule names a protocol.
RuleMatchesClassNoPorts(r, class) ==
    /\ Compatible(r.protocol, class.protocol)
    /\ RuleFor(r, class.dst)
    /\ r.protocol # "" => PortSetsOverlap(r.srcPort, class.srcPort) /\ PortSetsOverlap(r.dstPort, class.dstPort)
    /\ Compatible(r.ingress, class.ingress)
    /\ Compatible(r.egress, class.egress)

\* A class has no source address, and the rule's is not looked at.
RuleMatchesClass(r, class) ==
    /\ Compatible(r.protocol, class.protocol)
    /\ RuleFor(r, class.dst)
    /\ PortSetsOverlap(r.srcPort, class.srcPort)
    /\ PortSetsOverlap(r.dstPort, class.dstPort)
    /\ Compatible(r.ingress, class.ingress)
    /\ Compatible(r.egress, class.egress)

PacketClass(i, h) ==
    LET class == [prefixClass |-> i, dst |-> universe[i].space, protocol |-> h[1], srcPort |-> h[2],
                  dstPort |-> h[3], ingress |-> h[4], egress |-> h[5]]
    IN  [class |-> class, matching |-> {j \in DOMAIN rules : RuleMatchesClass(rules[j], class)}]

BuildHeaderSpace ==
    /\ stage = "universe"
    /\ space' = {c \in UNION {{PacketClass(i, h) : h \in HeadersForPrefix(universe[i].space)} :
                                 i \in DOMAIN universe} : rules # <<>> /\ c.matching # {}}
    /\ stage' = "headers"
    /\ UNCHANGED <<predicates, rules, universe>>

SpaceInit ==
    /\ predicates = <<>> /\ rules = <<>>
    /\ universe = <<>> /\ space = {}
    /\ stage = "collect"

\* The classes stand.
Built == stage = "headers" /\ UNCHANGED spaceVars

SpaceNext ==
    \/ CollectRoute
    \/ CollectFIBEntry
    \/ CollectRule
    \/ BuildPrefixUniverse
    \/ BuildHeaderSpace
    \/ Built

---------------------------------------------------------------------------
(***************************************************************************)
(* Properties.                                                             *)
(***************************************************************************)
Addresses(cidrs) == {a \in Address : \E c \in cidrs : Covers(c, a)}

\* prefix_set.go: "Overlaps reports address-space overlap.  Use
\* NLRIPredicateOverlaps when comparing route prefix/NLRI predicates with
\* ge/le semantics."  The interval arithmetic finds an overlap exactly when
\* there is a common address, or a prefix that both predicates match.
OverlapMeansCommon ==
    stage = "collect" => \A p, q \in Predicates :
        /\ AddressSpaceOverlaps(p.set, q.set)
             <=> \E a \in Address : ContainsAddr(p.set, a) /\ ContainsAddr(q.set, a)
        /\ NLRIPredicateOverlaps(p.set, q.set)
             <=> \E x \in AllPrefixes : MatchesNLRI(p.set, x) /\ MatchesNLRI(q.set, x)

\* The classes are pairwise disjoint, each written with the fewest prefixes
\* possible; together they hold all addresses of the address predicates and
\* none that no predicate holds.
ClassesPartition ==
    stage # "collect" =>
        /\ \A i, j \in DOMAIN universe :
             i # j => Addresses(universe[i].space) \cap Addresses(universe[j].space) = {}
        /\ \A i \in DOMAIN universe : \A c, d \in universe[i].space :
             c # d => /\ ~Overlaps(c, d)
                      /\ c.bits = d.bits => c.addr \div (2 * Size(c)) # d.addr \div (2 * Size(d))
        /\ LET covered == UNION {Addresses(universe[i].space) : i \in DOMAIN universe}
               In(kinds) == {a \in Address : \E p \in Predicates : p.kind \in kinds /\ ContainsAddr(p.set, a)}
           IN  In({"address_space"}) \subseteq covered /\ covered \subseteq In({"address_space", "nlri"})

\* What is known of a class is true of everything in it: an address predicate
\* holds for all addresses of a class or for none, so all of them have the
\* same longest FIB prefix, and a route predicate that matches a prefix of
\* the class is among the class's predicates.
ClassesUniform ==
    stage # "collect" => \A i \in DOMAIN universe :
        LET c == universe[i]
        IN  /\ \A j \in DOMAIN predicates : predicates[j].kind = "address_space" =>
                 {a \in Addresses(c.space) : ContainsAddr(predicates[j].set, a)}
                   = IF j \in c.matching THEN Addresses(c.space) ELSE {}
            /\ \A x \in AllPrefixes : i \in ClassForPrefix(x) =>
                 /\ i \in ClassesMatching(Exact(x))
                 /\ {j \in DOMAIN predicates : predicates[j].kind = "nlri" /\ MatchesNLRI(predicates[j].set, x)}
                      \subseteq c.matching

PortNumbers == 0..3

\* Packets without their source address.
Packets ==
    [dst : Address, protocol : {"", "tcp", "udp"}, srcPort : PortNumbers, dstPort : PortNumbers,
     ingress : {"", "e1", "e2"}, egress : {"", "e1"}]

PacketInClass(x, c) ==
    /\ c.protocol \in {"", x.protocol}
    /\ \E p \in c.dst : Covers(p, x.dst)
    /\ c.srcPort = Unset \/ PortContains(c.srcPort, x.srcPort)
    /\ c.dstPort = Unset \/ PortContains(c.dstPort, x.dstPort)
    /\ c.ingress \in {"", x.ingress}
    /\ c.egress \in {"", x.egress}

\* A rule matches a packet that comes from some address its source contains.
FromSomewhere(r) == r.src = Unset \/ \E src \in Address : ContainsAddr(r.src, src)

RuleMatchesPacket(r, x) ==
    /\ r.protocol \in {"", x.protocol}
    /\ r.ingress \in {"", x.ingress}
    /\ r.egress \in {"", x.egress}
    /\ r.dst = Unset \/ ContainsAddr(r.dst, x.dst)
    /\ r.srcPort = Unset \/ PortContains(r.srcPort, x.srcPort)
    /\ r.dstPort = Unset \/ PortContains(r.dstPort, x.dstPort)
    /\ FromSomewhere(r)

\* No two rules name different port sets that share a port.
DisjointPorts ==
    \A r, t \in ToSet(rules), n \in PortNumbers :
        /\ r.srcPort # Unset /\ t.srcPort # Unset /\ r.srcPort # t.srcPort =>
             ~(PortContains(r.srcPort, n) /\ PortContains(t.srcPort, n))
        /\ r.dstPort # Unset /\ t.dstPort # Unset /\ r.dstPort # t.dstPort =>
             ~(PortContains(r.dstPort, n) /\ PortContains(t.dstPort, n))

\* README.md: packet classes show "the ACL or request predicates that matched
\* each packet class".  No rule is forgotten on the way through the
\* dimensions: wherever a rule applies to a prefix class, some packet class of
\* it lists the rule.  And provided that the rules' port sets are equal or
\* disjoint, no packet is in two classes, and its class lists exactly the rules
\* that match the packet from some source.  From its own source a listed rule
\* may not match: the source address is no dimension of the classes.
FiltersUniform ==
    stage = "headers" =>
        /\ \A j \in DOMAIN rules, i \in DOMAIN universe :
             RuleFor(rules[j], universe[i].space) =>
                 \E c \in space : c.class.prefixClass = i /\ j \in c.matching
        /\ DisjointPorts => \A x \in Packets :
             LET classes == {c \in space : PacketInClass(x, c.class)}
             IN  /\ \A c \in classes : c.matching =
                      {j \in DOMAIN rules : RuleMatchesPacket(rules[j], x)}
                 /\ Cardinality(classes) <= 1

===========================================================================
