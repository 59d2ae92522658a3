-------------------------- MODULE ConditionedPaths ------------------------
(***************************************************************************)
(* What the failure conditions of the control plane promise, whatever the  *)
(* protocol decides: a RIB is a set of paths, each with the set of failure *)
(* worlds in which it exists.  A path starts at its origin, grows hop by   *)
(* hop while it is being announced, and its worlds only ever shrink.       *)
(* Policies, preferences, loop checks and selection do not appear.         *)
(*                                                                         *)
(* ControlPlane implements this specification; that no path outlives one   *)
(* of its own nodes or links is proved here once, for all networks.        *)
(***************************************************************************)
EXTENDS Conditions, Sequences

VARIABLES
    routes,     \* the RIB entries: path, and the worlds of base, cond and sel
    announced   \* the paths being propagated, with their worlds

vars == <<routes, announced>>

Up(n)       == {w \in Worlds : NodeUp(w, n)}
Across(m, n) == {w \in Worlds : LinkUp(w, {m, n}) /\ NodeUp(w, n)}

\* A node's own route, or its announcement.
Own(path, worlds) == \E n \in Node : path = <<n>> /\ worlds \subseteq Up(n)

\* One hop further than something being announced.
Hop(path, worlds) ==
    \E a \in announced : \E n \in Node :
        /\ path = Append(a.path, n)
        /\ worlds \subseteq a.worlds \cap Across(a.path[Len(a.path)], n)

Init == routes = {} /\ announced = {}

\* Routes are installed and announced; nothing installed changes.
Propagate ==
    /\ routes \subseteq routes'
    /\ \A r \in routes' \ routes :
          /\ Own(r.path, r.base) \/ Hop(r.path, r.base)
          /\ r.cond \subseteq r.base
          /\ r.sel \subseteq r.base
    /\ \A a \in announced' \ announced : Own(a.path, a.worlds) \/ Hop(a.path, a.worlds)

\* Conditions are computed anew: routes may lose worlds, and gain none.
Restrict ==
    /\ \A r \in routes' : \E q \in routes :
          /\ r.path = q.path
          /\ (r.base \cup r.cond \cup r.sel) \subseteq (q.base \cup q.cond \cup q.sel)
    /\ announced' \subseteq announced

Next == Propagate \/ Restrict

Spec == Init /\ [][Next]_vars

---------------------------------------------------------------------------
\* All nodes and links of a path are up in w.
Intact(w, path) ==
    /\ \A i \in 1..Len(path) : NodeUp(w, path[i])
    /\ \A i \in 1..(Len(path) - 1) : LinkUp(w, {path[i], path[i + 1]})

\* No route exists, or is selected, in a world that breaks its path.
Covered ==
    \A r \in routes : \A w \in r.base \cup r.cond \cup r.sel : Intact(w, r.path)

===========================================================================
