-------------------------- MODULE TopologicalOrder --------------------------
(***************************************************************************)
(* What sort_plugins() in plugins.c expects of tsort(): put the nodes of a *)
(* directed graph into an order in which every arc points forward, or      *)
(* report that there is none.  Nodes are put in place one by one, each     *)
(* after all of its predecessors; which one comes next is left open.       *)
(***************************************************************************)
EXTENDS Naturals, Sequences

CONSTANT Nodes

VARIABLES
    arcs,       \* the graph: a set of pairs of nodes
    order,      \* the nodes in place so far
    verdict     \* "none", "sorted" or "circular"

vars == <<arcs, order, verdict>>

Placed == {order[i] : i \in 1..Len(order)}

Predecessors(n) == {m \in Nodes : <<m, n>> \in arcs}

Ready == {n \in Nodes \ Placed : Predecessors(n) \subseteq Placed}

Init == /\ arcs \in SUBSET (Nodes \X Nodes)
        /\ order = <<>>
        /\ verdict = "none"

Place == /\ verdict = "none"
         /\ \E n \in Ready : order' = Append(order, n)
         /\ UNCHANGED <<arcs, verdict>>

Succeed == /\ verdict = "none"
           /\ Placed = Nodes
           /\ verdict' = "sorted"
           /\ UNCHANGED <<arcs, order>>

Fail == /\ verdict = "none"
        /\ Ready = {} /\ Placed # Nodes
        /\ verdict' = "circular"
        /\ order' = <<>>
        /\ UNCHANGED arcs

Done == verdict # "none" /\ UNCHANGED vars

Next == Place \/ Succeed \/ Fail \/ Done

Spec == Init /\ [][Next]_vars /\ WF_vars(Place \/ Succeed \/ Fail)

-----------------------------------------------------------------------------
(* Nodes that wait for one another: each node of such a set has a          *)
(* predecessor in the set, so none of them can ever be put in place.       *)
Waiting(S) == \A n \in S : \E m \in S : <<m, n>> \in arcs

Cyclic == \E S \in SUBSET Nodes : S # {} /\ Waiting(S)

(* The order delivered holds every node exactly once, and every arc points *)
(* forward in it.                                                          *)
SortedIsOrder ==
    verdict = "sorted" =>
        /\ Placed = Nodes
        /\ \A i, j \in 1..Len(order) :
              /\ order[i] = order[j] => i = j
              /\ <<order[i], order[j]>> \in arcs => i < j

(* Sorting fails exactly when the graph has a circle. *)
VerdictIsRight ==
    /\ verdict = "sorted" => ~Cyclic
    /\ verdict = "circular" => Cyclic

=============================================================================
