------------------------------- MODULE TSort --------------------------------
(***************************************************************************)
(* tsort.c: Kahn's algorithm on a list of nodes and a list of edges, one   *)
(* action per round of its loops.  It implements TopologicalOrder as long  *)
(* as both ends of every edge are in the list of nodes, which get_edges()  *)
(* of plugins.c makes sure of.  Its names differ from those of module      *)
(* Dependencies, so that both can be reasoned about together.              *)
(***************************************************************************)
EXTENDS Naturals, SequencesExt

CONSTANTS
    NodeList,       \* the list of nodes, without repetition
    EdgeLists       \* the lists of edges that are tried

NodeSet == ToSet(NodeList)
Edge(p, s) == [predecessor |-> p, successor |-> s]
EdgesOn(S) == {Edge(p, s) : p \in S, s \in S}

ASSUME TSortAssumption == /\ NodeList \in Seq(NodeSet) /\ IsInjective(NodeList)
                          /\ EdgeLists \subseteq Seq(EdgesOn(NodeSet))

VARIABLES
    phase,          \* find the "zeros", "take" one, look at the "edges", "done"
    all_edges,      \* the list of edges tsort() was given
    edges,          \* what is left of it
    zeros,          \* nodes without incoming edges, not yet sorted
    sorted_nodes,
    zero,           \* the node taken last
    position        \* in edges, of the loop over them

tsort_vars == <<phase, all_edges, edges, zeros, sorted_nodes, zero, position>>

is_zero(node, es) == \A i \in 1..Len(es) : es[i].successor # node

TSortInit ==
    /\ phase = "zeros"
    /\ all_edges \in EdgeLists
    /\ edges = all_edges
    /\ zeros = NodeList
    /\ sorted_nodes = <<>>
    /\ zero = "none" /\ position = 1

(* get_zeros(): no successor of an edge is a zero. *)
DropSuccessor ==
    /\ phase = "zeros" /\ position <= Len(edges)
    /\ zeros' = RemoveFirst(zeros, edges[position].successor)
    /\ position' = position + 1
    /\ UNCHANGED <<phase, all_edges, edges, sorted_nodes, zero>>

ZerosFound ==
    /\ phase = "zeros" /\ position > Len(edges)
    /\ phase' = "take"
    /\ UNCHANGED <<all_edges, edges, zeros, sorted_nodes, zero, position>>

TakeZero ==
    /\ phase = "take" /\ zeros # <<>>
    /\ zero' = Head(zeros)
    /\ zeros' = Tail(zeros)
    /\ sorted_nodes' = Append(sorted_nodes, zero')
    /\ position' = 1
    /\ phase' = "edges"
    /\ UNCHANGED <<all_edges, edges>>

(* Mutant: the successor becomes a zero with its first edge. *)
RemoveEdge_NoTest ==
    /\ phase = "edges" /\ position <= Len(edges)
    /\ edges[position].predecessor = zero
    /\ edges' = RemoveAt(edges, position)
    /\ zeros' = Append(zeros, edges[position].successor)
    /\ UNCHANGED <<phase, all_edges, sorted_nodes, zero, position>>

(* An edge that leaves the zero is deleted; its successor may become one. *)
RemoveEdge ==
    /\ phase = "edges" /\ position <= Len(edges)
    /\ edges[position].predecessor = zero
    /\ edges' = RemoveAt(edges, position)
    /\ zeros' = IF is_zero(edges[position].successor, edges')
                THEN Append(zeros, edges[position].successor) ELSE zeros
    /\ UNCHANGED <<phase, all_edges, sorted_nodes, zero, position>>

(* Mutant: the loop does not go on to the next edge. *)
SkipEdge_Stay ==
    /\ phase = "edges" /\ position <= Len(edges)
    /\ edges[position].predecessor # zero
    /\ UNCHANGED tsort_vars

SkipEdge ==
    /\ phase = "edges" /\ position <= Len(edges)
    /\ edges[position].predecessor # zero
    /\ position' = position + 1
    /\ UNCHANGED <<phase, all_edges, edges, zeros, sorted_nodes, zero>>

EdgesDone ==
    /\ phase = "edges" /\ position > Len(edges)
    /\ phase' = "take"
    /\ UNCHANGED <<all_edges, edges, zeros, sorted_nodes, zero, position>>

(* The order is given up if edges are left. *)
Return ==
    /\ phase = "take" /\ zeros = <<>>
    /\ phase' = "done"
    /\ sorted_nodes' = IF edges = <<>> THEN sorted_nodes ELSE <<>>
    /\ UNCHANGED <<all_edges, edges, zeros, zero, position>>

Returned == phase = "done" /\ UNCHANGED tsort_vars

TSortNext == DropSuccessor \/ ZerosFound \/ TakeZero \/ RemoveEdge \/ SkipEdge \/ EdgesDone \/ Return \/ Returned

TSortSpec == TSortInit /\ [][TSortNext]_tsort_vars /\ WF_tsort_vars(TSortNext)

-----------------------------------------------------------------------------
(* Properties                                                              *)

(* The graph, and what tsort() has told of it so far.                      *)
arcs == {<<all_edges[i].predecessor, all_edges[i].successor>> : i \in 1..Len(all_edges)}
verdict == IF phase # "done" THEN "none" ELSE IF edges = <<>> THEN "sorted" ELSE "circular"

Order == INSTANCE TopologicalOrder
    WITH Nodes <- NodeSet, arcs <- arcs, order <- sorted_nodes, verdict <- verdict

(* tsort() finds a topological order or reports that there is none: every  *)
(* node it puts into the list may be the next one, and it gives up only on *)
(* a circle.                                                               *)
SortFollowsOrder == Order!Init /\ [][Order!Next]_(Order!vars)

(* tsort() returns.                                                        *)
SortReturns == <>(phase = "done")

=============================================================================
