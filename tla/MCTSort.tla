------------------------------ MODULE MCTSort -------------------------------
(* All graphs of four nodes with up to three edges, with repeated edges    *)
(* and loops, every order of the edges.                                    *)
EXTENDS TSort

FourNodes == <<"a", "b", "c", "d">>

FewEdges == BoundedSeq(EdgesOn({"a", "b", "c", "d"}), 3)

=============================================================================
