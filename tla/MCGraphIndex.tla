---------------------------- MODULE MCGraphIndex ----------------------------
(* GraphIndex on a small instance; the graph to import has two nodes and two *)
(* edges of the same key, as import_graph accepts them.                      *)
EXTENDS GraphIndex, TLC

CONSTANTS n1, n2, n3, e1, e2, concept, a, b, similar

MCNodes == [id \in NodeId |-> IF id = n3 THEN <<concept, b>> ELSE <<concept, a>>]
MCEdges == [id \in EdgeId |-> <<n1, n3, similar>>]

MCImported == {[nodes |-> MCNodes, edges |-> MCEdges]}
=============================================================================
