---------------------------- MODULE MCMemoryGraph ----------------------------
(* MemoryGraph on a small instance: a chain of edges over the nodes, and two  *)
(* graphs to import, one of them with an edge whose ends are missing.         *)
EXTENDS MemoryGraph, TLC

CONSTANTS n1, n2, c1

MCEdge == {<<n1, n2>>}

MCImported == {[EmptyGraph EXCEPT ![n1] = c1], [EmptyGraph EXCEPT ![<<n1, n2>>] = Linked]}

Symmetry == Permutations(Session)
=============================================================================
