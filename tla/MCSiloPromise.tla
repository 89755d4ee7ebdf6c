--------------------------- MODULE MCSiloPromise ----------------------------
(* SiloPromise on a small instance: a query is a content, and resembles       *)
(* itself and the content before it.                                          *)
EXTENDS SiloPromise, TLC

CONSTANTS c1, c2

MCSimilarity(query, content) == IF query = content THEN 2
                                ELSE IF query = c2 THEN 1 ELSE 0

Symmetry == Permutations(Promise) \union Permutations(Key)
=============================================================================
