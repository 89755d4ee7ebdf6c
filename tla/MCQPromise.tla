----------------------------- MODULE MCQPromise -----------------------------
(* QPromise on a small instance: the promises are interchangeable. *)
EXTENDS QPromise, TLC

Symmetry == Permutations(Promise)
=============================================================================
