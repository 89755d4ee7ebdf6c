------------------------------ MODULE Literals ------------------------------
(* The literals of the SAT solvers: a variable or its negation.             *)
EXTENDS Integers, FiniteSets

CONSTANT Var \* the variables of the largest formula, 1 .. n

ASSUME VarAssumption == Var \subseteq Nat \ {0} /\ IsFiniteSet(Var)

Lit == Var \union {-v : v \in Var}
=============================================================================
