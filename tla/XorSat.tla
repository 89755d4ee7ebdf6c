------------------------------- MODULE XorSat -------------------------------
(***************************************************************************)
(* Gaussian elimination over GF(2), src/xor_sat.py: every row is an         *)
(* equation, with the history of the original equations summed into it, so  *)
(* that a row 0 = 1 is a certificate.  One step is one column.              *)
(***************************************************************************)
EXTENDS Integers, FiniteSets, FiniteSetsExt, Sequences

CONSTANTS
  XorVar,   \* 1 .. n
  Systems   \* sequences of equations [variables (a sequence), rhs]

ASSUME XorVarAssumption == IsFiniteSet(XorVar) /\ XorVar = 1 .. Cardinality(XorVar)

Equation == [variables : Seq(XorVar), rhs : {0, 1}]

ASSUME SystemsAssumption == Systems \subseteq Seq(Equation)

VARIABLES
  system,
  rows,     \* [coeff, rhs]: coefficients as the set of their variables
  history,  \* of every row, the equations summed into it
  pivots,   \* pivot variables of the first rows
  col,      \* next column
  result    \* [sat, assignment, certificate]

xorVars == <<system, rows, history, pivots, col, result>>

NoResult == [sat |-> "none", assignment |-> {}, certificate |-> {}]

Plus(row, other) ==
  [coeff |-> SymDiff(row.coeff, other.coeff), rhs |-> (row.rhs + other.rhs) % 2]

\* pack: a variable that is repeated cancels out.
Pack(e) ==
  [coeff |-> {v \in XorVar : Cardinality({k \in DOMAIN e.variables : e.variables[k] = v}) % 2 = 1},
   rhs |-> e.rhs]

\* verify_certificate: the sum of some of the equations, where what occurs an
\* even number of times cancels out
Total(indices) ==
  [coeff |-> {v \in XorVar : Cardinality({j \in indices : v \in Pack(system[j]).coeff}) % 2 = 1},
   rhs |-> Cardinality({j \in indices : system[j].rhs = 1}) % 2]

XorInit ==
  /\ system \in Systems
  /\ rows = [j \in DOMAIN system |-> Pack(system[j])]
  /\ history = [j \in DOMAIN system |-> {j}]
  /\ pivots = <<>> /\ col = 1 /\ result = NoResult

Swap(f, i, j) == [f EXCEPT ![i] = f[j], ![j] = f[i]]

\* The elimination stops after the last column, or when every row is a pivot's.
Eliminating == result = NoResult /\ col <= Cardinality(XorVar) /\ Len(pivots) < Len(rows)

\* The row of the next pivot: the first one left that has the variable.
Eligible == {i \in DOMAIN rows : i > Len(pivots) /\ col \in rows[i].coeff}

PivotRow == CHOOSE i \in Eligible : \A j \in Eligible : i <= j

\* Seeded fault: the row that made way for the pivot keeps the pivot's history.
HistoryKept == [history EXCEPT ![Len(pivots) + 1] = history[PivotRow]]

HistorySwapped == Swap(history, Len(pivots) + 1, PivotRow)

\* A column without a pivot is passed over; one with a pivot is cleared in all
\* other rows, above and below.
Column ==
  LET r       == Len(pivots) + 1
      swapped == Swap(rows, r, PivotRow)
      moved   == HistorySwapped
      cleared == {i \in DOMAIN rows : i # r /\ col \in swapped[i].coeff}
  IN  /\ Eliminating
      /\ col' = col + 1
      /\ \/ Eligible = {} /\ UNCHANGED <<rows, history, pivots>>
         \/ /\ Eligible # {}
            /\ rows' = [i \in DOMAIN rows |-> IF i \in cleared THEN Plus(swapped[i], swapped[r])
                                              ELSE swapped[i]]
            /\ history' = [i \in DOMAIN rows |-> IF i \in cleared THEN SymDiff(moved[i], moved[r])
                                                 ELSE moved[i]]
            /\ pivots' = Append(pivots, col)
      /\ UNCHANGED <<system, result>>

\* A row 0 = 1 refutes the system; otherwise free variables are false and each
\* pivot variable is the right-hand side of its row.
Answers ==
  LET absurd == {i \in DOMAIN rows : i > Len(pivots) /\ rows[i].coeff = {} /\ rows[i].rhs = 1}
      first  == CHOOSE i \in absurd : \A j \in absurd : i <= j
  IN  /\ result = NoResult /\ ~Eliminating
      /\ result' =
           IF absurd # {} THEN [sat |-> "UNSAT", assignment |-> {}, certificate |-> history[first]]
           ELSE [sat |-> "SAT", certificate |-> {},
                 assignment |-> {pivots[k] : k \in {j \in DOMAIN pivots : rows[j].rhs = 1}}]
      /\ UNCHANGED <<system, rows, history, pivots, col>>

XorNext == Column \/ Answers

XorSpec == XorInit /\ [][XorNext]_xorVars

-----------------------------------------------------------------------------
(* Properties *)

\* verifies
Solves(true) ==
  \A j \in DOMAIN system : Cardinality(Pack(system[j]).coeff \intersect true) % 2 = system[j].rhs

\* verify_certificate
Certifies(indices) == indices # {} /\ Total(indices) = [coeff |-> {}, rhs |-> 1]

\* While rows are swapped and summed, each one is the sum of the original
\* equations that its history names, and a pivot variable is left in its own row
\* only: hence an answer is right, the assignment a solution, and the
\* certificate of an unsatisfiable system one that verify_certificate accepts.
EliminationSound ==
  /\ \A i \in DOMAIN rows : rows[i] = Total(history[i])
  /\ \A k \in DOMAIN pivots : {i \in DOMAIN rows : pivots[k] \in rows[i].coeff} = {k}
  /\ result.sat = "SAT" => Solves(result.assignment)
  /\ result.sat = "UNSAT" => Certifies(result.certificate) /\ ~\E true \in SUBSET XorVar : Solves(true)

=============================================================================
