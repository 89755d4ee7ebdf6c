-------------------------------- MODULE Dpll --------------------------------
(***************************************************************************)
(* The exact 3-SAT search of src/three_sat.py: unit propagation, branching  *)
(* on the variable that occurs most in unsatisfied clauses, chronological   *)
(* backtracking.  The proof is what its mirror, src/tools/sat_proof/        *)
(* drup_dpll.py, writes: a lemma at every conflict.                         *)
(*                                                                          *)
(* Which unit clause propagates next is left open; the code scans them in   *)
(* the order of the formula.                                                *)
(***************************************************************************)
EXTENDS Literals, Sequences

CONSTANT
  Formulas \* sequences of clauses, each a sequence of one to three literals

ASSUME DpllFormulasAssumption ==
  \A f \in Formulas : f \in Seq(Seq(Lit)) /\ \A i \in DOMAIN f : Len(f[i]) \in 1 .. 3

VARIABLES
  formula,
  assigned,  \* the trail: literals in the order they became true
  stack,     \* decisions: lit, flipped, and checkpoint, the length of the trail before
  proof,     \* the lemmas emitted so far, as sets of literals
  decision   \* "SAT", "UNSAT", or "search"

dpllVars == <<formula, assigned, stack, proof, decision>>

LitsOf(seq) == {seq[i] : i \in DOMAIN seq}

\* _lit_value
Holds(lit)   == lit \in LitsOf(assigned)
Refuted(lit) == -lit \in LitsOf(assigned)

SatisfiedBy(lits, clause) == \E lit \in LitsOf(clause) : lit \in lits

\* The positions of unassigned literals: a literal that is repeated counts twice.
Open(clause) == {k \in DOMAIN clause : ~Holds(clause[k]) /\ ~Refuted(clause[k])}

Unit(clause) ==
  ~SatisfiedBy(LitsOf(assigned), clause) /\ Cardinality(Open(clause)) = 1

Falsified(clause) == \A lit \in LitsOf(clause) : Refuted(lit)

Conflict == \E i \in DOMAIN formula : Falsified(formula[i])

Propagated == \A i \in DOMAIN formula : ~Unit(formula[i]) /\ ~Falsified(formula[i])

\* unit_propagate: one clause of its scan
Imply(i) ==
  /\ decision = "search" /\ Unit(formula[i])
  /\ \E k \in Open(formula[i]) : assigned' = Append(assigned, formula[i][k])
  /\ UNCHANGED <<formula, stack, proof, decision>>

\* pick: how often a variable occurs in clauses that are not satisfied
Count(v) ==
  Cardinality({o \in (DOMAIN formula) \X (1 .. 3) :
                 /\ o[2] \in DOMAIN formula[o[1]] /\ formula[o[1]][o[2]] \in {v, -v}
                 /\ ~SatisfiedBy(LitsOf(assigned), formula[o[1]])})

Free == {v \in Var : ~Holds(v) /\ ~Refuted(v)}

\* The most frequent variable, the least of them.
Picked(v) ==
  \A u \in Free : Count(u) < Count(v) \/ (Count(u) = Count(v) /\ v <= u)

Choose(v) ==
  /\ decision = "search" /\ Propagated
  /\ \E i \in DOMAIN formula : ~SatisfiedBy(LitsOf(assigned), formula[i])
  /\ v \in Free /\ Picked(v)
  /\ stack' = Append(stack, [lit |-> v, flipped |-> FALSE, checkpoint |-> Len(assigned)])
  /\ assigned' = Append(assigned, v)
  /\ UNCHANGED <<formula, proof, decision>>

\* solve_3sat: every clause is satisfied, or no variable is left.
FoundModel ==
  /\ decision = "search" /\ Propagated
  /\ Free = {} \/ \A i \in DOMAIN formula : SatisfiedBy(LitsOf(assigned), formula[i])
  /\ decision' = "SAT"
  /\ UNCHANGED <<formula, assigned, stack, proof>>

\* Seeded fault: the lemma negates the flipped decisions as well.
LemmaOfAll == {-stack[d].lit : d \in DOMAIN stack}

\* solve_with_proof: the negation of the decisions that are not flipped
Lemma == {-stack[d].lit : d \in {e \in DOMAIN stack : ~stack[e].flipped}}

\* The deepest decision that is not flipped: those above it are popped.
Flippable ==
  {d \in DOMAIN stack : ~stack[d].flipped /\ \A e \in d + 1 .. Len(stack) : stack[e].flipped}

\* A conflict: its lemma, and back to the last decision that can be flipped.
BackUp ==
  /\ decision = "search" /\ Conflict
  /\ proof' = Append(proof, Lemma)
  /\ \/ \E d \in Flippable :
          /\ stack' = Append(SubSeq(stack, 1, d - 1), [stack[d] EXCEPT !.flipped = TRUE])
          /\ assigned' = Append(SubSeq(assigned, 1, stack[d].checkpoint), -stack[d].lit)
          /\ UNCHANGED decision
     \/ /\ Flippable = {}
        /\ decision' = "UNSAT" /\ stack' = <<>>
        /\ UNCHANGED assigned
  /\ UNCHANGED formula

DpllInit ==
  /\ formula \in Formulas
  /\ assigned = <<>> /\ stack = <<>> /\ proof = <<>> /\ decision = "search"

DpllNext ==
  \/ \E i \in DOMAIN formula : Imply(i)
  \/ \E v \in Var : Choose(v)
  \/ FoundModel
  \/ BackUp

=============================================================================
