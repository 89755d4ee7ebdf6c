------------------------------- MODULE PmlDpll -------------------------------
(***************************************************************************)
(* The search of src/PMLL.c: pml_refine runs unit propagation and branches  *)
(* on the lowest unassigned variable, false first, under a budget of        *)
(* branches.  It works in place on the assignment its caller left, which is  *)
(* public, and has to put it back on every way out but a model.              *)
(*                                                                          *)
(* The calls of pml_dpll that are open are a stack of frames.  The tree and  *)
(* the meanings written to the silo after a model are those of module Silo. *)
(***************************************************************************)
EXTENDS Literals, Sequences

CONSTANTS
  PmlProblems, \* num_vars, clauses (sequences of integers, not all of them literals), and
               \* complete: up to this many variables, 21 in the code, the budget covers the
               \* whole search
  MaxRefines   \* bound on the calls of pml_refine

ASSUME PmlAssumption ==
  /\ \A pb \in PmlProblems :
       /\ pb.num_vars \in Nat /\ 1 .. pb.num_vars \subseteq Var
       /\ pb.clauses \in Seq(Seq(Int)) /\ pb.complete \in Nat
  /\ MaxRefines \in Nat

VARIABLES
  pml,        \* the problem
  assignment, \* of every variable: -1 unassigned, 0 false, 1 true
  flag,       \* PML_UNRESOLVED, PML_SAT or PML_UNSAT
  frames,     \* of every open pml_dpll: base of the trail, branch variable, next value
  undo,       \* the variables assigned since the call began: trail[0 .. top - 1]
  sweep,      \* of pml_propagate: the clause to look at, and whether the sweep assigned one
  budget, at, outcome,
  entry,      \* history: the assignment when pml_refine was called
  refines     \* how often it was called

pmlVars ==
  <<pml, assignment, flag, frames, undo, sweep, budget, at, outcome, entry, refines>>

Vars == 1 .. pml.num_vars

\* lit_var: integers that name no variable are skipped everywhere.
Named(i) ==
  {k \in DOMAIN pml.clauses[i] :
     pml.clauses[i][k] # 0 /\ (pml.clauses[i][k] \in Vars \/ -pml.clauses[i][k] \in Vars)}

LitsIn(i) == {pml.clauses[i][k] : k \in Named(i)}

ValueOf(lit) == IF lit > 0 THEN assignment[lit] ELSE assignment[-lit]

MadeTrue(lit) == ValueOf(lit) = (IF lit > 0 THEN 1 ELSE 0)

Satisfied(i) == \E lit \in LitsIn(i) : MadeTrue(lit)

\* A literal that is repeated counts once.
Undecided(i) == {lit \in LitsIn(i) : ValueOf(lit) = -1}

VarOf(lit) == IF lit > 0 THEN lit ELSE -lit

-----------------------------------------------------------------------------
(* The caller *)

\* init_pml
InitPml(problems) ==
  /\ pml \in problems
  /\ assignment = [v \in Vars |-> -1]
  /\ flag = "UNRESOLVED"
  /\ frames = <<>> /\ undo = <<>> /\ sweep = [clause |-> 1, changed |-> FALSE]
  /\ budget = 0 /\ at = "idle" /\ outcome = "UNRESOLVED"
  /\ entry = assignment /\ refines = 0

\* The assignment of pml_t is public: a partial one may be set between calls.
Preset(v, value) ==
  /\ at = "idle" /\ refines < MaxRefines
  /\ assignment' = [assignment EXCEPT ![v] = value]
  /\ UNCHANGED <<pml, flag, frames, undo, sweep, budget, at, outcome, entry, refines>>

Frame(base) == [base |-> base, var |-> 0, value |-> 0]

Propagating == sweep' = [clause |-> 1, changed |-> FALSE] /\ at' = "propagate"

\* The branches a call may take: all of them, unless there are too many variables.
Budget == 2 ^ ((IF pml.num_vars <= pml.complete THEN pml.num_vars ELSE pml.complete) + 1)

\* pml_refine; pml_logic_loop calls it if the flag is still unresolved.  If the
\* trail cannot be allocated, nothing is searched.
Refine ==
  /\ at = "idle" /\ refines < MaxRefines
  /\ refines' = refines + 1
  /\ entry' = assignment
  /\ \/ /\ frames' = <<Frame(0)>> /\ undo' = <<>> /\ budget' = Budget /\ Propagating
        /\ UNCHANGED flag
     \/ /\ flag' = "UNRESOLVED"
        /\ UNCHANGED <<frames, undo, budget, sweep, at>>
  /\ UNCHANGED <<pml, assignment, outcome>>

-----------------------------------------------------------------------------
(* pml_propagate *)

Innermost == frames[Len(frames)]

Leaving(r) == at' = "undo" /\ outcome' = r

NextClause(changed) == sweep' = [clause |-> sweep.clause + 1, changed |-> changed]

Scan ==
  LET i == sweep.clause
  IN  /\ at = "propagate" /\ i \in DOMAIN pml.clauses
      /\ \/ /\ Satisfied(i) \/ Cardinality(Undecided(i)) > 1
            /\ NextClause(sweep.changed)
            /\ UNCHANGED <<assignment, undo, at, outcome>>
         \/ /\ ~Satisfied(i) /\ Undecided(i) = {}
            /\ Leaving("UNSAT")
            /\ UNCHANGED <<assignment, undo, sweep>>
         \/ /\ ~Satisfied(i)
            /\ \E lit \in Undecided(i) :
                 /\ Undecided(i) = {lit}
                 /\ assignment' = [assignment EXCEPT ![VarOf(lit)] = IF lit > 0 THEN 1 ELSE 0]
                 /\ undo' = Append(undo, VarOf(lit))
            /\ NextClause(TRUE)
            /\ UNCHANGED <<at, outcome>>
      /\ UNCHANGED <<pml, flag, frames, budget, entry, refines>>

\* The end of a sweep: another one, unless this one assigned nothing.
SweepEnds ==
  /\ at = "propagate" /\ sweep.clause \notin DOMAIN pml.clauses
  /\ IF sweep.changed THEN Propagating ELSE at' = "branch" /\ UNCHANGED sweep
  /\ UNCHANGED <<pml, assignment, flag, frames, undo, budget, outcome, entry, refines>>

-----------------------------------------------------------------------------
(* pml_dpll *)

Unset == {v \in Vars : assignment[v] = -1}

\* check_conflict: some clause has every literal assigned and false.
CheckConflict == \E i \in DOMAIN pml.clauses : ~Satisfied(i) /\ Undecided(i) = {}

\* The lowest unassigned variable is branched on; without one this is a model.
PickVariable ==
  /\ at = "branch" /\ Innermost.var = 0
  /\ \/ /\ Unset # {}
        /\ \E v \in Unset :
             /\ \A u \in Unset : v <= u
             /\ frames' = [frames EXCEPT ![Len(frames)].var = v]
        /\ UNCHANGED <<flag, undo, at, outcome>>
     \/ /\ Unset = {}
        /\ IF CheckConflict THEN Leaving("UNSAT") /\ UNCHANGED <<flag, undo, frames>>
           ELSE /\ flag' = "SAT" /\ at' = "idle" /\ frames' = <<>> /\ undo' = <<>>
                /\ UNCHANGED outcome
  /\ UNCHANGED <<pml, assignment, sweep, budget, entry, refines>>

\* A value for the branch variable; the call below has a trail of its own above it.
TryValue ==
  LET v == Innermost.var
  IN  /\ at = "branch" /\ v # 0 /\ Innermost.value <= 1 /\ budget > 0
      /\ budget' = budget - 1
      /\ assignment' = [assignment EXCEPT ![v] = Innermost.value]
      /\ frames' = Append([frames EXCEPT ![Len(frames)].value = @ + 1], Frame(Len(undo) + 1))
      /\ undo' = Append(undo, v)
      /\ Propagating
      /\ UNCHANGED <<pml, flag, outcome, entry, refines>>

\* Both values failed, or no branch is left in the budget.
GiveUp ==
  /\ at = "branch" /\ Innermost.var # 0
  /\ \/ Innermost.value > 1 /\ Leaving("UNSAT")
     \/ Innermost.value <= 1 /\ budget = 0 /\ Leaving("UNRESOLVED")
  /\ UNCHANGED <<pml, assignment, flag, frames, undo, sweep, budget, entry, refines>>

\* The variables above a base are unassigned again.
Undone(base) ==
  [v \in Vars |-> IF \E k \in base + 1 .. Len(undo) : undo[k] = v THEN -1 ELSE assignment[v]]

\* Seeded fault: a search whose budget ends leaves the branch variables assigned.
ReturnAssigned ==
  LET above == frames[Len(frames) - 1]
  IN  /\ at = "undo"
      /\ frames' = SubSeq(frames, 1, Len(frames) - 1)
      /\ IF Len(frames) = 1
         THEN /\ flag' = outcome /\ at' = "idle" /\ undo' = <<>>
              /\ assignment' = Undone(Innermost.base)
         ELSE /\ assignment' = IF outcome = "UNRESOLVED" THEN Undone(Innermost.base)
                               ELSE [Undone(Innermost.base) EXCEPT ![above.var] = -1]
              /\ undo' = SubSeq(undo, 1, Innermost.base - 1)
              /\ at' = IF outcome = "UNRESOLVED" THEN "undo" ELSE "branch"
              /\ UNCHANGED flag
      /\ UNCHANGED <<pml, sweep, budget, outcome, entry, refines>>

\* undo: and the return to the caller, which frees its branch variable and goes
\* on with the next value, unless the budget is spent.
Return ==
  LET above == frames[Len(frames) - 1]
  IN  /\ at = "undo"
      /\ frames' = SubSeq(frames, 1, Len(frames) - 1)
      /\ IF Len(frames) = 1
         THEN /\ flag' = outcome /\ at' = "idle" /\ undo' = <<>>
              /\ assignment' = Undone(Innermost.base)
         ELSE /\ assignment' = [Undone(Innermost.base) EXCEPT ![above.var] = -1]
              /\ undo' = SubSeq(undo, 1, Innermost.base - 1)
              /\ at' = IF outcome = "UNRESOLVED" THEN "undo" ELSE "branch"
              /\ UNCHANGED flag
      /\ UNCHANGED <<pml, sweep, budget, outcome, entry, refines>>

PmlSearch == Scan \/ SweepEnds \/ PickVariable \/ TryValue \/ GiveUp \/ Return

PmlNext ==
  \/ \E v \in Vars, value \in {-1, 0, 1} : Preset(v, value)
  \/ Refine
  \/ PmlSearch

PmlSpec == InitPml(PmlProblems) /\ [][PmlNext]_pmlVars

-----------------------------------------------------------------------------
(* Properties *)

\* The assignments without a gap that agree with a partial one.
Extensions(partial) ==
  {full \in [Vars -> {0, 1}] : \A v \in Vars : partial[v] # -1 => full[v] = partial[v]}

IsModel(full) ==
  \A i \in DOMAIN pml.clauses :
    \E lit \in LitsIn(i) : full[VarOf(lit)] = (IF lit > 0 THEN 1 ELSE 0)

\* When pml_refine returns, flag answers for the assignment it was called with: a
\* model that extends it, or none is left, and then (as when the search ends in
\* the middle) the assignment is as it was.  The search stays open only if
\* there are too many variables or no memory for the trail.
RefineAnswers ==
  [][at # "idle" /\ at' = "idle" =>
       /\ flag' = "SAT" => assignment' \in Extensions(entry) /\ IsModel(assignment')
       /\ flag' = "UNSAT" => \A full \in Extensions(entry) : ~IsModel(full)
       /\ flag' # "SAT" => assignment' = entry
       /\ pml.num_vars <= pml.complete => flag' # "UNRESOLVED"]_pmlVars
=============================================================================
