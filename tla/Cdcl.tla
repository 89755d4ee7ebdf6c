-------------------------------- MODULE Cdcl --------------------------------
(***************************************************************************)
(* The clause-learning solver of src/SAT.py and its Cython twin src/SAT.pyx: *)
(* two watched literals, first-UIP analysis, backjumps, restarts, a budget   *)
(* of conflicts, and chronological backtracking when learning is off.       *)
(*                                                                          *)
(* Activities, saved phases and the random seed are left out: where the      *)
(* branching variable or its phase depends on them, any choice may be made. *)
(* The clauses that watch a literal are visited in any order.  The           *)
(* assignment, the levels and the reasons are on the trail.                  *)
(***************************************************************************)
EXTENDS Literals, SequencesExt

CONSTANTS
  Problems,  \* of every problem: num_vars, clauses (sequences of literals), and the
             \* solver to use, with its build and options
  Interval,  \* restart_interval
  MaxCalls   \* bound on the calls of solve

LitsUpTo(n) == 1 .. n \union {-v : v \in 1 .. n}

ASSUME ProblemsAssumption ==
  \A pb \in Problems :
    /\ pb.num_vars \in Nat /\ 1 .. pb.num_vars \subseteq Var
    /\ pb.clauses \in Seq(Seq(LitsUpTo(pb.num_vars)))
    /\ pb.build \in {"python", "cython"} /\ pb.budget \in Nat
    /\ {pb.learning, pb.vsids, pb.saving} \subseteq BOOLEAN
ASSUME BoundsAssumption == Interval \in Nat /\ MaxCalls \in Nat

VARIABLES
  config,    \* the problem: num_vars, build, learning (use_clause_learning), vsids,
             \* saving (use_phase_saving), budget (max_conflicts)
  todo,      \* the clauses of the formula that the caller has yet to add
  clauses,   \* literals of each clause; the first two are watched
  original,  \* indices of the clauses given by the caller
  watches,   \* of every literal, the clauses that watch it
  trail,     \* assigned literals with their levels and reasons, 0 for a decision
  trail_lim, \* length of the trail at the start of each decision level
  flipped,   \* of every level, whether its decision was already flipped
  head,      \* how many literals of the trail have been taken for propagation
  visiting,  \* [lit, left]: the false literal and its clauses yet to visit
  falsified, \* the clause in conflict, or 0
  resolvent, \* the literals of the clause being learned from it, {} before
  unsat_at_root,
  conflicts, since_restart, restart_limit,
  status,    \* the answer of the last call, or "search"
  calls      \* number of calls of solve

db       == <<clauses, original, watches>>
search   == <<trail, trail_lim, flipped, head, visiting, falsified, resolvent>>
counters == <<conflicts, since_restart, restart_limit>>
cdclVars == <<config, todo, db, search, unsat_at_root, counters, status, calls>>

NoVisit == [lit |-> 0, left |-> {}]

-----------------------------------------------------------------------------
(* The trail *)

Lits(t) == {t[i].lit : i \in DOMAIN t}

\* _value
IsTrue(t, lit)  == lit \in Lits(t)
IsFalse(t, lit) == -lit \in Lits(t)

\* The decision level of the variable of an assigned literal.
LevelOf(lit) == (CHOOSE e \in ToSet(trail) : e.lit \in {lit, -lit}).level

\* _assign
Assigned(t, lit, why, level) == Append(t, [lit |-> lit, reason |-> why, level |-> level])

\* _backtrack: the assignments above a level are undone, the queue is emptied.
Backtrack(level) ==
  LET kept == IF level < Len(trail_lim) THEN trail_lim[level + 1] ELSE Len(trail)
  IN  [trail   |-> SubSeq(trail, 1, kept),
       lim     |-> SubSeq(trail_lim, 1, level),
       flipped |-> SubSeq(flipped, 1, level)]

-----------------------------------------------------------------------------
(* Clauses *)

Tautology(c) == \E lit \in ToSet(c) : -lit \in ToSet(c)

\* The members of a set of numbers in increasing order: a set of one sequence.
InOrder(S) ==
  {f \in [1 .. Cardinality(S) -> S] :
     Range(f) = S /\ \A i, j \in 1 .. Cardinality(S) : i < j => f[i] < f[j]}

\* Duplicates are merged, the first of equal literals stays.
Merged(c) ==
  LET firsts == {k \in DOMAIN c : \A j \in DOMAIN c : j < k => c[j] # c[k]}
  IN  {[i \in DOMAIN at |-> c[at[i]]] : at \in InOrder(firsts)}

\* _initialize_watches: the first two literals of a clause watch it.
Watched(w, i, c) ==
  [lit \in Lit |-> IF Len(c) >= 2 /\ lit \in {c[1], c[2]} THEN w[lit] \union {i} ELSE w[lit]]

\* The next clause is added; unless it is a tautology, which is dropped, every
\* assignment is reset.
Add ==
  /\ status # "search" /\ todo # <<>>
  /\ todo' = Tail(todo)
  /\ \/ Tautology(Head(todo)) /\ UNCHANGED <<db, search, unsat_at_root, status>>
     \/ /\ ~Tautology(Head(todo))
        /\ \E c \in Merged(Head(todo)) :
             /\ clauses' = Append(clauses, c)
             /\ watches' = Watched(watches, Len(clauses) + 1, c)
             /\ unsat_at_root' = (unsat_at_root \/ c = <<>>)
        /\ original' = original \union {Len(clauses) + 1}
        /\ trail' = <<>> /\ trail_lim' = <<>> /\ flipped' = <<>> /\ head' = 0
        /\ visiting' = NoVisit /\ falsified' = 0 /\ resolvent' = {} /\ status' = "new"
  /\ UNCHANGED <<config, counters, calls>>

\* SATSolver.__init__, _load_clauses: all clauses, before the first call of solve.
Load == config.build = "python" /\ Add

\* add_clause of the Cython solver, also between two calls of solve.
AddClause == config.build = "cython" /\ Add

-----------------------------------------------------------------------------
(* solve *)

Answer(result) == status' = result /\ visiting' = NoVisit /\ falsified' = 0 /\ resolvent' = {}

\* The unit clauses, which nothing watches, are assigned in order, up to the
\* first whose literal is false by then.
UnitClauses == {i \in DOMAIN clauses : Len(clauses[i]) = 1}
Clash(t, i) == IsFalse(t, clauses[i][1]) \/ \E j \in UnitClauses : j < i /\ clauses[j][1] = -clauses[i][1]
Assignable(t) ==
  {i \in UnitClauses : /\ ~IsTrue(t, clauses[i][1])
                       /\ \A j \in UnitClauses : j < i => clauses[j] # clauses[i]
                       /\ \A j \in UnitClauses : j <= i => ~Clash(t, j)}
WithUnits(t) ==
  {t \o [k \in DOMAIN at |-> [lit |-> clauses[at[k]][1], reason |-> at[k], level |-> 0]] :
     at \in InOrder(Assignable(t))}

Begin(t) ==
  /\ trail_lim' = <<>> /\ flipped' = <<>> /\ head' = Len(t)
  /\ \/ unsat_at_root /\ trail' = t /\ Answer("UNSAT")
     \/ /\ ~unsat_at_root /\ trail' \in WithUnits(t)
        /\ Answer(IF \E i \in UnitClauses : Clash(t, i) THEN "UNSAT" ELSE "search")

\* Called on a new solver, or again on one that has answered: what was assigned
\* at the root is kept, and so are the counters.
StartPython ==
  /\ config.build = "python" /\ status # "search" /\ todo = <<>> /\ calls < MaxCalls
  /\ calls' = calls + 1
  /\ Begin(Backtrack(0).trail)
  /\ unsat_at_root' = (unsat_at_root \/ status' = "UNSAT")
  /\ UNCHANGED <<config, todo, db, counters>>

\* The Cython solver begins every call without assignments, and counts anew.
StartCython ==
  /\ config.build = "cython" /\ status # "search" /\ calls < MaxCalls
  /\ calls' = calls + 1
  /\ Begin(<<>>)
  /\ conflicts' = 0 /\ since_restart' = 0
  /\ restart_limit' = IF Interval > 0 THEN Interval ELSE 1
  /\ UNCHANGED <<config, todo, db, unsat_at_root>>

Searching == status = "search" /\ falsified = 0

Quiet == visiting.left = {} /\ head = Len(trail)

\* _propagate, the outer loop: the next literal that became true.
TakeLiteral ==
  /\ Searching /\ visiting.left = {} /\ head < Len(trail)
  /\ LET false_lit == -trail[head + 1].lit
     IN  visiting' = [lit |-> false_lit, left |-> watches[false_lit]]
  /\ head' = head + 1
  /\ UNCHANGED <<config, todo, db, trail, trail_lim, flipped, falsified, resolvent, unsat_at_root,
                 counters, status, calls>>

Swapped(c, i, j) == [c EXCEPT ![i] = c[j], ![j] = c[i]]

\* _find_new_watch: the first other literal that is not false
NewWatch(c) ==
  {k \in 3 .. Len(c) : ~IsFalse(trail, c[k]) /\ \A j \in 3 .. k - 1 : IsFalse(trail, c[j])}

\* _propagate, the inner loop
Visit(i) ==
  LET c == IF clauses[i][1] = visiting.lit THEN Swapped(clauses[i], 1, 2) ELSE clauses[i]
      k == CHOOSE j \in NewWatch(c) : TRUE
  IN  /\ Searching /\ i \in visiting.left
      /\ \/ /\ IsTrue(trail, c[1])
            /\ clauses' = [clauses EXCEPT ![i] = c]
            /\ visiting' = [visiting EXCEPT !.left = @ \ {i}]
            /\ UNCHANGED <<watches, trail, head, falsified>>
         \/ /\ ~IsTrue(trail, c[1]) /\ NewWatch(c) # {}
            /\ clauses' = [clauses EXCEPT ![i] = Swapped(c, 2, k)]
            /\ watches' = [watches EXCEPT ![visiting.lit] = @ \ {i}, ![c[k]] = @ \union {i}]
            /\ visiting' = [visiting EXCEPT !.left = @ \ {i}]
            /\ UNCHANGED <<trail, head, falsified>>
         \/ /\ ~IsTrue(trail, c[1]) /\ ~IsFalse(trail, c[1]) /\ NewWatch(c) = {}
            /\ clauses' = [clauses EXCEPT ![i] = c]
            /\ trail' = Assigned(trail, c[1], i, Len(trail_lim))
            /\ visiting' = [visiting EXCEPT !.left = @ \ {i}]
            /\ UNCHANGED <<watches, head, falsified>>
         \/ /\ IsFalse(trail, c[1]) /\ NewWatch(c) = {}
            /\ clauses' = [clauses EXCEPT ![i] = c]
            /\ falsified' = i
            /\ visiting' = NoVisit
            /\ head' = Len(trail)
            /\ UNCHANGED <<watches, trail>>
      /\ UNCHANGED <<config, todo, original, trail_lim, flipped, resolvent, unsat_at_root, counters,
                     status, calls>>

-----------------------------------------------------------------------------
(* A conflict *)

Here(lits) == {lit \in lits : LevelOf(lit) = Len(trail_lim)}

\* The literals of a clause that the root does not already make false.
AboveRoot(i) == {lit \in ToSet(clauses[i]) : LevelOf(lit) > 0}

\* Seeded fault: the literals a reason brings in from below are dropped.
ResolvedHere(lits, entry) ==
  (lits \ {-entry.lit}) \union (Here(AboveRoot(entry.reason)) \ {entry.lit})

\* Resolution with the reason of an entry of the trail
Resolved(lits, entry) == (lits \ {-entry.lit}) \union (AboveRoot(entry.reason) \ {entry.lit})

InConflict == status = "search" /\ falsified # 0 /\ resolvent = {}

OverBudget == conflicts + 1 > config.budget

\* _analyze: the literals of the clause in conflict
Analyze ==
  /\ InConflict /\ trail_lim # <<>> /\ ~OverBudget /\ config.learning
  /\ resolvent' = AboveRoot(falsified)
  /\ UNCHANGED <<config, todo, db, trail, trail_lim, flipped, head, visiting, falsified, unsat_at_root,
                 counters, status, calls>>

\* One literal of the current level is left, the first unique implication point.
OneHere == \A lit, other \in Here(resolvent) : lit = other

\* The loop of _analyze, back along the trail: resolve with the reason of the
\* last entry whose literal is in the way.
Resolve ==
  /\ resolvent # {} /\ ~OneHere
  /\ \E i \in DOMAIN trail :
       /\ -trail[i].lit \in resolvent
       /\ \A j \in DOMAIN trail : j > i => -trail[j].lit \notin resolvent
       /\ resolvent' = Resolved(resolvent, trail[i])
  /\ UNCHANGED <<config, todo, db, trail, trail_lim, flipped, head, visiting, falsified, unsat_at_root,
                 counters, status, calls>>

Counted == /\ conflicts' = conflicts + 1 /\ since_restart' = since_restart + 1
           /\ UNCHANGED restart_limit

\* A conflict at the root; only the Python solver remembers it.
Refute ==
  /\ InConflict /\ trail_lim = <<>>
  /\ Answer("UNSAT")
  /\ unsat_at_root' = (unsat_at_root \/ config.build = "python")
  /\ Counted
  /\ UNCHANGED <<config, todo, db, trail, trail_lim, flipped, head, calls>>

\* The Python solver returns to the root, the Cython one resets everything.
TimeOut ==
  /\ InConflict /\ trail_lim # <<>> /\ OverBudget
  /\ Answer("TIMEOUT")
  /\ trail' = IF config.build = "python" THEN Backtrack(0).trail ELSE <<>>
  /\ trail_lim' = <<>> /\ flipped' = <<>>
  /\ head' = Len(trail')
  /\ Counted
  /\ UNCHANGED <<config, todo, db, unsat_at_root, calls>>

\* The learned clause is stored and watched, after going back a level, and its
\* first literal is asserted.
Store(clause, level) ==
  LET back == Backtrack(level)
      i    == Len(clauses) + 1
  IN  /\ clauses' = Append(clauses, clause)
      /\ watches' = Watched(watches, i, clause)
      /\ trail' = Assigned(back.trail, clause[1], i, level)
      /\ trail_lim' = back.lim /\ flipped' = back.flipped
      /\ head' = Len(back.trail)

\* The asserting literal comes first, then one of the highest level among the
\* others, which is the level to go back to.
Learn ==
  /\ resolvent # {} /\ OneHere
  /\ \E uip \in Here(resolvent) :
       LET rest == resolvent \ {uip}
       IN  \/ rest = {} /\ Store(<<uip>>, 0)
           \/ \E high \in rest :
                /\ \A other \in rest : LevelOf(other) <= LevelOf(high)
                /\ Store(<<uip, high>> \o SetToSeq(rest \ {high}), LevelOf(high))
  /\ visiting' = NoVisit /\ falsified' = 0 /\ resolvent' = {}
  /\ Counted
  /\ UNCHANGED <<config, todo, original, unsat_at_root, status, calls>>

\* Seeded fault: only the deepest decision is looked at.
UnflippedDeepest == {l \in {Len(flipped)} : ~flipped[l]}

Unflipped == {l \in DOMAIN flipped : ~flipped[l]}

\* _flip_last_decision: the deepest decision that was not flipped yet
Flip ==
  /\ InConflict /\ trail_lim # <<>> /\ ~OverBudget /\ ~config.learning
  /\ \E level \in Unflipped :
       /\ \A l \in Unflipped : l <= level
       /\ LET back == Backtrack(level - 1)
          IN  /\ trail' = Assigned(back.trail, -trail[trail_lim[level] + 1].lit, 0, level)
              /\ trail_lim' = Append(back.lim, Len(back.trail))
              /\ flipped' = Append(back.flipped, TRUE)
              /\ head' = Len(back.trail)
  /\ visiting' = NoVisit /\ falsified' = 0
  /\ Counted
  /\ UNCHANGED <<config, todo, db, resolvent, unsat_at_root, status, calls>>

\* Every decision was tried both ways.
Exhausted ==
  /\ InConflict /\ trail_lim # <<>> /\ ~OverBudget /\ ~config.learning /\ Unflipped = {}
  /\ Answer("UNSAT")
  /\ unsat_at_root' = (unsat_at_root \/ config.build = "python")
  /\ Counted
  /\ UNCHANGED <<config, todo, db, trail, trail_lim, flipped, head, calls>>

-----------------------------------------------------------------------------
(* No conflict *)

RestartDue == config.learning /\ since_restart >= restart_limit

\* Seeded fault: the conflicts since the last restart are not reset.
RestartAgain ==
  /\ Searching /\ Quiet /\ RestartDue
  /\ trail' = Backtrack(0).trail /\ trail_lim' = <<>> /\ flipped' = <<>>
  /\ head' = Len(trail')
  /\ UNCHANGED <<config, todo, db, visiting, falsified, resolvent, unsat_at_root, counters,
                 status, calls>>

\* _restart: the interval grows by half.
Restart ==
  /\ Searching /\ Quiet /\ RestartDue
  /\ trail' = Backtrack(0).trail /\ trail_lim' = <<>> /\ flipped' = <<>>
  /\ head' = Len(trail')
  /\ since_restart' = 0
  /\ restart_limit' = (restart_limit * 3) \div 2 + 1
  /\ UNCHANGED <<config, todo, db, visiting, falsified, resolvent, unsat_at_root, conflicts,
                 status, calls>>

Unassigned == {v \in 1 .. config.num_vars : {v, -v} \intersect Lits(trail) = {}}

\* _choose_branching_variable: the activities and the random choice of the
\* Python solver are left open.
Branching ==
  IF config.build = "cython" /\ ~config.vsids
  THEN {v \in Unassigned : \A u \in Unassigned : v <= u}
  ELSE Unassigned

\* _get_phase: false, unless a phase may have been saved
Decide(lit) ==
  /\ Searching /\ Quiet /\ ~RestartDue
  /\ lit \in {-v : v \in Branching} \union (IF config.saving THEN Branching ELSE {})
  /\ trail' = Assigned(trail, lit, 0, Len(trail_lim) + 1)
  /\ trail_lim' = Append(trail_lim, Len(trail))
  /\ flipped' = Append(flipped, FALSE)
  /\ UNCHANGED <<config, todo, db, head, visiting, falsified, resolvent, unsat_at_root, counters,
                 status, calls>>

Satisfies(model, c) == \E lit \in ToSet(c) : lit \in model

\* The model is checked against the clauses of the caller before it is returned.
Conclude ==
  /\ Searching /\ Quiet /\ ~RestartDue /\ Unassigned = {}
  /\ Answer(IF \A i \in original : Satisfies(Lits(trail), clauses[i]) THEN "SAT" ELSE "internal error")
  /\ UNCHANGED <<config, todo, db, trail, trail_lim, flipped, head, unsat_at_root, counters, calls>>

CdclInit(problems) ==
  /\ config \in problems /\ todo = config.clauses
  /\ clauses = <<>> /\ original = {} /\ watches = [lit \in Lit |-> {}]
  /\ trail = <<>> /\ trail_lim = <<>> /\ flipped = <<>> /\ head = 0
  /\ visiting = NoVisit /\ falsified = 0 /\ resolvent = {} /\ unsat_at_root = FALSE
  /\ conflicts = 0 /\ since_restart = 0
  /\ restart_limit = IF Interval > 0 THEN Interval ELSE 1
  /\ status = "new" /\ calls = 0

Caller == Load \/ AddClause \/ StartPython \/ StartCython

Propagate == TakeLiteral \/ \E i \in visiting.left : Visit(i)

Solve ==
  \/ Propagate
  \/ Refute \/ TimeOut \/ Analyze \/ Resolve \/ Learn \/ Flip \/ Exhausted
  \/ Restart \/ Conclude
  \/ \E lit \in Lit : Decide(lit)

CdclNext == Caller \/ Solve

CdclSpec == CdclInit(Problems) /\ [][CdclNext]_cdclVars

-----------------------------------------------------------------------------
(* Properties *)

Assignments == [n \in {pb.num_vars : pb \in Problems} |->
                  {{IF v \in true THEN v ELSE -v : v \in 1 .. n} : true \in SUBSET (1 .. n)}]

Models ==
  {m \in Assignments[config.num_vars] : \A i \in original : Satisfies(m, clauses[i])}

\* An answer is right for the clauses added so far, on the first call and on
\* later ones, after time-outs, restarts and clauses added in between: SAT with
\* a model of every variable, UNSAT only if there is none.  The solver never
\* finds its own model wrong.
AnswersRight ==
  /\ status = "SAT" => Lits(trail) \in Models
  /\ status = "UNSAT" => Models = {}
  /\ status # "internal error"

\* Every learned clause follows from the formula (SAT.py:8).
LearnedImplied ==
  original # DOMAIN clauses =>
    \A m \in Models : \A i \in DOMAIN clauses \ original : Satisfies(m, clauses[i])

=============================================================================
