------------------------------ MODULE MCSolvers ------------------------------
(* Solvers on small formulas.                                               *)
EXTENDS Solvers

-----------------------------------------------------------------------------
(* src/SAT.py, src/SAT.pyx *)

SmallFormulas == {
  \* all three equal, yet neither all true nor all false
  [num_vars |-> 3,
   clauses |-> << <<1, 2, 3>>, <<-1, 2>>, <<-2, 3>>, <<-3, 1>>, <<-1, -2, -3>> >>],
  \* no assignment of two of the variables; a clause that only the third decides
  [num_vars |-> 3,
   clauses |-> << <<1, 2>>, <<-1, 2, 3>>, <<1, -2>>, <<-1, -2>>, <<-3, 2>> >>],
  \* satisfiable, with a repeated literal and a tautology
  [num_vars |-> 3,
   clauses |-> << <<1, 2, 2>>, <<-1, 3>>, <<2, -2>>, <<-3, -1>>, <<-2, 3, 1>>, <<1, -3>> >>],
  \* unit clauses, and an empty one
  [num_vars |-> 3, clauses |-> << <<-2, 3>>, <<1, 2, 3>>, <<-3>>, <<-1, 2>> >>],
  [num_vars |-> 2, clauses |-> << <<1, 2>>, <<-1, 2>>, <<>> >>] }

\* Clauses of four literals, from which ones of three are learned.
WideFormula ==
  [num_vars |-> 4,
   clauses |-> << <<1, 2, 3, 4>>, <<-4, 3, 2, 1>>, <<-1, 2, 3, 4>>, <<1, -2, 4>>, <<-4, -1, 2>> >>]

Problem(f, build, learning, vsids, saving, most) ==
  [num_vars |-> f.num_vars, clauses |-> f.clauses, build |-> build,
   learning |-> learning, vsids |-> vsids, saving |-> saving, budget |-> most]

MCProblems ==
  {Problem(f, build, learning, TRUE, TRUE, most) :
     f \in SmallFormulas, build \in {"python", "cython"}, learning \in BOOLEAN, most \in {1, 100}}
  \union {Problem(WideFormula, build, learning, FALSE, saving, 100) :
            build \in {"cython", "python"}, learning \in BOOLEAN, saving \in {FALSE}}

-----------------------------------------------------------------------------
(* The SAT manifest and the XOR solver *)

Listed(s) == FoldSet(LAMBDA x, seq : Append(seq, x), <<>>, s)

\* The clauses of n different variables among the first three
Wide(n) ==
  {Listed(c) : c \in {c \in kSubset(n, {1, 2, 3, -1, -2, -3}) : \A lit \in c : -lit \notin c}}

Parity(a, b, c) == << <<a, b, -c>>, <<a, -b, c>>, <<-a, b, c>>, <<-a, -b, -c>> >>

\* x1 + x2 = x3 and x1 + x2 = x4, yet x3 # x4; and a clause with a repeated literal
Parities == Parity(1, 2, 3) \o Parity(1, 2, 4) \o << <<3, 4>>, <<-3, -4>>, <<1, 1, 2>> >>

MCFormulas ==
  {Listed(s) : s \in UNION {kSubset(k, Wide(2)) : k \in {0, 3, 4}} \union SUBSET Wide(3)}
  \union {<<c, d>> : c \in Wide(1) \union Wide(3), d \in Wide(1) \union Wide(2)}
  \union {Parities, Tail(Parities), Parity(2, 3, 4) \o << <<-1, 2>>, <<1, 3, 4>>, <<-4>> >>}

MCEquations == [variables : {<<1>>, <<1, 2>>, <<2, 3>>, <<1, 3>>, <<3, 2, 1>>, <<2, 2, 3>>}, rhs : {0, 1}]

MCSystems == UNION {[1 .. m -> MCEquations] : m \in {0, 3}}

IsTwo(f) == \A i \in DOMAIN f : Len(f[i]) = 2

MCInstances ==
  [kind : {"xor"}, clauses : {<<>>}, system : MCSystems]
  \union {inst \in [kind : {"2sat", "3sat"}, clauses : MCFormulas, system : {<<>>}] :
            (inst.kind = "2sat") = IsTwo(inst.clauses)}

-----------------------------------------------------------------------------
(* src/PMLL.c *)

\* Integers that are no literals, a repeated literal, a tautology, an empty
\* clause; with few variables to complete, the budget of the code for more than
\* 21 variables is reached.
MCPmlFormulas ==
  {f.clauses : f \in SmallFormulas}
  \union {<< <<1, 2, 0>>, <<-2, 9, -2>>, <<-1, 3>>, <<2, -9, -3>> >>,
          << <<3, -3>>, <<0, 7>>, <<1>> >>,
          << <<1, 2, 3>>, <<1, 2, -3>>, <<1, -2, 3>>, <<1, -2, -3>>, <<-1, 2, 3>>, <<-1, -2>> >>}

MCPmlProblems == [num_vars : {3}, clauses : MCPmlFormulas, complete : {0, 21}]
=============================================================================
