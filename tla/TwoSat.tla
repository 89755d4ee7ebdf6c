------------------------------- MODULE TwoSat -------------------------------
(***************************************************************************)
(* The linear 2-SAT procedure of src/two_sat.py: Kosaraju's two searches of *)
(* the implication graph, whose nodes are the literals, with explicit       *)
(* stacks.  The order in which the edges of a node are taken is left open;  *)
(* the code takes them in the order of the clauses.                         *)
(***************************************************************************)
EXTENDS Dpll

VARIABLES
  path,      \* stack of dfs1
  finished,  \* literals in the order dfs1 left them
  comp,      \* component of every literal, -1 before dfs2 gives it one
  components,\* how many components were begun
  work,      \* stack of dfs2, as a set
  answer     \* [sat, assignment, conflict] of solve_2sat, or NoAnswer

twoVars == <<path, finished, comp, components, work, answer>>

NoAnswer == [sat |-> "none", assignment |-> {}, conflict |-> 0]

\* adj: a clause (a, b) is the implications -a -> b and -b -> a; a clause of one
\* literal is not 2-SAT.
Implications ==
  UNION {{<<-formula[i][1], formula[i][2]>>, <<-formula[i][2], formula[i][1]>>} :
           i \in DOMAIN formula}

Seen == LitsOf(path) \union LitsOf(finished)

\* _node
Node(lit) == IF lit > 0 THEN 2 * (lit - 1) ELSE 2 * (-lit - 1) + 1

\* dfs1 begins at the first node that was not seen, and goes on to one that the
\* top of the stack implies.
Descend(lit) ==
  /\ answer = NoAnswer /\ lit \notin Seen
  /\ IF path # <<>> THEN <<path[Len(path)], lit>> \in Implications
     ELSE \A other \in Lit \ Seen : Node(lit) <= Node(other)
  /\ path' = Append(path, lit)
  /\ UNCHANGED <<finished, comp, components, work, answer>>

\* Seeded fault: a node is finished although some of its edges were not taken.
LeaveEarly ==
  /\ path # <<>>
  /\ finished' = Append(finished, path[Len(path)])
  /\ path' = SubSeq(path, 1, Len(path) - 1)
  /\ UNCHANGED <<comp, components, work, answer>>

\* Every successor of the top was seen: it is finished.
Leave ==
  /\ path # <<>>
  /\ \A lit \in Lit : <<path[Len(path)], lit>> \in Implications => lit \in Seen
  /\ finished' = Append(finished, path[Len(path)])
  /\ path' = SubSeq(path, 1, Len(path) - 1)
  /\ UNCHANGED <<comp, components, work, answer>>

Explored == path = <<>> /\ Lit \subseteq Seen

\* The next component begins at the last finished literal without one.
NewComponent ==
  /\ Explored /\ work = {} /\ answer = NoAnswer
  /\ \E k \in DOMAIN finished :
       /\ comp[finished[k]] = -1 /\ \A j \in k + 1 .. Len(finished) : comp[finished[j]] # -1
       /\ comp' = [comp EXCEPT ![finished[k]] = components]
       /\ work' = {finished[k]}
  /\ components' = components + 1
  /\ UNCHANGED <<path, finished, answer>>

\* dfs2: the predecessors of a node join its component.
Gather(lit) ==
  /\ lit \in work
  /\ LET joining == {p \in Lit : <<p, lit>> \in Implications /\ comp[p] = -1}
     IN  /\ comp' = [p \in Lit |-> IF p \in joining THEN components - 1 ELSE comp[p]]
         /\ work' = (work \ {lit}) \union joining
  /\ UNCHANGED <<path, finished, components, answer>>

\* assignment: a variable is true if its component comes after its negation's.
TrueLits == {lit \in Lit : comp[lit] > comp[-lit]}

\* The first variable in one component with its negation makes it unsatisfiable.
ReadOff ==
  /\ Explored /\ work = {} /\ answer = NoAnswer /\ \A lit \in Lit : comp[lit] # -1
  /\ LET clash == {v \in Var : comp[v] = comp[-v]}
     IN  answer' = IF clash = {} THEN [sat |-> "SAT", assignment |-> TrueLits, conflict |-> 0]
                   ELSE [sat |-> "UNSAT", assignment |-> {},
                         conflict |-> CHOOSE v \in clash : \A u \in clash : v <= u]
  /\ UNCHANGED <<path, finished, comp, components, work>>

TwoSatInit ==
  /\ path = <<>> /\ finished = <<>> /\ comp = [lit \in Lit |-> -1]
  /\ components = 0 /\ work = {} /\ answer = NoAnswer

TwoSatNext ==
  \/ \E lit \in Lit : Descend(lit) \/ Gather(lit)
  \/ Leave \/ NewComponent \/ ReadOff

=============================================================================
