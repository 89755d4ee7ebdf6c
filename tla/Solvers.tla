------------------------------- MODULE Solvers -------------------------------
(***************************************************************************)
(* The SAT solvers of the repository, which share no state: the one of       *)
(* src/SAT.py and src/SAT.pyx, the procedures of the SAT manifest, and the    *)
(* search of src/PMLL.c.  A behaviour runs one of them.                       *)
(***************************************************************************)
EXTENDS Cdcl, SatProof, PmlDpll

ASSUME InputsAssumption == Problems # {} /\ Instances # {} /\ PmlProblems # {}

VARIABLE running

vars == <<cdclVars, manifestVars, pmlVars, running>>

OneOf(S) == {CHOOSE x \in S : TRUE}

\* What does not run is about to begin with any input.
Given(who, inputs) == IF running = who THEN inputs ELSE OneOf(inputs)

Init ==
  /\ running \in {"cdcl", "manifest", "pml"}
  /\ CdclInit(Given("cdcl", Problems))
  /\ ManifestInit(Given("manifest", Instances))
  /\ InitPml(Given("pml", PmlProblems))

Next ==
  /\ UNCHANGED running
  /\ \/ running = "cdcl" /\ CdclNext /\ UNCHANGED <<manifestVars, pmlVars>>
     \/ running = "manifest" /\ ManifestNext /\ UNCHANGED <<cdclVars, pmlVars>>
     \/ running = "pml" /\ PmlNext /\ UNCHANGED <<cdclVars, manifestVars>>

Spec == Init /\ [][Next]_vars

\* solve and pml_refine are loops that nothing waits for: a step of theirs that
\* can be taken is taken.
Fairness == WF_cdclVars(Solve) /\ WF_pmlVars(PmlSearch)

FairSpec == Spec /\ Fairness

\* Every call of solve returns, whatever is decided and however often it
\* restarts, without a budget as well; and so does every call of pml_refine.
SolveReturns == /\ [](status = "search" => <>(status # "search"))
                /\ [](at # "idle" => <>(at = "idle"))
=============================================================================
