------------------------------ MODULE SatProof ------------------------------
(***************************************************************************)
(* The records of the SAT manifest: add of src/proofs/sat-manifest/harness/ *)
(* build_manifest.py runs the DPLL search with its proof and, on a 2-SAT    *)
(* instance, the linear procedure, compares them with each other and with   *)
(* an exhaustive search, and attaches a certificate, which                  *)
(* src/tools/sat_proof/verify_manifest.py checks again.  XOR systems are     *)
(* solved beside it.  drat-trim, which is not in the repository, is modelled *)
(* by what the code uses it for: every lemma must follow by unit propagation.*)
(***************************************************************************)
EXTENDS TwoSat, XorSat

CONSTANT Instances \* [kind, clauses, system]: kind is "3sat", "2sat" or "xor"

ASSUME InstancesAssumption ==
  \A inst \in Instances :
    /\ inst.kind \in {"3sat", "2sat", "xor"}
    /\ inst.clauses \in Formulas /\ inst.system \in Systems
    /\ inst.kind = "2sat" => \A i \in DOMAIN inst.clauses : Len(inst.clauses[i]) = 2

VARIABLES
  kind,
  record  \* what add has stored of the instance

manifestVars == <<dpllVars, twoVars, xorVars, kind, record>>

NoRecord == [decision |-> "none"]

\* brute
Satisfiable ==
  \E true \in SUBSET Var :
    \A i \in DOMAIN formula :
      SatisfiedBy({IF v \in true THEN v ELSE -v : v \in Var}, formula[i])

\* Variables that the search left open are false.
Witness3 == {lit \in Lit : Holds(lit)} \union {-v : v \in Free}

-----------------------------------------------------------------------------
(* Certificates *)

\* implication_cert: breadth-first search from a literal; of every literal that
\* is reached, the path to it.
PathsFrom(s) ==
  LET extend(paths) ==
        [t \in Lit |->
           IF paths[t] # <<>> THEN paths[t]
           ELSE LET via == {e \in Implications : e[2] = t /\ paths[e[1]] # <<>>}
                IN  IF via = {} THEN <<>> ELSE Append(paths[(CHOOSE e \in via : TRUE)[1]], t)]
      after[n \in 0 .. Cardinality(Lit)] ==
        IF n = 0 THEN [t \in Lit |-> IF t = s THEN <<s>> ELSE <<>>] ELSE extend(after[n - 1])
  IN  after[Cardinality(Lit)]

Certificate(v) == [there |-> PathsFrom(v)[-v], back |-> PathsFrom(-v)[v]]

\* verify_implication_cert: the edges of both paths are clauses of the formula.
IsChain(chain, s, t) ==
  /\ Len(chain) > 1 /\ chain[1] = s /\ chain[Len(chain)] = t
  /\ \A k \in 1 .. Len(chain) - 1 :
       \E i \in DOMAIN formula : LitsOf(formula[i]) = {-chain[k], chain[k + 1]}

\* run_drat: assuming a lemma false, unit propagation in the formula and the
\* earlier lemmas ends in a conflict.
RupLemma(k) ==
  LET known == {LitsOf(formula[i]) : i \in DOMAIN formula} \union {proof[j] : j \in 1 .. k - 1}
      step(lits) == lits \union
        UNION {c \in {{lit \in clause : -lit \notin lits} : clause \in known} : Cardinality(c) = 1}
      after[n \in 0 .. Cardinality(Var)] ==
        IF n = 0 THEN {-lit : lit \in proof[k]} ELSE step(after[n - 1])
  IN  \E clause \in known : \A lit \in clause : -lit \in after[Cardinality(Var)]

-----------------------------------------------------------------------------

Answered == IF kind = "2sat" THEN answer # NoAnswer ELSE decision # "search"

\* add, once the solvers have answered.  On a 2-SAT instance the linear
\* procedure has the say.
AddRecord ==
  /\ kind # "xor" /\ Answered /\ record = NoRecord
  /\ LET sat     == IF kind = "2sat" THEN answer.sat ELSE decision
         witness == IF kind = "2sat" THEN answer.assignment ELSE Witness3
     IN  record' =
           [decision |-> sat,
            same |-> kind = "2sat" => answer.sat = decision,
            brute |-> Satisfiable <=> sat = "SAT",
            witness |-> IF sat = "SAT" THEN witness ELSE {},
            certificate |-> IF kind = "2sat" /\ sat = "UNSAT" THEN Certificate(answer.conflict)
                            ELSE [there |-> <<>>, back |-> <<>>]]
  /\ UNCHANGED <<dpllVars, twoVars, xorVars, kind>>

ManifestInit(instances) ==
  /\ \E inst \in instances : kind = inst.kind /\ formula = inst.clauses /\ system = inst.system
  /\ DpllInit /\ TwoSatInit /\ XorInit
  /\ record = NoRecord

ManifestNext ==
  \/ kind # "xor" /\ DpllNext /\ UNCHANGED <<twoVars, xorVars, kind, record>>
  \/ /\ kind = "2sat" /\ decision # "search" /\ TwoSatNext
     /\ UNCHANGED <<dpllVars, xorVars, kind, record>>
  \/ kind = "xor" /\ XorNext /\ UNCHANGED <<dpllVars, twoVars, kind, record>>
  \/ AddRecord

ManifestSpec == ManifestInit(Instances) /\ [][ManifestNext]_manifestVars

-----------------------------------------------------------------------------
(* Properties *)

\* Each lemma of the proof follows by unit propagation from the formula and the
\* lemmas before it, whichever decisions were flipped in between, and a
\* refutation ends with the empty lemma (drup_dpll.py:6-9).
LemmasFollow ==
  /\ proof # <<>> => RupLemma(Len(proof))
  /\ decision = "UNSAT" => proof # <<>> /\ proof[Len(proof)] = {}

\* What is recorded passes the manifest's own checks: the solvers agree with each
\* other and with exhaustive search, a witness is a model that contradicts
\* itself nowhere, and the certificate of a 2-SAT refutation is a cycle of
\* implications through a variable and its negation.
RecordChecks ==
  record # NoRecord =>
    /\ record.same /\ record.brute
    /\ record.decision = "SAT" =>
         /\ \A lit \in record.witness : -lit \notin record.witness
         /\ \A i \in DOMAIN formula : SatisfiedBy(record.witness, formula[i])
    /\ kind = "2sat" /\ record.decision = "UNSAT" =>
         /\ IsChain(record.certificate.there, answer.conflict, -answer.conflict)
         /\ IsChain(record.certificate.back, -answer.conflict, answer.conflict)

=============================================================================
