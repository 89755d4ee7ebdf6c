---------------------------- MODULE SolverProofs ----------------------------
(*******************************************************************************)
(* Theorems of the solvers: Cdcl (src/SAT.py, src/SAT.pyx) answers rightly,    *)
(* and what it learns follows from the formula; the lemmas of the search of    *)
(* Dpll (src/tools/sat_proof/drup_dpll.py) follow, and the records of SatProof *)
(* pass the checks of the manifest; the elimination of XorSat                  *)
(* (src/xor_sat.py) is sound, with its certificates; a call of PmlDpll         *)
(* (pml_refine of src/PMLL.c) answers for the assignment it was given; and     *)
(* so do the four side by side, in Solvers.                                    *)
(*                                                                             *)
(* The invariant of Cdcl has six parts.  Typed: every variable is assigned     *)
(* once, the levels grow along the trail, each begins with its decision, and   *)
(* every other entry is what a clause leaves when the entries before it are    *)
(* made false.  Meaning: every clause holds in every model; who agrees with    *)
(* the decisions below a flipped one agrees with it.  Working: where the       *)
(* search is, what is visited, the clause in conflict, the resolvent.          *)
(* Listed: the lists of watches are the first two literals of the clauses.     *)
(* Minding: where an entry that has been propagated makes a watch false, the   *)
(* other watch is true, and not from a later level.  Unwatched: unit clauses   *)
(* are assigned at the root, an empty clause has been noticed.  UNSAT then     *)
(* rests on the trail alone: a clause is false, and what makes it false        *)
(* follows from the root or from decisions tried both ways.  SAT does not      *)
(* rest on the last check of the model: with everything assigned and           *)
(* propagated, each clause has a true watch or is a unit of the root.          *)
(*                                                                             *)
(* That of PmlDpll says of a model what it must share with the trail:          *)
(* whoever agrees with the trail up to an entry agrees with the entry, unless  *)
(* its other value has yet to be tried; and that the budget pays for what      *)
(* every frame may still try; a search of it cannot go on for ever, since its  *)
(* steps lower a rank.  That of XorSat: the rows have the solutions            *)
(* of the system, and no row below the pivots has a variable that was passed.  *)
(*                                                                             *)
(* That of Dpll: an entry of the trail is decided or derived, a flipped        *)
(* decision from its lemma, so that propagation finds the conflict again.      *)
(* That of TwoSat says of dfs1 that only what is on the path or shares a       *)
(* component with it is left to be finished, and of dfs2 that a component      *)
(* begins at its last finished literal and is the literals it reaches both     *)
(* ways.  The certificates are paths: breadth-first search finds in as many    *)
(* rounds as there are literals whatever is reached.                           *)
(*******************************************************************************)
EXTENDS Solvers, FiniteSetTheorems, WellFoundedInduction, TLAPS

-----------------------------------------------------------------------------
(* Literals and models                                                     *)

VLit == LitsUpTo(config.num_vars)

LEMMA Literal ==
  ASSUME NEW n \in Nat, NEW x \in LitsUpTo(n)
  PROVE  x \in Int /\ x # 0 /\ -x \in LitsUpTo(n) /\ -(-x) = x /\ x # -x
BY DEF LitsUpTo

\* The least number with a property, given one that has it.
LEMMA Least ==
  ASSUME NEW S \in SUBSET Nat, S # {}
  PROVE  \E x \in S : \A y \in S : x <= y
<1> DEFINE R == {ss \in Nat \X Nat : ss[1] < ss[2]}
<1>1. IsWellFoundedOn(R, Nat)
  BY NatLessThanWellFounded DEF OpToRel
<1>2. PICK x \in S : \A y \in S : <<y, x>> \notin R
  BY <1>1, WFMin
<1>3. ASSUME NEW y \in S PROVE x <= y
  <2>1. x \in Nat /\ y \in Nat /\ <<y, x>> \notin R
    BY <1>2
  <2>2. y < x => <<y, x>> \in R
    BY <2>1
  <2> QED BY <2>1, <2>2
<1> QED BY <1>3

\* A model has one literal of every variable.
LEMMA OneSign ==
  ASSUME config \in Problems, NEW m \in Assignments[config.num_vars], NEW x \in VLit
  PROVE  x \in m <=> -x \notin m
<1> DEFINE n == config.num_vars
<1>1. n \in Nat /\ n \in {pb.num_vars : pb \in Problems}
  BY ProblemsAssumption
<1>2. m \in {{IF v \in true THEN v ELSE -v : v \in 1 .. n} : true \in SUBSET (1 .. n)}
  BY <1>1 DEF Assignments
<1>3. PICK true \in SUBSET (1 .. n) : m = {IF v \in true THEN v ELSE -v : v \in 1 .. n}
  BY <1>2
<1> HIDE DEF n
<1>4. ASSUME NEW v \in 1 .. n PROVE (v \in m <=> v \in true) /\ (-v \in m <=> v \notin true)
  BY <1>1, <1>3, <1>4
<1>5. \E v \in 1 .. n : x = v \/ x = -v
  BY DEF VLit, LitsUpTo, n
<1>6. PICK v \in 1 .. n : x = v \/ x = -v
  BY <1>5
<1>7. v \in Int /\ -(-v) = v
  BY <1>1
<1> QED BY <1>4, <1>6, <1>7

LEMMA ModelsAre == Models \subseteq Assignments[config.num_vars]
BY DEF Models

LEMMA ModelsKept ==
  ASSUME config' = config, original' = original,
         \A i \in original : ToSet(clauses'[i]) = ToSet(clauses[i])
  PROVE  Models' = Models
<1>1. Assignments' = Assignments
  BY DEF Assignments
<1>2. ASSUME NEW m, NEW i \in original PROVE Satisfies(m, clauses'[i]) <=> Satisfies(m, clauses[i])
  BY DEF Satisfies
<1>3. Models' = {m \in Assignments[config.num_vars] : \A i \in original : Satisfies(m, clauses'[i])}
  BY <1>1 DEF Models
<1> QED BY <1>2, <1>3, Zenon DEF Models

-----------------------------------------------------------------------------
(* The trail                                                               *)

Entry(n) == [lit : LitsUpTo(n), reason : Nat, level : Nat]

\* A trail and the lengths at which its levels begin: no variable twice, levels
\* in order, and a decision, which has no reason, first on every level.
IsTrail(t, lims, n) ==
  /\ t \in Seq(Entry(n)) /\ lims \in Seq(Nat)
  /\ \A i, j \in DOMAIN t : t[i].lit \in {t[j].lit, -t[j].lit} => i = j
  /\ \A k \in DOMAIN lims : lims[k] < Len(t)
  /\ \A j, k \in DOMAIN lims : j < k => lims[j] < lims[k]
  /\ \A i \in DOMAIN t : t[i].level <= Len(lims)
  /\ \A i \in DOMAIN t, k \in DOMAIN lims : lims[k] < i <=> k <= t[i].level
  /\ \A i \in DOMAIN t : t[i].reason = 0 <=> \E k \in DOMAIN lims : i = lims[k] + 1

LEMMA EntryFacts ==
  ASSUME NEW n, NEW t, NEW lims, IsTrail(t, lims, n)
  PROVE  /\ Len(t) \in Nat /\ DOMAIN t = 1 .. Len(t)
         /\ Len(lims) \in Nat /\ DOMAIN lims = 1 .. Len(lims)
         /\ \A i \in 1 .. Len(t) : /\ t[i] \in Entry(n) /\ t[i].lit \in LitsUpTo(n)
                                   /\ t[i].reason \in Nat /\ t[i].level \in 0 .. Len(lims)
         /\ \A k \in 1 .. Len(lims) : lims[k] \in Nat
<1>1. t \in Seq(Entry(n)) /\ lims \in Seq(Nat)
  BY DEF IsTrail
<1>2. Len(t) \in Nat /\ DOMAIN t = 1 .. Len(t) /\ Len(lims) \in Nat /\ DOMAIN lims = 1 .. Len(lims)
  BY <1>1
<1>3. \A i \in 1 .. Len(t) : t[i] \in Entry(n)
  BY <1>1
<1>4. \A i \in 1 .. Len(t) : t[i].level <= Len(lims)
  BY <1>2 DEF IsTrail
<1>5. \A k \in 1 .. Len(lims) : lims[k] \in Nat
  BY <1>1
<1> QED BY <1>2, <1>3, <1>4, <1>5 DEF Entry

LEMMA LevelsGrow ==
  ASSUME NEW n, NEW t, NEW lims, IsTrail(t, lims, n), NEW i \in DOMAIN t, NEW j \in DOMAIN t, i <= j
  PROVE  t[i].level <= t[j].level
<1> DEFINE k == t[i].level
<1>1. /\ Len(t) \in Nat /\ DOMAIN t = 1 .. Len(t) /\ DOMAIN lims = 1 .. Len(lims) /\ Len(lims) \in Nat
      /\ k \in 0 .. Len(lims) /\ t[j].level \in Nat
  BY EntryFacts
<1>2. CASE k = 0
  BY <1>1, <1>2
<1>3. CASE k # 0
  <2>1. k \in DOMAIN lims /\ lims[k] \in Nat
    BY <1>1, <1>3, EntryFacts
  <2>2. lims[k] < i
    BY <1>1, <2>1 DEF IsTrail
  <2>3. lims[k] < j
    BY <1>1, <2>1, <2>2
  <2> QED BY <2>1, <2>3 DEF IsTrail
<1> QED BY <1>2, <1>3

\* A literal is assigned with a reason, at the deepest level.
LEMMA PushedTrail ==
  ASSUME NEW n, NEW t, NEW lims, IsTrail(t, lims, n), NEW lit \in LitsUpTo(n),
         lit \notin Lits(t), -lit \notin Lits(t), n \in Nat, NEW why \in Nat \ {0}
  PROVE  IsTrail(Assigned(t, lit, why, Len(lims)), lims, n)
<1> DEFINE e == [lit |-> lit, reason |-> why, level |-> Len(lims)]
           u == Append(t, e)
<1>1. /\ Len(t) \in Nat /\ DOMAIN t = 1 .. Len(t) /\ DOMAIN lims = 1 .. Len(lims) /\ Len(lims) \in Nat
      /\ t \in Seq(Entry(n)) /\ lims \in Seq(Nat)
      /\ \A k \in 1 .. Len(lims) : lims[k] \in Nat
  BY EntryFacts DEF IsTrail
<1>2. e \in Entry(n) /\ e.lit = lit /\ e.reason = why /\ e.level = Len(lims)
  BY <1>1 DEF Entry
<1> HIDE DEF e
<1>3. /\ u \in Seq(Entry(n)) /\ Len(u) = Len(t) + 1 /\ DOMAIN u = 1 .. Len(t) + 1
      /\ u[Len(t) + 1] = e /\ \A i \in 1 .. Len(t) : u[i] = t[i]
  BY <1>1, <1>2
<1> HIDE DEF u
<1>4. \A i, j \in DOMAIN u : u[i].lit \in {u[j].lit, -u[j].lit} => i = j
  <2> SUFFICES ASSUME NEW i \in DOMAIN u, NEW j \in DOMAIN u, u[i].lit \in {u[j].lit, -u[j].lit}
               PROVE  i = j
    OBVIOUS
  <2>1. \A p \in 1 .. Len(t) : t[p].lit \in Lits(t)
    BY <1>1 DEF Lits
  <2>2. \A p \in 1 .. Len(t) : t[p].lit \in LitsUpTo(n)
    BY EntryFacts
  <2>3. CASE i \in 1 .. Len(t) /\ j \in 1 .. Len(t)
    BY <1>1, <1>3, <2>3 DEF IsTrail
  <2>4. CASE i = Len(t) + 1 /\ j = Len(t) + 1
    BY <2>4
  <2>5. CASE i = Len(t) + 1 /\ j \in 1 .. Len(t)
    <3>1. lit \in {t[j].lit, -t[j].lit}
      BY <1>2, <1>3, <2>5
    <3>2. -(-t[j].lit) = t[j].lit
      BY <2>2, <2>5, Literal
    <3> QED BY <2>1, <2>5, <3>1, <3>2
  <2>6. CASE j = Len(t) + 1 /\ i \in 1 .. Len(t)
    BY <1>2, <1>3, <2>1, <2>6
  <2> QED BY <1>1, <1>3, <2>3, <2>4, <2>5, <2>6
<1>5. \A k \in DOMAIN lims : lims[k] < Len(u)
  BY <1>1, <1>3 DEF IsTrail
<1>6. \A i \in DOMAIN u : u[i].level <= Len(lims)
  BY <1>1, <1>2, <1>3 DEF IsTrail
<1>7. \A i \in DOMAIN u, k \in DOMAIN lims : lims[k] < i <=> k <= u[i].level
  <2> SUFFICES ASSUME NEW i \in 1 .. Len(t) + 1, NEW k \in 1 .. Len(lims)
               PROVE  lims[k] < i <=> k <= u[i].level
    BY <1>1, <1>3
  <2>1. CASE i \in 1 .. Len(t)
    BY <1>1, <1>3, <2>1 DEF IsTrail
  <2>2. CASE i = Len(t) + 1
    BY <1>1, <1>2, <1>3, <2>2 DEF IsTrail
  <2> QED BY <1>1, <2>1, <2>2
<1>8. \A i \in DOMAIN u : u[i].reason = 0 <=> \E k \in DOMAIN lims : i = lims[k] + 1
  <2> SUFFICES ASSUME NEW i \in 1 .. Len(t) + 1
               PROVE  u[i].reason = 0 <=> \E k \in DOMAIN lims : i = lims[k] + 1
    BY <1>3
  <2>1. CASE i \in 1 .. Len(t)
    BY <1>1, <1>3, <2>1 DEF IsTrail
  <2>2. CASE i = Len(t) + 1
    <3>1. \A k \in DOMAIN lims : lims[k] < Len(t) /\ lims[k] \in Nat
      BY <1>1 DEF IsTrail
    <3>2. u[i].reason = why
      BY <1>2, <1>3, <2>2
    <3> QED BY <1>1, <2>2, <3>1, <3>2
  <2> QED BY <1>1, <2>1, <2>2
<1>9. IsTrail(u, lims, n)
  BY <1>1, <1>3, <1>4, <1>5, <1>6, <1>7, <1>8 DEF IsTrail
<1> QED BY <1>9 DEF u, e, Assigned

\* A decision begins the next level.
LEMMA DecidedTrail ==
  ASSUME NEW n \in Nat, NEW t, NEW lims, IsTrail(t, lims, n), NEW lit \in LitsUpTo(n),
         lit \notin Lits(t), -lit \notin Lits(t)
  PROVE  IsTrail(Assigned(t, lit, 0, Len(lims) + 1), Append(lims, Len(t)), n)
<1> DEFINE e == [lit |-> lit, reason |-> 0, level |-> Len(lims) + 1]
           u == Append(t, e)
           ls == Append(lims, Len(t))
<1>1. /\ Len(t) \in Nat /\ DOMAIN t = 1 .. Len(t) /\ DOMAIN lims = 1 .. Len(lims) /\ Len(lims) \in Nat
      /\ t \in Seq(Entry(n)) /\ lims \in Seq(Nat)
      /\ \A k \in 1 .. Len(lims) : lims[k] \in Nat
      /\ \A i \in 1 .. Len(t) : t[i].level \in 0 .. Len(lims)
  BY EntryFacts DEF IsTrail
<1>2. e \in Entry(n) /\ e.lit = lit /\ e.reason = 0 /\ e.level = Len(lims) + 1
  BY <1>1 DEF Entry
<1> HIDE DEF e
<1>3. /\ u \in Seq(Entry(n)) /\ Len(u) = Len(t) + 1 /\ DOMAIN u = 1 .. Len(t) + 1
      /\ u[Len(t) + 1] = e /\ \A i \in 1 .. Len(t) : u[i] = t[i]
  BY <1>1, <1>2
<1> HIDE DEF u
<1>4. /\ ls \in Seq(Nat) /\ Len(ls) = Len(lims) + 1 /\ DOMAIN ls = 1 .. Len(lims) + 1
      /\ ls[Len(lims) + 1] = Len(t) /\ \A k \in 1 .. Len(lims) : ls[k] = lims[k]
  BY <1>1
<1> HIDE DEF ls
<1>5. \A k \in 1 .. Len(lims) : ls[k] < Len(t) /\ ls[k] \in Nat
  BY <1>1, <1>4 DEF IsTrail
<1>6. \A i, j \in DOMAIN u : u[i].lit \in {u[j].lit, -u[j].lit} => i = j
  <2> SUFFICES ASSUME NEW i \in DOMAIN u, NEW j \in DOMAIN u, u[i].lit \in {u[j].lit, -u[j].lit}
               PROVE  i = j
    OBVIOUS
  <2>1. \A p \in 1 .. Len(t) : t[p].lit \in Lits(t)
    BY <1>1 DEF Lits
  <2>2. \A p \in 1 .. Len(t) : t[p].lit \in LitsUpTo(n)
    BY EntryFacts
  <2>3. CASE i \in 1 .. Len(t) /\ j \in 1 .. Len(t)
    BY <1>1, <1>3, <2>3 DEF IsTrail
  <2>4. CASE i = Len(t) + 1 /\ j = Len(t) + 1
    BY <2>4
  <2>5. CASE i = Len(t) + 1 /\ j \in 1 .. Len(t)
    <3>1. lit \in {t[j].lit, -t[j].lit}
      BY <1>2, <1>3, <2>5
    <3>2. -(-t[j].lit) = t[j].lit
      BY <2>2, <2>5, Literal
    <3> QED BY <2>1, <2>5, <3>1, <3>2
  <2>6. CASE j = Len(t) + 1 /\ i \in 1 .. Len(t)
    BY <1>2, <1>3, <2>1, <2>6
  <2> QED BY <1>1, <1>3, <2>3, <2>4, <2>5, <2>6
<1>7. \A k \in DOMAIN ls : ls[k] < Len(u)
  BY <1>1, <1>3, <1>4, <1>5
<1>8. \A j, k \in DOMAIN ls : j < k => ls[j] < ls[k]
  <2> SUFFICES ASSUME NEW j \in 1 .. Len(lims) + 1, NEW k \in 1 .. Len(lims) + 1, j < k
               PROVE  ls[j] < ls[k]
    BY <1>4
  <2>1. CASE k = Len(lims) + 1
    BY <1>1, <1>4, <1>5, <2>1
  <2>2. CASE k \in 1 .. Len(lims)
    <3>1. j \in 1 .. Len(lims)
      BY <1>1, <2>2
    <3> QED BY <1>1, <1>4, <2>2, <3>1 DEF IsTrail
  <2> QED BY <1>1, <2>1, <2>2
<1>9. \A i \in DOMAIN u : u[i].level <= Len(ls)
  <2> SUFFICES ASSUME NEW i \in 1 .. Len(t) + 1 PROVE u[i].level <= Len(lims) + 1
    BY <1>3, <1>4
  <2>1. CASE i \in 1 .. Len(t)
    BY <1>1, <1>3, <2>1
  <2>2. CASE i = Len(t) + 1
    BY <1>1, <1>2, <1>3, <2>2
  <2> QED BY <1>1, <2>1, <2>2
<1>10. \A i \in DOMAIN u, k \in DOMAIN ls : ls[k] < i <=> k <= u[i].level
  <2> SUFFICES ASSUME NEW i \in 1 .. Len(t) + 1, NEW k \in 1 .. Len(lims) + 1
               PROVE  ls[k] < i <=> k <= u[i].level
    BY <1>3, <1>4
  <2>1. CASE i \in 1 .. Len(t) /\ k \in 1 .. Len(lims)
    BY <1>1, <1>3, <1>4, <2>1 DEF IsTrail
  <2>2. CASE i = Len(t) + 1
    <3>1. u[i].level = Len(lims) + 1
      BY <1>2, <1>3, <2>2
    <3>2. ls[k] \in Nat /\ ls[k] <= Len(t)
      <4>1. CASE k \in 1 .. Len(lims)
        BY <1>1, <1>5, <4>1
      <4>2. CASE k = Len(lims) + 1
        BY <1>1, <1>4, <4>2
      <4> QED BY <1>1, <4>1, <4>2
    <3> QED BY <1>1, <2>2, <3>1, <3>2
  <2>3. CASE i \in 1 .. Len(t) /\ k = Len(lims) + 1
    BY <1>1, <1>3, <1>4, <2>3
  <2> QED BY <1>1, <2>1, <2>2, <2>3
<1>11. \A i \in DOMAIN u : u[i].reason = 0 <=> \E k \in DOMAIN ls : i = ls[k] + 1
  <2> SUFFICES ASSUME NEW i \in 1 .. Len(t) + 1
               PROVE  u[i].reason = 0 <=> \E k \in DOMAIN ls : i = ls[k] + 1
    BY <1>3
  <2>1. CASE i \in 1 .. Len(t)
    <3>1. u[i].reason = 0 <=> \E k \in 1 .. Len(lims) : i = lims[k] + 1
      BY <1>1, <1>3, <2>1 DEF IsTrail
    <3>2. i # ls[Len(lims) + 1] + 1
      BY <1>1, <1>4, <2>1
    <3>3. \A k \in 1 .. Len(lims) + 1 : k \in 1 .. Len(lims) \/ k = Len(lims) + 1
      BY <1>1
    <3>4. \A k \in 1 .. Len(lims) : k \in 1 .. Len(lims) + 1
      BY <1>1
    <3> QED BY <1>4, <3>1, <3>2, <3>3, <3>4
  <2>2. CASE i = Len(t) + 1
    <3>1. u[i].reason = 0
      BY <1>2, <1>3, <2>2
    <3>2. Len(lims) + 1 \in DOMAIN ls /\ i = ls[Len(lims) + 1] + 1
      BY <1>1, <1>4, <2>2
    <3> QED BY <3>1, <3>2
  <2> QED BY <1>1, <2>1, <2>2
<1>12. IsTrail(u, ls, n)
  BY <1>3, <1>4, <1>6, <1>7, <1>8, <1>9, <1>10, <1>11 DEF IsTrail
<1> QED BY <1>12 DEF u, e, ls, Assigned

\* What going back to a level leaves.
Kept(t, lims, level) == IF level < Len(lims) THEN lims[level + 1] ELSE Len(t)

LEMMA CutTrail ==
  ASSUME NEW n \in Nat, NEW t, NEW lims, IsTrail(t, lims, n), NEW level \in 0 .. Len(lims)
  PROVE  LET kept == Kept(t, lims, level)
             u == SubSeq(t, 1, kept)
             ls == SubSeq(lims, 1, level)
         IN  /\ kept \in 0 .. Len(t) /\ Len(u) = kept /\ Len(ls) = level
             /\ \A i \in 1 .. kept : u[i] = t[i]
             /\ \A k \in 1 .. level : ls[k] = lims[k] /\ lims[k] < kept
             /\ \A i \in 1 .. Len(t) : i <= kept <=> t[i].level <= level
             /\ IsTrail(u, ls, n)
<1> DEFINE kept == Kept(t, lims, level)
           u == SubSeq(t, 1, kept)
           ls == SubSeq(lims, 1, level)
<1>1. /\ Len(t) \in Nat /\ DOMAIN t = 1 .. Len(t) /\ DOMAIN lims = 1 .. Len(lims) /\ Len(lims) \in Nat
      /\ t \in Seq(Entry(n)) /\ lims \in Seq(Nat)
      /\ \A k \in 1 .. Len(lims) : lims[k] \in Nat
      /\ \A i \in 1 .. Len(t) : t[i].level \in 0 .. Len(lims)
  BY EntryFacts DEF IsTrail
<1>2. level \in Nat /\ level <= Len(lims)
  BY <1>1
<1>2a. level < Len(lims) \/ level = Len(lims)
  <2> DEFINE l == Len(lims)
  <2>1. l \in Nat /\ level \in Nat /\ level <= l
    BY <1>1, <1>2
  <2> HIDE DEF l
  <2>2. level < l \/ level = l
    BY ONLY <2>1
  <2> QED BY <2>2 DEF l
<1>3. kept \in 0 .. Len(t)
  <2>1. CASE level < Len(lims)
    <3>1. level + 1 \in DOMAIN lims
      BY <1>1, <1>2, <2>1
    <3>2. lims[level + 1] < Len(t) /\ lims[level + 1] \in Nat
      BY <1>1, <3>1 DEF IsTrail
    <3> QED BY <1>1, <2>1, <3>2 DEF Kept
  <2>2. CASE ~(level < Len(lims))
    <3>1. kept = Len(t)
      BY <2>2 DEF Kept
    <3> QED BY <1>1, <3>1
  <2> HIDE DEF kept
  <2> QED BY <2>1, <2>2
<1>4. \A i \in 1 .. Len(t) : i <= kept <=> t[i].level <= level
  <2> SUFFICES ASSUME NEW i \in 1 .. Len(t) PROVE i <= kept <=> t[i].level <= level
    OBVIOUS
  <2>1. CASE level < Len(lims)
    <3>1. level + 1 \in DOMAIN lims /\ kept = lims[level + 1]
      BY <1>1, <1>2, <2>1 DEF Kept
    <3>2. lims[level + 1] < i <=> level + 1 <= t[i].level
      BY <1>1, <3>1 DEF IsTrail
    <3>3. i \in Nat /\ t[i].level \in Nat /\ lims[level + 1] \in Nat
      BY <1>1, <3>1
    <3> QED BY ONLY <1>2, <3>1, <3>2, <3>3
  <2>2. CASE level = Len(lims)
    BY <1>1, <2>2 DEF Kept
  <2> HIDE DEF kept
  <2> QED BY <1>2a, <2>1, <2>2
<1>5. \A k \in 1 .. level : lims[k] < kept
  <2> SUFFICES ASSUME NEW k \in 1 .. level PROVE lims[k] < kept
    OBVIOUS
  <2>1. CASE level < Len(lims)
    <3>1. k \in DOMAIN lims /\ level + 1 \in DOMAIN lims /\ k < level + 1 /\ kept = lims[level + 1]
      BY <1>1, <1>2, <2>1 DEF Kept
    <3> QED BY <3>1 DEF IsTrail
  <2>2. CASE level = Len(lims)
    BY <1>1, <1>2, <2>2 DEF IsTrail, Kept
  <2> HIDE DEF kept
  <2> QED BY <1>2a, <2>1, <2>2
<1> HIDE DEF kept
<1>6. /\ u \in Seq(Entry(n)) /\ Len(u) = kept /\ DOMAIN u = 1 .. kept
      /\ \A i \in 1 .. kept : u[i] = t[i]
  BY <1>1, <1>3
<1>7. /\ ls \in Seq(Nat) /\ Len(ls) = level /\ DOMAIN ls = 1 .. level
      /\ \A k \in 1 .. level : ls[k] = lims[k]
  BY <1>1, <1>2
<1> HIDE DEF u, ls
<1>8. /\ \A i \in 1 .. kept : i \in DOMAIN t /\ i \in Nat
      /\ \A k \in 1 .. level : k \in DOMAIN lims /\ k \in Nat
  BY <1>1, <1>2, <1>3
<1>9. \A i, j \in DOMAIN u : u[i].lit \in {u[j].lit, -u[j].lit} => i = j
  BY <1>6, <1>8 DEF IsTrail
<1>10. \A k \in DOMAIN ls : ls[k] < Len(u)
  BY <1>5, <1>6, <1>7
<1>11. \A j, k \in DOMAIN ls : j < k => ls[j] < ls[k]
  BY <1>7, <1>8 DEF IsTrail
<1>12. \A i \in DOMAIN u : u[i].level <= Len(ls)
  BY <1>1, <1>3, <1>4, <1>6, <1>7
<1>13. \A i \in DOMAIN u, k \in DOMAIN ls : ls[k] < i <=> k <= u[i].level
  BY <1>6, <1>7, <1>8 DEF IsTrail
<1>14. \A i \in DOMAIN u : u[i].reason = 0 <=> \E k \in DOMAIN ls : i = ls[k] + 1
  <2> SUFFICES ASSUME NEW i \in 1 .. kept
               PROVE  u[i].reason = 0 <=> \E k \in DOMAIN ls : i = ls[k] + 1
    BY <1>6
  <2>1. u[i].reason = 0 <=> \E k \in 1 .. Len(lims) : i = lims[k] + 1
    BY <1>1, <1>6, <1>8 DEF IsTrail
  <2>2. ASSUME NEW k \in 1 .. Len(lims), i = lims[k] + 1 PROVE k \in 1 .. level
    <3>1. lims[k] < i /\ i \in DOMAIN t
      BY <1>1, <1>8, <2>2
    <3>2. k <= t[i].level
      BY <1>1, <3>1 DEF IsTrail
    <3>3. t[i].level <= level
      BY <1>1, <1>3, <1>4
    <3> QED BY <1>1, <1>2, <3>1, <3>2, <3>3
  <2>3. \A k \in 1 .. level : k \in 1 .. Len(lims)
    BY <1>1, <1>2
  <2> QED BY <1>7, <2>1, <2>2, <2>3
<1>15. IsTrail(u, ls, n)
  BY <1>6, <1>7, <1>9, <1>10, <1>11, <1>12, <1>13, <1>14 DEF IsTrail
<1> QED BY <1>3, <1>4, <1>5, <1>6, <1>7, <1>15 DEF kept, u, ls

-----------------------------------------------------------------------------
(* Reasons, clauses and decisions                                          *)

\* An entry with a reason is the literal of it that the entries before it leave.
Justified(t, cl) ==
  \A i \in DOMAIN t : t[i].reason # 0 =>
    /\ t[i].reason \in DOMAIN cl /\ t[i].lit \in ToSet(cl[t[i].reason])
    /\ \A x \in ToSet(cl[t[i].reason]) \ {t[i].lit} : \E j \in 1 .. i - 1 : t[j].lit = -x

Clauses(cl, n) == cl \in Seq(Seq(LitsUpTo(n))) /\ \A i \in DOMAIN cl : IsInjective(cl[i])

Meets(m, n, cl) ==
  /\ \A x \in LitsUpTo(n) : x \in m <=> -x \notin m
  /\ \A i \in DOMAIN cl : Satisfies(m, cl[i])

\* m agrees with the decisions among the first entries.
Agrees(m, t, p) == \A j \in 1 .. p : t[j].reason = 0 => t[j].lit \in m

\* Who agrees with the levels below a flipped decision agrees with it.
Tried(t, lims, fl, ms) ==
  \A m \in ms, k \in DOMAIN lims : fl[k] /\ Agrees(m, t, lims[k]) => t[lims[k] + 1].lit \in m

LEMMA ClauseLits ==
  ASSUME NEW n \in Nat, NEW cl, Clauses(cl, n), NEW i \in DOMAIN cl
  PROVE  /\ cl[i] \in Seq(LitsUpTo(n)) /\ Len(cl[i]) \in Nat /\ DOMAIN cl[i] = 1 .. Len(cl[i])
         /\ \A k \in 1 .. Len(cl[i]) : cl[i][k] \in LitsUpTo(n) /\ cl[i][k] \in ToSet(cl[i])
         /\ ToSet(cl[i]) \subseteq LitsUpTo(n)
         /\ \A j, k \in 1 .. Len(cl[i]) : cl[i][j] = cl[i][k] => j = k
<1>1. cl[i] \in Seq(LitsUpTo(n))
  BY DEF Clauses
<1>2. Len(cl[i]) \in Nat /\ DOMAIN cl[i] = 1 .. Len(cl[i]) /\ \A k \in 1 .. Len(cl[i]) : cl[i][k] \in LitsUpTo(n)
  BY <1>1
<1>3. \A j, k \in 1 .. Len(cl[i]) : cl[i][j] = cl[i][k] => j = k
  BY <1>2 DEF Clauses, IsInjective
<1> QED BY <1>1, <1>2, <1>3 DEF ToSet

LEMMA JustifiedPrefix ==
  ASSUME NEW t, NEW u, NEW cl, Justified(t, cl), Len(u) \in Nat, Len(t) \in Nat, Len(u) <= Len(t),
         DOMAIN t = 1 .. Len(t), DOMAIN u = 1 .. Len(u), \A i \in 1 .. Len(u) : u[i] = t[i]
  PROVE  Justified(u, cl)
<1> SUFFICES ASSUME NEW i \in 1 .. Len(u), u[i].reason # 0
             PROVE  /\ u[i].reason \in DOMAIN cl /\ u[i].lit \in ToSet(cl[u[i].reason])
                    /\ \A x \in ToSet(cl[u[i].reason]) \ {u[i].lit} : \E j \in 1 .. i - 1 : u[j].lit = -x
  BY DEF Justified
<1>1. i \in DOMAIN t /\ u[i] = t[i]
  OBVIOUS
<1>2. \A j \in 1 .. i - 1 : u[j] = t[j]
  OBVIOUS
<1> QED BY <1>1, <1>2 DEF Justified

LEMMA JustifiedMore ==
  ASSUME NEW t, NEW cl, NEW d, Justified(t, cl),
         \A i \in DOMAIN cl : i \in DOMAIN d /\ ToSet(d[i]) = ToSet(cl[i])
  PROVE  Justified(t, d)
BY DEF Justified

LEMMA JustifiedPush ==
  ASSUME NEW n, NEW t \in Seq(Entry(n)), NEW cl, Justified(t, cl), NEW lit, NEW why \in DOMAIN cl, NEW level,
         lit \in ToSet(cl[why]), \A x \in ToSet(cl[why]) \ {lit} : -x \in Lits(t),
         NEW u, u = Assigned(t, lit, why, level), Assigned(t, lit, why, level) \in Seq(Entry(n))
  PROVE  Justified(u, cl)
<1> DEFINE e == [lit |-> lit, reason |-> why, level |-> level]
<1>1. e.lit = lit /\ e.reason = why
  OBVIOUS
<1>2. u = Append(t, e) /\ u \in Seq(Entry(n))
  BY DEF Assigned
<1> HIDE DEF e
<1>3. /\ Len(t) \in Nat /\ DOMAIN t = 1 .. Len(t) /\ DOMAIN u = 1 .. Len(t) + 1
      /\ u[Len(t) + 1] = e /\ \A i \in 1 .. Len(t) : u[i] = t[i]
  BY <1>2
<1> SUFFICES ASSUME NEW i \in 1 .. Len(t) + 1, u[i].reason # 0
             PROVE  /\ u[i].reason \in DOMAIN cl /\ u[i].lit \in ToSet(cl[u[i].reason])
                    /\ \A x \in ToSet(cl[u[i].reason]) \ {u[i].lit} : \E j \in 1 .. i - 1 : u[j].lit = -x
  BY <1>3 DEF Justified
<1>4. CASE i \in 1 .. Len(t)
  <2>1. i \in DOMAIN t /\ u[i] = t[i] /\ \A j \in 1 .. i - 1 : u[j] = t[j]
    BY <1>3, <1>4
  <2> QED BY <2>1 DEF Justified
<1>5. CASE i = Len(t) + 1
  <2>1. u[i].reason = why /\ u[i].lit = lit
    BY <1>1, <1>3, <1>5
  <2>2. \A x : -x \in Lits(t) => \E j \in 1 .. i - 1 : u[j].lit = -x
    BY <1>3, <1>5 DEF Lits
  <2> QED BY <2>1, <2>2
<1> QED BY <1>3, <1>4, <1>5

\* What follows from decisions holds for who agrees with them.
LEMMA Forced ==
  ASSUME NEW n \in Nat, NEW t, NEW lims, IsTrail(t, lims, n), NEW cl, Clauses(cl, n), Justified(t, cl),
         NEW m, Meets(m, n, cl), NEW p \in 0 .. Len(t), Agrees(m, t, p)
  PROVE  \A i \in 1 .. p : t[i].lit \in m
<1> DEFINE S == {i \in 1 .. p : t[i].lit \notin m}
<1>1. Len(t) \in Nat /\ DOMAIN t = 1 .. Len(t)
  BY EntryFacts
<1> SUFFICES ASSUME S # {} PROVE FALSE
  OBVIOUS
<1>2. S \in SUBSET Nat
  BY <1>1
<1>3. PICK i \in S : \A j \in S : i <= j
  <2> HIDE DEF S
  <2> QED BY <1>2, Least
<1>4. i \in 1 .. p /\ t[i].lit \notin m /\ i \in DOMAIN t
  BY <1>1, <1>3
<1>5. \A j \in 1 .. i - 1 : t[j].lit \in m
  BY <1>1, <1>3, <1>4
<1>6. t[i].reason # 0
  BY <1>4 DEF Agrees
<1>7. /\ t[i].reason \in DOMAIN cl
      /\ \A x \in ToSet(cl[t[i].reason]) \ {t[i].lit} : \E j \in 1 .. i - 1 : t[j].lit = -x
  BY <1>4, <1>6 DEF Justified
<1>8. PICK x \in ToSet(cl[t[i].reason]) : x \in m
  BY <1>7 DEF Meets, Satisfies
<1>9. -x \in m
  BY <1>4, <1>5, <1>7, <1>8
<1>10. x \in LitsUpTo(n)
  BY <1>7, <1>8, ClauseLits
<1> QED BY <1>8, <1>9, <1>10 DEF Meets

\* What the root has assigned is in every model.
LEMMA AtRoot ==
  ASSUME NEW n \in Nat, NEW t, NEW lims, IsTrail(t, lims, n), NEW cl, Clauses(cl, n), Justified(t, cl),
         NEW m, Meets(m, n, cl), NEW i \in DOMAIN t, t[i].level = 0
  PROVE  t[i].lit \in m
<1>1. Len(t) \in Nat /\ DOMAIN t = 1 .. Len(t) /\ DOMAIN lims = 1 .. Len(lims) /\ Len(lims) \in Nat
      /\ (\A k \in 1 .. Len(lims) : lims[k] \in Nat) /\ i \in 1 .. Len(t)
  BY EntryFacts
<1>2. ASSUME NEW j \in 1 .. i, t[j].reason = 0 PROVE FALSE
  <2>1. j \in DOMAIN t
    BY <1>1
  <2>2. PICK k \in DOMAIN lims : j = lims[k] + 1
    BY <1>2, <2>1 DEF IsTrail
  <2>3. k <= t[j].level
    BY <1>1, <2>1, <2>2 DEF IsTrail
  <2>4. t[j].level <= t[i].level
    BY <1>1, <2>1, LevelsGrow
  <2>5. t[j].level \in Nat
    BY <1>1, <2>1, EntryFacts
  <2> QED BY <1>1, <2>2, <2>3, <2>4, <2>5
<1>3. Agrees(m, t, i)
  BY <1>2 DEF Agrees
<1>4. i \in 0 .. Len(t) /\ i \in 1 .. i
  BY <1>1
<1> QED BY <1>3, <1>4, Forced

\* Behind p all decisions were flipped: who agrees so far agrees with all.
LEMMA AllFlipped ==
  ASSUME NEW n \in Nat, NEW t, NEW lims, IsTrail(t, lims, n), NEW fl, NEW ms, Tried(t, lims, fl, ms),
         NEW m \in ms, NEW p \in 0 .. Len(t), Agrees(m, t, p),
         \A k \in DOMAIN lims : lims[k] >= p => fl[k]
  PROVE  Agrees(m, t, Len(t))
<1> DEFINE S == {i \in 1 .. Len(t) : t[i].reason = 0 /\ t[i].lit \notin m}
<1>1. Len(t) \in Nat /\ DOMAIN t = 1 .. Len(t) /\ DOMAIN lims = 1 .. Len(lims) /\ Len(lims) \in Nat
      /\ (\A k \in 1 .. Len(lims) : lims[k] \in Nat)
  BY EntryFacts
<1> SUFFICES ASSUME S # {} PROVE FALSE
  BY DEF Agrees
<1>2. S \in SUBSET Nat
  BY <1>1
<1>3. PICK i \in S : \A j \in S : i <= j
  <2> HIDE DEF S
  <2> QED BY <1>2, Least
<1>4. i \in 1 .. Len(t) /\ t[i].reason = 0 /\ t[i].lit \notin m
  BY <1>3
<1>5. PICK k \in DOMAIN lims : i = lims[k] + 1
  BY <1>1, <1>4 DEF IsTrail
<1>6. lims[k] >= p
  BY <1>1, <1>4, <1>5 DEF Agrees
<1>7. Agrees(m, t, lims[k])
  BY <1>1, <1>3, <1>5 DEF Agrees
<1> QED BY <1>4, <1>5, <1>6, <1>7 DEF Tried

-----------------------------------------------------------------------------
(* The inductive invariant                                                 *)

Implied == \A m \in Models, i \in DOMAIN clauses : Satisfies(m, clauses[i])

Typed ==
  /\ config \in Problems /\ todo \in Seq(Seq(VLit)) /\ Clauses(clauses, config.num_vars)
  /\ original \subseteq DOMAIN clauses /\ unsat_at_root \in BOOLEAN
  /\ IsTrail(trail, trail_lim, config.num_vars) /\ Justified(trail, clauses)
  /\ head \in 0 .. Len(trail)
  /\ flipped \in Seq(BOOLEAN) /\ Len(flipped) = Len(trail_lim)
  /\ status \in {"new", "search", "SAT", "UNSAT", "TIMEOUT"}

Meaning ==
  /\ Implied
  /\ Tried(trail, trail_lim, flipped, Models)
  /\ unsat_at_root \/ status = "UNSAT" => Models = {}
  /\ status = "SAT" => Lits(trail) \in Models

\* The trail makes x false on the current level.
FalseHere(x) == \E i \in DOMAIN trail : trail[i].lit = -x /\ trail[i].level = Len(trail_lim)

Visiting ==
  /\ visiting = [lit |-> visiting.lit, left |-> visiting.left]
  /\ visiting.left # {} =>
       /\ status = "search" /\ falsified = 0
       /\ head # 0 /\ visiting.lit = -trail[head].lit /\ trail[head].level = Len(trail_lim)
       /\ visiting.left \subseteq watches[visiting.lit]

ConflictShape ==
  falsified # 0 =>
    /\ status = "search" /\ falsified \in DOMAIN clauses
    /\ \A x \in ToSet(clauses[falsified]) : -x \in Lits(trail)
    /\ \E x \in ToSet(clauses[falsified]) : FalseHere(x)

\* Every literal of the resolvent is false above the root, one of them here.
Resolving ==
  resolvent # {} =>
    /\ falsified # 0 /\ trail_lim # <<>> /\ resolvent \subseteq VLit
    /\ \A x \in resolvent : \E i \in DOMAIN trail : trail[i].lit = -x /\ trail[i].level > 0
    /\ \E x \in resolvent : FalseHere(x)
    /\ \A m \in Models : resolvent \intersect m # {}

Working ==
  /\ \A k \in DOMAIN trail_lim : trail_lim[k] <= head
  /\ status \notin {"search", "UNSAT"} => head = Len(trail)
  /\ Visiting /\ ConflictShape /\ Resolving

WatchedBy(cl, lit) == {i \in DOMAIN cl : Len(cl[i]) >= 2 /\ lit \in {cl[i][1], cl[i][2]}}

Listed == DOMAIN watches = Lit /\ \A lit \in Lit : watches[lit] = WatchedBy(clauses, lit)

\* Where entry p makes one watch of c false, the other is true, and was before p
\* or on its level.
Covers(t, p, x, y) == t[p].lit = -x => \E q \in DOMAIN t : t[q].lit = y /\ t[q].level <= t[p].level
Minded(t, p, c) == Covers(t, p, c[1], c[2]) /\ Covers(t, p, c[2], c[1])

\* The entries of the trail that clause i has been visited for.
Done(p, i) ==
  IF falsified = 0 THEN p <= head /\ ~(p = head /\ i \in visiting.left)
  ELSE \E k \in DOMAIN trail_lim : p <= trail_lim[k]

Minding ==
  status # "UNSAT" =>
    \A i \in DOMAIN clauses : Len(clauses[i]) >= 2 =>
      \A p \in DOMAIN trail : Done(p, i) => Minded(trail, p, clauses[i])

\* What no watch looks after: clauses of one literal, and the empty one.
Unwatched ==
  /\ status = "search" => ~unsat_at_root /\ \A i \in UnitClauses :
       \E q \in DOMAIN trail : trail[q].lit = clauses[i][1] /\ trail[q].level = 0
  /\ \A i \in DOMAIN clauses : Len(clauses[i]) = 0 => unsat_at_root
  /\ config.build = "python" /\ status = "UNSAT" => unsat_at_root

CdclInv == Typed /\ Meaning /\ Working /\ Listed /\ Minding /\ Unwatched

-----------------------------------------------------------------------------

LEMMA NumVars ==
  ASSUME config \in Problems
  PROVE  config.num_vars \in Nat /\ VLit \subseteq Lit /\ config.clauses \in Seq(Seq(VLit))
<1>1. /\ config.num_vars \in Nat /\ 1 .. config.num_vars \subseteq Var
      /\ config.clauses \in Seq(Seq(LitsUpTo(config.num_vars)))
  BY ProblemsAssumption
<1> QED BY <1>1 DEF VLit, LitsUpTo, Lit

LEMMA ModelMeets ==
  ASSUME config \in Problems, Implied, NEW m \in Models
  PROVE  Meets(m, config.num_vars, clauses)
<1>1. m \in Assignments[config.num_vars]
  BY ModelsAre
<1>2. \A x \in LitsUpTo(config.num_vars) : x \in m <=> -x \notin m
  BY <1>1, OneSign DEF VLit
<1> QED BY <1>2 DEF Meets, Implied

LEMMA MindedCut ==
  ASSUME NEW n \in Nat, NEW t, NEW lims, IsTrail(t, lims, n), NEW level \in 0 .. Len(lims),
         NEW u, u = SubSeq(t, 1, Kept(t, lims, level)), NEW p \in 1 .. Kept(t, lims, level), NEW c,
         Minded(t, p, c)
  PROVE  Minded(u, p, c)
<1> DEFINE kept == Kept(t, lims, level)
<1>1. /\ kept \in 0 .. Len(t) /\ Len(u) = kept /\ \A i \in 1 .. kept : u[i] = t[i]
      /\ \A i \in 1 .. Len(t) : i <= kept <=> t[i].level <= level
      /\ Len(t) \in Nat /\ DOMAIN t = 1 .. Len(t) /\ DOMAIN u = 1 .. Len(u)
      /\ \A i \in 1 .. Len(t) : t[i].level \in Nat
  <2>1. /\ kept \in 0 .. Len(t) /\ Len(u) = kept /\ \A i \in 1 .. kept : u[i] = t[i]
        /\ \A i \in 1 .. Len(t) : i <= kept <=> t[i].level <= level
        /\ IsTrail(u, SubSeq(lims, 1, level), n)
    BY CutTrail
  <2>2. DOMAIN u = 1 .. Len(u)
    BY <2>1, EntryFacts
  <2>3. Len(t) \in Nat /\ DOMAIN t = 1 .. Len(t) /\ \A i \in 1 .. Len(t) : t[i].level \in Nat
    BY EntryFacts
  <2> QED BY <2>1, <2>2, <2>3
<1> HIDE DEF kept
<1>2. p \in 1 .. kept
  BY DEF kept
<1>3. level \in Nat
  BY EntryFacts
<1>4. ASSUME NEW x, NEW y, Covers(t, p, x, y) PROVE Covers(u, p, x, y)
  <2> SUFFICES ASSUME u[p].lit = -x PROVE \E q \in DOMAIN u : u[q].lit = y /\ u[q].level <= u[p].level
    BY DEF Covers
  <2>1. PICK q \in DOMAIN t : t[q].lit = y /\ t[q].level <= t[p].level
    BY <1>1, <1>2, <1>4 DEF Covers
  <2>2. p \in 1 .. Len(t) /\ t[p].level <= level
    BY <1>1, <1>2
  <2>3. q \in 1 .. kept
    BY <1>1, <1>3, <2>1, <2>2
  <2> QED BY <1>1, <1>2, <2>1, <2>3
<1> QED BY <1>4 DEF Minded

LEMMA MindedMore ==
  ASSUME NEW t, NEW u, DOMAIN t \subseteq DOMAIN u, \A i \in DOMAIN t : u[i] = t[i],
         NEW p \in DOMAIN t, NEW c, Minded(t, p, c)
  PROVE  Minded(u, p, c)
<1>1. ASSUME NEW x, NEW y, Covers(t, p, x, y) PROVE Covers(u, p, x, y)
  BY <1>1 DEF Covers
<1> QED BY <1>1 DEF Minded

-----------------------------------------------------------------------------
(* Propagation: a literal is taken                                         *)

\* Facts about the trail that every step uses.
LEMMA Shape ==
  ASSUME Typed
  PROVE  /\ config.num_vars \in Nat /\ VLit \subseteq Lit
         /\ Len(trail) \in Nat /\ DOMAIN trail = 1 .. Len(trail) /\ trail \in Seq(Entry(config.num_vars))
         /\ Len(trail_lim) \in Nat /\ DOMAIN trail_lim = 1 .. Len(trail_lim)
         /\ \A i \in 1 .. Len(trail) :
              trail[i].lit \in VLit /\ trail[i].reason \in Nat /\ trail[i].level \in 0 .. Len(trail_lim)
         /\ \A k \in 1 .. Len(trail_lim) : trail_lim[k] \in Nat
         /\ head \in Nat /\ head <= Len(trail)
<1>1. IsTrail(trail, trail_lim, config.num_vars) /\ config \in Problems /\ head \in 0 .. Len(trail)
  BY DEF Typed
<1>2. config.num_vars \in Nat /\ VLit \subseteq Lit
  BY <1>1, NumVars
<1>3. trail \in Seq(Entry(config.num_vars))
  BY <1>1 DEF IsTrail
<1>4. /\ Len(trail) \in Nat /\ DOMAIN trail = 1 .. Len(trail)
      /\ Len(trail_lim) \in Nat /\ DOMAIN trail_lim = 1 .. Len(trail_lim)
      /\ \A i \in 1 .. Len(trail) :
           /\ trail[i].lit \in LitsUpTo(config.num_vars) /\ trail[i].reason \in Nat
           /\ trail[i].level \in 0 .. Len(trail_lim)
      /\ \A k \in 1 .. Len(trail_lim) : trail_lim[k] \in Nat
  BY <1>1, EntryFacts
<1> QED BY <1>1, <1>2, <1>3, <1>4 DEF VLit

\* Entries that wait for propagation are on the current level.
LEMMA WaitHere ==
  ASSUME Typed, \A k \in DOMAIN trail_lim : trail_lim[k] <= head, NEW p \in 1 .. Len(trail), head < p
  PROVE  trail[p].level = Len(trail_lim)
<1>1. p \in DOMAIN trail /\ trail[p].level \in 0 .. Len(trail_lim) /\ Len(trail_lim) \in Nat
  BY Shape
<1>2. CASE Len(trail_lim) = 0
  BY <1>1, <1>2
<1>3. CASE Len(trail_lim) # 0
  <2>1. Len(trail_lim) \in DOMAIN trail_lim /\ trail_lim[Len(trail_lim)] \in Nat /\ p \in Nat /\ head \in Nat
    BY <1>3, Shape
  <2>2. trail_lim[Len(trail_lim)] < p
    BY <2>1
  <2>3. Len(trail_lim) <= trail[p].level
    BY <1>1, <2>1, <2>2 DEF Typed, IsTrail
  <2> QED BY <1>1, <2>3
<1> QED BY <1>2, <1>3

LEMMA TakeLiteralStep ==
  ASSUME CdclInv, TakeLiteral
  PROVE  CdclInv'
<1> DEFINE n == config.num_vars
           p == head + 1
<1>1. Typed /\ Meaning /\ Working /\ Listed /\ Minding /\ Unwatched
  BY DEF CdclInv
<1>2. /\ status = "search" /\ falsified = 0 /\ visiting.left = {} /\ head < Len(trail)
      /\ visiting' = [lit |-> -trail[head + 1].lit, left |-> watches[-trail[head + 1].lit]]
      /\ head' = head + 1
      /\ config' = config /\ todo' = todo /\ clauses' = clauses /\ original' = original /\ watches' = watches
      /\ trail' = trail /\ trail_lim' = trail_lim /\ flipped' = flipped /\ falsified' = falsified
      /\ resolvent' = resolvent /\ unsat_at_root' = unsat_at_root /\ status' = status
  BY DEF TakeLiteral, Searching, db
<1>3. /\ config.num_vars \in Nat /\ VLit \subseteq Lit /\ Len(trail) \in Nat /\ DOMAIN trail = 1 .. Len(trail)
      /\ head \in Nat /\ p \in 1 .. Len(trail) /\ trail[p].lit \in VLit
      /\ \A k \in 1 .. Len(trail_lim) : trail_lim[k] \in Nat
      /\ DOMAIN trail_lim = 1 .. Len(trail_lim)
  BY <1>1, <1>2, Shape
<1>4. Typed'
  BY <1>1, <1>2, <1>3 DEF Typed, VLit
<1>5. Models' = Models
  BY <1>2, ModelsKept
<1>6. Meaning'
  BY <1>1, <1>2, <1>5 DEF Meaning, Implied
<1>7. -trail[p].lit \in VLit /\ -trail[p].lit \in Lit
  BY <1>3, Literal DEF VLit
<1>8. Working'
  <2>1. \A k \in DOMAIN trail_lim : trail_lim[k] <= head
    BY <1>1 DEF Working
  <2>2. trail[p].level = Len(trail_lim)
    BY <1>1, <1>3, <2>1, WaitHere
  <2>3. Visiting'
    BY <1>2, <1>3, <2>2 DEF Visiting
  <2>4. resolvent = {}
    BY <1>1, <1>2 DEF Working, Resolving
  <2> QED BY <1>2, <1>3, <2>1, <2>3, <2>4 DEF Working, ConflictShape, Resolving
<1>9. Listed'
  BY <1>1, <1>2 DEF Listed
<1>10. Minding'
  <2> SUFFICES ASSUME NEW i \in DOMAIN clauses, Len(clauses[i]) >= 2, NEW q \in DOMAIN trail, Done(q, i)'
               PROVE  Minded(trail, q, clauses[i])
    BY <1>2 DEF Minding
  <2>1. q <= p /\ ~(q = p /\ i \in watches[-trail[p].lit])
    BY <1>2 DEF Done
  <2>2. CASE q <= head
    <3>1. Done(q, i)
      BY <1>2, <2>2 DEF Done
    <3> QED BY <1>1, <1>2, <3>1 DEF Minding
  <2>3. CASE q = p
    <3>1. i \notin WatchedBy(clauses, -trail[p].lit)
      BY <1>1, <1>7, <2>1, <2>3 DEF Listed
    <3>2. clauses[i][1] # -trail[p].lit /\ clauses[i][2] # -trail[p].lit
      BY <3>1 DEF WatchedBy
    <3>3. clauses[i][1] \in VLit /\ clauses[i][2] \in VLit
      <4>1. Clauses(clauses, n)
        BY <1>1 DEF Typed
      <4>2. Len(clauses[i]) \in Nat /\ \A k \in 1 .. Len(clauses[i]) : clauses[i][k] \in LitsUpTo(n)
        BY <1>3, <4>1, ClauseLits
      <4>3. 1 \in 1 .. Len(clauses[i]) /\ 2 \in 1 .. Len(clauses[i])
        BY <4>2
      <4> QED BY <4>2, <4>3 DEF VLit
    <3>4. -(-clauses[i][1]) = clauses[i][1] /\ -(-clauses[i][2]) = clauses[i][2]
      BY <1>3, <3>3, Literal DEF VLit
    <3> QED BY <2>3, <3>2, <3>4 DEF Minded, Covers
  <2> QED BY <1>3, <2>1, <2>2, <2>3
<1>11. Unwatched'
  BY <1>1, <1>2 DEF Unwatched, UnitClauses
<1> QED BY <1>4, <1>6, <1>8, <1>9, <1>10, <1>11 DEF CdclInv

-----------------------------------------------------------------------------
(* Propagation: a clause is visited                                        *)

LEMMA SwappedClause ==
  ASSUME NEW S, NEW c \in Seq(S), IsInjective(c), NEW i \in 1 .. Len(c), NEW j \in 1 .. Len(c)
  PROVE  LET d == Swapped(c, i, j) IN
         /\ d \in Seq(S) /\ Len(d) = Len(c) /\ ToSet(d) = ToSet(c) /\ IsInjective(d)
         /\ d[i] = c[j] /\ d[j] = c[i] /\ \A k \in 1 .. Len(c) : k \notin {i, j} => d[k] = c[k]
<1> DEFINE d == Swapped(c, i, j)
<1>1. Len(c) \in Nat /\ DOMAIN c = 1 .. Len(c) /\ \A k \in 1 .. Len(c) : c[k] \in S
  OBVIOUS
<1>2. /\ DOMAIN d = 1 .. Len(c) /\ d[i] = c[j] /\ d[j] = c[i]
      /\ \A k \in 1 .. Len(c) : k \notin {i, j} => d[k] = c[k]
  BY <1>1 DEF Swapped
<1>3. \A k \in 1 .. Len(c) : d[k] \in S
  BY <1>1, <1>2
<1>4. d = [k \in 1 .. Len(c) |-> d[k]]
  BY <1>1 DEF Swapped
<1> HIDE DEF d
<1>5. d \in Seq(S) /\ Len(d) = Len(c)
  BY <1>1, <1>3, <1>4
<1>6. ToSet(d) = ToSet(c)
  <2>1. ASSUME NEW k \in 1 .. Len(c) PROVE d[k] \in ToSet(c) /\ c[k] \in ToSet(d)
    <3>1. CASE k \in {i, j}
      BY <1>1, <1>2, <3>1 DEF ToSet
    <3>2. CASE k \notin {i, j}
      BY <1>1, <1>2, <3>2 DEF ToSet
    <3> QED BY <3>1, <3>2
  <2> QED BY <1>1, <1>2, <2>1 DEF ToSet
<1>7. \A k, l \in 1 .. Len(c) : c[k] = c[l] => k = l
  BY <1>1 DEF IsInjective
<1>8. IsInjective(d)
  BY <1>1, <1>2, <1>7 DEF IsInjective
<1> QED BY <1>2, <1>5, <1>6, <1>8 DEF d

\* The clause with the literal that became false in the second place.
Turned(i) == IF clauses[i][1] = visiting.lit THEN Swapped(clauses[i], 1, 2) ELSE clauses[i]

LEMMA TurnedFacts ==
  ASSUME CdclInv, NEW i \in visiting.left
  PROVE  /\ i \in DOMAIN clauses /\ Turned(i) \in Seq(VLit) /\ Len(Turned(i)) = Len(clauses[i])
         /\ Len(clauses[i]) \in Nat /\ Len(clauses[i]) >= 2
         /\ ToSet(Turned(i)) = ToSet(clauses[i]) /\ IsInjective(Turned(i))
         /\ Turned(i)[2] = visiting.lit /\ Turned(i)[1] # Turned(i)[2]
         /\ {Turned(i)[1], Turned(i)[2]} = {clauses[i][1], clauses[i][2]}
         /\ \A p : Minded(trail, p, Turned(i)) <=> Minded(trail, p, clauses[i])
         /\ status = "search" /\ falsified = 0 /\ resolvent = {}
         /\ head \in 1 .. Len(trail) /\ trail[head].level = Len(trail_lim)
         /\ visiting.lit = -trail[head].lit /\ trail[head].lit = -visiting.lit
         /\ visiting.lit \in VLit
<1> DEFINE n == config.num_vars
           c == Turned(i)
<1>1. Typed /\ Working /\ Listed
  BY DEF CdclInv
<1>2. /\ status = "search" /\ falsified = 0 /\ head # 0 /\ visiting.lit = -trail[head].lit
      /\ trail[head].level = Len(trail_lim) /\ i \in watches[visiting.lit]
  BY <1>1 DEF Working, Visiting
<1>3. resolvent = {}
  BY <1>1, <1>2 DEF Working, Resolving
<1>4. head \in 1 .. Len(trail) /\ trail[head].lit \in VLit /\ n \in Nat /\ VLit \subseteq Lit
  BY <1>1, <1>2, Shape
<1>5. visiting.lit \in VLit /\ trail[head].lit = -visiting.lit
  BY <1>2, <1>4, Literal DEF VLit
<1>6. i \in DOMAIN clauses /\ Len(clauses[i]) >= 2 /\ visiting.lit \in {clauses[i][1], clauses[i][2]}
  BY <1>1, <1>2, <1>4, <1>5 DEF Listed, WatchedBy
<1>7. Clauses(clauses, n)
  BY <1>1 DEF Typed
<1>8. /\ clauses[i] \in Seq(VLit) /\ Len(clauses[i]) \in Nat
      /\ \A j, k \in 1 .. Len(clauses[i]) : clauses[i][j] = clauses[i][k] => j = k
  BY <1>4, <1>6, <1>7, ClauseLits DEF VLit
<1>9. IsInjective(clauses[i])
  BY <1>6, <1>7 DEF Clauses
<1>10. 1 \in 1 .. Len(clauses[i]) /\ 2 \in 1 .. Len(clauses[i])
  BY <1>6, <1>8
<1>11. clauses[i][1] # clauses[i][2]
  BY <1>8, <1>10
<1>12. CASE clauses[i][1] = visiting.lit
  <2>1. c = Swapped(clauses[i], 1, 2)
    BY <1>12 DEF Turned
  <2>2. /\ c \in Seq(VLit) /\ Len(c) = Len(clauses[i]) /\ ToSet(c) = ToSet(clauses[i]) /\ IsInjective(c)
        /\ c[1] = clauses[i][2] /\ c[2] = clauses[i][1]
    <3> DEFINE b == clauses[i]
               one == 1
               two == 2
    <3>1. /\ b \in Seq(VLit) /\ IsInjective(b)
          /\ one \in 1 .. Len(b) /\ two \in 1 .. Len(b) /\ c = Swapped(b, one, two)
      BY <1>8, <1>9, <1>10, <2>1
    <3> HIDE DEF b, one, two
    <3>2. /\ c \in Seq(VLit) /\ Len(c) = Len(b) /\ ToSet(c) = ToSet(b) /\ IsInjective(c)
          /\ c[one] = b[two] /\ c[two] = b[one]
      BY <3>1, SwappedClause
    <3> QED BY <3>2 DEF b, one, two
  <2>3. \A p : Minded(trail, p, c) <=> Minded(trail, p, clauses[i])
    BY <2>2 DEF Minded
  <2> QED BY <1>2, <1>3, <1>4, <1>5, <1>6, <1>8, <1>11, <1>12, <2>2, <2>3
<1>13. CASE clauses[i][1] # visiting.lit
  <2>1. c = clauses[i]
    BY <1>13 DEF Turned
  <2> QED BY <1>2, <1>3, <1>4, <1>5, <1>6, <1>8, <1>9, <1>11, <1>13, <2>1
<1> QED BY <1>12, <1>13

\* A clause is rearranged.
LEMMA Rearranged ==
  ASSUME CdclInv, NEW i \in DOMAIN clauses, NEW d \in Seq(VLit), Len(d) = Len(clauses[i]),
         Len(clauses[i]) >= 2, ToSet(d) = ToSet(clauses[i]), IsInjective(d),
         clauses' = [clauses EXCEPT ![i] = d], config' = config, original' = original
  PROVE  /\ Models' = Models /\ Implied' /\ Clauses(clauses', config.num_vars)
         /\ DOMAIN clauses' = DOMAIN clauses /\ UnitClauses' = UnitClauses
         /\ clauses'[i] = d /\ \A j \in DOMAIN clauses : j # i => clauses'[j] = clauses[j]
         /\ \A j \in DOMAIN clauses : Len(clauses'[j]) = Len(clauses[j]) /\ ToSet(clauses'[j]) = ToSet(clauses[j])
         /\ Justified(trail, clauses')
<1>1. /\ DOMAIN clauses' = DOMAIN clauses /\ clauses'[i] = d
      /\ \A j \in DOMAIN clauses : j # i => clauses'[j] = clauses[j]
  OBVIOUS
<1>2. \A j \in DOMAIN clauses : Len(clauses'[j]) = Len(clauses[j]) /\ ToSet(clauses'[j]) = ToSet(clauses[j])
  BY <1>1
<1>3. Typed /\ Meaning
  BY DEF CdclInv
<1>4. Models' = Models
  BY <1>2, <1>3, ModelsKept DEF Typed
<1>5. Implied'
  BY <1>1, <1>2, <1>3, <1>4 DEF Implied, Satisfies, Meaning
<1>6. Clauses(clauses', config.num_vars)
  <2>1. clauses \in Seq(Seq(VLit)) /\ \A j \in DOMAIN clauses : IsInjective(clauses[j])
    BY <1>3 DEF Typed, Clauses, VLit
  <2>2. d \in Seq(VLit)
    OBVIOUS
  <2>3. clauses' \in Seq(Seq(VLit))
    BY <2>1, <2>2
  <2>4. \A j \in DOMAIN clauses' : IsInjective(clauses'[j])
    BY <1>1, <2>1
  <2> QED BY <2>3, <2>4 DEF Clauses, VLit
<1>7. UnitClauses' = UnitClauses
  BY <1>1, <1>2 DEF UnitClauses
<1>8. Justified(trail, clauses')
  <2>1. Justified(trail, clauses)
    BY <1>3 DEF Typed
  <2> QED BY <1>1, <1>2, <2>1, JustifiedMore
<1> QED BY <1>1, <1>2, <1>4, <1>5, <1>6, <1>7, <1>8

LEMMA TriedMore ==
  ASSUME NEW n \in Nat, NEW t, NEW lims, IsTrail(t, lims, n), NEW u, DOMAIN t \subseteq DOMAIN u,
         \A i \in DOMAIN t : u[i] = t[i], NEW fl, NEW ms, Tried(t, lims, fl, ms)
  PROVE  Tried(u, lims, fl, ms)
<1>1. /\ Len(t) \in Nat /\ DOMAIN t = 1 .. Len(t) /\ DOMAIN lims = 1 .. Len(lims)
      /\ \A k \in 1 .. Len(lims) : lims[k] \in Nat
  BY EntryFacts
<1>2. \A k \in DOMAIN lims : lims[k] \in Nat /\ lims[k] < Len(t)
  BY <1>1 DEF IsTrail
<1> SUFFICES ASSUME NEW m \in ms, NEW k \in DOMAIN lims, fl[k], Agrees(m, u, lims[k])
             PROVE  u[lims[k] + 1].lit \in m
  BY DEF Tried
<1>3. /\ lims[k] + 1 \in DOMAIN t
      /\ \A j \in 1 .. lims[k] : j \in DOMAIN t
  BY <1>1, <1>2
<1>4. Agrees(m, t, lims[k])
  BY <1>3 DEF Agrees
<1> QED BY <1>3, <1>4 DEF Tried

\* A visit turns the clause and may extend the trail.
LEMMA VisitKeeps ==
  ASSUME CdclInv, NEW i \in DOMAIN clauses, NEW d \in Seq(VLit), Len(d) = Len(clauses[i]),
         Len(clauses[i]) >= 2, ToSet(d) = ToSet(clauses[i]), IsInjective(d),
         clauses' = [clauses EXCEPT ![i] = d], config' = config, todo' = todo, original' = original,
         trail_lim' = trail_lim, flipped' = flipped, unsat_at_root' = unsat_at_root, status' = status,
         status = "search", DOMAIN trail \subseteq DOMAIN trail', \A p \in DOMAIN trail : trail'[p] = trail[p],
         IsTrail(trail', trail_lim, config.num_vars), Justified(trail', clauses'), head' \in 0 .. Len(trail')
  PROVE  Typed' /\ Meaning' /\ Unwatched'
<1>1. Typed /\ Meaning /\ Unwatched
  BY DEF CdclInv
<1>2. /\ Models' = Models /\ Implied' /\ Clauses(clauses', config.num_vars)
      /\ DOMAIN clauses' = DOMAIN clauses /\ UnitClauses' = UnitClauses
      /\ clauses'[i] = d /\ (\A j \in DOMAIN clauses : j # i => clauses'[j] = clauses[j])
      /\ (\A j \in DOMAIN clauses : Len(clauses'[j]) = Len(clauses[j]))
  BY Rearranged
<1>3. Typed'
  BY <1>1, <1>2 DEF Typed, VLit
<1>4. Tried(trail', trail_lim, flipped, Models)
  <2>1. IsTrail(trail, trail_lim, config.num_vars) /\ config.num_vars \in Nat
    BY <1>1, Shape DEF Typed
  <2>2. Tried(trail, trail_lim, flipped, Models)
    BY <1>1 DEF Meaning
  <2> QED BY <2>1, <2>2, TriedMore
<1>5. Meaning'
  BY <1>1, <1>2, <1>4 DEF Meaning
<1>6. i \notin UnitClauses
  BY DEF UnitClauses
<1>7. Unwatched'
  <2>1. \A j \in DOMAIN clauses' : Len(clauses'[j]) = 0 => unsat_at_root'
    BY <1>1, <1>2 DEF Unwatched
  <2>2. ASSUME NEW j \in UnitClauses' 
        PROVE  \E q \in DOMAIN trail' : trail'[q].lit = clauses'[j][1] /\ trail'[q].level = 0
    <3>1. j \in UnitClauses /\ clauses'[j] = clauses[j]
      BY <1>2, <1>6, <2>2 DEF UnitClauses
    <3> QED BY <1>1, <3>1 DEF Unwatched
  <2> QED BY <1>1, <2>1, <2>2 DEF Unwatched
<1> QED BY <1>3, <1>5, <1>7

\* The lists are right for a clause whose two watches are the same.
LEMMA ListedKept ==
  ASSUME Listed, NEW i \in DOMAIN clauses, NEW d, Len(d) = Len(clauses[i]),
         {d[1], d[2]} = {clauses[i][1], clauses[i][2]},
         clauses' = [clauses EXCEPT ![i] = d], watches' = watches
  PROVE  Listed'
<1>1. /\ DOMAIN clauses' = DOMAIN clauses /\ clauses'[i] = d
      /\ \A j \in DOMAIN clauses : j # i => clauses'[j] = clauses[j]
  OBVIOUS
<1>2. ASSUME NEW lit PROVE WatchedBy(clauses', lit) = WatchedBy(clauses, lit)
  <2>1. ASSUME NEW j \in DOMAIN clauses
        PROVE  /\ Len(clauses'[j]) = Len(clauses[j])
               /\ lit \in {clauses'[j][1], clauses'[j][2]} <=> lit \in {clauses[j][1], clauses[j][2]}
    BY <1>1
  <2> QED BY <1>1, <2>1 DEF WatchedBy
<1> QED BY <1>2 DEF Listed

\* Entries in front of the one being propagated make nothing of the turned clause
\* new, the clause is minded there already.
LEMMA VisitMinded ==
  ASSUME CdclInv, NEW i \in visiting.left, NEW p \in 1 .. head, NEW j \in DOMAIN clauses,
         Len(clauses[j]) >= 2, p # head \/ j \notin visiting.left
  PROVE  Minded(trail, p, clauses[j])
<1>1. status = "search" /\ falsified = 0 /\ head \in 1 .. Len(trail)
  BY TurnedFacts
<1>2. Done(p, j)
  BY <1>1 DEF Done
<1>3. p \in DOMAIN trail
  BY <1>1, Shape DEF CdclInv
<1> QED BY <1>1, <1>2, <1>3 DEF CdclInv, Minding

\* The first watch is true, now or by this step: nothing is left to do for the clause.
LEMMA VisitedStep ==
  ASSUME CdclInv, NEW i \in visiting.left, clauses' = [clauses EXCEPT ![i] = Turned(i)],
         DOMAIN trail \subseteq DOMAIN trail', \A p \in DOMAIN trail : trail'[p] = trail[p],
         IsTrail(trail', trail_lim, config.num_vars), Justified(trail', clauses'),
         \E q \in DOMAIN trail' : trail'[q].lit = Turned(i)[1] /\ trail'[q].level <= Len(trail_lim),
         visiting' = [visiting EXCEPT !.left = @ \ {i}],
         config' = config, todo' = todo, original' = original, watches' = watches, trail_lim' = trail_lim,
         flipped' = flipped, head' = head, falsified' = falsified, resolvent' = resolvent,
         unsat_at_root' = unsat_at_root, status' = status
  PROVE  CdclInv'
<1> DEFINE c == Turned(i)
<1>1. /\ i \in DOMAIN clauses /\ c \in Seq(VLit) /\ Len(c) = Len(clauses[i])
      /\ Len(clauses[i]) \in Nat /\ Len(clauses[i]) >= 2
      /\ ToSet(c) = ToSet(clauses[i]) /\ IsInjective(c) /\ c[2] = visiting.lit /\ c[1] # c[2]
      /\ {c[1], c[2]} = {clauses[i][1], clauses[i][2]}
      /\ \A p : Minded(trail, p, c) <=> Minded(trail, p, clauses[i])
      /\ status = "search" /\ falsified = 0 /\ resolvent = {}
      /\ head \in 1 .. Len(trail) /\ trail[head].level = Len(trail_lim)
      /\ visiting.lit = -trail[head].lit /\ trail[head].lit = -visiting.lit /\ visiting.lit \in VLit
  BY TurnedFacts
<1> HIDE DEF c
<1>2. clauses' = [clauses EXCEPT ![i] = c]
  BY DEF c
<1>3. Typed /\ Working /\ Listed
  BY DEF CdclInv
<1>4. /\ config.num_vars \in Nat /\ Len(trail) \in Nat /\ DOMAIN trail = 1 .. Len(trail) /\ head \in Nat
      /\ DOMAIN trail' = 1 .. Len(trail') /\ Len(trail') \in Nat
      /\ Len(trail_lim) \in Nat /\ DOMAIN trail_lim = 1 .. Len(trail_lim)
  BY <1>3, Shape, EntryFacts
<1>5. head' \in 0 .. Len(trail') /\ head \in DOMAIN trail /\ trail'[head] = trail[head]
  <2>1. head \in DOMAIN trail
    BY <1>1, <1>4
  <2> QED BY <1>4, <2>1
<1>6. Typed' /\ Meaning' /\ Unwatched'
  BY <1>1, <1>2, <1>5, VisitKeeps
<1>7. Listed'
  BY <1>1, <1>2, <1>3, ListedKept
<1>8. visiting'.lit = visiting.lit /\ visiting'.left = visiting.left \ {i}
      /\ visiting' = [lit |-> visiting'.lit, left |-> visiting'.left]
  <2>1. visiting = [lit |-> visiting.lit, left |-> visiting.left]
    BY <1>3 DEF Working, Visiting
  <2> QED BY <2>1
<1>9. Working'
  <2>1. Visiting'
    BY <1>1, <1>3, <1>5, <1>8 DEF Working, Visiting
  <2> QED BY <1>1, <1>3, <2>1 DEF Working, ConflictShape, Resolving
<1>10. /\ DOMAIN clauses' = DOMAIN clauses /\ clauses'[i] = c
       /\ \A j \in DOMAIN clauses : j # i => clauses'[j] = clauses[j]
  BY <1>1, <1>2
<1>11. Minded(trail', head, c)
  <2>1. Covers(trail', head, c[1], c[2])
    <3>1. trail'[head].lit # -c[1]
      <4>1. c[1] \in VLit
        BY <1>1
      <4>2. -(-c[1]) = c[1]
        BY <1>4, <4>1, Literal DEF VLit
      <4> QED BY <1>1, <1>5, <4>2
    <3> QED BY <3>1 DEF Covers
  <2>2. Covers(trail', head, c[2], c[1])
    BY <1>1, <1>5 DEF Covers, c
  <2> QED BY <2>1, <2>2 DEF Minded
<1>12. Minding'
  <2> SUFFICES ASSUME NEW j \in DOMAIN clauses, Len(clauses'[j]) >= 2, NEW p \in DOMAIN trail', Done(p, j)'
               PROVE  Minded(trail', p, clauses'[j])
    BY <1>10 DEF Minding
  <2>1. p <= head /\ ~(p = head /\ j \in visiting.left \ {i}) /\ p \in 1 .. head
    BY <1>1, <1>4, <1>8 DEF Done
  <2>2. p \in DOMAIN trail
    BY <1>1, <1>4, <2>1
  <2>3. CASE j # i
    <3>1. p # head \/ j \notin visiting.left
      BY <2>1, <2>3
    <3>2. Minded(trail, p, clauses[j])
      BY <1>10, <2>1, <2>3, <3>1, VisitMinded
    <3> QED BY <1>10, <2>2, <2>3, <3>2, MindedMore
  <2>4. CASE j = i /\ p = head
    BY <1>10, <1>11, <2>4
  <2>5. CASE j = i /\ p # head
    <3>1. Minded(trail, p, clauses[i])
      BY <1>1, <2>1, <2>5, VisitMinded
    <3>2. Minded(trail, p, c)
      BY <1>1, <3>1
    <3> QED BY <1>10, <2>2, <2>5, <3>2, MindedMore
  <2> QED BY <2>3, <2>4, <2>5
<1> QED BY <1>6, <1>7, <1>9, <1>12 DEF CdclInv

LEMMA NoNewWatch ==
  ASSUME NEW c, Len(c) \in Nat, NewWatch(c) = {}
  PROVE  \A k \in 3 .. Len(c) : IsFalse(trail, c[k])
<1> DEFINE S == {k \in 3 .. Len(c) : ~IsFalse(trail, c[k])}
<1> SUFFICES ASSUME S # {} PROVE FALSE
  OBVIOUS
<1>1. S \in SUBSET Nat
  OBVIOUS
<1>2. PICK k \in S : \A j \in S : k <= j
  <2> HIDE DEF S
  <2> QED BY <1>1, Least
<1>3. k \in 3 .. Len(c) /\ ~IsFalse(trail, c[k])
  BY <1>2
<1>4. \A j \in 3 .. k - 1 : IsFalse(trail, c[j])
  BY <1>2, <1>3
<1> QED BY <1>3, <1>4 DEF NewWatch

\* The other literals are false when no new watch is found.
LEMMA OthersFalse ==
  ASSUME CdclInv, NEW i \in visiting.left, NewWatch(Turned(i)) = {},
         NEW x \in ToSet(Turned(i)), x # Turned(i)[1]
  PROVE  -x \in Lits(trail)
<1> DEFINE c == Turned(i)
<1>1. /\ c \in Seq(VLit) /\ c[2] = visiting.lit
      /\ head \in 1 .. Len(trail) /\ trail[head].lit = -visiting.lit
  BY TurnedFacts
<1> HIDE DEF c
<1>2. Len(c) \in Nat /\ DOMAIN c = 1 .. Len(c)
  BY <1>1
<1>3. PICK k \in 1 .. Len(c) : x = c[k]
  BY <1>2 DEF ToSet, c
<1>4. k # 1
  BY <1>3 DEF c
<1>5. CASE k = 2
  <2>1. head \in DOMAIN trail
    BY <1>1, Shape DEF CdclInv
  <2> QED BY <1>1, <1>3, <1>5, <2>1 DEF Lits
<1>6. CASE k \in 3 .. Len(c)
  BY <1>2, <1>3, <1>6, NoNewWatch DEF IsFalse, c
<1> QED BY <1>2, <1>4, <1>5, <1>6

LEMMA AssertedStep ==
  ASSUME CdclInv, NEW i \in visiting.left, ~IsTrue(trail, Turned(i)[1]), ~IsFalse(trail, Turned(i)[1]),
         NewWatch(Turned(i)) = {}, clauses' = [clauses EXCEPT ![i] = Turned(i)],
         trail' = Assigned(trail, Turned(i)[1], i, Len(trail_lim)),
         visiting' = [visiting EXCEPT !.left = @ \ {i}],
         config' = config, todo' = todo, original' = original, watches' = watches, trail_lim' = trail_lim,
         flipped' = flipped, head' = head, falsified' = falsified, resolvent' = resolvent,
         unsat_at_root' = unsat_at_root, status' = status
  PROVE  CdclInv'
<1> DEFINE c == Turned(i)
           lit == c[1]
           n == config.num_vars
<1>1. /\ i \in DOMAIN clauses /\ c \in Seq(VLit) /\ Len(c) = Len(clauses[i])
      /\ Len(clauses[i]) \in Nat /\ Len(clauses[i]) >= 2
      /\ ToSet(c) = ToSet(clauses[i]) /\ IsInjective(c)
  BY TurnedFacts
<1>2. Typed
  BY DEF CdclInv
<1>3. /\ n \in Nat /\ IsTrail(trail, trail_lim, n) /\ Clauses(clauses, n) /\ trail \in Seq(Entry(n))
      /\ Len(trail_lim) \in Nat
  BY <1>2, Shape DEF Typed
<1>4. i \in Nat \ {0}
  BY <1>1, <1>3 DEF Clauses
<1>5. lit \in LitsUpTo(n) /\ lit \in ToSet(c)
  BY <1>1 DEF VLit, ToSet
<1>6. lit \notin Lits(trail) /\ -lit \notin Lits(trail)
  BY DEF IsTrue, IsFalse
<1>7. \A x \in ToSet(c) \ {lit} : -x \in Lits(trail)
  BY OthersFalse
<1>8. Justified(trail, clauses') /\ clauses'[i] = c /\ i \in DOMAIN clauses'
  BY <1>1, Rearranged
<1> HIDE DEF c, lit, n
<1>9. trail' = Assigned(trail, lit, i, Len(trail_lim))
  BY DEF c, lit
<1>10. IsTrail(trail', trail_lim, n)
  BY <1>3, <1>4, <1>5, <1>6, <1>9, PushedTrail
<1>11. trail' \in Seq(Entry(n))
  BY <1>10 DEF IsTrail
<1>12. Justified(trail', clauses')
  BY <1>3, <1>5, <1>7, <1>8, <1>9, <1>11, JustifiedPush
<1> DEFINE e == [lit |-> lit, reason |-> i, level |-> Len(trail_lim)]
<1>13. e.lit = lit /\ e.level = Len(trail_lim)
  OBVIOUS
<1>14. e \in Entry(n) /\ trail' = Append(trail, e)
  BY <1>3, <1>4, <1>5, <1>9 DEF Entry, Assigned
<1> HIDE DEF e
<1>15. /\ DOMAIN trail \subseteq DOMAIN trail' /\ \A p \in DOMAIN trail : trail'[p] = trail[p]
       /\ Len(trail) + 1 \in DOMAIN trail' /\ trail'[Len(trail) + 1] = e
  BY <1>3, <1>14
<1>16. \E q \in DOMAIN trail' : trail'[q].lit = c[1] /\ trail'[q].level <= Len(trail_lim)
  BY <1>3, <1>13, <1>15 DEF lit
<1> QED BY <1>10, <1>12, <1>15, <1>16, VisitedStep DEF c, n

LEMMA ConflictStep ==
  ASSUME CdclInv, NEW i \in visiting.left, IsFalse(trail, Turned(i)[1]),
         NewWatch(Turned(i)) = {}, clauses' = [clauses EXCEPT ![i] = Turned(i)],
         falsified' = i, visiting' = NoVisit, head' = Len(trail), trail' = trail,
         config' = config, todo' = todo, original' = original, watches' = watches, trail_lim' = trail_lim,
         flipped' = flipped, resolvent' = resolvent,
         unsat_at_root' = unsat_at_root, status' = status
  PROVE  CdclInv'
<1> DEFINE c == Turned(i)
           n == config.num_vars
<1>1. /\ i \in DOMAIN clauses /\ c \in Seq(VLit) /\ Len(c) = Len(clauses[i])
      /\ Len(clauses[i]) \in Nat /\ Len(clauses[i]) >= 2
      /\ ToSet(c) = ToSet(clauses[i]) /\ IsInjective(c) /\ c[2] = visiting.lit
      /\ {c[1], c[2]} = {clauses[i][1], clauses[i][2]}
      /\ \A p : Minded(trail, p, c) <=> Minded(trail, p, clauses[i])
      /\ status = "search" /\ falsified = 0 /\ resolvent = {}
      /\ head \in 1 .. Len(trail) /\ trail[head].level = Len(trail_lim)
      /\ trail[head].lit = -visiting.lit
  BY TurnedFacts
<1>2. Typed /\ Working /\ Listed
  BY DEF CdclInv
<1>3. /\ n \in Nat /\ IsTrail(trail, trail_lim, n) /\ Clauses(clauses, n)
      /\ Len(trail) \in Nat /\ DOMAIN trail = 1 .. Len(trail) /\ head \in Nat /\ head <= Len(trail)
      /\ Len(trail_lim) \in Nat /\ DOMAIN trail_lim = 1 .. Len(trail_lim)
      /\ \A k \in 1 .. Len(trail_lim) : trail_lim[k] \in Nat
  BY <1>2, Shape DEF Typed
<1>4. Justified(trail, clauses') /\ clauses'[i] = c /\ DOMAIN clauses' = DOMAIN clauses
      /\ \A j \in DOMAIN clauses : j # i => clauses'[j] = clauses[j]
  BY <1>1, Rearranged
<1>5. \A x \in ToSet(c) : -x \in Lits(trail)
  BY OthersFalse DEF IsFalse
<1>6. FalseHere(c[2]) /\ c[2] \in ToSet(c)
  <2>1. head \in DOMAIN trail /\ 2 \in DOMAIN c
    BY <1>1, <1>3
  <2> QED BY <1>1, <2>1 DEF FalseHere, ToSet
<1> HIDE DEF c
<1>7. clauses' = [clauses EXCEPT ![i] = c]
  BY DEF c
<1>8. Typed' /\ Meaning' /\ Unwatched'
  <2>1. head' \in 0 .. Len(trail')
    BY <1>3
  <2>2. IsTrail(trail', trail_lim, n) /\ Justified(trail', clauses')
    BY <1>3, <1>4
  <2> QED BY <1>1, <1>7, <2>1, <2>2, VisitKeeps
<1>9. Listed'
  BY <1>1, <1>2, <1>7, ListedKept
<1>10. Working'
  <2>1. \A k \in DOMAIN trail_lim' : trail_lim'[k] <= head'
    BY <1>2, <1>3 DEF Working
  <2>2. Visiting'
    BY DEF Visiting, NoVisit
  <2>3. ConflictShape'
    BY <1>1, <1>4, <1>5, <1>6 DEF ConflictShape, FalseHere
  <2> QED BY <1>1, <2>1, <2>2, <2>3 DEF Working, Resolving
<1>11. Minding'
  <2>1. i # 0
    BY <1>1, <1>3 DEF Clauses
  <2> SUFFICES ASSUME NEW j \in DOMAIN clauses, Len(clauses'[j]) >= 2, NEW p \in DOMAIN trail, Done(p, j)'
               PROVE  Minded(trail, p, clauses'[j])
    BY <1>4 DEF Minding
  <2>2. PICK k \in DOMAIN trail_lim : p <= trail_lim[k]
    BY <2>1 DEF Done
  <2>3. p \in 1 .. head /\ p # head
    <3>1. trail_lim[k] <= head /\ trail_lim[k] \in Nat /\ k \in Nat /\ k <= Len(trail_lim)
      BY <1>2, <1>3 DEF Working
    <3>2. trail_lim[k] < head
      <4>1. head \in DOMAIN trail
        BY <1>1, <1>3
      <4>2. trail_lim[k] < head <=> k <= trail[head].level
        BY <1>3, <4>1 DEF IsTrail
      <4> QED BY <1>1, <3>1, <4>2
    <3> QED BY <1>3, <2>2, <3>1, <3>2
  <2>4. CASE j # i
    BY <1>4, <2>3, <2>4, VisitMinded
  <2>5. CASE j = i
    <3>1. Minded(trail, p, clauses[i])
      BY <1>1, <2>3, VisitMinded
    <3> QED BY <1>1, <1>4, <2>5, <3>1
  <2> QED BY <2>4, <2>5
<1> QED BY <1>8, <1>9, <1>10, <1>11 DEF CdclInv

\* The second literal changes places with a later one.
LEMMA SwappedSecond ==
  ASSUME NEW S, NEW c \in Seq(S), IsInjective(c), NEW k \in 3 .. Len(c)
  PROVE  LET swap == Swapped(c, 2, k) IN
         /\ swap \in Seq(S) /\ Len(swap) = Len(c) /\ ToSet(swap) = ToSet(c) /\ IsInjective(swap)
         /\ swap[2] = c[k] /\ swap[1] = c[1]
<1>1. Len(c) \in Nat
  OBVIOUS
<1>2. PICK two \in 1 .. Len(c) : two = 2
  BY <1>1
<1>3. PICK one \in 1 .. Len(c) : one = 1
  BY <1>1
<1>4. k \in 1 .. Len(c) /\ one \notin {two, k}
  BY <1>1, <1>2, <1>3
<1>5. LET swap == Swapped(c, two, k) IN
      /\ swap \in Seq(S) /\ Len(swap) = Len(c) /\ ToSet(swap) = ToSet(c) /\ IsInjective(swap)
      /\ swap[two] = c[k] /\ swap[one] = c[one]
  <2>1. c \in Seq(S) /\ IsInjective(c) /\ k \in 1 .. Len(c) /\ two \in 1 .. Len(c) /\ one \in 1 .. Len(c)
    BY <1>4
  <2> QED BY ONLY <2>1, <1>4, SwappedClause
<1> QED BY <1>2, <1>3, <1>5

\* The watch that became false moves on to another literal of the clause.
LEMMA MovedStep ==
  ASSUME CdclInv, NEW i \in visiting.left, ~IsTrue(trail, Turned(i)[1]), NEW k \in NewWatch(Turned(i)),
         clauses' = [clauses EXCEPT ![i] = Swapped(Turned(i), 2, k)],
         watches' = [watches EXCEPT ![visiting.lit] = @ \ {i}, ![Turned(i)[k]] = @ \union {i}],
         visiting' = [lit |-> visiting.lit, left |-> visiting.left \ {i}],
         config' = config, todo' = todo, original' = original, trail_lim' = trail_lim, trail' = trail,
         flipped' = flipped, head' = head, falsified' = falsified, resolvent' = resolvent,
         unsat_at_root' = unsat_at_root, status' = status
  PROVE  CdclInv'
<1> DEFINE c == Turned(i)
           d == Swapped(Turned(i), 2, k)
           n == config.num_vars
           x == visiting.lit
           y == Turned(i)[k]
<1>1. /\ i \in DOMAIN clauses /\ c \in Seq(VLit) /\ Len(c) = Len(clauses[i])
      /\ Len(clauses[i]) \in Nat /\ Len(clauses[i]) >= 2
      /\ ToSet(c) = ToSet(clauses[i]) /\ IsInjective(c) /\ c[2] = x /\ c[1] # c[2]
      /\ {c[1], c[2]} = {clauses[i][1], clauses[i][2]}
      /\ (\A p : Minded(trail, p, c) <=> Minded(trail, p, clauses[i]))
      /\ status = "search" /\ falsified = 0 /\ resolvent = {}
      /\ head \in 1 .. Len(trail) /\ trail[head].level = Len(trail_lim)
      /\ x = -trail[head].lit /\ trail[head].lit = -x /\ x \in VLit
  BY TurnedFacts
<1>2. Typed /\ Working /\ Listed
  BY DEF CdclInv
<1>3. /\ n \in Nat /\ VLit \subseteq Lit /\ IsTrail(trail, trail_lim, n) /\ Clauses(clauses, n)
      /\ Len(trail) \in Nat /\ DOMAIN trail = 1 .. Len(trail) /\ head \in Nat /\ head <= Len(trail)
      /\ Len(trail_lim) \in Nat /\ DOMAIN trail_lim = 1 .. Len(trail_lim)
  BY <1>2, Shape DEF Typed
<1>4. k \in 3 .. Len(c) /\ ~IsFalse(trail, y)
  BY DEF NewWatch
<1>5. k \in 1 .. Len(c) /\ 1 \in 1 .. Len(c) /\ 2 \in 1 .. Len(c) /\ k # 1 /\ k # 2
  BY <1>1, <1>4
<1>6. \A l, j \in 1 .. Len(c) : c[l] = c[j] => l = j
  BY <1>1 DEF IsInjective
<1>7. y \in VLit /\ y # c[1] /\ y # c[2]
  BY <1>1, <1>5, <1>6
<1>8. /\ d \in Seq(VLit) /\ Len(d) = Len(c) /\ ToSet(d) = ToSet(c) /\ IsInjective(d)
      /\ d[2] = y /\ d[1] = c[1]
  <2> HIDE DEF c
  <2> QED BY <1>1, <1>4, SwappedSecond DEF c
<1>9. clauses' = [clauses EXCEPT ![i] = d]
  OBVIOUS
<1>10. watches' = [watches EXCEPT ![x] = @ \ {i}, ![y] = @ \union {i}]
  OBVIOUS
<1>11. ~IsTrue(trail, c[1])
  OBVIOUS
<1>12. visiting'.lit = x /\ visiting'.left = visiting.left \ {i}
      /\ visiting' = [lit |-> visiting'.lit, left |-> visiting'.left]
  OBVIOUS
<1>13. y \notin {x} /\ visiting.lit = x
  BY <1>1, <1>7
<1> HIDE DEF c, d, x, y
<1>14. Typed' /\ Meaning' /\ Unwatched' /\ DOMAIN clauses' = DOMAIN clauses /\ clauses'[i] = d
       /\ (\A j \in DOMAIN clauses : j # i => clauses'[j] = clauses[j])
  <2>1. Justified(trail, clauses') /\ DOMAIN clauses' = DOMAIN clauses /\ clauses'[i] = d
       /\ (\A j \in DOMAIN clauses : j # i => clauses'[j] = clauses[j])
    BY <1>1, <1>8, <1>9, Rearranged
  <2>2. IsTrail(trail', trail_lim, n) /\ Justified(trail', clauses') /\ head' \in 0 .. Len(trail')
    BY <1>3, <2>1
  <2>3. Typed' /\ Meaning' /\ Unwatched'
    BY <1>1, <1>8, <1>9, <2>2, VisitKeeps
  <2> QED BY <2>1, <2>3
<1>15. Listed'
  <2>1. DOMAIN watches = Lit /\ \A lit \in Lit : watches[lit] = WatchedBy(clauses, lit)
    BY <1>2 DEF Listed
  <2>2. x \in Lit /\ y \in Lit
    BY <1>1, <1>3, <1>7
  <2>3. /\ DOMAIN watches' = Lit /\ watches'[x] = watches[x] \ {i} /\ watches'[y] = watches[y] \union {i}
        /\ \A lit \in Lit : lit # x /\ lit # y => watches'[lit] = watches[lit]
    BY <1>10, <1>13, <2>1, <2>2
  <2>4. ASSUME NEW lit \in Lit PROVE watches'[lit] = WatchedBy(clauses', lit)
    <3>1. \A j \in DOMAIN clauses : j # i => (j \in WatchedBy(clauses', lit) <=> j \in WatchedBy(clauses, lit))
      BY <1>14 DEF WatchedBy
    <3>2. /\ i \in WatchedBy(clauses', lit) <=> lit \in {c[1], y}
          /\ i \in WatchedBy(clauses, lit) <=> lit \in {c[1], x}
      BY <1>1, <1>8, <1>14 DEF WatchedBy
    <3>3. WatchedBy(clauses', lit) \subseteq DOMAIN clauses /\ WatchedBy(clauses, lit) \subseteq DOMAIN clauses
      BY <1>14 DEF WatchedBy
    <3>4. watches[lit] = WatchedBy(clauses, lit)
      BY <2>1
    <3>5. c[1] # x /\ c[1] # y /\ x # y
      BY <1>1, <1>7
    <3>6. \A j : j \in watches'[lit] <=>
                 (j \in WatchedBy(clauses, lit) /\ ~(lit = x /\ j = i)) \/ (lit = y /\ j = i)
      BY ONLY <2>2, <2>3, <3>4, <3>5, <2>4
    <3>7. \A j : j \in watches'[lit] <=> j \in WatchedBy(clauses', lit)
      BY ONLY <1>1, <3>1, <3>2, <3>3, <3>5, <3>6
    <3> QED BY <3>7
  <2> QED BY <2>3, <2>4 DEF Listed
<1>16. Working'
  <2>1. \A j \in visiting'.left : j \in watches'[x]
    <3>1. visiting.left \subseteq watches[x] /\ x \in DOMAIN watches /\ y \in DOMAIN watches
      BY <1>1, <1>2, <1>3, <1>7, <1>13 DEF Working, Visiting, Listed
    <3>2. watches'[x] = watches[x] \ {i}
      BY <1>10, <1>13, <3>1
    <3> QED BY <1>12, <3>1, <3>2
  <2>2. Visiting'
    BY <1>1, <1>2, <1>12, <2>1 DEF Working, Visiting
  <2> QED BY <1>1, <1>2, <2>2 DEF Working, ConflictShape, Resolving
<1>17. Minding'
  <2> SUFFICES ASSUME NEW j \in DOMAIN clauses, Len(clauses'[j]) >= 2, NEW p \in DOMAIN trail, Done(p, j)'
               PROVE  Minded(trail, p, clauses'[j])
    BY <1>14 DEF Minding
  <2>1. p <= head /\ ~(p = head /\ j \in visiting.left \ {i}) /\ p \in 1 .. head
    BY <1>1, <1>3, <1>12 DEF Done
  <2>2. CASE j # i
    <3>1. p # head \/ j \notin visiting.left
      BY <2>1, <2>2
    <3> QED BY <1>14, <2>1, <2>2, <3>1, VisitMinded
  <2>3. CASE j = i
    <3>1. trail[p].lit # -y
      BY <1>4 DEF IsFalse, Lits, y
    <3>2. trail[p].lit # -c[1]
      <4>1. CASE p = head
        <5>1. c[1] \in VLit
          BY <1>1, <1>5
        <5>2. -(-c[1]) = c[1]
          BY <1>3, <5>1, Literal DEF VLit
        <5> QED BY <1>1, <4>1, <5>2
      <4>2. CASE p # head
        <5>1. Minded(trail, p, clauses[i])
          BY <1>1, <2>1, <4>2, VisitMinded
        <5>2. Covers(trail, p, c[1], c[2])
          BY <1>1, <5>1 DEF Minded
        <5>3. SUFFICES ASSUME trail[p].lit = -c[1] PROVE FALSE
          OBVIOUS
        <5>4. PICK q \in DOMAIN trail : trail[q].lit = x
          BY <1>1, <5>2, <5>3 DEF Covers
        <5>5. head \in DOMAIN trail /\ trail[q].lit = -trail[head].lit
          BY <1>1, <1>3, <5>4
        <5>6. q = head
          BY <1>3, <5>5 DEF IsTrail
        <5>7. x # -x
          BY <1>1, <1>3, Literal DEF VLit
        <5> QED BY <1>1, <5>4, <5>6, <5>7
      <4> QED BY <4>1, <4>2
    <3> QED BY <1>8, <1>14, <2>3, <3>1, <3>2 DEF Minded, Covers
  <2> QED BY <2>2, <2>3
<1> QED BY <1>14, <1>15, <1>16, <1>17 DEF CdclInv

LEMMA VisitStep ==
  ASSUME CdclInv, NEW i \in visiting.left, Visit(i)
  PROVE  CdclInv'
<1> DEFINE c == Turned(i)
           k == CHOOSE j \in NewWatch(Turned(i)) : TRUE
<1>1. /\ config' = config /\ todo' = todo /\ original' = original /\ trail_lim' = trail_lim
      /\ flipped' = flipped /\ resolvent' = resolvent /\ unsat_at_root' = unsat_at_root /\ status' = status
  BY DEF Visit
<1>2. visiting = [lit |-> visiting.lit, left |-> visiting.left]
  BY DEF CdclInv, Working, Visiting
<1>3. Typed
  BY DEF CdclInv
<1>4. CASE /\ IsTrue(trail, c[1]) /\ clauses' = [clauses EXCEPT ![i] = c]
           /\ visiting' = [visiting EXCEPT !.left = @ \ {i}]
           /\ UNCHANGED <<watches, trail, head, falsified>>
  <2>1. IsTrail(trail', trail_lim, config.num_vars) /\ DOMAIN trail \subseteq DOMAIN trail'
        /\ \A p \in DOMAIN trail : trail'[p] = trail[p]
    BY <1>3, <1>4 DEF Typed
  <2>2. Justified(trail', clauses')
    <3>1. Justified(trail, [clauses EXCEPT ![i] = c])
      <4>1. /\ i \in DOMAIN clauses /\ ToSet(c) = ToSet(clauses[i])
        BY TurnedFacts
      <4>2. \A j \in DOMAIN clauses : /\ j \in DOMAIN [clauses EXCEPT ![i] = c]
                                      /\ ToSet([clauses EXCEPT ![i] = c][j]) = ToSet(clauses[j])
        BY <4>1
      <4>3. Justified(trail, clauses)
        BY <1>3 DEF Typed
      <4> QED BY <4>2, <4>3, JustifiedMore
    <3> QED BY <1>4, <3>1
  <2>3. \E q \in DOMAIN trail' : trail'[q].lit = Turned(i)[1] /\ trail'[q].level <= Len(trail_lim)
    BY <1>3, <1>4, Shape DEF IsTrue, Lits
  <2> QED BY <1>1, <1>4, <2>1, <2>2, <2>3, VisitedStep
<1>5. CASE /\ ~IsTrue(trail, c[1]) /\ NewWatch(c) # {}
           /\ clauses' = [clauses EXCEPT ![i] = Swapped(c, 2, k)]
           /\ watches' = [watches EXCEPT ![visiting.lit] = @ \ {i}, ![c[k]] = @ \union {i}]
           /\ visiting' = [visiting EXCEPT !.left = @ \ {i}]
           /\ UNCHANGED <<trail, head, falsified>>
  <2>1. k \in NewWatch(Turned(i))
    BY <1>5
  <2>2. visiting' = [lit |-> visiting.lit, left |-> visiting.left \ {i}]
    BY <1>2, <1>5
  <2> QED BY <1>1, <1>5, <2>1, <2>2, MovedStep
<1>6. CASE /\ ~IsTrue(trail, c[1]) /\ ~IsFalse(trail, c[1]) /\ NewWatch(c) = {}
           /\ clauses' = [clauses EXCEPT ![i] = c]
           /\ trail' = Assigned(trail, c[1], i, Len(trail_lim))
           /\ visiting' = [visiting EXCEPT !.left = @ \ {i}]
           /\ UNCHANGED <<watches, head, falsified>>
  BY <1>1, <1>6, AssertedStep
<1>7. CASE /\ IsFalse(trail, c[1]) /\ NewWatch(c) = {}
           /\ clauses' = [clauses EXCEPT ![i] = c]
           /\ falsified' = i /\ visiting' = NoVisit /\ head' = Len(trail)
           /\ UNCHANGED <<watches, trail>>
  BY <1>1, <1>7, ConflictStep
<1> QED BY <1>4, <1>5, <1>6, <1>7, Zenon DEF Visit, Turned

-----------------------------------------------------------------------------
(* Going back                                                              *)

\* What is left after going back to a level.
LEMMA BackShape ==
  ASSUME Typed, NEW level \in 0 .. Len(trail_lim), NEW back, back = Backtrack(level)
  PROVE  LET kept == Kept(trail, trail_lim, level)
         IN  /\ kept \in 0 .. Len(trail) /\ back.trail = SubSeq(trail, 1, kept)
             /\ Len(back.trail) = kept /\ DOMAIN back.trail = 1 .. kept
             /\ \A i \in 1 .. kept : i \in DOMAIN trail /\ back.trail[i] = trail[i]
             /\ \A i \in DOMAIN trail : i <= kept <=> trail[i].level <= level
             /\ back.lim = SubSeq(trail_lim, 1, level) /\ Len(back.lim) = level
             /\ \A k \in 1 .. level : back.lim[k] = trail_lim[k] /\ trail_lim[k] < kept
             /\ back.flipped \in Seq(BOOLEAN) /\ Len(back.flipped) = level
             /\ \A k \in 1 .. level : back.flipped[k] = flipped[k]
             /\ IsTrail(back.trail, back.lim, config.num_vars) /\ Justified(back.trail, clauses)
             /\ \A ms : Tried(trail, trail_lim, flipped, ms) => Tried(back.trail, back.lim, back.flipped, ms)
<1> DEFINE n == config.num_vars
           kept == Kept(trail, trail_lim, level)
<1>1. /\ n \in Nat /\ IsTrail(trail, trail_lim, n) /\ Justified(trail, clauses)
      /\ flipped \in Seq(BOOLEAN) /\ Len(flipped) = Len(trail_lim)
      /\ Len(trail) \in Nat /\ DOMAIN trail = 1 .. Len(trail) /\ Len(trail_lim) \in Nat
  BY Shape DEF Typed
<1>2. /\ back.trail = SubSeq(trail, 1, kept) /\ back.lim = SubSeq(trail_lim, 1, level)
      /\ back.flipped = SubSeq(flipped, 1, level)
  BY DEF Backtrack, Kept
<1> HIDE DEF kept
<1>3. /\ kept \in 0 .. Len(trail) /\ Len(back.trail) = kept /\ Len(back.lim) = level
      /\ (\A i \in 1 .. kept : back.trail[i] = trail[i])
      /\ (\A k \in 1 .. level : back.lim[k] = trail_lim[k] /\ trail_lim[k] < kept)
      /\ (\A i \in 1 .. Len(trail) : i <= kept <=> trail[i].level <= level)
      /\ IsTrail(back.trail, back.lim, n)
  BY <1>1, <1>2, CutTrail DEF kept
<1>4. DOMAIN back.trail = 1 .. kept
  BY <1>3, EntryFacts
<1>5. \A i \in 1 .. kept : i \in DOMAIN trail
  BY <1>1, <1>3
<1>6. /\ back.flipped \in Seq(BOOLEAN) /\ Len(back.flipped) = level
      /\ \A k \in 1 .. level : back.flipped[k] = flipped[k]
  <2>1. level \in Nat /\ level <= Len(flipped)
    BY <1>1
  <2> QED BY <1>1, <1>2, <2>1
<1>7. Justified(back.trail, clauses)
  BY <1>1, <1>3, <1>4, JustifiedPrefix
<1>8. ASSUME NEW ms, Tried(trail, trail_lim, flipped, ms)
      PROVE  Tried(back.trail, back.lim, back.flipped, ms)
  <2>1. kept \in Nat /\ DOMAIN back.lim = 1 .. level
    BY <1>1, <1>3, EntryFacts
  <2>2. \A k \in 1 .. level : k \in DOMAIN trail_lim /\ trail_lim[k] \in Nat /\ trail_lim[k] < kept
    BY <1>1, <1>3, EntryFacts
  <2>3. \A k \in 1 .. level : back.lim[k] = trail_lim[k] /\ back.flipped[k] = flipped[k]
    BY <1>3, <1>6
  <2>4. \A i \in 1 .. kept : back.trail[i] = trail[i]
    BY <1>3
  <2> SUFFICES ASSUME NEW m \in ms, NEW k \in 1 .. level, back.flipped[k], Agrees(m, back.trail, back.lim[k])
               PROVE  back.trail[back.lim[k] + 1].lit \in m
    BY <2>1 DEF Tried
  <2>5. k \in DOMAIN trail_lim /\ back.lim[k] = trail_lim[k] /\ flipped[k] /\ trail_lim[k] + 1 \in 1 .. kept
    BY <2>1, <2>2, <2>3
  <2>6. Agrees(m, trail, trail_lim[k])
    BY <2>1, <2>2, <2>4, <2>5 DEF Agrees
  <2>7. trail[trail_lim[k] + 1].lit \in m
    BY <1>8, <2>5, <2>6 DEF Tried
  <2> QED BY <2>4, <2>5, <2>7
<1> QED BY <1>1, <1>2, <1>3, <1>4, <1>5, <1>6, <1>7, <1>8 DEF kept

\* Going back leaves every clause minded: after a conflict the level in which
\* the propagation was broken off goes, otherwise nothing was left to visit.
LEMMA BackMinded ==
  ASSUME Typed, Working, Minding, status # "UNSAT", NEW level \in 0 .. Len(trail_lim),
         \/ falsified # 0 /\ level < Len(trail_lim)
         \/ falsified = 0 /\ visiting.left = {} /\ head = Len(trail),
         NEW back, back = Backtrack(level),
         NEW i \in DOMAIN clauses, Len(clauses[i]) >= 2, NEW p \in DOMAIN back.trail
  PROVE  Minded(back.trail, p, clauses[i])
<1> DEFINE n == config.num_vars
           kept == Kept(trail, trail_lim, level)
<1>1. /\ kept \in 0 .. Len(trail) /\ back.trail = SubSeq(trail, 1, kept) /\ DOMAIN back.trail = 1 .. kept
  BY BackShape
<1>2. /\ n \in Nat /\ IsTrail(trail, trail_lim, n) /\ Len(trail) \in Nat /\ DOMAIN trail = 1 .. Len(trail)
      /\ Len(trail_lim) \in Nat /\ DOMAIN trail_lim = 1 .. Len(trail_lim)
  BY Shape DEF Typed
<1>3. p \in 1 .. kept /\ p \in DOMAIN trail
  BY <1>1, <1>2
<1>4. Done(p, i)
  <2>1. CASE falsified # 0 /\ level < Len(trail_lim)
    <3>1. kept = trail_lim[level + 1] /\ level + 1 \in DOMAIN trail_lim
      BY <1>2, <2>1 DEF Kept
    <3>2. p <= trail_lim[level + 1]
      BY <1>3, <3>1
    <3> QED BY <2>1, <3>1, <3>2 DEF Done
  <2>2. CASE falsified = 0 /\ visiting.left = {} /\ head = Len(trail)
    BY <1>2, <1>3, <2>2 DEF Done
  <2> QED BY <2>1, <2>2
<1>5. Minded(trail, p, clauses[i])
  BY <1>3, <1>4 DEF Minding
<1> QED BY <1>1, <1>2, <1>3, <1>5, MindedCut

\* A step that ends without decisions, and with nothing under way.
LEMMA RootStep ==
  ASSUME CdclInv, config' = config, todo' = todo, clauses' = clauses, original' = original, watches' = watches,
         trail_lim' = <<>>, flipped' = <<>>, IsTrail(trail', <<>>, config.num_vars), Justified(trail', clauses),
         head' \in 0 .. Len(trail'), falsified' = 0, resolvent' = {},
         visiting' = [lit |-> visiting'.lit, left |-> {}], unsat_at_root' \in BOOLEAN,
         status' \in {"search", "TIMEOUT", "UNSAT"}, unsat_at_root => unsat_at_root',
         unsat_at_root' \/ status' = "UNSAT" => Models = {},
         status' = "TIMEOUT" => head' = Len(trail'),
         status' # "UNSAT" => \A i \in DOMAIN clauses : Len(clauses[i]) >= 2 =>
                                \A p \in 1 .. head' : Minded(trail', p, clauses[i]),
         status' = "search" => ~unsat_at_root' /\ \A i \in UnitClauses :
           \E q \in DOMAIN trail' : trail'[q].lit = clauses[i][1] /\ trail'[q].level = 0,
         config.build = "python" /\ status' = "UNSAT" => unsat_at_root'
  PROVE  CdclInv'
<1>1. Typed /\ Meaning /\ Listed /\ Unwatched
  BY DEF CdclInv
<1>2. Models' = Models
  BY <1>1, ModelsKept
<1>3. Typed'
  <2>1. <<>> \in Seq(BOOLEAN) /\ Len(<<>>) = 0
    OBVIOUS
  <2> QED BY <1>1, <2>1 DEF Typed, VLit
<1>4. Tried(trail', trail_lim', flipped', Models)
  BY DEF Tried
<1>5. Meaning'
  BY <1>1, <1>2, <1>4 DEF Meaning, Implied
<1>6. visiting'.left = {}
  OBVIOUS
<1>7. Working'
  <2>1. DOMAIN trail_lim' = {}
    OBVIOUS
  <2>2. Visiting'
    BY <1>6 DEF Visiting
  <2> QED BY <2>1, <2>2 DEF Working, ConflictShape, Resolving
<1>8. Listed'
  BY <1>1 DEF Listed
<1>9. Minding'
  <2> SUFFICES ASSUME status' # "UNSAT", NEW i \in DOMAIN clauses, Len(clauses[i]) >= 2,
                      NEW p \in DOMAIN trail', Done(p, i)'
               PROVE  Minded(trail', p, clauses[i])
    BY DEF Minding
  <2>1. p <= head'
    BY DEF Done
  <2>2. DOMAIN trail' = 1 .. Len(trail') /\ Len(trail') \in Nat
    BY EntryFacts
  <2>3. p \in 1 .. head'
    BY <2>1, <2>2
  <2> QED BY <2>3
<1>10. Unwatched'
  <2>1. UnitClauses' = UnitClauses
    BY DEF UnitClauses
  <2> QED BY <1>1, <2>1 DEF Unwatched
<1> QED BY <1>3, <1>5, <1>7, <1>8, <1>9, <1>10 DEF CdclInv

\* The root keeps what it has.
LEMMA RootKept ==
  ASSUME Typed, NEW t, t = Backtrack(0).trail, NEW q \in DOMAIN trail, trail[q].level = 0
  PROVE  q \in DOMAIN t /\ t[q] = trail[q]
<1> DEFINE kept == Kept(trail, trail_lim, 0)
<1>1. Len(trail) \in Nat /\ DOMAIN trail = 1 .. Len(trail) /\ 0 \in 0 .. Len(trail_lim)
  BY Shape
<1>2. PICK level \in 0 .. Len(trail_lim) : level = 0
  BY <1>1
<1>3. PICK back : back = Backtrack(level)
  OBVIOUS
<1>4. /\ Kept(trail, trail_lim, level) \in 0 .. Len(trail)
      /\ DOMAIN back.trail = 1 .. Kept(trail, trail_lim, level)
      /\ \A i \in 1 .. Kept(trail, trail_lim, level) : back.trail[i] = trail[i]
      /\ \A i \in DOMAIN trail : i <= Kept(trail, trail_lim, level) <=> trail[i].level <= level
  BY <1>3, BackShape
<1>5. q <= Kept(trail, trail_lim, level)
  BY <1>2, <1>4
<1>6. q \in 1 .. Kept(trail, trail_lim, level)
  BY <1>1, <1>4, <1>5
<1> QED BY <1>2, <1>3, <1>4, <1>6

LEMMA RootShape ==
  ASSUME Typed, NEW t, t = Backtrack(0).trail
  PROVE  IsTrail(t, <<>>, config.num_vars) /\ Justified(t, clauses) /\ Len(t) \in Nat /\ DOMAIN t = 1 .. Len(t)
<1>1. Len(trail_lim) \in Nat
  BY Shape
<1>2. PICK level \in 0 .. Len(trail_lim) : level = 0
  BY <1>1
<1>3. PICK back : back = Backtrack(level)
  OBVIOUS
<1>4. /\ IsTrail(back.trail, back.lim, config.num_vars) /\ Justified(back.trail, clauses)
      /\ Len(back.lim) = level
  BY <1>3, BackShape
<1>5. back.lim = <<>> /\ back.trail = t
  <2>1. back.lim \in Seq(Nat) /\ Len(back.lim) = 0
    BY <1>2, <1>4 DEF IsTrail
  <2> QED BY <1>2, <1>3, <2>1
<1>6. IsTrail(t, <<>>, config.num_vars)
  BY <1>4, <1>5
<1>7. Len(t) \in Nat /\ DOMAIN t = 1 .. Len(t)
  BY <1>6, EntryFacts
<1> QED BY <1>4, <1>5, <1>6, <1>7

LEMMA RootMinded ==
  ASSUME CdclInv, status # "UNSAT",
         \/ falsified # 0 /\ trail_lim # <<>>
         \/ falsified = 0 /\ visiting.left = {} /\ head = Len(trail),
         NEW t, t = Backtrack(0).trail
  PROVE  \A i \in DOMAIN clauses : Len(clauses[i]) >= 2 => \A p \in DOMAIN t : Minded(t, p, clauses[i])
<1>1. Typed /\ Working /\ Minding
  BY DEF CdclInv
<1>2. Len(trail_lim) \in Nat
  BY <1>1, Shape
<1>3. PICK level \in 0 .. Len(trail_lim) : level = 0
  BY <1>2
<1>4. PICK back : back = Backtrack(level)
  OBVIOUS
<1>5. \/ falsified # 0 /\ level < Len(trail_lim)
      \/ falsified = 0 /\ visiting.left = {} /\ head = Len(trail)
  <2>1. trail_lim # <<>> => Len(trail_lim) # 0
    BY <1>1 DEF Typed, IsTrail
  <2> QED BY <1>2, <1>3, <2>1
<1> SUFFICES ASSUME NEW i \in DOMAIN clauses, Len(clauses[i]) >= 2, NEW p \in DOMAIN t
             PROVE  Minded(t, p, clauses[i])
  OBVIOUS
<1>6. back.trail = t
  BY <1>3, <1>4
<1>7. p \in DOMAIN back.trail
  BY <1>6
<1>8. Minded(back.trail, p, clauses[i])
  BY <1>1, <1>4, <1>5, <1>7, BackMinded
<1> QED BY <1>6, <1>8

LEMMA NoEntries ==
  ASSUME NEW n, NEW cl
  PROVE  IsTrail(<<>>, <<>>, n) /\ Justified(<<>>, cl) /\ Len(<<>>) = 0
<1>1. <<>> \in Seq(Entry(n)) /\ <<>> \in Seq(Nat) /\ DOMAIN <<>> = {} /\ Len(<<>>) = 0
  OBVIOUS
<1> QED BY <1>1 DEF IsTrail, Justified

LEMMA RestartStep ==
  ASSUME CdclInv, Restart
  PROVE  CdclInv'
<1> DEFINE t == Backtrack(0).trail
<1>1. /\ status = "search" /\ falsified = 0 /\ visiting.left = {} /\ head = Len(trail)
      /\ trail' = t /\ trail_lim' = <<>> /\ flipped' = <<>> /\ head' = Len(trail')
      /\ config' = config /\ todo' = todo /\ clauses' = clauses /\ original' = original /\ watches' = watches
      /\ visiting' = visiting /\ falsified' = falsified /\ resolvent' = resolvent
      /\ unsat_at_root' = unsat_at_root /\ status' = status
  BY DEF Restart, Searching, Quiet, db
<1> HIDE DEF t
<1>2. t = Backtrack(0).trail
  BY DEF t
<1>3. Typed /\ Meaning /\ Working /\ Unwatched
  BY DEF CdclInv
<1>4. IsTrail(t, <<>>, config.num_vars) /\ Justified(t, clauses) /\ Len(t) \in Nat /\ DOMAIN t = 1 .. Len(t)
  BY <1>2, <1>3, RootShape
<1>5. \A i \in DOMAIN clauses : Len(clauses[i]) >= 2 => \A p \in DOMAIN t : Minded(t, p, clauses[i])
  BY <1>1, <1>2, RootMinded
<1>6. ASSUME NEW i \in UnitClauses
      PROVE  \E q \in DOMAIN t : t[q].lit = clauses[i][1] /\ t[q].level = 0
  <2>1. PICK q \in DOMAIN trail : trail[q].lit = clauses[i][1] /\ trail[q].level = 0
    BY <1>1, <1>3 DEF Unwatched
  <2>2. q \in DOMAIN t /\ t[q] = trail[q]
    BY <1>2, <1>3, <2>1, RootKept
  <2> QED BY <2>1, <2>2
<1>7. resolvent = {} /\ visiting = [lit |-> visiting.lit, left |-> {}]
  BY <1>1, <1>3 DEF Working, Resolving, Visiting
<1>8. unsat_at_root \in BOOLEAN /\ (unsat_at_root => Models = {}) /\ ~unsat_at_root
  BY <1>1, <1>3 DEF Typed, Meaning, Unwatched
<1> QED BY <1>1, <1>4, <1>5, <1>6, <1>7, <1>8, RootStep

LEMMA TimeOutStep ==
  ASSUME CdclInv, TimeOut
  PROVE  CdclInv'
<1> DEFINE t == IF config.build = "python" THEN Backtrack(0).trail ELSE <<>>
<1>1. /\ status = "search" /\ falsified # 0 /\ trail_lim # <<>>
      /\ trail' = t /\ trail_lim' = <<>> /\ flipped' = <<>> /\ head' = Len(trail')
      /\ config' = config /\ todo' = todo /\ clauses' = clauses /\ original' = original /\ watches' = watches
      /\ visiting' = NoVisit /\ falsified' = 0 /\ resolvent' = {}
      /\ unsat_at_root' = unsat_at_root /\ status' = "TIMEOUT"
  BY DEF TimeOut, InConflict, Answer, db
<1>2. Typed /\ Meaning /\ Unwatched
  BY DEF CdclInv
<1>3. /\ IsTrail(t, <<>>, config.num_vars) /\ Justified(t, clauses) /\ Len(t) \in Nat
      /\ \A i \in DOMAIN clauses : Len(clauses[i]) >= 2 => \A p \in 1 .. Len(t) : Minded(t, p, clauses[i])
  <2>1. CASE config.build = "python"
    <3> DEFINE u == Backtrack(0).trail
    <3>1. t = u
      BY <2>1
    <3> HIDE DEF u, t
    <3>2. u = Backtrack(0).trail
      BY DEF u
    <3>3. /\ IsTrail(u, <<>>, config.num_vars) /\ Justified(u, clauses)
          /\ Len(u) \in Nat /\ DOMAIN u = 1 .. Len(u)
      BY <1>2, <3>2, RootShape
    <3>4. \A i \in DOMAIN clauses : Len(clauses[i]) >= 2 => \A p \in DOMAIN u : Minded(u, p, clauses[i])
      BY <1>1, <3>2, RootMinded
    <3> QED BY <3>1, <3>3, <3>4
  <2>2. CASE config.build # "python"
    BY <2>2, NoEntries
  <2> QED BY <2>1, <2>2
<1> HIDE DEF t
<1>4. unsat_at_root \in BOOLEAN /\ (unsat_at_root => Models = {})
  BY <1>2 DEF Typed, Meaning
<1>5. visiting' = [lit |-> visiting'.lit, left |-> {}]
  BY <1>1 DEF NoVisit
<1> QED BY <1>1, <1>3, <1>4, <1>5, RootStep

-----------------------------------------------------------------------------
(* Decisions                                                               *)

\* A new level begins with a decision; if it counts as flipped, it is in every
\* model that agrees with the levels below.
LEMMA PushedDecision ==
  ASSUME NEW n \in Nat, NEW t, NEW lims, IsTrail(t, lims, n), NEW cl, Justified(t, cl),
         NEW fl \in Seq(BOOLEAN), Len(fl) = Len(lims), NEW ms, Tried(t, lims, fl, ms),
         NEW lit \in LitsUpTo(n), lit \notin Lits(t), -lit \notin Lits(t), NEW f \in BOOLEAN,
         f => \A m \in ms : Agrees(m, t, Len(t)) => lit \in m
  PROVE  LET u  == Assigned(t, lit, 0, Len(lims) + 1)
             ls == Append(lims, Len(t))
             g  == Append(fl, f)
         IN
         /\ IsTrail(u, ls, n) /\ Justified(u, cl) /\ Tried(u, ls, g, ms)
         /\ g \in Seq(BOOLEAN) /\ Len(g) = Len(ls) /\ Len(u) = Len(t) + 1
         /\ DOMAIN t \subseteq DOMAIN u /\ \A i \in DOMAIN t : u[i] = t[i]
         /\ \A k \in DOMAIN ls : ls[k] <= Len(t)
<1> DEFINE e == [lit |-> lit, reason |-> 0, level |-> Len(lims) + 1]
           u == Assigned(t, lit, 0, Len(lims) + 1)
           ls == Append(lims, Len(t))
           g == Append(fl, f)
<1>1. /\ Len(t) \in Nat /\ DOMAIN t = 1 .. Len(t) /\ DOMAIN lims = 1 .. Len(lims) /\ Len(lims) \in Nat
      /\ t \in Seq(Entry(n)) /\ lims \in Seq(Nat) /\ \A k \in 1 .. Len(lims) : lims[k] \in Nat
  BY EntryFacts DEF IsTrail
<1>2. e \in Entry(n) /\ e.lit = lit /\ e.reason = 0 /\ u = Append(t, e)
  BY <1>1 DEF Entry, Assigned
<1> HIDE DEF e, u
<1>3. /\ u \in Seq(Entry(n)) /\ Len(u) = Len(t) + 1 /\ DOMAIN u = 1 .. Len(t) + 1
      /\ u[Len(t) + 1] = e /\ \A i \in 1 .. Len(t) : u[i] = t[i]
  BY ONLY <1>1, <1>2
<1>4. /\ ls \in Seq(Nat) /\ Len(ls) = Len(lims) + 1 /\ DOMAIN ls = 1 .. Len(lims) + 1
      /\ ls[Len(lims) + 1] = Len(t) /\ \A k \in 1 .. Len(lims) : ls[k] = lims[k]
  BY <1>1
<1>5. /\ g \in Seq(BOOLEAN) /\ Len(g) = Len(fl) + 1 /\ g[Len(lims) + 1] = f
      /\ \A k \in 1 .. Len(lims) : g[k] = fl[k]
  BY <1>1
<1>6. IsTrail(u, ls, n)
  BY DecidedTrail DEF u
<1> HIDE DEF ls, g
<1>7. Justified(u, cl)
  <2> SUFFICES ASSUME NEW i \in 1 .. Len(t) + 1, u[i].reason # 0
               PROVE  /\ u[i].reason \in DOMAIN cl /\ u[i].lit \in ToSet(cl[u[i].reason])
                      /\ \A x \in ToSet(cl[u[i].reason]) \ {u[i].lit} : \E j \in 1 .. i - 1 : u[j].lit = -x
    BY <1>3 DEF Justified
  <2>1. i \in 1 .. Len(t)
    BY <1>1, <1>2, <1>3
  <2>2. i \in DOMAIN t /\ u[i] = t[i] /\ \A j \in 1 .. i - 1 : u[j] = t[j]
    BY <1>1, <1>3, <2>1
  <2> QED BY <2>2 DEF Justified
<1>8. \A k \in 1 .. Len(lims) : lims[k] < Len(t)
  BY <1>1 DEF IsTrail
<1>9. Tried(u, ls, g, ms)
  <2> SUFFICES ASSUME NEW m \in ms, NEW k \in 1 .. Len(lims) + 1, g[k], Agrees(m, u, ls[k])
               PROVE  u[ls[k] + 1].lit \in m
    BY <1>4 DEF Tried
  <2>1. CASE k = Len(lims) + 1
    <3>1. Agrees(m, t, Len(t))
      BY <1>1, <1>3, <1>4, <2>1 DEF Agrees
    <3>2. f
      BY <1>5, <2>1
    <3> QED BY <1>2, <1>3, <1>4, <2>1, <3>1, <3>2
  <2>2. CASE k \in 1 .. Len(lims)
    <3>1. ls[k] = lims[k] /\ lims[k] \in Nat /\ lims[k] < Len(t) /\ fl[k] /\ k \in DOMAIN lims
      BY <1>1, <1>4, <1>5, <1>8, <2>2
    <3>2. lims[k] + 1 \in 1 .. Len(t) /\ \A j \in 1 .. lims[k] : j \in 1 .. Len(t)
      BY <1>1, <3>1
    <3>3. Agrees(m, t, lims[k])
      BY <1>3, <3>1, <3>2 DEF Agrees
    <3> QED BY <1>3, <3>1, <3>2, <3>3 DEF Tried
  <2> QED BY <1>1, <2>1, <2>2
<1>10. \A k \in DOMAIN ls : ls[k] <= Len(t)
  BY <1>1, <1>4, <1>8
<1> QED BY <1>1, <1>3, <1>4, <1>5, <1>6, <1>7, <1>9, <1>10 DEF u, ls, g

LEMMA DecisionStep ==
  ASSUME CdclInv, config' = config, todo' = todo, clauses' = clauses, original' = original, watches' = watches,
         unsat_at_root' = unsat_at_root, status' = status, status = "search",
         NEW t, NEW lims, IsTrail(t, lims, config.num_vars), Justified(t, clauses),
         NEW fl \in Seq(BOOLEAN), Len(fl) = Len(lims), Tried(t, lims, fl, Models),
         NEW lit \in VLit, lit \notin Lits(t), -lit \notin Lits(t), NEW f \in BOOLEAN,
         f => \A m \in Models : Agrees(m, t, Len(t)) => lit \in m,
         trail' = Assigned(t, lit, 0, Len(lims) + 1), trail_lim' = Append(lims, Len(t)), flipped' = Append(fl, f),
         head' = Len(t), falsified' = 0, resolvent' = {}, visiting' = [lit |-> visiting'.lit, left |-> {}],
         \A i \in DOMAIN clauses : Len(clauses[i]) >= 2 => \A p \in DOMAIN t : Minded(t, p, clauses[i]),
         \A i \in UnitClauses : \E q \in DOMAIN t : t[q].lit = clauses[i][1] /\ t[q].level = 0
  PROVE  CdclInv'
<1> DEFINE n == config.num_vars
<1>1. Typed /\ Meaning /\ Listed /\ Unwatched
  BY DEF CdclInv
<1>2. Models' = Models
  BY <1>1, ModelsKept
<1>3. n \in Nat /\ lit \in LitsUpTo(n)
  BY <1>1, Shape DEF VLit
<1>4. /\ IsTrail(trail', trail_lim', n) /\ Justified(trail', clauses) /\ Tried(trail', trail_lim', flipped', Models)
      /\ flipped' \in Seq(BOOLEAN) /\ Len(flipped') = Len(trail_lim') /\ Len(trail') = Len(t) + 1
      /\ DOMAIN t \subseteq DOMAIN trail' /\ (\A i \in DOMAIN t : trail'[i] = t[i])
      /\ \A k \in DOMAIN trail_lim' : trail_lim'[k] <= Len(t)
  <2>1. /\ IsTrail(t, lims, n) /\ Justified(t, clauses) /\ fl \in Seq(BOOLEAN) /\ Len(fl) = Len(lims)
        /\ Tried(t, lims, fl, Models) /\ lit \notin Lits(t) /\ -lit \notin Lits(t) /\ f \in BOOLEAN
        /\ f => \A m \in Models : Agrees(m, t, Len(t)) => lit \in m
        /\ trail' = Assigned(t, lit, 0, Len(lims) + 1) /\ trail_lim' = Append(lims, Len(t))
        /\ flipped' = Append(fl, f)
    OBVIOUS
  <2> HIDE DEF n
  <2> QED BY ONLY <1>3, <2>1, PushedDecision
<1>5. Len(t) \in Nat /\ DOMAIN t = 1 .. Len(t) /\ DOMAIN trail' = 1 .. Len(trail')
  BY <1>4, EntryFacts
<1>6. Typed'
  BY <1>1, <1>4, <1>5 DEF Typed, VLit
<1>7. Meaning'
  BY <1>1, <1>2, <1>4 DEF Meaning, Implied
<1>8. visiting'.left = {}
  OBVIOUS
<1>9. Working'
  <2>1. Visiting'
    BY <1>8 DEF Visiting
  <2> QED BY <1>4, <2>1 DEF Working, ConflictShape, Resolving
<1>10. Listed'
  BY <1>1 DEF Listed
<1>11. Minding'
  <2> SUFFICES ASSUME NEW i \in DOMAIN clauses, Len(clauses[i]) >= 2, NEW p \in DOMAIN trail', Done(p, i)'
               PROVE  Minded(trail', p, clauses[i])
    BY DEF Minding
  <2>1. p <= Len(t)
    BY DEF Done
  <2>2. p \in DOMAIN t
    BY <1>5, <2>1
  <2>3. Minded(t, p, clauses[i]) /\ DOMAIN t \subseteq DOMAIN trail' /\ \A q \in DOMAIN t : trail'[q] = t[q]
    BY <1>4, <2>2
  <2> QED BY ONLY <2>2, <2>3, MindedMore
<1>12. Unwatched'
  <2>1. UnitClauses' = UnitClauses
    BY DEF UnitClauses
  <2>2. ASSUME NEW i \in UnitClauses
        PROVE  \E q \in DOMAIN trail' : trail'[q].lit = clauses[i][1] /\ trail'[q].level = 0
    BY <1>4
  <2> QED BY <1>1, <2>1, <2>2 DEF Unwatched
<1> QED BY <1>6, <1>7, <1>9, <1>10, <1>11, <1>12 DEF CdclInv

LEMMA DecideStep ==
  ASSUME CdclInv, NEW lit, Decide(lit)
  PROVE  CdclInv'
<1> DEFINE n == config.num_vars
<1>1. /\ status = "search" /\ falsified = 0 /\ visiting.left = {} /\ head = Len(trail)
      /\ lit \in {-v : v \in Branching} \union (IF config.saving THEN Branching ELSE {})
      /\ trail' = Assigned(trail, lit, 0, Len(trail_lim) + 1)
      /\ trail_lim' = Append(trail_lim, Len(trail)) /\ flipped' = Append(flipped, FALSE)
      /\ config' = config /\ todo' = todo /\ clauses' = clauses /\ original' = original /\ watches' = watches
      /\ head' = head /\ visiting' = visiting /\ falsified' = falsified /\ resolvent' = resolvent
      /\ unsat_at_root' = unsat_at_root /\ status' = status
  BY DEF Decide, Searching, Quiet, db
<1>2. Typed /\ Meaning /\ Working /\ Minding /\ Unwatched
  BY DEF CdclInv
<1>3. /\ n \in Nat /\ Len(trail) \in Nat /\ DOMAIN trail = 1 .. Len(trail)
  BY <1>2, Shape
<1>4. Branching \subseteq Unassigned
  BY DEF Branching
<1>5. \E v \in Unassigned : lit = v \/ lit = -v
  BY <1>1, <1>4
<1>6. PICK v \in Unassigned : lit = v \/ lit = -v
  BY <1>5
<1>7. v \in 1 .. n /\ v \notin Lits(trail) /\ -v \notin Lits(trail)
  BY <1>6 DEF Unassigned
<1>8. lit \in VLit /\ lit \notin Lits(trail) /\ -lit \notin Lits(trail)
  <2>1. v \in Int /\ -(-v) = v
    BY <1>3, <1>7
  <2>2. v \in VLit /\ -v \in VLit
    BY <1>7 DEF VLit, LitsUpTo
  <2> QED BY <1>6, <1>7, <2>1, <2>2
<1>9. resolvent = {} /\ visiting = [lit |-> visiting.lit, left |-> {}]
  BY <1>1, <1>2 DEF Working, Resolving, Visiting
<1>10. \A i \in DOMAIN clauses : Len(clauses[i]) >= 2 => \A p \in DOMAIN trail : Minded(trail, p, clauses[i])
  <2> SUFFICES ASSUME NEW i \in DOMAIN clauses, Len(clauses[i]) >= 2, NEW p \in DOMAIN trail
               PROVE  Done(p, i)
    BY <1>1, <1>2 DEF Minding
  <2> QED BY <1>1, <1>3 DEF Done
<1>11. \A i \in UnitClauses : \E q \in DOMAIN trail : trail[q].lit = clauses[i][1] /\ trail[q].level = 0
  BY <1>1, <1>2 DEF Unwatched
<1>12. /\ IsTrail(trail, trail_lim, n) /\ Justified(trail, clauses) /\ flipped \in Seq(BOOLEAN)
       /\ Len(flipped) = Len(trail_lim) /\ Tried(trail, trail_lim, flipped, Models)
  BY <1>2 DEF Typed, Meaning
<1> QED BY <1>1, <1>8, <1>9, <1>10, <1>11, <1>12, DecisionStep

-----------------------------------------------------------------------------
(* Answers                                                                 *)

\* No model agrees with a trail that makes a clause false.
LEMMA FalsifiedBy ==
  ASSUME CdclInv, falsified # 0, NEW m \in Models, \A i \in DOMAIN trail : trail[i].lit \in m
  PROVE  FALSE
<1>1. Typed /\ Meaning /\ Working
  BY DEF CdclInv
<1>2. /\ falsified \in DOMAIN clauses /\ \A x \in ToSet(clauses[falsified]) : -x \in Lits(trail)
  BY <1>1 DEF Working, ConflictShape
<1>3. config \in Problems /\ Implied /\ Clauses(clauses, config.num_vars)
  BY <1>1 DEF Typed, Meaning
<1>4. Meets(m, config.num_vars, clauses)
  BY <1>3, ModelMeets
<1>5. PICK x \in ToSet(clauses[falsified]) : x \in m
  BY <1>2, <1>4 DEF Meets, Satisfies
<1>6. x \in LitsUpTo(config.num_vars)
  <2>1. config.num_vars \in Nat
    BY <1>3, NumVars
  <2> QED BY <1>2, <1>3, <1>5, <2>1, ClauseLits
<1>7. -x \in m
  BY <1>2, <1>5 DEF Lits
<1> QED BY <1>4, <1>5, <1>6, <1>7 DEF Meets

\* The search ends with an answer that is right.
LEMMA AnswerStep ==
  ASSUME CdclInv, config' = config, todo' = todo, clauses' = clauses, original' = original, watches' = watches,
         trail' = trail, trail_lim' = trail_lim, flipped' = flipped, head' = head,
         visiting' = NoVisit, falsified' = 0, resolvent' = {}, unsat_at_root' \in BOOLEAN,
         unsat_at_root => unsat_at_root',
         \/ status' = "UNSAT" /\ Models = {} /\ (config.build = "python" => unsat_at_root')
         \/ /\ status' = "SAT" /\ Lits(trail) \in Models /\ unsat_at_root' = unsat_at_root
            /\ status = "search" /\ falsified = 0 /\ visiting.left = {} /\ head = Len(trail)
  PROVE  CdclInv'
<1>1. Typed /\ Meaning /\ Working /\ Listed /\ Minding /\ Unwatched
  BY DEF CdclInv
<1>2. Models' = Models
  BY <1>1, ModelsKept
<1>3. Typed'
  BY <1>1 DEF Typed, VLit
<1>4. Meaning'
  BY <1>1, <1>2 DEF Meaning, Implied, Lits
<1>5. visiting' = [lit |-> visiting'.lit, left |-> visiting'.left] /\ visiting'.left = {}
  BY DEF NoVisit
<1>6. Working'
  <2>1. Visiting'
    BY <1>5 DEF Visiting
  <2> QED BY <1>1, <2>1 DEF Working, ConflictShape, Resolving
<1>7. Listed'
  BY <1>1 DEF Listed
<1>8. Minding'
  <2> SUFFICES ASSUME status' # "UNSAT", NEW i \in DOMAIN clauses, Len(clauses[i]) >= 2, NEW p \in DOMAIN trail, Done(p, i)'
               PROVE  Minded(trail, p, clauses[i])
    BY DEF Minding
  <2>1. Done(p, i) /\ status # "UNSAT"
    BY DEF Done
  <2> QED BY <1>1, <2>1 DEF Minding
<1>9. Unwatched'
  BY <1>1 DEF Unwatched
<1> QED BY <1>3, <1>4, <1>6, <1>7, <1>8, <1>9 DEF CdclInv

LEMMA RefuteStep ==
  ASSUME CdclInv, Refute
  PROVE  CdclInv'
<1>1. /\ falsified # 0 /\ trail_lim = <<>>
      /\ visiting' = NoVisit /\ falsified' = 0 /\ resolvent' = {} /\ status' = "UNSAT"
      /\ unsat_at_root' = (unsat_at_root \/ config.build = "python")
      /\ config' = config /\ todo' = todo /\ clauses' = clauses /\ original' = original /\ watches' = watches
      /\ trail' = trail /\ trail_lim' = trail_lim /\ flipped' = flipped /\ head' = head
  BY DEF Refute, InConflict, Answer, db
<1>2. Typed /\ Meaning
  BY DEF CdclInv
<1>3. Models = {}
  <2> SUFFICES ASSUME NEW m \in Models PROVE FALSE
    OBVIOUS
  <2>1. /\ config.num_vars \in Nat /\ IsTrail(trail, trail_lim, config.num_vars) /\ Clauses(clauses, config.num_vars)
        /\ Justified(trail, clauses) /\ Meets(m, config.num_vars, clauses)
    BY <1>2, Shape, ModelMeets DEF Typed, Meaning
  <2>2. \A i \in DOMAIN trail : trail[i].level = 0
    BY <1>1, <1>2, Shape
  <2>3. \A i \in DOMAIN trail : trail[i].lit \in m
    BY <2>1, <2>2, AtRoot
  <2> QED BY <1>1, <2>3, FalsifiedBy
<1>4. unsat_at_root \in BOOLEAN /\ unsat_at_root' \in BOOLEAN
  BY <1>1, <1>2 DEF Typed
<1> QED BY <1>1, <1>3, <1>4, AnswerStep

LEMMA ExhaustedStep ==
  ASSUME CdclInv, Exhausted
  PROVE  CdclInv'
<1>1. /\ falsified # 0 /\ Unflipped = {}
      /\ visiting' = NoVisit /\ falsified' = 0 /\ resolvent' = {} /\ status' = "UNSAT"
      /\ unsat_at_root' = (unsat_at_root \/ config.build = "python")
      /\ config' = config /\ todo' = todo /\ clauses' = clauses /\ original' = original /\ watches' = watches
      /\ trail' = trail /\ trail_lim' = trail_lim /\ flipped' = flipped /\ head' = head
  BY DEF Exhausted, InConflict, Answer, db
<1>2. Typed /\ Meaning
  BY DEF CdclInv
<1>3. Models = {}
  <2> SUFFICES ASSUME NEW m \in Models PROVE FALSE
    OBVIOUS
  <2>1. /\ config.num_vars \in Nat /\ IsTrail(trail, trail_lim, config.num_vars) /\ Clauses(clauses, config.num_vars)
        /\ Justified(trail, clauses) /\ Meets(m, config.num_vars, clauses)
        /\ Tried(trail, trail_lim, flipped, Models)
    BY <1>2, Shape, ModelMeets DEF Typed, Meaning
  <2>2. \A k \in DOMAIN trail_lim : flipped[k]
    <3>1. DOMAIN trail_lim = DOMAIN flipped
      BY <1>2, Shape DEF Typed
    <3> QED BY <1>1, <3>1 DEF Unflipped
  <2>3. Len(trail) \in Nat /\ DOMAIN trail = 1 .. Len(trail)
    BY <1>2, Shape
  <2>4. Agrees(m, trail, Len(trail))
    <3>1. PICK p \in 0 .. Len(trail) : p = 0
      BY <2>3
    <3>2. Agrees(m, trail, p)
      BY <3>1 DEF Agrees
    <3> QED BY <2>1, <2>2, <3>2, AllFlipped
  <2>5. \A i \in 1 .. Len(trail) : trail[i].lit \in m
    <3>0. Len(trail) \in 0 .. Len(trail)
      BY <2>3
    <3>1. PICK p \in 0 .. Len(trail) : p = Len(trail)
      BY <3>0, Zenon
    <3>2. Agrees(m, trail, p)
      BY <2>4, <3>1
    <3>3. \A i \in 1 .. p : trail[i].lit \in m
      BY <2>1, <3>2, Forced
    <3> QED BY <3>1, <3>3
  <2> QED BY <1>1, <2>3, <2>5, FalsifiedBy
<1>4. unsat_at_root \in BOOLEAN /\ unsat_at_root' \in BOOLEAN
  BY <1>1, <1>2 DEF Typed
<1> QED BY <1>1, <1>3, <1>4, AnswerStep

\* A trail that assigns every variable is one of the assignments.
LEMMA LitsTotal ==
  ASSUME Typed, Unassigned = {}
  PROVE  /\ Lits(trail) \in Assignments[config.num_vars]
         /\ \A x \in VLit : x \in Lits(trail) \/ -x \in Lits(trail)
<1> DEFINE n == config.num_vars
           true == {v \in 1 .. n : v \in Lits(trail)}
           m == {IF v \in true THEN v ELSE -v : v \in 1 .. n}
<1>1. /\ n \in Nat /\ DOMAIN trail = 1 .. Len(trail) /\ \A i \in DOMAIN trail : trail[i].lit \in VLit
      /\ n \in {pb.num_vars : pb \in Problems}
  BY Shape DEF Typed
<1>2. \A v \in 1 .. n : v \in Lits(trail) \/ -v \in Lits(trail)
  BY DEF Unassigned
<1>3. ASSUME NEW v \in 1 .. n, v \in Lits(trail), -v \in Lits(trail) PROVE FALSE
  <2>1. PICK i \in DOMAIN trail : trail[i].lit = v
    BY <1>3 DEF Lits
  <2>2. PICK j \in DOMAIN trail : trail[j].lit = -v
    BY <1>3 DEF Lits
  <2>3. v \in Int /\ v # -v
    BY <1>1
  <2>4. i = j
    BY <2>1, <2>2 DEF Typed, IsTrail
  <2> QED BY <2>1, <2>2, <2>3, <2>4
<1>4. \A x \in VLit : \E v \in 1 .. n : (x = v \/ x = -v) /\ v \in Int /\ -(-v) = v
  <2> SUFFICES ASSUME NEW x \in VLit PROVE \E v \in 1 .. n : (x = v \/ x = -v) /\ v \in Int /\ -(-v) = v
    OBVIOUS
  <2>1. \E v \in 1 .. n : x = v \/ x = -v
    BY DEF VLit, LitsUpTo
  <2>2. \A v \in 1 .. n : v \in Int /\ -(-v) = v
    BY <1>1
  <2> QED BY <2>1, <2>2
<1>5. m = Lits(trail)
  <2>1. ASSUME NEW x \in m PROVE x \in Lits(trail)
    BY <1>2
  <2>2. ASSUME NEW x \in Lits(trail) PROVE x \in m
    <3>1. x \in VLit
      BY <1>1 DEF Lits
    <3>2. PICK v \in 1 .. n : (x = v \/ x = -v) /\ v \in Int /\ -(-v) = v
      BY <1>4, <3>1
    <3>3. CASE x = v
      BY <2>2, <3>3
    <3>4. CASE x = -v
      <4>1. v \notin true
        BY <1>3, <2>2, <3>4
      <4> QED BY <3>4, <4>1
    <3> QED BY <3>2, <3>3, <3>4
  <2> QED BY <2>1, <2>2
<1>6. m \in {{IF v \in tr THEN v ELSE -v : v \in 1 .. n} : tr \in SUBSET (1 .. n)}
  OBVIOUS
<1>7. Assignments[n] = {{IF v \in tr THEN v ELSE -v : v \in 1 .. n} : tr \in SUBSET (1 .. n)}
  BY <1>1 DEF Assignments
<1>8. \A x \in VLit : x \in Lits(trail) \/ -x \in Lits(trail)
  BY <1>2, <1>4
<1> QED BY <1>5, <1>6, <1>7, <1>8

LEMMA ConcludeStep ==
  ASSUME CdclInv, Conclude
  PROVE  CdclInv'
<1> DEFINE n == config.num_vars
           said == IF \A i \in original : Satisfies(Lits(trail), clauses[i]) THEN "SAT" ELSE "internal error"
<1>1. /\ status = "search" /\ falsified = 0 /\ visiting.left = {} /\ head = Len(trail) /\ Unassigned = {}
      /\ visiting' = NoVisit /\ falsified' = 0 /\ resolvent' = {} /\ status' = said
      /\ unsat_at_root' = unsat_at_root
      /\ config' = config /\ todo' = todo /\ clauses' = clauses /\ original' = original /\ watches' = watches
      /\ trail' = trail /\ trail_lim' = trail_lim /\ flipped' = flipped /\ head' = head
  BY DEF Conclude, Searching, Quiet, Answer, db
<1> HIDE DEF said
<1>2. Typed /\ Meaning /\ Working /\ Minding /\ Unwatched
  BY DEF CdclInv
<1>3. /\ n \in Nat /\ Len(trail) \in Nat /\ DOMAIN trail = 1 .. Len(trail) /\ Clauses(clauses, n)
      /\ original \subseteq DOMAIN clauses /\ unsat_at_root \in BOOLEAN
  BY <1>2, Shape DEF Typed
<1>4. /\ Lits(trail) \in Assignments[n]
      /\ \A x \in VLit : x \in Lits(trail) \/ -x \in Lits(trail)
  BY <1>1, <1>2, LitsTotal
<1>5. ASSUME NEW i \in DOMAIN clauses PROVE Satisfies(Lits(trail), clauses[i])
  <2> DEFINE c == clauses[i]
  <2>1. /\ Len(c) \in Nat /\ \A k \in 1 .. Len(c) : c[k] \in VLit /\ c[k] \in ToSet(c)
    BY <1>3, ClauseLits DEF VLit
  <2>2. Len(c) # 0
    BY <1>1, <1>2 DEF Unwatched
  <2> HIDE DEF c
  <2>3. CASE Len(c) = 1
    <3>1. i \in UnitClauses /\ c[1] \in ToSet(c)
      BY <2>1, <2>3 DEF UnitClauses, c
    <3>2. c[1] \in Lits(trail)
      BY <1>1, <1>2, <3>1 DEF Unwatched, Lits, c
    <3> QED BY <3>1, <3>2 DEF Satisfies, c
  <2>4. CASE Len(c) >= 2
    <3> DEFINE x == c[1]
               y == c[2]
    <3>1. x \in VLit /\ x \in ToSet(c) /\ y \in ToSet(c)
      BY <2>1, <2>4
    <3>2. x \in Lits(trail) \/ -x \in Lits(trail)
      BY <1>4, <3>1
    <3>3. ASSUME -x \in Lits(trail) PROVE y \in Lits(trail)
      <4>1. PICK p \in DOMAIN trail : trail[p].lit = -x
        BY <3>3 DEF Lits
      <4>2. Done(p, i)
        BY <1>1, <1>3 DEF Done
      <4>3. Minded(trail, p, c)
        BY <1>1, <1>2, <2>4, <4>2 DEF Minding, c
      <4>4. \E q \in DOMAIN trail : trail[q].lit = y
        BY <4>1, <4>3 DEF Minded, Covers
      <4> QED BY <4>4 DEF Lits
    <3> QED BY <3>1, <3>2, <3>3 DEF Satisfies, c
  <2> QED BY <2>1, <2>2, <2>3, <2>4
<1>6. Lits(trail) \in Models
  BY <1>3, <1>4, <1>5 DEF Models
<1>7. status' = "SAT"
  BY <1>1, <1>3, <1>5 DEF said
<1> QED BY <1>1, <1>3, <1>6, <1>7, AnswerStep

-----------------------------------------------------------------------------
(* Chronological backtracking                                              *)

\* Going back keeps what the unit clauses have assigned.
LEMMA BackUnits ==
  ASSUME Typed, Unwatched, status = "search", NEW level \in 0 .. Len(trail_lim),
         NEW back, back = Backtrack(level), NEW i \in UnitClauses
  PROVE  \E q \in DOMAIN back.trail : back.trail[q].lit = clauses[i][1] /\ back.trail[q].level = 0
<1> DEFINE kept == Kept(trail, trail_lim, level)
<1>1. PICK q \in DOMAIN trail : trail[q].lit = clauses[i][1] /\ trail[q].level = 0
  BY DEF Unwatched
<1>2. /\ kept \in 0 .. Len(trail) /\ DOMAIN back.trail = 1 .. kept
      /\ (\A j \in 1 .. kept : back.trail[j] = trail[j])
      /\ \A j \in DOMAIN trail : j <= kept <=> trail[j].level <= level
  BY BackShape
<1>3. Len(trail) \in Nat /\ DOMAIN trail = 1 .. Len(trail) /\ Len(trail_lim) \in Nat
  BY Shape
<1> HIDE DEF kept
<1>4. q \in 1 .. kept
  BY <1>1, <1>2, <1>3
<1> QED BY <1>1, <1>2, <1>4

\* No model agrees with the deepest decision that was not flipped and with the
\* levels below it.
LEMMA DecisionWrong ==
  ASSUME CdclInv, falsified # 0, NEW level \in DOMAIN trail_lim, \A l \in Unflipped : l <= level,
         NEW m \in Models, Agrees(m, trail, trail_lim[level])
  PROVE  trail[trail_lim[level] + 1].lit \notin m
<1> DEFINE n == config.num_vars
<1> SUFFICES ASSUME trail[trail_lim[level] + 1].lit \in m PROVE FALSE
  OBVIOUS
<1>1. Typed /\ Meaning
  BY DEF CdclInv
<1>2. /\ n \in Nat /\ IsTrail(trail, trail_lim, n) /\ Clauses(clauses, n)
      /\ Justified(trail, clauses) /\ Meets(m, n, clauses) /\ Tried(trail, trail_lim, flipped, Models)
  BY <1>1, Shape, ModelMeets DEF Typed, Meaning
<1>3. /\ Len(trail) \in Nat /\ DOMAIN trail = 1 .. Len(trail)
      /\ Len(trail_lim) \in Nat /\ DOMAIN trail_lim = 1 .. Len(trail_lim) /\ DOMAIN flipped = DOMAIN trail_lim
      /\ \A k \in DOMAIN trail_lim : trail_lim[k] \in Nat /\ trail_lim[k] < Len(trail)
  <2>1. flipped \in Seq(BOOLEAN) /\ Len(flipped) = Len(trail_lim)
    BY <1>1 DEF Typed
  <2>2. \A k \in DOMAIN trail_lim : trail_lim[k] < Len(trail)
    BY <1>2 DEF IsTrail
  <2> QED BY <1>1, <2>1, <2>2, Shape
<1>4. PICK p \in 0 .. Len(trail) : p = trail_lim[level] + 1
  BY <1>3
<1>5. Agrees(m, trail, p)
  BY <1>3, <1>4 DEF Agrees
<1>6. ASSUME NEW k \in DOMAIN trail_lim, trail_lim[k] >= p PROVE flipped[k]
  <2>1. trail_lim[level] < trail_lim[k]
    BY <1>3, <1>4, <1>6
  <2>2. k > level
    <3>1. k < level => trail_lim[k] < trail_lim[level]
      BY <1>2 DEF IsTrail
    <3>2. k \in Nat /\ level \in Nat /\ trail_lim[k] \in Nat /\ trail_lim[level] \in Nat
      BY <1>3
    <3> QED BY <2>1, <3>1, <3>2
  <2>3. k \notin Unflipped
    BY <1>3, <2>2
  <2> QED BY <1>3, <2>3 DEF Unflipped
<1>7. Agrees(m, trail, Len(trail))
  BY <1>2, <1>5, <1>6, AllFlipped
<1>8. \A i \in 1 .. Len(trail) : trail[i].lit \in m
  <2>1. Len(trail) \in 0 .. Len(trail)
    BY <1>3
  <2>2. PICK q \in 0 .. Len(trail) : q = Len(trail)
    BY <2>1, Zenon
  <2>3. Agrees(m, trail, q)
    BY <1>7, <2>2
  <2>4. \A i \in 1 .. q : trail[i].lit \in m
    BY <1>2, <2>3, Forced
  <2> QED BY <2>2, <2>4
<1> QED BY <1>3, <1>8, FalsifiedBy

LEMMA FlipStep ==
  ASSUME CdclInv, Flip
  PROVE  CdclInv'
<1> DEFINE n == config.num_vars
<1>1. PICK level \in Unflipped :
        /\ \A l \in Unflipped : l <= level
        /\ trail' = Assigned(Backtrack(level - 1).trail, -trail[trail_lim[level] + 1].lit, 0, level)
        /\ trail_lim' = Append(Backtrack(level - 1).lim, Len(Backtrack(level - 1).trail))
        /\ flipped' = Append(Backtrack(level - 1).flipped, TRUE)
        /\ head' = Len(Backtrack(level - 1).trail)
  BY DEF Flip
<1>2. /\ status = "search" /\ falsified # 0 /\ resolvent = {} /\ visiting' = NoVisit /\ falsified' = 0
      /\ config' = config /\ todo' = todo /\ clauses' = clauses /\ original' = original /\ watches' = watches
      /\ resolvent' = resolvent /\ unsat_at_root' = unsat_at_root /\ status' = status
  BY DEF Flip, InConflict, db
<1>3. Typed /\ Meaning /\ Working /\ Minding /\ Unwatched
  BY DEF CdclInv
<1>4. /\ n \in Nat /\ IsTrail(trail, trail_lim, n) /\ Clauses(clauses, n)
      /\ Len(trail) \in Nat /\ DOMAIN trail = 1 .. Len(trail)
      /\ Len(trail_lim) \in Nat /\ DOMAIN trail_lim = 1 .. Len(trail_lim) /\ DOMAIN flipped = DOMAIN trail_lim
      /\ \A i \in 1 .. Len(trail) : trail[i].lit \in VLit
      /\ \A k \in DOMAIN trail_lim : trail_lim[k] \in Nat /\ trail_lim[k] < Len(trail)
  <2>1. flipped \in Seq(BOOLEAN) /\ Len(flipped) = Len(trail_lim)
    BY <1>3 DEF Typed
  <2>2. IsTrail(trail, trail_lim, n) /\ Clauses(clauses, n) /\ \A k \in DOMAIN trail_lim : trail_lim[k] < Len(trail)
    BY <1>3 DEF Typed, IsTrail
  <2> QED BY <1>3, <2>1, <2>2, Shape
<1>5. level \in DOMAIN trail_lim /\ level \in Nat
  BY <1>4 DEF Unflipped
<1>6. PICK below \in 0 .. Len(trail_lim) : below = level - 1 /\ below < Len(trail_lim)
  BY <1>4, <1>5
<1>7. PICK back : back = Backtrack(below)
  OBVIOUS
<1>8. /\ Kept(trail, trail_lim, below) = trail_lim[level] /\ Len(back.trail) = trail_lim[level]
      /\ DOMAIN back.trail = 1 .. trail_lim[level]
      /\ \A i \in 1 .. trail_lim[level] : i \in DOMAIN trail /\ back.trail[i] = trail[i]
      /\ Len(back.lim) = below /\ back.flipped \in Seq(BOOLEAN) /\ Len(back.flipped) = below
      /\ IsTrail(back.trail, back.lim, n) /\ Justified(back.trail, clauses)
      /\ Tried(back.trail, back.lim, back.flipped, Models)
  <2>1. Kept(trail, trail_lim, below) = trail_lim[level]
    BY <1>4, <1>5, <1>6 DEF Kept
  <2>2. Tried(trail, trail_lim, flipped, Models)
    BY <1>3 DEF Meaning
  <2> HIDE DEF n
  <2>3. /\ Len(back.trail) = Kept(trail, trail_lim, below) /\ DOMAIN back.trail = 1 .. Kept(trail, trail_lim, below)
        /\ \A i \in 1 .. Kept(trail, trail_lim, below) : i \in DOMAIN trail /\ back.trail[i] = trail[i]
        /\ Len(back.lim) = below /\ back.flipped \in Seq(BOOLEAN) /\ Len(back.flipped) = below
        /\ IsTrail(back.trail, back.lim, n) /\ Justified(back.trail, clauses)
        /\ Tried(back.trail, back.lim, back.flipped, Models)
    BY <1>3, <1>7, <2>2, BackShape DEF n
  <2> QED BY <2>1, <2>3
<1> DEFINE pos == trail_lim[level] + 1
           lit == -trail[pos].lit
<1>9. pos \in 1 .. Len(trail) /\ pos \in DOMAIN trail /\ trail[pos].lit \in VLit
  BY <1>4, <1>5
<1>10. lit \in VLit /\ -lit = trail[pos].lit
  BY <1>4, <1>9, Literal DEF VLit
<1>11. lit \notin Lits(back.trail) /\ -lit \notin Lits(back.trail)
  <2> SUFFICES ASSUME NEW i \in 1 .. trail_lim[level], back.trail[i].lit \in {lit, -lit} PROVE FALSE
    BY <1>8 DEF Lits
  <2>1. i \in DOMAIN trail /\ trail[i].lit \in {trail[pos].lit, -trail[pos].lit}
    BY <1>8, <1>10
  <2>2. i = pos
    BY <1>4, <1>9, <2>1 DEF IsTrail
  <2> QED BY <1>4, <1>5, <2>2
<1>12. \A m \in Models : Agrees(m, back.trail, Len(back.trail)) => lit \in m
  <2> SUFFICES ASSUME NEW m \in Models, Agrees(m, back.trail, Len(back.trail)) PROVE lit \in m
    OBVIOUS
  <2>1. Agrees(m, trail, trail_lim[level])
    BY <1>8 DEF Agrees
  <2>2. trail[pos].lit \notin m
    BY <1>1, <1>2, <1>5, <2>1, DecisionWrong
  <2>3. Meets(m, n, clauses)
    BY <1>3, ModelMeets DEF Typed, Meaning
  <2> QED BY <1>9, <1>10, <2>2, <2>3 DEF Meets, VLit
<1>13. \A i \in DOMAIN clauses : Len(clauses[i]) >= 2 => \A p \in DOMAIN back.trail : Minded(back.trail, p, clauses[i])
  BY <1>2, <1>3, <1>6, <1>7, BackMinded
<1>14. \A i \in UnitClauses : \E q \in DOMAIN back.trail : back.trail[q].lit = clauses[i][1] /\ back.trail[q].level = 0
  BY <1>2, <1>3, <1>7, BackUnits
<1>15. /\ trail' = Assigned(back.trail, lit, 0, Len(back.lim) + 1)
       /\ trail_lim' = Append(back.lim, Len(back.trail)) /\ flipped' = Append(back.flipped, TRUE)
       /\ head' = Len(back.trail)
  <2>1. Len(back.lim) + 1 = level /\ back = Backtrack(level - 1)
    BY <1>5, <1>6, <1>7, <1>8
  <2> QED BY <1>1, <2>1
<1>16. visiting' = [lit |-> visiting'.lit, left |-> {}]
  BY <1>2 DEF NoVisit
<1> HIDE DEF lit, pos
<1>17. Len(back.flipped) = Len(back.lim)
  BY <1>8
<1> QED BY <1>2, <1>8, <1>10, <1>11, <1>12, <1>13, <1>14, <1>15, <1>16, <1>17, DecisionStep

-----------------------------------------------------------------------------
(* Analysis of a conflict                                                  *)

LEMMA LevelIs ==
  ASSUME Typed, NEW x \in VLit, NEW i \in DOMAIN trail, trail[i].lit \in {x, -x}
  PROVE  LevelOf(x) = trail[i].level
<1> DEFINE e == CHOOSE f \in ToSet(trail) : f.lit \in {x, -x}
<1>1. config.num_vars \in Nat /\ \A j \in DOMAIN trail : trail[j].lit \in VLit
  BY Shape
<1>2. trail[i] \in ToSet(trail)
  BY DEF ToSet
<1>3. e \in ToSet(trail) /\ e.lit \in {x, -x}
  BY <1>2
<1>4. PICK j \in DOMAIN trail : e = trail[j]
  BY <1>3 DEF ToSet
<1>5. -(-x) = x
  BY <1>1, Literal DEF VLit
<1>6. trail[i].lit \in {trail[j].lit, -trail[j].lit}
  BY <1>3, <1>4, <1>5
<1>7. i = j
  BY <1>6 DEF Typed, IsTrail
<1> QED BY <1>4, <1>7 DEF LevelOf

\* What a model makes true is false above the root, if at all.
LEMMA RootFalse ==
  ASSUME Typed, Meaning, NEW m \in Models, NEW x \in VLit, x \in m, -x \in Lits(trail)
  PROVE  LevelOf(x) > 0
<1> DEFINE n == config.num_vars
<1>1. /\ n \in Nat /\ IsTrail(trail, trail_lim, n) /\ Clauses(clauses, n)
      /\ Justified(trail, clauses) /\ Meets(m, n, clauses)
  BY Shape, ModelMeets DEF Typed, Meaning
<1>2. PICK i \in DOMAIN trail : trail[i].lit = -x
  BY DEF Lits
<1>3. LevelOf(x) = trail[i].level /\ trail[i].level \in Nat
  BY <1>2, LevelIs, Shape
<1>4. trail[i].level # 0
  <2> SUFFICES ASSUME trail[i].level = 0 PROVE FALSE
    OBVIOUS
  <2>1. trail[i].lit \in m
    BY <1>1, AtRoot
  <2> QED BY <1>1, <1>2, <2>1 DEF Meets, VLit
<1> QED BY <1>3, <1>4

LEMMA ResolventStep ==
  ASSUME CdclInv, falsified # 0, trail_lim # <<>>, resolvent' \subseteq VLit,
         \A x \in resolvent' : \E i \in DOMAIN trail : trail[i].lit = -x /\ trail[i].level > 0,
         \E x \in resolvent' : FalseHere(x), \A m \in Models : resolvent' \intersect m # {},
         config' = config, todo' = todo, clauses' = clauses, original' = original, watches' = watches,
         trail' = trail, trail_lim' = trail_lim, flipped' = flipped, head' = head, visiting' = visiting,
         falsified' = falsified, unsat_at_root' = unsat_at_root, status' = status
  PROVE  CdclInv'
<1>1. Typed /\ Meaning /\ Working /\ Listed /\ Minding /\ Unwatched
  BY DEF CdclInv
<1>2. Models' = Models
  BY <1>1, ModelsKept
<1>3. Typed'
  BY <1>1 DEF Typed, VLit
<1>4. Meaning'
  BY <1>1, <1>2 DEF Meaning, Implied, Lits
<1>5. Resolving'
  <2>1. VLit' = VLit
    BY DEF VLit
  <2>2. \A x : FalseHere(x) => FalseHere(x)'
    BY DEF FalseHere
  <2> QED BY <1>2, <2>1, <2>2 DEF Resolving
<1>6. Working'
  <2>1. Visiting'
    BY <1>1 DEF Working, Visiting
  <2>2. ConflictShape'
    BY <1>1 DEF Working, ConflictShape, FalseHere, Lits
  <2> QED BY <1>1, <1>5, <2>1, <2>2 DEF Working
<1>7. Listed'
  BY <1>1 DEF Listed
<1>8. Minding'
  BY <1>1 DEF Minding, Done
<1>9. Unwatched'
  BY <1>1 DEF Unwatched, UnitClauses
<1> QED BY <1>3, <1>4, <1>6, <1>7, <1>8, <1>9 DEF CdclInv

LEMMA AnalyzeStep ==
  ASSUME CdclInv, Analyze
  PROVE  CdclInv'
<1> DEFINE n == config.num_vars
           c == clauses[falsified]
<1>1. /\ falsified # 0 /\ trail_lim # <<>> /\ resolvent' = AboveRoot(falsified)
      /\ config' = config /\ todo' = todo /\ clauses' = clauses /\ original' = original /\ watches' = watches
      /\ trail' = trail /\ trail_lim' = trail_lim /\ flipped' = flipped /\ head' = head /\ visiting' = visiting
      /\ falsified' = falsified /\ unsat_at_root' = unsat_at_root /\ status' = status
  BY DEF Analyze, InConflict, db
<1>2. Typed /\ Meaning /\ Working
  BY DEF CdclInv
<1>3. /\ falsified \in DOMAIN clauses /\ (\A x \in ToSet(c) : -x \in Lits(trail))
      /\ \E x \in ToSet(c) : FalseHere(x)
  BY <1>1, <1>2 DEF Working, ConflictShape
<1>4. /\ n \in Nat /\ Clauses(clauses, n) /\ Len(trail_lim) \in Nat
      /\ \A i \in DOMAIN trail : trail[i].level \in Nat
  BY <1>2, Shape DEF Typed
<1>5. ToSet(c) \subseteq VLit
  BY <1>3, <1>4, ClauseLits DEF VLit
<1>6. resolvent' = {x \in ToSet(c) : LevelOf(x) > 0}
  BY <1>1 DEF AboveRoot
<1>7. ASSUME NEW x \in resolvent'
      PROVE  \E i \in DOMAIN trail : trail[i].lit = -x /\ trail[i].level > 0
  <2>1. x \in ToSet(c) /\ LevelOf(x) > 0 /\ x \in VLit
    BY <1>5, <1>6
  <2>2. PICK i \in DOMAIN trail : trail[i].lit = -x
    BY <1>3, <2>1 DEF Lits
  <2>3. LevelOf(x) = trail[i].level
    BY <1>2, <2>1, <2>2, LevelIs
  <2> QED BY <2>1, <2>2, <2>3
<1>8. \E x \in resolvent' : FalseHere(x)
  <2>1. PICK x \in ToSet(c) : FalseHere(x)
    BY <1>3
  <2>2. PICK i \in DOMAIN trail : trail[i].lit = -x /\ trail[i].level = Len(trail_lim)
    BY <2>1 DEF FalseHere
  <2>3. x \in VLit
    BY <1>5, <2>1
  <2>4. LevelOf(x) = Len(trail_lim)
    BY <1>2, <2>2, <2>3, LevelIs
  <2>5. Len(trail_lim) > 0
    BY <1>1, <1>2, <1>4 DEF Typed, IsTrail
  <2> QED BY <1>6, <2>1, <2>4, <2>5
<1>9. ASSUME NEW m \in Models PROVE resolvent' \intersect m # {}
  <2>1. PICK x \in ToSet(c) : x \in m
    BY <1>2, <1>3 DEF Meaning, Implied, Satisfies
  <2>2. x \in VLit /\ -x \in Lits(trail)
    BY <1>3, <1>5, <2>1
  <2>3. LevelOf(x) > 0
    BY <1>2, <2>1, <2>2, RootFalse
  <2> QED BY <1>6, <2>1, <2>3
<1>10. resolvent' \subseteq VLit
  BY <1>5, <1>6
<1> QED BY <1>1, <1>7, <1>8, <1>9, <1>10, ResolventStep

\* The last entry in the way is of the current level and was not decided.
LEMMA LastInTheWay ==
  ASSUME Typed, Resolving, resolvent # {}, ~OneHere, NEW i \in DOMAIN trail, -trail[i].lit \in resolvent,
         \A j \in DOMAIN trail : j > i => -trail[j].lit \notin resolvent
  PROVE  trail[i].reason # 0 /\ \E x \in resolvent \ {-trail[i].lit} : FalseHere(x)
<1> DEFINE n == config.num_vars
           L == Len(trail_lim)
<1>1. PICK x \in Here(resolvent), y \in Here(resolvent) : x # y
  BY DEF OneHere
<1>2. /\ n \in Nat /\ IsTrail(trail, trail_lim, n) /\ Len(trail) \in Nat /\ DOMAIN trail = 1 .. Len(trail)
      /\ L \in Nat /\ DOMAIN trail_lim = 1 .. L
      /\ (\A j \in DOMAIN trail : trail[j].lit \in VLit /\ trail[j].level \in 0 .. L)
      /\ \A k \in DOMAIN trail_lim : trail_lim[k] \in Nat
  BY Shape DEF Typed
<1>3. ASSUME NEW z \in Here(resolvent)
      PROVE  \E p \in DOMAIN trail : trail[p].lit = -z /\ trail[p].level = L /\ p <= i /\ z \in VLit
  <2>1. z \in resolvent /\ LevelOf(z) = L /\ z \in VLit
    BY DEF Here, Resolving
  <2>2. PICK p \in DOMAIN trail : trail[p].lit = -z
    BY <2>1 DEF Resolving
  <2>3. LevelOf(z) = trail[p].level
    BY <2>1, <2>2, LevelIs
  <2>4. -trail[p].lit = z
    BY <1>2, <2>1, <2>2, Literal DEF VLit
  <2>5. p <= i
    BY <1>2, <2>1, <2>4
  <2> QED BY <2>1, <2>2, <2>3, <2>5
<1>4. PICK p \in DOMAIN trail : trail[p].lit = -x /\ trail[p].level = L /\ p <= i /\ x \in VLit
  BY <1>1, <1>3
<1>5. PICK q \in DOMAIN trail : trail[q].lit = -y /\ trail[q].level = L /\ q <= i /\ y \in VLit
  BY <1>1, <1>3
<1>6. p # q
  <2>1. -(-x) = x /\ -(-y) = y
    BY <1>2, <1>4, <1>5, Literal DEF VLit
  <2> QED BY <1>1, <1>4, <1>5, <2>1
<1>7. trail[i].level = L
  <2>1. trail[p].level <= trail[i].level
    BY <1>2, <1>4, LevelsGrow
  <2> QED BY <1>2, <1>4, <2>1
<1>8. trail[i].reason # 0
  <2> SUFFICES ASSUME trail[i].reason = 0 PROVE FALSE
    OBVIOUS
  <2>1. PICK k \in DOMAIN trail_lim : i = trail_lim[k] + 1
    BY <1>2 DEF IsTrail
  <2>2. PICK r \in DOMAIN trail : trail[r].level = L /\ r < i
    BY <1>2, <1>4, <1>5, <1>6
  <2>3. k <= L /\ k \in Nat
    BY <1>2
  <2>4. trail_lim[k] < r
    BY <1>2, <2>2, <2>3 DEF IsTrail
  <2> QED BY <1>2, <2>1, <2>2, <2>4
<1>9. \E z \in resolvent \ {-trail[i].lit} : FalseHere(z)
  <2>1. x \in resolvent /\ y \in resolvent
    BY <1>1 DEF Here
  <2>2. FalseHere(x) /\ FalseHere(y)
    BY <1>4, <1>5 DEF FalseHere
  <2> QED BY <1>1, <2>1, <2>2
<1> QED BY <1>8, <1>9

LEMMA ResolveStep ==
  ASSUME CdclInv, Resolve
  PROVE  CdclInv'
<1> DEFINE n == config.num_vars
<1>1. PICK i \in DOMAIN trail :
        /\ -trail[i].lit \in resolvent /\ \A j \in DOMAIN trail : j > i => -trail[j].lit \notin resolvent
        /\ resolvent' = Resolved(resolvent, trail[i])
  BY DEF Resolve
<1>2. /\ resolvent # {} /\ ~OneHere
      /\ config' = config /\ todo' = todo /\ clauses' = clauses /\ original' = original /\ watches' = watches
      /\ trail' = trail /\ trail_lim' = trail_lim /\ flipped' = flipped /\ head' = head /\ visiting' = visiting
      /\ falsified' = falsified /\ unsat_at_root' = unsat_at_root /\ status' = status
  BY DEF Resolve, db
<1>3. Typed /\ Meaning /\ Working /\ Resolving
  BY DEF CdclInv, Working
<1>4. trail[i].reason # 0 /\ \E x \in resolvent \ {-trail[i].lit} : FalseHere(x)
  BY <1>1, <1>2, <1>3, LastInTheWay
<1> DEFINE lit == trail[i].lit
           why == trail[i].reason
           c   == clauses[why]
<1>5. /\ n \in Nat /\ Clauses(clauses, n) /\ Len(trail) \in Nat /\ DOMAIN trail = 1 .. Len(trail)
      /\ lit \in VLit /\ \A j \in DOMAIN trail : trail[j].level \in Nat
  BY <1>3, Shape DEF Typed
<1>6. /\ why \in DOMAIN clauses /\ \A x \in ToSet(c) \ {lit} : \E j \in 1 .. i - 1 : trail[j].lit = -x
  BY <1>3, <1>4 DEF Typed, Justified
<1>7. ToSet(c) \subseteq VLit
  BY <1>5, <1>6, ClauseLits DEF VLit
<1>8. resolvent' = (resolvent \ {-lit}) \union ({x \in ToSet(c) : LevelOf(x) > 0} \ {lit})
  BY <1>1 DEF Resolved, AboveRoot
<1>9. falsified # 0 /\ trail_lim # <<>> /\ resolvent \subseteq VLit
  BY <1>2, <1>3 DEF Resolving
<1>10. \A x \in ToSet(c) \ {lit} : -x \in Lits(trail)
  BY <1>5, <1>6 DEF Lits
<1>11. ASSUME NEW x \in resolvent'
       PROVE  \E j \in DOMAIN trail : trail[j].lit = -x /\ trail[j].level > 0
  <2>1. CASE x \in resolvent
    BY <1>3, <2>1 DEF Resolving
  <2>2. CASE x \in ToSet(c) /\ LevelOf(x) > 0 /\ x # lit
    <3>1. PICK j \in DOMAIN trail : trail[j].lit = -x
      BY <1>10, <2>2 DEF Lits
    <3>2. LevelOf(x) = trail[j].level
      BY <1>3, <1>7, <2>2, <3>1, LevelIs
    <3> QED BY <2>2, <3>1, <3>2
  <2> QED BY <1>8, <2>1, <2>2
<1>12. \E x \in resolvent' : FalseHere(x)
  BY <1>4, <1>8
<1>13. ASSUME NEW m \in Models PROVE resolvent' \intersect m # {}
  <2>1. PICK x \in resolvent : x \in m
    BY <1>2, <1>3 DEF Resolving
  <2>2. CASE x # -lit
    BY <1>8, <2>1, <2>2
  <2>3. CASE x = -lit
    <3>1. Meets(m, n, clauses)
      BY <1>3, ModelMeets DEF Typed, Meaning
    <3>2. lit \notin m
      BY <1>5, <2>1, <2>3, <3>1 DEF Meets, VLit
    <3>3. PICK y \in ToSet(c) : y \in m
      BY <1>6, <3>1 DEF Meets, Satisfies
    <3>4. y # lit /\ y \in VLit /\ -y \in Lits(trail)
      BY <1>7, <1>10, <3>2, <3>3
    <3>5. LevelOf(y) > 0
      BY <1>3, <3>3, <3>4, RootFalse
    <3> QED BY <1>8, <3>3, <3>4, <3>5
  <2> QED BY <2>2, <2>3
<1>14. resolvent' \subseteq VLit
  BY <1>7, <1>8, <1>9
<1> QED BY <1>2, <1>9, <1>11, <1>12, <1>13, <1>14, ResolventStep

-----------------------------------------------------------------------------
(* Learning                                                                *)

\* A clause is added at the end.
LEMMA Appended ==
  ASSUME NEW n \in Nat, NEW cl, Clauses(cl, n), NEW c \in Seq(LitsUpTo(n)), IsInjective(c)
  PROVE  LET d == Append(cl, c) IN
         /\ Len(cl) \in Nat /\ DOMAIN cl = 1 .. Len(cl) /\ DOMAIN d = 1 .. Len(cl) + 1
         /\ d[Len(cl) + 1] = c /\ \A i \in DOMAIN cl : d[i] = cl[i]
         /\ Clauses(d, n)
<1> DEFINE T == Seq(LitsUpTo(n))
           d == Append(cl, c)
<1>1. cl \in Seq(T) /\ c \in T
  BY DEF Clauses
<1> HIDE DEF T
<1>2. /\ Len(cl) \in Nat /\ DOMAIN cl = 1 .. Len(cl) /\ DOMAIN d = 1 .. Len(cl) + 1 /\ d \in Seq(T)
      /\ d[Len(cl) + 1] = c /\ \A i \in DOMAIN cl : d[i] = cl[i]
  BY <1>1
<1> HIDE DEF d
<1>3. ASSUME NEW i \in DOMAIN d PROVE IsInjective(d[i])
  <2>1. i \in DOMAIN cl \/ i = Len(cl) + 1
    BY <1>2
  <2>2. \A j \in DOMAIN cl : IsInjective(cl[j])
    BY DEF Clauses
  <2> QED BY <1>2, <2>1, <2>2
<1> QED BY <1>2, <1>3 DEF Clauses, T, d

LEMMA ListedMore ==
  ASSUME Listed, NEW c, Len(c) \in Nat, Len(clauses) \in Nat, DOMAIN clauses = 1 .. Len(clauses),
         DOMAIN clauses' = 1 .. Len(clauses) + 1, clauses'[Len(clauses) + 1] = c,
         \A i \in DOMAIN clauses : clauses'[i] = clauses[i],
         watches' = Watched(watches, Len(clauses) + 1, c)
  PROVE  Listed'
<1> DEFINE new == Len(clauses) + 1
<1>1. /\ DOMAIN watches' = Lit
      /\ \A lit \in Lit : watches'[lit] =
           IF Len(c) >= 2 /\ lit \in {c[1], c[2]} THEN watches[lit] \union {new} ELSE watches[lit]
  BY DEF Watched
<1>2. ASSUME NEW lit \in Lit PROVE watches'[lit] = WatchedBy(clauses', lit)
  <2>1. watches[lit] = WatchedBy(clauses, lit)
    BY DEF Listed
  <2>2. \A i \in DOMAIN clauses : i \in WatchedBy(clauses', lit) <=> i \in WatchedBy(clauses, lit)
    BY DEF WatchedBy
  <2>3. new \in WatchedBy(clauses', lit) <=> Len(c) >= 2 /\ lit \in {c[1], c[2]}
    BY DEF WatchedBy
  <2>4. WatchedBy(clauses, lit) \subseteq DOMAIN clauses /\ WatchedBy(clauses', lit) \subseteq DOMAIN clauses \union {new}
    BY DEF WatchedBy
  <2>5. \A i : i \in watches'[lit] <=> i \in WatchedBy(clauses, lit) \/ (i = new /\ Len(c) >= 2 /\ lit \in {c[1], c[2]})
    <3>1. CASE Len(c) >= 2 /\ lit \in {c[1], c[2]}
      <4>1. watches'[lit] = watches[lit] \union {new}
        BY <1>1, <3>1
      <4> HIDE DEF new
      <4> QED BY ONLY <2>1, <3>1, <4>1
    <3>2. CASE ~(Len(c) >= 2 /\ lit \in {c[1], c[2]})
      <4>1. watches'[lit] = watches[lit]
        BY <1>1, <3>2
      <4> HIDE DEF new
      <4> QED BY ONLY <2>1, <3>2, <4>1
    <3> QED BY <3>1, <3>2
  <2> HIDE DEF new
  <2>6. new \notin DOMAIN clauses
    BY DEF new
  <2>7. \A i : i \in watches'[lit] <=> i \in WatchedBy(clauses', lit)
    BY ONLY <2>2, <2>3, <2>4, <2>5, <2>6
  <2> QED BY <2>7
<1> QED BY <1>1, <1>2 DEF Listed

\* The learned clause after going back: its first literal is open, the others are
\* false.
LEMMA LearnedHere ==
  ASSUME CdclInv, resolvent # {}, OneHere, NEW uip \in Here(resolvent), NEW level \in 0 .. Len(trail_lim),
         level < Len(trail_lim), \A x \in resolvent \ {uip} : LevelOf(x) <= level,
         NEW back, back = Backtrack(level)
  PROVE  /\ uip \in VLit /\ uip \notin Lits(back.trail) /\ -uip \notin Lits(back.trail)
         /\ \A x \in resolvent \ {uip} : \E p \in DOMAIN back.trail : back.trail[p].lit = -x
         /\ \A x \in resolvent, p \in DOMAIN back.trail : back.trail[p].lit = -x => back.trail[p].level = LevelOf(x)
<1> DEFINE n == config.num_vars
           kept == Kept(trail, trail_lim, level)
<1>1. Typed /\ Resolving
  BY DEF CdclInv, Working
<1>2. /\ n \in Nat /\ Len(trail) \in Nat /\ DOMAIN trail = 1 .. Len(trail) /\ Len(trail_lim) \in Nat
      /\ \A i \in DOMAIN trail : trail[i].lit \in VLit /\ trail[i].level \in Nat
  BY <1>1, Shape
<1>3. /\ kept \in 0 .. Len(trail) /\ DOMAIN back.trail = 1 .. kept
      /\ (\A i \in 1 .. kept : i \in DOMAIN trail /\ back.trail[i] = trail[i])
      /\ \A i \in DOMAIN trail : i <= kept <=> trail[i].level <= level
  BY <1>1, BackShape
<1> HIDE DEF kept
<1>4. uip \in resolvent /\ LevelOf(uip) = Len(trail_lim) /\ resolvent \subseteq VLit
  BY <1>1 DEF Here, Resolving
<1>5. ASSUME NEW x \in resolvent, NEW p \in DOMAIN trail, trail[p].lit \in {x, -x}
      PROVE  LevelOf(x) = trail[p].level
  BY <1>1, <1>4, <1>5, LevelIs
<1>6. ASSUME NEW p \in 1 .. kept, trail[p].lit \in {uip, -uip} PROVE FALSE
  <2>1. p \in DOMAIN trail /\ trail[p].level <= level
    BY <1>2, <1>3
  <2> QED BY <1>2, <1>4, <1>5, <1>6, <2>1
<1>7. uip \notin Lits(back.trail) /\ -uip \notin Lits(back.trail)
  BY <1>3, <1>6 DEF Lits
<1>8. ASSUME NEW x \in resolvent \ {uip} PROVE \E p \in DOMAIN back.trail : back.trail[p].lit = -x
  <2>1. PICK p \in DOMAIN trail : trail[p].lit = -x
    BY <1>1 DEF Resolving
  <2>2. trail[p].level <= level
    BY <1>5, <2>1
  <2>3. p \in 1 .. kept
    BY <1>2, <1>3, <2>2
  <2> QED BY <1>3, <2>1, <2>3
<1>9. ASSUME NEW x \in resolvent, NEW p \in DOMAIN back.trail, back.trail[p].lit = -x
      PROVE  back.trail[p].level = LevelOf(x)
  BY <1>3, <1>5, <1>9
<1> QED BY <1>4, <1>7, <1>8, <1>9

LEMMA StoreStep ==
  ASSUME CdclInv, status = "search", falsified # 0, resolvent # {}, OneHere, NEW uip \in Here(resolvent),
         NEW level \in 0 .. Len(trail_lim), level < Len(trail_lim),
         \A x \in resolvent \ {uip} : LevelOf(x) <= level,
         NEW c \in Seq(VLit), IsInjective(c), ToSet(c) = resolvent, Len(c) > 0, c[1] = uip,
         Len(c) = 1 => level = 0, Len(c) >= 2 => LevelOf(c[2]) = level,
         Store(c, level), visiting' = NoVisit, falsified' = 0, resolvent' = {},
         config' = config, todo' = todo, original' = original, unsat_at_root' = unsat_at_root, status' = status
  PROVE  CdclInv'
<1> DEFINE n == config.num_vars
           new == Len(clauses) + 1
<1>1. Typed /\ Meaning /\ Working /\ Listed /\ Minding /\ Unwatched /\ Resolving
  BY DEF CdclInv, Working
<1>2. PICK back : back = Backtrack(level)
  OBVIOUS
<1>3. /\ clauses' = Append(clauses, c) /\ watches' = Watched(watches, new, c)
      /\ trail' = Assigned(back.trail, uip, new, level)
      /\ trail_lim' = back.lim /\ flipped' = back.flipped /\ head' = Len(back.trail)
  BY <1>2 DEF Store
<1>4. /\ n \in Nat /\ Clauses(clauses, n) /\ original \subseteq DOMAIN clauses /\ c \in Seq(LitsUpTo(n))
      /\ Len(c) \in Nat /\ DOMAIN c = 1 .. Len(c)
  BY <1>1, Shape DEF Typed, VLit
<1>5. /\ Len(clauses) \in Nat /\ DOMAIN clauses = 1 .. Len(clauses) /\ DOMAIN clauses' = 1 .. new
      /\ clauses'[new] = c /\ (\A i \in DOMAIN clauses : clauses'[i] = clauses[i])
      /\ Clauses(clauses', n)
  <2>1. IsInjective(c)
    OBVIOUS
  <2> HIDE DEF n
  <2>2. /\ Len(clauses) \in Nat /\ DOMAIN clauses = 1 .. Len(clauses) /\ DOMAIN clauses' = 1 .. Len(clauses) + 1
        /\ clauses'[Len(clauses) + 1] = c /\ (\A i \in DOMAIN clauses : clauses'[i] = clauses[i])
        /\ Clauses(clauses', n)
    BY ONLY <1>3, <1>4, <2>1, Appended
  <2> QED BY <2>2
<1>6. new \in Nat \ {0} /\ new \in DOMAIN clauses' /\ \A i \in DOMAIN clauses' : i \in DOMAIN clauses \/ i = new
  BY <1>5
<1>7. /\ uip \in VLit /\ uip \notin Lits(back.trail) /\ -uip \notin Lits(back.trail)
      /\ (\A x \in resolvent \ {uip} : \E p \in DOMAIN back.trail : back.trail[p].lit = -x)
      /\ \A x \in resolvent, p \in DOMAIN back.trail : back.trail[p].lit = -x => back.trail[p].level = LevelOf(x)
  BY <1>2, LearnedHere
<1>8. /\ Len(back.lim) = level /\ back.flipped \in Seq(BOOLEAN) /\ Len(back.flipped) = level
      /\ IsTrail(back.trail, back.lim, n) /\ Justified(back.trail, clauses)
      /\ Tried(back.trail, back.lim, back.flipped, Models)
  <2>1. Tried(trail, trail_lim, flipped, Models)
    BY <1>1 DEF Meaning
  <2>2. \A ms : Tried(trail, trail_lim, flipped, ms) => Tried(back.trail, back.lim, back.flipped, ms)
    BY <1>1, <1>2, BackShape
  <2>3. /\ Len(back.lim) = level /\ back.flipped \in Seq(BOOLEAN) /\ Len(back.flipped) = level
        /\ IsTrail(back.trail, back.lim, n) /\ Justified(back.trail, clauses)
    BY <1>1, <1>2, BackShape
  <2> QED BY <2>1, <2>2, <2>3
<1>9. Models' = Models
  <2>1. \A i \in original : ToSet(clauses'[i]) = ToSet(clauses[i])
    BY <1>4, <1>5
  <2> QED BY <2>1, ModelsKept
<1>10. Implied'
  <2>1. ASSUME NEW m \in Models PROVE Satisfies(m, c)
    BY <1>1 DEF Resolving, Satisfies
  <2> QED BY <1>1, <1>5, <1>6, <1>9, <2>1 DEF Implied, Meaning
<1>11. IsTrail(trail', back.lim, n)
  <2>1. uip \in LitsUpTo(n) /\ trail' = Assigned(back.trail, uip, new, Len(back.lim))
    BY <1>3, <1>7, <1>8 DEF VLit
  <2> HIDE DEF n, new
  <2> QED BY <1>4, <1>6, <1>7, <1>8, <2>1, PushedTrail
<1> DEFINE e == [lit |-> uip, reason |-> new, level |-> level]
<1>12. e.lit = uip /\ e.level = level /\ trail' = Append(back.trail, e) /\ e \in Entry(n)
  BY <1>3, <1>6, <1>7 DEF Assigned, Entry, VLit
<1> HIDE DEF e
<1>13. back.trail \in Seq(Entry(n)) /\ trail' \in Seq(Entry(n)) /\ back.lim \in Seq(Nat)
  BY <1>8, <1>11 DEF IsTrail
<1> DEFINE last == Len(back.trail) + 1
<1>14. /\ Len(back.trail) \in Nat /\ DOMAIN back.trail = 1 .. Len(back.trail) /\ DOMAIN trail' = 1 .. last
       /\ trail'[last] = e /\ (\A i \in DOMAIN back.trail : trail'[i] = back.trail[i]) /\ Len(trail') = last
  BY <1>12, <1>13
<1>15. Justified(trail', clauses')
  <2>1. \A i \in DOMAIN clauses : i \in DOMAIN clauses' /\ ToSet(clauses'[i]) = ToSet(clauses[i])
    BY <1>5
  <2>2. Justified(back.trail, clauses')
    BY <1>8, <2>1, JustifiedMore
  <2>3. uip \in ToSet(clauses'[new])
    BY <1>4, <1>5 DEF ToSet
  <2>4. \A x \in ToSet(clauses'[new]) \ {uip} : -x \in Lits(back.trail)
    BY <1>5, <1>7 DEF Lits
  <2> HIDE DEF n, new
  <2> QED BY ONLY <1>3, <1>6, <1>13, <2>2, <2>3, <2>4, JustifiedPush
<1>16. Tried(trail', back.lim, back.flipped, Models)
  <2>1. DOMAIN back.trail \subseteq DOMAIN trail'
    BY <1>14
  <2> HIDE DEF n, last
  <2> QED BY ONLY <1>4, <1>8, <1>14, <2>1, TriedMore
<1>17. Typed'
  <2>1. head' \in 0 .. Len(trail')
    BY <1>3, <1>14
  <2>2. original' \subseteq DOMAIN clauses'
    BY <1>4, <1>5
  <2> QED BY <1>1, <1>3, <1>5, <1>8, <1>11, <1>15, <2>1, <2>2 DEF Typed, VLit
<1>18. Meaning'
  BY <1>1, <1>3, <1>9, <1>10, <1>16 DEF Meaning
<1>19. visiting' = [lit |-> visiting'.lit, left |-> visiting'.left] /\ visiting'.left = {}
  BY DEF NoVisit
<1>20. Working'
  <2>1. \A k \in DOMAIN trail_lim' : trail_lim'[k] <= head'
    <3>1. \A k \in DOMAIN back.lim : back.lim[k] < Len(back.trail)
      BY <1>8 DEF IsTrail
    <3>2. \A k \in DOMAIN back.lim : back.lim[k] \in Nat
      BY <1>13
    <3> QED BY <1>3, <1>14, <3>1, <3>2
  <2>2. Visiting'
    BY <1>19 DEF Visiting
  <2> QED BY <2>1, <2>2 DEF Working, ConflictShape, Resolving
<1>21. Listed'
  BY <1>1, <1>3, <1>4, <1>5, ListedMore
<1>22. Minding'
  <2> SUFFICES ASSUME NEW i \in DOMAIN clauses', Len(clauses'[i]) >= 2, NEW p \in DOMAIN trail', Done(p, i)'
               PROVE  Minded(trail', p, clauses'[i])
    BY DEF Minding
  <2>1. p <= Len(back.trail)
    BY <1>3 DEF Done
  <2>2. p \in DOMAIN back.trail /\ trail'[p] = back.trail[p]
    BY <1>14, <2>1
  <2>3. CASE i \in DOMAIN clauses
    <3>1. Len(clauses[i]) >= 2 /\ clauses'[i] = clauses[i]
      BY <1>5, <2>3
    <3>2. Minded(back.trail, p, clauses[i])
      BY <1>1, <1>2, <2>2, <2>3, <3>1, BackMinded
    <3>3. DOMAIN back.trail \subseteq DOMAIN trail' /\ \A q \in DOMAIN back.trail : trail'[q] = back.trail[q]
      BY <1>14
    <3>4. Minded(trail', p, clauses[i])
      BY ONLY <2>2, <3>2, <3>3, MindedMore
    <3> QED BY <3>1, <3>4
  <2>4. CASE i = new
    <3>1. clauses'[i] = c /\ Len(c) >= 2
      BY <1>5, <2>4
    <3>2. c[2] \in resolvent
      BY <1>4, <3>1 DEF ToSet
    <3>3. Covers(trail', p, c[1], c[2])
      BY <1>7, <2>2 DEF Covers, Lits
    <3>4. Covers(trail', p, c[2], c[1])
      <4> SUFFICES ASSUME trail'[p].lit = -c[2]
                   PROVE  \E q \in DOMAIN trail' : trail'[q].lit = c[1] /\ trail'[q].level <= trail'[p].level
        BY DEF Covers
      <4>1. trail'[p].level = level
        BY <1>7, <2>2, <3>1, <3>2
      <4>2. last \in DOMAIN trail' /\ trail'[last].lit = c[1] /\ trail'[last].level = level
        BY <1>12, <1>14
      <4>3. level <= level
        OBVIOUS
      <4> QED BY <4>1, <4>2, <4>3
    <3> QED BY <3>1, <3>3, <3>4 DEF Minded
  <2> QED BY <1>6, <2>3, <2>4
<1>23. Unwatched'
  <2>1. ~unsat_at_root
    BY <1>1 DEF Unwatched
  <2>2. \A i \in DOMAIN clauses' : Len(clauses'[i]) = 0 => unsat_at_root
    BY <1>1, <1>4, <1>5, <1>6 DEF Unwatched
  <2>3. ASSUME NEW i \in UnitClauses'
        PROVE  \E q \in DOMAIN trail' : trail'[q].lit = clauses'[i][1] /\ trail'[q].level = 0
    <3>1. CASE i \in DOMAIN clauses
      <4>1. i \in UnitClauses /\ clauses'[i] = clauses[i]
        BY <1>5, <2>3, <3>1 DEF UnitClauses
      <4>2. \E q \in DOMAIN back.trail : back.trail[q].lit = clauses[i][1] /\ back.trail[q].level = 0
        BY <1>1, <1>2, <4>1, BackUnits
      <4> QED BY <1>14, <4>1, <4>2
    <3>2. CASE i = new
      <4>1. clauses'[i] = c /\ Len(c) = 1
        BY <1>5, <2>3, <3>2 DEF UnitClauses
      <4>2. last \in DOMAIN trail' /\ trail'[last].lit = c[1] /\ trail'[last].level = level
        BY <1>12, <1>14
      <4> QED BY <4>1, <4>2
    <3>3. i \in DOMAIN clauses'
      BY <2>3 DEF UnitClauses
    <3> QED BY <1>6, <3>1, <3>2, <3>3
  <2> QED BY <1>1, <2>1, <2>2, <2>3 DEF Unwatched
<1> QED BY <1>17, <1>18, <1>20, <1>21, <1>22, <1>23 DEF CdclInv

LEMMA LitFinite == IsFiniteSet(Lit)
<1> DEFINE S == {-v : v \in Var}
           f == [v \in Var |-> -v]
<1>1. f \in Surjection(Var, S)
  BY DEF Surjection
<1>2. IsFiniteSet(Var)
  BY VarAssumption
<1>3. IsFiniteSet(S)
  <2> HIDE DEF S, f
  <2> QED BY <1>1, <1>2, FS_Surjection
<1>4. IsFiniteSet(Var \union S)
  <2> HIDE DEF S
  <2> QED BY <1>2, <1>3, FS_Union
<1> QED BY <1>4 DEF Lit

LEMMA SetSeq ==
  ASSUME NEW S, IsFiniteSet(S)
  PROVE  /\ SetToSeq(S) \in Seq(S) /\ IsInjective(SetToSeq(S)) /\ ToSet(SetToSeq(S)) = S
<1> DEFINE n == Cardinality(S)
           f == SetToSeq(S)
<1>1. n \in Nat /\ ExistsBijection(1 .. n, S)
  BY FS_CardinalityType
<1>2. \E g \in [1 .. n -> S] : IsInjective(g)
  BY <1>1 DEF ExistsBijection, Bijection, Injection
<1>3. f \in [1 .. n -> S] /\ IsInjective(f)
  BY <1>2 DEF SetToSeq
<1> HIDE DEF n, f
<1>4. f \in Injection(1 .. n, S)
  BY <1>3 DEF Injection
<1>5. Cardinality(1 .. n) = n
  <2>1. n \in Int /\ n - 1 + 1 = n /\ (n = 0 \/ ~(1 > n))
    BY <1>1
  <2>2. Cardinality(1 .. n) = IF 1 > n THEN 0 ELSE n - 1 + 1
    BY <1>1, FS_Interval
  <2> QED BY <1>1, <2>1, <2>2
<1>6. f \in Surjection(1 .. n, S)
  BY <1>4, <1>5, FS_Injection DEF n
<1>7. ToSet(f) = S
  BY <1>3, <1>6 DEF Surjection, ToSet
<1>8. f \in Seq(S)
  BY <1>1, <1>3
<1> QED BY <1>3, <1>7, <1>8 DEF f

LEMMA LearnStep ==
  ASSUME CdclInv, Learn
  PROVE  CdclInv'
<1>1. PICK uip \in Here(resolvent) :
        \/ resolvent \ {uip} = {} /\ Store(<<uip>>, 0)
        \/ \E high \in resolvent \ {uip} :
             /\ \A other \in resolvent \ {uip} : LevelOf(other) <= LevelOf(high)
             /\ Store(<<uip, high>> \o SetToSeq((resolvent \ {uip}) \ {high}), LevelOf(high))
  BY Zenon DEF Learn
<1>2. /\ resolvent # {} /\ OneHere /\ visiting' = NoVisit /\ falsified' = 0 /\ resolvent' = {}
      /\ config' = config /\ todo' = todo /\ original' = original /\ unsat_at_root' = unsat_at_root /\ status' = status
  BY DEF Learn
<1>3. Typed /\ Working /\ Resolving
  BY DEF CdclInv, Working
<1>4. /\ falsified # 0 /\ trail_lim # <<>> /\ resolvent \subseteq VLit /\ uip \in resolvent
      /\ LevelOf(uip) = Len(trail_lim)
  BY <1>2, <1>3 DEF Resolving, Here
<1>5. status = "search"
  BY <1>3, <1>4 DEF Working, ConflictShape
<1>6. Len(trail_lim) \in Nat /\ Len(trail_lim) # 0
  BY <1>3, <1>4, Shape DEF Typed, IsTrail
<1>7. CASE resolvent \ {uip} = {} /\ Store(<<uip>>, 0)
  <2>1. PICK level \in 0 .. Len(trail_lim) : level = 0
    BY <1>6
  <2>2. PICK c : c = <<uip>>
    OBVIOUS
  <2>3. c \in Seq(VLit) /\ IsInjective(c) /\ ToSet(c) = resolvent /\ Len(c) = 1 /\ c[1] = uip
    BY <1>4, <1>7, <2>2 DEF IsInjective, ToSet
  <2>4. Store(c, level) /\ level < Len(trail_lim) /\ \A x \in resolvent \ {uip} : LevelOf(x) <= level
    BY <1>6, <1>7, <2>1, <2>2
  <2> QED BY <1>2, <1>4, <1>5, <2>1, <2>3, <2>4, StoreStep
<1>8. ASSUME NEW high \in resolvent \ {uip},
             \A other \in resolvent \ {uip} : LevelOf(other) <= LevelOf(high),
             Store(<<uip, high>> \o SetToSeq((resolvent \ {uip}) \ {high}), LevelOf(high))
      PROVE  CdclInv'
  <2> DEFINE R == (resolvent \ {uip}) \ {high}
             s == SetToSeq(R)
  <2>1. IsFiniteSet(R)
    <3>1. R \in SUBSET Lit
      BY <1>3, <1>4, Shape
    <3> HIDE DEF R
    <3> QED BY <3>1, LitFinite, FS_Subset
  <2>2. s \in Seq(R) /\ IsInjective(s) /\ ToSet(s) = R
    <3> HIDE DEF R
    <3> QED BY <2>1, SetSeq
  <2>3. PICK c : c = <<uip, high>> \o SetToSeq(R)
    OBVIOUS
  <2>4. R \subseteq VLit /\ high \in VLit /\ uip \in VLit /\ high # uip /\ uip \notin R /\ high \notin R
        /\ resolvent = R \union {uip, high}
    BY <1>4
  <2>5. c = <<uip, high>> \o s /\ Store(c, LevelOf(high))
    BY <1>8, <2>3
  <2> HIDE DEF s, R
  <2>6. Len(s) \in Nat /\ DOMAIN s = 1 .. Len(s) /\ \A k \in 1 .. Len(s) : s[k] \in R /\ s[k] \in VLit
    BY <2>2, <2>4
  <2>7. /\ c \in Seq(VLit) /\ Len(c) = Len(s) + 2 /\ DOMAIN c = 1 .. Len(s) + 2 /\ c[1] = uip /\ c[2] = high
        /\ \A k \in 3 .. Len(s) + 2 : c[k] = s[k - 2] /\ k - 2 \in 1 .. Len(s)
    <3>1. s \in Seq(VLit)
      BY <2>2, <2>4
    <3>2. <<uip, high>> \in Seq(VLit)
      BY <2>4
    <3> QED BY <2>5, <2>6, <3>1, <3>2
  <2>8. IsInjective(c)
    <3> SUFFICES ASSUME NEW a \in 1 .. Len(s) + 2, NEW b \in 1 .. Len(s) + 2, c[a] = c[b] PROVE a = b
      BY <2>7 DEF IsInjective
    <3>1. \A k \in 1 .. Len(s) + 2 : k = 1 \/ k = 2 \/ k \in 3 .. Len(s) + 2
      BY <2>6
    <3>2. \A k \in 3 .. Len(s) + 2 : c[k] \in R
      BY <2>6, <2>7
    <3>3. CASE a \in 3 .. Len(s) + 2 /\ b \in 3 .. Len(s) + 2
      <4>1. s[a - 2] = s[b - 2] /\ a - 2 \in DOMAIN s /\ b - 2 \in DOMAIN s
        BY <2>6, <2>7, <3>3
      <4>2. a - 2 = b - 2
        BY <2>2, <4>1 DEF IsInjective
      <4> QED BY <2>6, <4>2
    <3> QED BY <2>4, <2>7, <3>1, <3>2, <3>3
  <2>9. ToSet(c) = resolvent
    <3>1. \A k \in 1 .. Len(s) + 2 : c[k] \in resolvent
      <4>1. \A k \in 1 .. Len(s) + 2 : k = 1 \/ k = 2 \/ k \in 3 .. Len(s) + 2
        BY <2>6
      <4> QED BY <2>4, <2>6, <2>7, <4>1
    <3>2. uip \in ToSet(c) /\ high \in ToSet(c)
      <4>1. 1 \in DOMAIN c /\ 2 \in DOMAIN c
        BY <2>6, <2>7
      <4> QED BY <2>7, <4>1 DEF ToSet
    <3>3. ASSUME NEW x \in R PROVE x \in ToSet(c)
      <4>1. PICK k \in 1 .. Len(s) : x = s[k]
        BY <2>2, <2>6 DEF ToSet
      <4>2. k + 2 \in 3 .. Len(s) + 2 /\ k + 2 \in DOMAIN c /\ (k + 2) - 2 = k
        BY <2>6, <2>7
      <4>3. c[k + 2] = s[(k + 2) - 2]
        BY <2>7, <4>2
      <4>4. c[k + 2] = x
        BY <4>1, <4>2, <4>3
      <4> QED BY <4>2, <4>4 DEF ToSet
    <3> QED BY <2>4, <2>7, <3>1, <3>2, <3>3 DEF ToSet
  <2>10. LevelOf(high) \in 0 .. Len(trail_lim) /\ LevelOf(high) < Len(trail_lim)
    <3>1. PICK i \in DOMAIN trail : trail[i].lit = -high /\ trail[i].level > 0
      BY <1>2, <1>3 DEF Resolving
    <3>2. LevelOf(high) = trail[i].level
      BY <1>3, <2>4, <3>1, LevelIs
    <3>3. trail[i].level \in 0 .. Len(trail_lim)
      BY <1>3, Shape
    <3>4. LevelOf(high) # Len(trail_lim)
      BY <1>2, <1>4 DEF OneHere, Here
    <3> QED BY <1>6, <3>2, <3>3, <3>4
  <2>11. PICK level \in 0 .. Len(trail_lim) : level = LevelOf(high)
    BY <2>10
  <2>12. /\ Store(c, level) /\ level < Len(trail_lim) /\ (\A x \in resolvent \ {uip} : LevelOf(x) <= level)
         /\ Len(c) > 0 /\ Len(c) # 1 /\ LevelOf(c[2]) = level /\ c[1] = uip
    BY <1>8, <2>5, <2>6, <2>7, <2>10, <2>11
  <2> QED BY <1>2, <1>4, <1>5, <2>7, <2>8, <2>9, <2>12, StoreStep
<1> QED BY <1>1, <1>7, <1>8

-----------------------------------------------------------------------------
(* Adding a clause                                                         *)

\* Merging leaves a clause without duplicates.
LEMMA MergedClause ==
  ASSUME NEW S, NEW h \in Seq(S), NEW c \in Merged(h)
  PROVE  c \in Seq(S) /\ IsInjective(c)
<1> DEFINE firsts == {k \in DOMAIN h : \A j \in DOMAIN h : j < k => h[j] # h[k]}
<1>1. Len(h) \in Nat /\ DOMAIN h = 1 .. Len(h) /\ \A k \in DOMAIN h : h[k] \in S
  OBVIOUS
<1>2. PICK pos \in InOrder(firsts) : c = [i \in DOMAIN pos |-> h[pos[i]]]
  BY DEF Merged
<1>3. firsts \subseteq 1 .. Len(h)
  BY <1>1
<1>4. Cardinality(firsts) \in Nat
  <2> HIDE DEF firsts
  <2>1. 1 \in Int /\ Len(h) \in Int
    BY <1>1
  <2>2. IsFiniteSet(1 .. Len(h))
    BY <2>1, FS_Interval
  <2>3. IsFiniteSet(firsts)
    BY <1>3, <2>2, FS_Subset
  <2> QED BY <2>3, FS_CardinalityType
<1> DEFINE n == Cardinality(firsts)
<1>5. pos \in [1 .. n -> firsts] /\ \A i, j \in 1 .. n : i < j => pos[i] < pos[j]
  BY DEF InOrder
<1> HIDE DEF n
<1>6. n \in Nat
  BY <1>4 DEF n
<1>7. c \in [1 .. n -> S] /\ \A i \in 1 .. n : c[i] = h[pos[i]] /\ pos[i] \in firsts /\ pos[i] \in DOMAIN h
  BY <1>1, <1>2, <1>5
<1>8. c \in Seq(S)
  BY <1>6, <1>7
<1>9. ASSUME NEW i \in 1 .. n, NEW j \in 1 .. n, i < j PROVE c[i] # c[j]
  BY <1>5, <1>7, <1>9
<1>10. ASSUME NEW i \in 1 .. n, NEW j \in 1 .. n, c[i] = c[j] PROVE i = j
  <2>1. ~(i < j) /\ ~(j < i)
    BY <1>9, <1>10
  <2> QED BY <1>6, <2>1
<1> QED BY <1>7, <1>8, <1>10 DEF IsInjective

LEMMA AddStep ==
  ASSUME CdclInv, Add
  PROVE  CdclInv'
<1> DEFINE n == config.num_vars
           new == Len(clauses) + 1
<1>1. Typed /\ Meaning /\ Working /\ Listed /\ Minding /\ Unwatched
  BY DEF CdclInv
<1>2. todo # <<>> /\ todo' = Tail(todo) /\ config' = config
  BY DEF Add
<1>3. Head(todo) \in Seq(VLit) /\ todo' \in Seq(Seq(VLit))
  <2> DEFINE Q == Seq(VLit)
  <2>1. todo \in Seq(Q)
    BY <1>1 DEF Typed
  <2> HIDE DEF Q
  <2>2. Head(todo) \in Q /\ todo' \in Seq(Q)
    BY <1>2, <2>1
  <2> QED BY <2>2 DEF Q
<1>4. VLit' = VLit
  BY <1>2 DEF VLit
<1>5. CASE Tautology(Head(todo)) /\ UNCHANGED <<db, search, unsat_at_root, status>>
  <2>1. /\ clauses' = clauses /\ original' = original /\ watches' = watches
        /\ trail' = trail /\ trail_lim' = trail_lim /\ flipped' = flipped /\ head' = head /\ visiting' = visiting
        /\ falsified' = falsified /\ resolvent' = resolvent /\ unsat_at_root' = unsat_at_root /\ status' = status
    BY <1>5 DEF db, search
  <2>2. Models' = Models
    BY <1>2, <2>1, ModelsKept
  <2>3. Typed'
    BY <1>1, <1>2, <1>3, <1>4, <2>1 DEF Typed
  <2>4. Meaning'
    BY <1>1, <2>1, <2>2 DEF Meaning, Implied, Lits
  <2>5. Working'
    <3>1. Visiting'
      BY <1>1, <2>1 DEF Working, Visiting
    <3>2. ConflictShape'
      BY <1>1, <2>1 DEF Working, ConflictShape, FalseHere, Lits
    <3>3. Resolving'
      BY <1>1, <1>4, <2>1, <2>2 DEF Working, Resolving, FalseHere
    <3> QED BY <1>1, <2>1, <3>1, <3>2, <3>3 DEF Working
  <2>6. Listed' /\ Minding' /\ Unwatched'
    BY <1>1, <1>2, <2>1 DEF Listed, Minding, Done, Unwatched, UnitClauses
  <2> QED BY <2>3, <2>4, <2>5, <2>6 DEF CdclInv
<1>6. ASSUME NEW c \in Merged(Head(todo)), clauses' = Append(clauses, c), watches' = Watched(watches, new, c),
             unsat_at_root' = (unsat_at_root \/ c = <<>>), original' = original \union {new},
             trail' = <<>>, trail_lim' = <<>>, flipped' = <<>>, head' = 0,
             visiting' = NoVisit, falsified' = 0, resolvent' = {}, status' = "new"
      PROVE  CdclInv'
  <2>1. c \in Seq(VLit) /\ IsInjective(c) /\ Len(c) \in Nat
    <3>1. c \in Seq(VLit) /\ IsInjective(c)
      BY <1>3, MergedClause
    <3> QED BY <3>1
  <2>2. /\ n \in Nat /\ Clauses(clauses, n) /\ original \subseteq DOMAIN clauses /\ c \in Seq(LitsUpTo(n))
        /\ unsat_at_root \in BOOLEAN
    BY <1>1, <2>1, Shape DEF Typed, VLit
  <2>3. /\ Len(clauses) \in Nat /\ DOMAIN clauses = 1 .. Len(clauses) /\ DOMAIN clauses' = 1 .. new
        /\ clauses'[new] = c /\ (\A i \in DOMAIN clauses : clauses'[i] = clauses[i])
        /\ Clauses(clauses', n)
    <3> HIDE DEF n
    <3>1. clauses' = Append(clauses, c)
      BY <1>6
    <3> QED BY ONLY <2>1, <2>2, <3>1, Appended
  <2>4. new \in DOMAIN clauses' /\ \A i \in DOMAIN clauses' : i \in DOMAIN clauses \/ i = new
    BY <2>3
  <2>5. ASSUME NEW m \in Models' PROVE m \in Models /\ Satisfies(m, c)
    <3>1. m \in Assignments[n] /\ \A i \in original' : Satisfies(m, clauses'[i])
      BY <1>2 DEF Models, Assignments
    <3>2. \A i \in original : Satisfies(m, clauses[i])
      BY <1>6, <2>2, <2>3, <3>1
    <3>3. Satisfies(m, c)
      BY <1>6, <2>3, <3>1
    <3> QED BY <3>1, <3>2, <3>3 DEF Models
  <2>6. Implied'
    <3> SUFFICES ASSUME NEW m \in Models', NEW i \in DOMAIN clauses' PROVE Satisfies(m, clauses'[i])
      BY DEF Implied, Satisfies
    <3>1. m \in Models /\ Satisfies(m, c)
      BY <2>5
    <3> QED BY <1>1, <2>3, <2>4, <3>1 DEF Meaning, Implied
  <2>7. unsat_at_root' => Models' = {}
    <3> SUFFICES ASSUME unsat_at_root', NEW m \in Models' PROVE FALSE
      OBVIOUS
    <3>1. m \in Models /\ Satisfies(m, c)
      BY <2>5
    <3>2. c # <<>>
      BY <3>1 DEF Satisfies, ToSet
    <3> QED BY <1>1, <1>6, <3>1, <3>2 DEF Meaning
  <2>8. Typed'
    <3>1. IsTrail(<<>>, <<>>, n) /\ Justified(<<>>, clauses') /\ Len(<<>>) = 0 /\ <<>> \in Seq(BOOLEAN)
      BY NoEntries
    <3>2. original' \subseteq DOMAIN clauses'
      BY <1>6, <2>2, <2>3, <2>4
    <3> QED BY <1>1, <1>2, <1>3, <1>4, <1>6, <2>2, <2>3, <3>1, <3>2 DEF Typed
  <2>9. Meaning'
    <3>1. (Tried(trail, trail_lim, flipped, Models))'
      BY <1>6 DEF Tried
    <3> QED BY <1>6, <2>6, <2>7, <3>1 DEF Meaning
  <2>10. Working'
    <3>1. Visiting'
      BY <1>6 DEF Visiting, NoVisit
    <3> QED BY <1>6, <3>1 DEF Working, ConflictShape, Resolving
  <2>11. Listed'
    BY <1>1, <1>6, <2>1, <2>3, ListedMore
  <2>12. Minding'
    BY <1>6 DEF Minding
  <2>13. Unwatched'
    <3>1. ASSUME NEW i \in DOMAIN clauses', Len(clauses'[i]) = 0 PROVE unsat_at_root'
      <4>1. CASE i \in DOMAIN clauses
        BY <1>1, <1>6, <2>3, <3>1, <4>1 DEF Unwatched
      <4>2. CASE i = new
        <5>1. Len(c) = 0
          BY <2>3, <3>1, <4>2
        <5>2. c = <<>>
          BY <2>1, <5>1
        <5> QED BY <1>6, <5>2
      <4> QED BY <2>4, <4>1, <4>2
    <3> QED BY <1>6, <3>1 DEF Unwatched
  <2> QED BY <2>8, <2>9, <2>10, <2>11, <2>12, <2>13 DEF CdclInv
<1> QED BY <1>5, <1>6, Zenon DEF Add

-----------------------------------------------------------------------------
(* A call of solve begins                                                  *)

\* A unit clause is its literal.
LEMMA UnitClause ==
  ASSUME Typed, NEW i \in UnitClauses
  PROVE  /\ i \in DOMAIN clauses /\ clauses[i][1] \in VLit /\ ToSet(clauses[i]) = {clauses[i][1]}
         /\ i \in Nat \ {0}
         /\ \A j \in UnitClauses : clauses[j][1] = clauses[i][1] => clauses[j] = clauses[i]
<1>1. config.num_vars \in Nat /\ Clauses(clauses, config.num_vars)
  BY Shape DEF Typed
<1>2. ASSUME NEW j \in UnitClauses
      PROVE  /\ j \in DOMAIN clauses /\ Len(clauses[j]) = 1 /\ clauses[j] \in Seq(VLit) /\ DOMAIN clauses[j] = 1 .. 1
             /\ clauses[j][1] \in VLit
  <2>1. j \in DOMAIN clauses /\ Len(clauses[j]) = 1
    BY DEF UnitClauses
  <2>2. /\ clauses[j] \in Seq(VLit) /\ DOMAIN clauses[j] = 1 .. 1
        /\ \A k \in 1 .. 1 : clauses[j][k] \in VLit
    BY <1>1, <2>1, ClauseLits DEF VLit
  <2> QED BY <2>1, <2>2
<1>3. ToSet(clauses[i]) = {clauses[i][1]}
  BY <1>2 DEF ToSet
<1>4. \A j \in UnitClauses : clauses[j][1] = clauses[i][1] => clauses[j] = clauses[i]
  <2> SUFFICES ASSUME NEW j \in UnitClauses, clauses[j][1] = clauses[i][1] PROVE clauses[j] = clauses[i]
    OBVIOUS
  <2>1. clauses[i] \in Seq(VLit) /\ clauses[j] \in Seq(VLit) /\ Len(clauses[i]) = 1 /\ Len(clauses[j]) = 1
    BY <1>2
  <2>2. clauses[i] = <<clauses[i][1]>> /\ clauses[j] = <<clauses[j][1]>>
    BY <2>1
  <2> QED BY <2>2
<1>5. i \in Nat \ {0}
  BY <1>1, <1>2 DEF Clauses
<1> QED BY <1>2, <1>3, <1>4, <1>5

\* The first call of solve assigns the unit clauses.
LEMMA UnitsTrail ==
  ASSUME Typed, NEW t, IsTrail(t, <<>>, config.num_vars), Justified(t, clauses), NEW u \in WithUnits(t)
  PROVE  /\ IsTrail(u, <<>>, config.num_vars) /\ Justified(u, clauses)
         /\ Len(t) \in Nat /\ Len(u) \in Nat /\ Len(t) <= Len(u) /\ \A p \in 1 .. Len(t) : u[p] = t[p]
         /\ \A i \in Assignable(t) : \E q \in DOMAIN u : u[q].lit = clauses[i][1] /\ u[q].level = 0
<1> DEFINE n == config.num_vars
           A == Assignable(t)
<1>1. PICK pos \in InOrder(A) :
        u = t \o [k \in DOMAIN pos |-> [lit |-> clauses[pos[k]][1], reason |-> pos[k], level |-> 0]]
  BY DEF WithUnits
<1> DEFINE s == [k \in DOMAIN pos |-> [lit |-> clauses[pos[k]][1], reason |-> pos[k], level |-> 0]]
           a == Cardinality(A)
<1>2. /\ pos \in [1 .. a -> A] /\ Range(pos) = A /\ \A i, j \in 1 .. a : i < j => pos[i] < pos[j]
  BY DEF InOrder
<1>3. /\ n \in Nat /\ Clauses(clauses, n)
  BY Shape DEF Typed
<1>4. A \subseteq UnitClauses
  BY DEF Assignable
<1>5. a \in Nat
  <2>1. Len(clauses) \in Nat /\ DOMAIN clauses = 1 .. Len(clauses)
    BY <1>3 DEF Clauses
  <2>2. IsFiniteSet(1 .. Len(clauses))
    BY <2>1, FS_Interval
  <2>3. A \in SUBSET (1 .. Len(clauses))
    BY <1>4, <2>1 DEF UnitClauses
  <2> HIDE DEF A
  <2>4. IsFiniteSet(A)
    BY <2>2, <2>3, FS_Subset
  <2> QED BY <2>4, FS_CardinalityType
<1> HIDE DEF A, a
<1>6. ASSUME NEW k \in 1 .. a
      PROVE  /\ s[k].lit = clauses[pos[k]][1] /\ s[k].reason = pos[k] /\ s[k].level = 0 /\ s[k] \in Entry(n)
             /\ pos[k] \in A /\ pos[k] \in UnitClauses
  <2>1. pos[k] \in A /\ pos[k] \in UnitClauses
    BY <1>2, <1>4
  <2>2. clauses[pos[k]][1] \in LitsUpTo(n) /\ pos[k] \in Nat
    BY <2>1, UnitClause DEF VLit
  <2>3. s[k] = [lit |-> clauses[pos[k]][1], reason |-> pos[k], level |-> 0]
    BY <1>2
  <2> HIDE DEF s, n
  <2> QED BY <2>1, <2>2, <2>3 DEF Entry
<1>7. s \in Seq(Entry(n)) /\ Len(s) = a
  <2>1. s \in [1 .. a -> Entry(n)]
    <3>1. DOMAIN pos = 1 .. a
      BY <1>2
    <3>2. s = [k \in 1 .. a |-> s[k]]
      BY <3>1
    <3> HIDE DEF s
    <3> QED BY <1>6, <3>2
  <2> HIDE DEF s
  <2> QED BY <1>5, <2>1
<1>8. u = t \o s
  BY <1>1
<1> HIDE DEF s
<1>9. /\ t \in Seq(Entry(n)) /\ Len(t) \in Nat /\ DOMAIN t = 1 .. Len(t)
      /\ (\A p \in 1 .. Len(t) : t[p].lit \in VLit /\ t[p].level = 0)
      /\ \A p \in DOMAIN t : t[p].reason # 0
  <2>1. t \in Seq(Entry(n)) /\ Len(t) \in Nat /\ DOMAIN t = 1 .. Len(t)
        /\ \A p \in 1 .. Len(t) : t[p].lit \in LitsUpTo(n) /\ t[p].level \in 0 .. Len(<<>>)
    BY EntryFacts DEF IsTrail
  <2>2. Len(<<>>) = 0 /\ DOMAIN <<>> = {}
    OBVIOUS
  <2>3. \A p \in DOMAIN t : t[p].reason # 0
    BY <2>2 DEF IsTrail
  <2> QED BY <2>1, <2>2, <2>3 DEF VLit
<1>10. /\ u \in Seq(Entry(n)) /\ Len(u) = Len(t) + a /\ DOMAIN u = 1 .. Len(t) + a
       /\ (\A p \in 1 .. Len(t) : u[p] = t[p])
       /\ \A k \in 1 .. a : u[Len(t) + k] = s[k] /\ Len(t) + k \in DOMAIN u
  BY ONLY <1>5, <1>7, <1>8, <1>9
<1>11. ASSUME NEW p \in DOMAIN u PROVE p \in 1 .. Len(t) \/ \E k \in 1 .. a : p = Len(t) + k
  <2>1. p \in 1 .. Len(t) \/ (p - Len(t) \in 1 .. a /\ p = Len(t) + (p - Len(t)))
    BY <1>5, <1>9, <1>10
  <2> QED BY <2>1
<1>12. ASSUME NEW k \in 1 .. a, NEW p \in 1 .. Len(t) PROVE s[k].lit # t[p].lit /\ s[k].lit # -t[p].lit /\ t[p].lit # -s[k].lit
  <2>1. ~IsTrue(t, clauses[pos[k]][1]) /\ ~IsFalse(t, clauses[pos[k]][1])
    <3>1. pos[k] \in Assignable(t) /\ pos[k] \in UnitClauses /\ pos[k] <= pos[k]
      BY <1>6, UnitClause DEF A
    <3>2. ~IsTrue(t, clauses[pos[k]][1]) /\ ~Clash(t, pos[k])
      BY <3>1 DEF Assignable
    <3> QED BY <3>2 DEF Clash
  <2>2. t[p].lit \in Lits(t) /\ t[p].lit \in VLit
    BY <1>9 DEF Lits
  <2>3. -(-t[p].lit) = t[p].lit
    BY <1>3, <2>2, Literal DEF VLit
  <2> QED BY <1>6, <2>1, <2>2, <2>3 DEF IsTrue, IsFalse
<1>13. ASSUME NEW j \in 1 .. a, NEW k \in 1 .. a, j < k PROVE s[k].lit # s[j].lit /\ s[k].lit # -s[j].lit /\ s[j].lit # -s[k].lit
  <2>1. pos[j] < pos[k] /\ pos[j] \in UnitClauses /\ pos[k] \in Assignable(t) /\ pos[k] \in UnitClauses
    BY <1>2, <1>6, <1>13 DEF A
  <2>2. clauses[pos[j]] # clauses[pos[k]]
    BY <2>1 DEF Assignable
  <2>3. clauses[pos[j]][1] # clauses[pos[k]][1]
    BY <2>1, <2>2, UnitClause
  <2>4. pos[k] <= pos[k]
    BY <2>1, UnitClause
  <2>5. ~Clash(t, pos[k])
    BY <2>1, <2>4 DEF Assignable
  <2>6. clauses[pos[j]][1] # -clauses[pos[k]][1]
    BY <2>1, <2>5 DEF Clash
  <2>7. clauses[pos[j]][1] \in VLit /\ clauses[pos[k]][1] \in VLit
    BY <2>1, UnitClause
  <2>8. -(-clauses[pos[j]][1]) = clauses[pos[j]][1]
    BY <1>3, <2>7, Literal DEF VLit
  <2>9. clauses[pos[k]][1] # -clauses[pos[j]][1]
    BY <1>3, <2>6, <2>7, <2>8
  <2> QED BY <1>6, <2>3, <2>6, <2>9
<1>14. \A p, q \in DOMAIN u : u[p].lit \in {u[q].lit, -u[q].lit} => p = q
  <2> SUFFICES ASSUME NEW p \in DOMAIN u, NEW q \in DOMAIN u, u[p].lit \in {u[q].lit, -u[q].lit} PROVE p = q
    OBVIOUS
  <2>1. CASE p \in 1 .. Len(t) /\ q \in 1 .. Len(t)
    BY <1>9, <1>10, <2>1 DEF IsTrail
  <2>2. CASE p \in 1 .. Len(t) /\ \E k \in 1 .. a : q = Len(t) + k
    BY <1>10, <1>12, <2>2
  <2>3. CASE q \in 1 .. Len(t) /\ \E k \in 1 .. a : p = Len(t) + k
    BY <1>10, <1>12, <2>3
  <2>4. CASE \E j, k \in 1 .. a : p = Len(t) + j /\ q = Len(t) + k
    <3>1. PICK j \in 1 .. a, k \in 1 .. a : p = Len(t) + j /\ q = Len(t) + k
      BY <2>4
    <3>2. s[j].lit \in {s[k].lit, -s[k].lit}
      BY <1>10, <3>1
    <3>3. ~(j < k) /\ ~(k < j)
      BY <1>13, <3>2
    <3> QED BY <1>5, <3>1, <3>3
  <2> QED BY <1>11, <2>1, <2>2, <2>3, <2>4
<1>15. \A p \in DOMAIN u : u[p].level = 0 /\ u[p].reason # 0
  <2> SUFFICES ASSUME NEW p \in DOMAIN u PROVE u[p].level = 0 /\ u[p].reason # 0
    OBVIOUS
  <2>1. CASE p \in 1 .. Len(t)
    BY <1>9, <1>10, <2>1
  <2>2. ASSUME NEW k \in 1 .. a, p = Len(t) + k PROVE u[p].level = 0 /\ u[p].reason # 0
    BY <1>6, <1>10, <2>2, UnitClause
  <2> QED BY <1>11, <2>1, <2>2
<1>16. IsTrail(u, <<>>, n)
  <2>1. DOMAIN <<>> = {} /\ Len(<<>>) = 0 /\ <<>> \in Seq(Nat)
    OBVIOUS
  <2> QED BY <1>10, <1>14, <1>15, <2>1 DEF IsTrail
<1>17. Justified(u, clauses)
  <2> SUFFICES ASSUME NEW p \in DOMAIN u
               PROVE  /\ u[p].reason \in DOMAIN clauses /\ u[p].lit \in ToSet(clauses[u[p].reason])
                      /\ \A x \in ToSet(clauses[u[p].reason]) \ {u[p].lit} : \E j \in 1 .. p - 1 : u[j].lit = -x
    BY DEF Justified
  <2>1. CASE p \in 1 .. Len(t)
    <3>1. u[p] = t[p] /\ p \in DOMAIN t /\ \A j \in 1 .. p - 1 : u[j] = t[j]
      BY <1>9, <1>10, <2>1
    <3> QED BY <1>9, <3>1 DEF Justified
  <2>2. ASSUME NEW k \in 1 .. a, p = Len(t) + k
        PROVE  /\ u[p].reason \in DOMAIN clauses /\ u[p].lit \in ToSet(clauses[u[p].reason])
               /\ ToSet(clauses[u[p].reason]) \ {u[p].lit} = {}
    <3>1. u[p].reason = pos[k] /\ u[p].lit = clauses[pos[k]][1] /\ pos[k] \in UnitClauses
      BY <1>6, <1>10, <2>2
    <3> QED BY <3>1, UnitClause
  <2> QED BY <1>11, <2>1, <2>2
<1>18. ASSUME NEW i \in A PROVE \E q \in DOMAIN u : u[q].lit = clauses[i][1] /\ u[q].level = 0
  <2>1. PICK k \in 1 .. a : pos[k] = i
    BY <1>2 DEF Range
  <2> QED BY <1>6, <1>10, <2>1
<1> QED BY <1>5, <1>9, <1>10, <1>16, <1>17, <1>18 DEF A

\* Where no unit clause is refuted, every one of them gets its literal.
LEMMA UnitsAssigned ==
  ASSUME Typed, NEW t, IsTrail(t, <<>>, config.num_vars), Justified(t, clauses), NEW u \in WithUnits(t),
         \A i \in UnitClauses : ~Clash(t, i), NEW i \in UnitClauses
  PROVE  \E q \in DOMAIN u : u[q].lit = clauses[i][1] /\ u[q].level = 0
<1>1. /\ Len(t) \in Nat /\ Len(u) \in Nat /\ Len(t) <= Len(u) /\ \A p \in 1 .. Len(t) : u[p] = t[p]
      /\ IsTrail(u, <<>>, config.num_vars)
      /\ \A j \in Assignable(t) : \E q \in DOMAIN u : u[q].lit = clauses[j][1] /\ u[q].level = 0
  BY UnitsTrail
<1>2. CASE IsTrue(t, clauses[i][1])
  <2>1. PICK q \in DOMAIN t : t[q].lit = clauses[i][1]
    BY <1>2 DEF IsTrue, Lits
  <2>2. DOMAIN t = 1 .. Len(t) /\ DOMAIN u = 1 .. Len(u)
    BY <1>1, EntryFacts
  <2>3. t[q].level = 0
    <3>1. \A p \in 1 .. Len(t) : t[p].level \in 0 .. Len(<<>>)
      BY EntryFacts DEF IsTrail
    <3>2. Len(<<>>) = 0
      OBVIOUS
    <3> QED BY <2>1, <2>2, <3>1, <3>2
  <2> QED BY <1>1, <2>1, <2>2, <2>3
<1>3. CASE ~IsTrue(t, clauses[i][1])
  <2> DEFINE S == {j \in UnitClauses : clauses[j] = clauses[i]}
  <2>1. S # {} /\ S \in SUBSET Nat
    BY UnitClause
  <2>2. PICK j \in S : \A k \in S : j <= k
    <3> HIDE DEF S
    <3> QED BY <2>1, Least
  <2>3. ASSUME NEW k \in UnitClauses, k < j PROVE clauses[k] # clauses[j]
    <3>1. k \in Nat /\ j \in Nat
      BY <2>2, UnitClause
    <3> QED BY <2>2, <2>3, <3>1
  <2>4. j \in Assignable(t)
    BY <1>3, <2>2, <2>3 DEF Assignable
  <2> QED BY <1>1, <2>2, <2>4
<1> QED BY <1>2, <1>3

\* A unit clause is refuted only if the formula is.
LEMMA ClashRefutes ==
  ASSUME Typed, Implied, NEW t, IsTrail(t, <<>>, config.num_vars), Justified(t, clauses),
         NEW i \in UnitClauses, Clash(t, i)
  PROVE  Models = {}
<1> SUFFICES ASSUME NEW m \in Models PROVE FALSE
  OBVIOUS
<1>1. config.num_vars \in Nat /\ Clauses(clauses, config.num_vars) /\ config \in Problems
  BY Shape DEF Typed
<1>2. Meets(m, config.num_vars, clauses)
  BY <1>1, ModelMeets
<1>3. ASSUME NEW j \in UnitClauses PROVE clauses[j][1] \in m
  <2>1. j \in DOMAIN clauses /\ ToSet(clauses[j]) = {clauses[j][1]}
    BY UnitClause
  <2> QED BY <1>2, <2>1 DEF Meets, Satisfies
<1>4. -clauses[i][1] \in m
  <2>1. CASE IsFalse(t, clauses[i][1])
    <3>1. PICK q \in DOMAIN t : t[q].lit = -clauses[i][1]
      BY <2>1 DEF IsFalse, Lits
    <3>2. t[q].level = 0
      <4>1. DOMAIN t = 1 .. Len(t) /\ \A p \in 1 .. Len(t) : t[p].level \in 0 .. Len(<<>>)
        BY EntryFacts DEF IsTrail
      <4>2. Len(<<>>) = 0
        OBVIOUS
      <4> QED BY <4>1, <4>2
    <3>3. t[q].lit \in m
      BY <1>1, <1>2, <3>2, AtRoot
    <3> QED BY <3>1, <3>3
  <2>2. CASE \E j \in UnitClauses : clauses[j][1] = -clauses[i][1]
    BY <1>3, <2>2
  <2> QED BY <2>1, <2>2 DEF Clash
<1>5. clauses[i][1] \in VLit /\ clauses[i][1] \in m
  BY <1>3, UnitClause
<1> QED BY <1>2, <1>4, <1>5 DEF Meets, VLit

\* A call of solve begins from what the root keeps.
LEMMA BeginStep ==
  ASSUME CdclInv, NEW t, Begin(t), IsTrail(t, <<>>, config.num_vars), Justified(t, clauses),
         ~unsat_at_root => \A i \in DOMAIN clauses : Len(clauses[i]) >= 2 =>
                             \A p \in 1 .. Len(t) : Minded(t, p, clauses[i]),
         config' = config, todo' = todo, clauses' = clauses, original' = original, watches' = watches,
         \/ unsat_at_root' = (unsat_at_root \/ status' = "UNSAT")
         \/ unsat_at_root' = unsat_at_root /\ config.build # "python"
  PROVE  CdclInv'
<1>1. Typed /\ Meaning /\ Implied /\ unsat_at_root \in BOOLEAN
  BY DEF CdclInv, Meaning, Typed
<1>2. /\ trail_lim' = <<>> /\ flipped' = <<>> /\ head' = Len(t)
      /\ falsified' = 0 /\ resolvent' = {} /\ visiting' = [lit |-> visiting'.lit, left |-> {}]
  BY DEF Begin, Answer, NoVisit
<1>3. Len(t) \in Nat /\ DOMAIN t = 1 .. Len(t)
  BY EntryFacts
<1>4. CASE unsat_at_root
  <2>1. trail' = t /\ status' = "UNSAT"
    BY <1>4 DEF Begin, Answer
  <2>2. Models = {}
    BY <1>1, <1>4 DEF Meaning
  <2>3. unsat_at_root' = TRUE
    BY <1>4, <2>1
  <2> QED BY <1>2, <1>3, <2>1, <2>2, <2>3, RootStep
<1>5. CASE ~unsat_at_root
  <2>1. /\ trail' \in WithUnits(t)
        /\ status' = IF \E i \in UnitClauses : Clash(t, i) THEN "UNSAT" ELSE "search"
    BY <1>5 DEF Begin, Answer
  <2>2. PICK u \in WithUnits(t) : trail' = u
    BY <2>1
  <2>3. /\ IsTrail(u, <<>>, config.num_vars) /\ Justified(u, clauses)
        /\ Len(u) \in Nat /\ Len(t) <= Len(u) /\ \A p \in 1 .. Len(t) : u[p] = t[p]
    BY <1>1, UnitsTrail
  <2>4. DOMAIN u = 1 .. Len(u)
    BY <2>3, EntryFacts
  <2>5. status' = "UNSAT" => Models = {}
    BY <1>1, <2>1, ClashRefutes
  <2>6. status' = "search" =>
          \A i \in UnitClauses : \E q \in DOMAIN u : u[q].lit = clauses[i][1] /\ u[q].level = 0
    BY <1>1, <2>1, UnitsAssigned
  <2>7. \A i \in DOMAIN clauses : Len(clauses[i]) >= 2 => \A p \in 1 .. Len(t) : Minded(u, p, clauses[i])
    <3> SUFFICES ASSUME NEW i \in DOMAIN clauses, Len(clauses[i]) >= 2, NEW p \in 1 .. Len(t)
                 PROVE  Minded(u, p, clauses[i])
      OBVIOUS
    <3>1. Minded(t, p, clauses[i]) /\ p \in DOMAIN t
      BY <1>3, <1>5
    <3>2. DOMAIN t \subseteq DOMAIN u /\ \A j \in DOMAIN t : u[j] = t[j]
      BY <1>3, <2>3, <2>4
    <3> QED BY <3>1, <3>2, MindedMore
  <2>8. /\ unsat_at_root' \in BOOLEAN /\ (unsat_at_root' => status' = "UNSAT")
        /\ (config.build = "python" /\ status' = "UNSAT" => unsat_at_root')
    <3>1. CASE unsat_at_root' = (unsat_at_root \/ status' = "UNSAT")
      BY ONLY <1>5, <3>1, Zenon
    <3>2. CASE unsat_at_root' = unsat_at_root /\ config.build # "python"
      <4>1. unsat_at_root = FALSE
        BY <1>1, <1>5
      <4> QED BY <3>2, <4>1
    <3> QED BY <3>1, <3>2
  <2>9. status' \in {"search", "TIMEOUT", "UNSAT"} /\ status' # "TIMEOUT" /\ (status' = "search" => ~unsat_at_root')
    BY <2>1, <2>8
  <2>10. head' \in 0 .. Len(u)
    BY <1>2, <1>3, <2>3
  <2> QED BY <1>2, <1>5, <2>2, <2>3, <2>5, <2>6, <2>7, <2>8, <2>9, <2>10, RootStep
<1> QED BY <1>4, <1>5

LEMMA StartPythonStep ==
  ASSUME CdclInv, StartPython
  PROVE  CdclInv'
<1> DEFINE t == Backtrack(0).trail
<1>1. /\ config.build = "python" /\ status # "search" /\ Begin(t)
      /\ unsat_at_root' = (unsat_at_root \/ status' = "UNSAT")
      /\ config' = config /\ todo' = todo /\ clauses' = clauses /\ original' = original /\ watches' = watches
  BY DEF StartPython, db
<1> HIDE DEF t
<1>2. t = Backtrack(0).trail
  BY DEF t
<1>3. Typed /\ Working /\ Unwatched
  BY DEF CdclInv
<1>4. IsTrail(t, <<>>, config.num_vars) /\ Justified(t, clauses) /\ Len(t) \in Nat /\ DOMAIN t = 1 .. Len(t)
  BY <1>2, <1>3, RootShape
<1>5. ASSUME ~unsat_at_root
      PROVE  \A i \in DOMAIN clauses : Len(clauses[i]) >= 2 => \A p \in 1 .. Len(t) : Minded(t, p, clauses[i])
  <2>1. status # "UNSAT"
    BY <1>1, <1>3, <1>5 DEF Unwatched
  <2>2. falsified = 0 /\ visiting.left = {} /\ head = Len(trail)
    BY <1>1, <1>3, <2>1 DEF Working, ConflictShape, Visiting
  <2>3. \A i \in DOMAIN clauses : Len(clauses[i]) >= 2 => \A p \in DOMAIN t : Minded(t, p, clauses[i])
    BY <1>2, <2>1, <2>2, RootMinded
  <2> QED BY <1>4, <2>3
<1> QED BY <1>1, <1>4, <1>5, BeginStep

LEMMA StartCythonStep ==
  ASSUME CdclInv, StartCython
  PROVE  CdclInv'
<1>1. /\ config.build # "python" /\ Begin(<<>>) /\ unsat_at_root' = unsat_at_root
      /\ config' = config /\ todo' = todo /\ clauses' = clauses /\ original' = original /\ watches' = watches
  BY DEF StartCython, db
<1>2. /\ IsTrail(<<>>, <<>>, config.num_vars) /\ Justified(<<>>, clauses)
      /\ \A p \in 1 .. Len(<<>>) : FALSE
  BY NoEntries
<1> QED BY <1>1, <1>2, BeginStep

-----------------------------------------------------------------------------
(* The specification                                                       *)

LEMMA CdclStart ==
  ASSUME CdclInit(Problems)
  PROVE  CdclInv
<1>1. /\ config \in Problems /\ todo = config.clauses /\ clauses = <<>> /\ original = {}
      /\ watches = [lit \in Lit |-> {}] /\ trail = <<>> /\ trail_lim = <<>> /\ flipped = <<>> /\ head = 0
      /\ visiting = NoVisit /\ falsified = 0 /\ resolvent = {} /\ unsat_at_root = FALSE /\ status = "new"
  BY DEF CdclInit
<1>2. /\ DOMAIN clauses = {} /\ DOMAIN trail = {} /\ DOMAIN trail_lim = {} /\ Len(trail) = 0
      /\ clauses \in Seq(Seq(VLit)) /\ flipped \in Seq(BOOLEAN) /\ Len(flipped) = Len(trail_lim)
  BY <1>1
<1>3. Typed
  <2>1. todo \in Seq(Seq(VLit))
    BY <1>1, NumVars
  <2>2. Clauses(clauses, config.num_vars)
    BY <1>2 DEF Clauses, VLit
  <2>3. IsTrail(trail, trail_lim, config.num_vars) /\ Justified(trail, clauses)
    BY <1>1, NoEntries
  <2>4. /\ config \in Problems /\ original \subseteq DOMAIN clauses /\ unsat_at_root \in BOOLEAN
        /\ status \in {"new", "search", "SAT", "UNSAT", "TIMEOUT"}
    BY <1>1
  <2>5. head \in 0 .. Len(trail)
    BY <1>1, <1>2
  <2> QED BY ONLY <1>2, <2>1, <2>2, <2>3, <2>4, <2>5 DEF Typed
<1>4. Meaning
  BY <1>1, <1>2 DEF Meaning, Implied, Tried
<1>5. Working
  BY <1>1, <1>2 DEF Working, Visiting, ConflictShape, Resolving, NoVisit
<1>6. Listed
  BY <1>1, <1>2 DEF Listed, WatchedBy
<1>7. Minding /\ Unwatched
  BY <1>1, <1>2 DEF Minding, Unwatched
<1> QED BY <1>3, <1>4, <1>5, <1>6, <1>7 DEF CdclInv

LEMMA CdclIdle ==
  ASSUME CdclInv, UNCHANGED cdclVars
  PROVE  CdclInv'
<1>1. /\ config' = config /\ todo' = todo /\ clauses' = clauses /\ original' = original /\ watches' = watches
      /\ trail' = trail /\ trail_lim' = trail_lim /\ flipped' = flipped /\ head' = head
      /\ visiting' = visiting /\ falsified' = falsified /\ resolvent' = resolvent
      /\ unsat_at_root' = unsat_at_root /\ status' = status
  BY DEF cdclVars, db, search, counters
<1>2. Models' = Models
  BY <1>1, ModelsKept
<1>3. Typed' /\ Meaning'
  BY <1>1, <1>2 DEF CdclInv, Typed, Meaning, Implied, VLit
<1>4. Working'
  BY <1>1, <1>2 DEF CdclInv, Working, Visiting, ConflictShape, Resolving, FalseHere, VLit
<1>5. Listed' /\ Minding' /\ Unwatched'
  BY <1>1 DEF CdclInv, Listed, Minding, Done, Unwatched, UnitClauses
<1> QED BY <1>3, <1>4, <1>5 DEF CdclInv

LEMMA CdclStep ==
  ASSUME CdclInv, CdclNext
  PROVE  CdclInv'
<1>1. CASE Load \/ AddClause
  BY <1>1, AddStep DEF Load, AddClause
<1>2. CASE StartPython \/ StartCython
  BY <1>2, StartPythonStep, StartCythonStep
<1>3. CASE Propagate
  BY <1>3, TakeLiteralStep, VisitStep DEF Propagate
<1>4. CASE Refute \/ TimeOut \/ Analyze \/ Resolve \/ Learn \/ Flip \/ Exhausted
  BY <1>4, RefuteStep, TimeOutStep, AnalyzeStep, ResolveStep, LearnStep, FlipStep, ExhaustedStep
<1>5. CASE Restart \/ Conclude \/ \E lit \in Lit : Decide(lit)
  BY <1>5, RestartStep, ConcludeStep, DecideStep
<1> QED BY <1>1, <1>2, <1>3, <1>4, <1>5 DEF CdclNext, Caller, Solve

\* The clauses are watched, justified and implied through every call of solve,
\* of the learning search and of the chronological one.
THEOREM InvariantHolds == CdclSpec => []CdclInv
<1>1. CdclInit(Problems) => CdclInv
  BY CdclStart
<1>2. CdclInv /\ [CdclNext]_cdclVars => CdclInv'
  BY CdclStep, CdclIdle
<1> QED BY <1>1, <1>2, PTL DEF CdclSpec

\* solve of src/SAT.py and src/SAT.pyx answers SAT with a model of every variable
\* and UNSAT only of an unsatisfiable formula, whatever calls, time-outs, restarts
\* and added clauses came before, and its last check never fails.
THEOREM SolversAnswerRight == CdclSpec => []AnswersRight
<1>1. CdclInv => AnswersRight
  BY DEF CdclInv, Typed, Meaning, AnswersRight
<1> QED BY <1>1, InvariantHolds, PTL

\* Every clause that _analyze_conflict learns and _add_learned stores follows from the
\* formula (src/SAT.py:8).
THEOREM LearnedFollow == CdclSpec => []LearnedImplied
<1>1. CdclInv => LearnedImplied
  BY DEF CdclInv, Meaning, Implied, LearnedImplied
<1> QED BY <1>1, InvariantHolds, PTL


-----------------------------------------------------------------------------
(* The search of PmlDpll                                                   *)

PmlFrame == [base : Nat, var : Nat, value : 0 .. 2]

PmlTyped ==
  /\ pml \in PmlProblems
  /\ assignment \in [Vars -> {-1, 0, 1}] /\ entry \in [Vars -> {-1, 0, 1}]
  /\ frames \in Seq(PmlFrame) /\ undo \in Seq(Vars) /\ budget \in Nat
  /\ at \in {"idle", "propagate", "branch", "undo"}
  /\ outcome \in {"UNSAT", "UNRESOLVED"}

\* What is assigned beyond the entry is on the trail, once.
PmlTrail ==
  /\ \A i, j \in DOMAIN undo : undo[i] = undo[j] => i = j
  /\ \A j \in DOMAIN undo : entry[undo[j]] = -1 /\ assignment[undo[j]] # -1
  /\ \A v \in Vars : (\A j \in DOMAIN undo : undo[j] # v) => assignment[v] = entry[v]

\* The base of a frame is the entry of the branch variable of the frame below it.
PmlFrames ==
  /\ Len(frames) \in 1 .. pml.num_vars + 1
  /\ frames[1].base = 0
  /\ \A j, k \in DOMAIN frames : j < k => frames[j].base < frames[k].base
  /\ \A k \in 2 .. Len(frames) :
       /\ frames[k].base \in DOMAIN undo /\ undo[frames[k].base] = frames[k - 1].var
       /\ frames[k - 1].value \in {1, 2}
       /\ assignment[frames[k - 1].var] = frames[k - 1].value - 1

PmlInner ==
  /\ at = "propagate" => Innermost.var = 0
  /\ at \in {"propagate", "branch"} /\ Innermost.var = 0 => Innermost.value = 0
  /\ at = "branch" /\ Innermost.var # 0 =>
       Innermost.var \in Vars /\ assignment[Innermost.var] = -1

PmlModels == {full \in Extensions(entry) : IsModel(full)}

PmlAgrees(full, j) == \A i \in 1 .. j : full[undo[i]] = assignment[undo[i]]

\* A model that agrees with the trail up to an entry agrees with it, unless
\* the entry is a branch whose other value has yet to be tried.
Follows(full) ==
  \A j \in DOMAIN undo : PmlAgrees(full, j - 1) =>
    \/ full[undo[j]] = assignment[undo[j]]
    \/ \E k \in 2 .. Len(frames) : frames[k].base = j /\ frames[k - 1].value = 1

\* Values already tried have no model, and neither has what a call gave up.
PmlMeaning ==
  \A full \in PmlModels :
    /\ Follows(full)
    /\ at = "branch" /\ Innermost.var # 0 /\ PmlAgrees(full, Len(undo)) =>
         full[Innermost.var] >= Innermost.value
    /\ at = "undo" /\ outcome = "UNSAT" => ~PmlAgrees(full, Innermost.base)

\* What a frame may still spend: a value, and the whole search below it.
Price(n, value, k) ==
  IF value = 0 THEN 2 * 2 ^ (n - k + 1) - 2
  ELSE IF value = 1 THEN 2 ^ (n - k + 1) - 1
  ELSE 0

PmlAfford ==
  pml.num_vars <= pml.complete =>
    /\ at = "undo" => outcome = "UNSAT"
    /\ \E s \in [0 .. Len(frames) -> Nat] :
         /\ s[0] = 0 /\ s[Len(frames)] <= budget
         /\ \A k \in 1 .. Len(frames) : s[k] = s[k - 1] + Price(pml.num_vars, frames[k].value, k)

PmlIInv ==
  /\ PmlTyped
  /\ at = "idle" => frames = <<>> /\ undo = <<>>
  /\ at # "idle" => PmlTrail /\ PmlFrames /\ PmlInner /\ PmlMeaning /\ PmlAfford

LEMMA PmlFacts ==
  ASSUME PmlTyped
  PROVE  /\ pml.num_vars \in Nat /\ Vars = 1 .. pml.num_vars /\ Vars \subseteq Int
         /\ Len(undo) \in Nat /\ DOMAIN undo = 1 .. Len(undo)
         /\ \A j \in 1 .. Len(undo) : undo[j] \in Vars
         /\ Len(frames) \in Nat /\ DOMAIN frames = 1 .. Len(frames)
         /\ \A k \in 1 .. Len(frames) :
              frames[k] \in PmlFrame /\ frames[k].base \in Nat /\ frames[k].var \in Nat
                /\ frames[k].value \in 0 .. 2
         /\ \A v \in Vars : assignment[v] \in {-1, 0, 1} /\ entry[v] \in {-1, 0, 1}
<1>1. pml.num_vars \in Nat
  BY PmlAssumption DEF PmlTyped
<1>2. Len(undo) \in Nat /\ DOMAIN undo = 1 .. Len(undo) /\ \A j \in 1 .. Len(undo) : undo[j] \in Vars
  BY DEF PmlTyped
<1>3. Len(frames) \in Nat /\ DOMAIN frames = 1 .. Len(frames)
  BY DEF PmlTyped
<1>4. \A k \in 1 .. Len(frames) : frames[k] \in PmlFrame
  BY DEF PmlTyped
<1>5. \A f \in PmlFrame : f.base \in Nat /\ f.var \in Nat /\ f.value \in 0 .. 2
  BY DEF PmlFrame
<1>6. \A v \in Vars : assignment[v] \in {-1, 0, 1} /\ entry[v] \in {-1, 0, 1}
  BY DEF PmlTyped
<1> QED BY <1>1, <1>2, <1>3, <1>4, <1>5, <1>6 DEF Vars

LEMMA FullFacts ==
  ASSUME PmlTyped, NEW full \in PmlModels
  PROVE  /\ \A v \in Vars : full[v] \in {0, 1} /\ (entry[v] # -1 => full[v] = entry[v])
         /\ IsModel(full)
BY DEF PmlModels, Extensions

\* Powers of two, from the subsets of a set.
LEMMA Powers ==
  ASSUME NEW k \in Nat
  PROVE  2 ^ k \in Nat /\ 2 ^ k >= 1 /\ 2 ^ (k + 1) = 2 * 2 ^ k
<1> DEFINE S == 1 .. k
           T == 1 .. k + 1
           B == {A \union {k + 1} : A \in SUBSET S}
<1>1. IsFiniteSet(S) /\ Cardinality(S) = k /\ IsFiniteSet(T) /\ Cardinality(T) = k + 1
  BY FS_Interval
<1>2. /\ IsFiniteSet(SUBSET S) /\ Cardinality(SUBSET S) = 2 ^ k
      /\ IsFiniteSet(SUBSET T) /\ Cardinality(SUBSET T) = 2 ^ (k + 1)
  BY <1>1, FS_SUBSET
<1>3. Cardinality(SUBSET S) \in Nat
  BY <1>2, FS_CardinalityType
<1>4. Cardinality(SUBSET S) # 0
  <2>1. {} \in SUBSET S
    OBVIOUS
  <2> QED BY <1>2, <2>1, FS_EmptySet
<1>5. B \intersect SUBSET S = {}
  <2>1. k + 1 \notin S
    OBVIOUS
  <2> QED BY <2>1
<1>6. SUBSET T = B \union SUBSET S
  <2>1. ASSUME NEW A \in SUBSET T PROVE A \in B \union SUBSET S
    <3>1. CASE k + 1 \in A
      <4>1. A \ {k + 1} \in SUBSET S
        OBVIOUS
      <4>2. A = (A \ {k + 1}) \union {k + 1}
        BY <3>1
      <4> QED BY <4>1, <4>2
    <3>2. CASE k + 1 \notin A
      BY <3>2
    <3> QED BY <3>1, <3>2
  <2>2. S \subseteq T /\ k + 1 \in T
    OBVIOUS
  <2>3. B \union SUBSET S \subseteq SUBSET T
    BY <2>2
  <2> QED BY <2>1, <2>3
<1>7. IsFiniteSet(B) /\ Cardinality(B) = Cardinality(SUBSET S)
  <2> DEFINE f == [A \in SUBSET S |-> A \union {k + 1}]
  <2>1. k + 1 \notin S
    OBVIOUS
  <2>2. f \in Bijection(SUBSET S, B)
    <3>1. f \in [SUBSET S -> B] /\ \A b \in B : \E A \in SUBSET S : f[A] = b
      OBVIOUS
    <3>2. ASSUME NEW A \in SUBSET S, NEW C \in SUBSET S, f[A] = f[C] PROVE A = C
      <4>1. A \union {k + 1} = C \union {k + 1}
        BY <3>2
      <4> QED BY <2>1, <4>1
    <3> QED BY <3>1, <3>2 DEF Bijection, Injection, Surjection, IsInjective
  <2>3. ExistsBijection(SUBSET S, B)
    BY <2>2 DEF ExistsBijection
  <2> QED BY <1>2, <2>3, FS_Bijection
<1>8. Cardinality(SUBSET T) = Cardinality(B) + Cardinality(SUBSET S)
  <2> HIDE DEF B, S, T
  <2>1. Cardinality(B \union SUBSET S) =
           Cardinality(B) + Cardinality(SUBSET S) - Cardinality(B \intersect SUBSET S)
    BY <1>2, <1>7, FS_Union
  <2>2. Cardinality(B \intersect SUBSET S) = 0
    BY <1>5, FS_EmptySet
  <2>3. Cardinality(SUBSET T) = Cardinality(B \union SUBSET S)
    BY <1>6
  <2> QED BY <1>3, <1>7, <2>1, <2>2, <2>3
<1> QED BY <1>2, <1>3, <1>4, <1>7, <1>8


LEMMA SameModels ==
  ASSUME pml' = pml, entry' = entry
  PROVE  Vars' = Vars /\ PmlModels' = PmlModels
<1>1. Vars' = Vars
  BY DEF Vars
<1>2. \A i : LitsIn(i)' = LitsIn(i)
  BY <1>1 DEF LitsIn, Named
<1>3. \A full : IsModel(full)' <=> IsModel(full)
  BY <1>2 DEF IsModel
<1>4. Extensions(entry)' = Extensions(entry)
  BY <1>1 DEF Extensions
<1>5. PmlModels' = {full \in Extensions(entry)' : IsModel(full)'}
  BY DEF PmlModels
<1> QED BY <1>1, <1>3, <1>4, <1>5, Zenon DEF PmlModels

\* With the innermost call: who agrees with the trail below it agrees with all of it.
LEMMA AgreesAbove ==
  ASSUME PmlIInv, at # "idle", NEW full \in PmlModels, PmlAgrees(full, Innermost.base)
  PROVE  /\ PmlAgrees(full, Len(undo))
         /\ \A v \in Vars : assignment[v] # -1 => full[v] = assignment[v]
<1>1. PmlTyped /\ PmlTrail /\ PmlFrames /\ PmlMeaning
  BY DEF PmlIInv
<1>2. /\ Len(undo) \in Nat /\ DOMAIN undo = 1 .. Len(undo) /\ \A j \in 1 .. Len(undo) : undo[j] \in Vars
      /\ Len(frames) \in Nat /\ DOMAIN frames = 1 .. Len(frames)
      /\ \A k \in 1 .. Len(frames) : frames[k].base \in Nat
  BY <1>1, PmlFacts
<1>3. Follows(full)
  BY <1>1 DEF PmlMeaning
<1> DEFINE Wrong == {j \in 1 .. Len(undo) : full[undo[j]] # assignment[undo[j]]}
<1>4. ASSUME Wrong # {} PROVE FALSE
  <2>1. Wrong \in SUBSET Nat
    OBVIOUS
  <2>2. PICK j \in Wrong : \A i \in Wrong : j <= i
    BY <1>4, <2>1, Least
  <2>3. j \in 1 .. Len(undo) /\ full[undo[j]] # assignment[undo[j]]
    BY <2>2
  <2>4. PmlAgrees(full, j - 1)
    BY <1>2, <2>2, <2>3 DEF PmlAgrees
  <2>5. PICK k \in 2 .. Len(frames) : frames[k].base = j
    BY <1>2, <1>3, <2>3, <2>4 DEF Follows
  <2>6. frames[k].base <= frames[Len(frames)].base
    <3>1. k \in DOMAIN frames /\ Len(frames) \in DOMAIN frames
      BY <1>2, <2>5
    <3>2. CASE k = Len(frames)
      BY <1>2, <2>5, <3>1, <3>2
    <3>3. CASE k < Len(frames)
      <4>1. frames[k].base < frames[Len(frames)].base
        BY <1>1, <3>1, <3>3 DEF PmlFrames
      <4> QED BY <1>2, <3>1, <4>1
    <3>4. k = Len(frames) \/ k < Len(frames)
      <4>1. Len(frames) \in Nat
        BY <1>2
      <4> QED BY <4>1
    <3> QED BY <3>2, <3>3, <3>4
  <2>7. j \in 1 .. frames[Len(frames)].base
    BY <1>2, <2>3, <2>5, <2>6
  <2> QED BY <2>3, <2>7 DEF PmlAgrees, Innermost
<1>5. \A j \in 1 .. Len(undo) : full[undo[j]] = assignment[undo[j]]
  BY <1>4
<1>6. ASSUME NEW v \in Vars, assignment[v] # -1 PROVE full[v] = assignment[v]
  <2>1. CASE \E j \in 1 .. Len(undo) : undo[j] = v
    BY <1>5, <2>1
  <2>2. CASE \A j \in 1 .. Len(undo) : undo[j] # v
    <3>1. assignment[v] = entry[v]
      BY <1>1, <1>2, <2>2 DEF PmlTrail
    <3> QED BY <1>1, <1>6, <3>1, FullFacts
  <2> QED BY <2>1, <2>2
<1> QED BY <1>5, <1>6 DEF PmlAgrees

\* Literals of the clauses.
LEMMA LitFacts ==
  ASSUME PmlTyped, NEW i \in DOMAIN pml.clauses, NEW lit \in LitsIn(i)
  PROVE  VarOf(lit) \in Vars /\ lit \in Int /\ ValueOf(lit) = assignment[VarOf(lit)]
<1>1. PICK k \in DOMAIN pml.clauses[i] :
        lit = pml.clauses[i][k] /\ lit # 0 /\ (lit \in Vars \/ -lit \in Vars)
  BY DEF LitsIn, Named
<1>2. pml.clauses[i] \in Seq(Int)
  BY PmlAssumption DEF PmlTyped
<1>3. lit \in Int
  BY <1>1, <1>2
<1>4. Vars \subseteq Nat \ {0}
  BY PmlFacts
<1> QED BY <1>1, <1>3, <1>4 DEF VarOf, ValueOf

\* A clause with nothing undecided that is not satisfied has no model that
\* agrees with the assignment.
LEMMA NoModelFalsified ==
  ASSUME PmlTyped, NEW i \in DOMAIN pml.clauses, ~Satisfied(i), Undecided(i) = {},
         NEW full \in PmlModels, \A v \in Vars : assignment[v] # -1 => full[v] = assignment[v]
  PROVE  FALSE
<1>1. PICK lit \in LitsIn(i) : full[VarOf(lit)] = (IF lit > 0 THEN 1 ELSE 0)
  BY FullFacts DEF IsModel
<1>2. VarOf(lit) \in Vars /\ ValueOf(lit) = assignment[VarOf(lit)]
  BY LitFacts
<1>3. ValueOf(lit) # -1
  BY DEF Undecided
<1>4. MadeTrue(lit)
  BY <1>1, <1>2, <1>3 DEF MadeTrue
<1> QED BY <1>4 DEF Satisfied


\* What is on the trail, when a variable comes on top.
LEMMA PushStep ==
  ASSUME PmlIInv, at # "idle", NEW v \in Vars, assignment[v] = -1, NEW x \in {0, 1},
         pml' = pml, entry' = entry, assignment' = [assignment EXCEPT ![v] = x],
         undo' = Append(undo, v)
  PROVE  /\ assignment' \in [Vars -> {-1, 0, 1}] /\ undo' \in Seq(Vars)
         /\ Len(undo') = Len(undo) + 1 /\ DOMAIN undo' = 1 .. Len(undo) + 1
         /\ undo'[Len(undo) + 1] = v /\ \A j \in 1 .. Len(undo) : undo'[j] = undo[j] /\ undo[j] # v
         /\ assignment'[v] = x /\ \A u \in Vars \ {v} : assignment'[u] = assignment[u]
         /\ PmlTrail'
         /\ \A full : \A j \in 0 .. Len(undo) : PmlAgrees(full, j)' <=> PmlAgrees(full, j)
<1>1. PmlTyped /\ PmlTrail
  BY DEF PmlIInv
<1>2. /\ Len(undo) \in Nat /\ DOMAIN undo = 1 .. Len(undo) /\ \A j \in 1 .. Len(undo) : undo[j] \in Vars
      /\ undo \in Seq(Vars) /\ assignment \in [Vars -> {-1, 0, 1}]
  BY <1>1, PmlFacts DEF PmlTyped
<1>3. /\ undo' \in Seq(Vars) /\ Len(undo') = Len(undo) + 1 /\ DOMAIN undo' = 1 .. Len(undo) + 1
      /\ undo'[Len(undo) + 1] = v /\ \A j \in 1 .. Len(undo) : undo'[j] = undo[j]
  BY <1>2
<1>4. /\ assignment' \in [Vars -> {-1, 0, 1}]
      /\ assignment'[v] = x /\ \A u \in Vars \ {v} : assignment'[u] = assignment[u]
  BY <1>2
<1>5. \A j \in 1 .. Len(undo) : undo[j] # v
  BY <1>1, <1>2 DEF PmlTrail
<1>6. Vars' = Vars
  BY DEF Vars
<1>7. \A i, j \in DOMAIN undo' : undo'[i] = undo'[j] => i = j
  <2> SUFFICES ASSUME NEW i \in 1 .. Len(undo) + 1, NEW j \in 1 .. Len(undo) + 1, undo'[i] = undo'[j]
               PROVE  i = j
    BY <1>3
  <2>1. CASE i \in 1 .. Len(undo) /\ j \in 1 .. Len(undo)
    BY <1>1, <1>2, <1>3, <2>1 DEF PmlTrail
  <2>2. CASE i = Len(undo) + 1 \/ j = Len(undo) + 1
    BY <1>2, <1>3, <1>5, <2>2
  <2> QED BY <1>2, <2>1, <2>2
<1>8. \A j \in DOMAIN undo' : entry'[undo'[j]] = -1 /\ assignment'[undo'[j]] # -1
  <2> SUFFICES ASSUME NEW j \in 1 .. Len(undo) + 1
               PROVE  entry[undo'[j]] = -1 /\ assignment'[undo'[j]] # -1
    BY <1>3
  <2>1. CASE j \in 1 .. Len(undo)
    BY <1>1, <1>2, <1>3, <1>4, <1>5, <2>1 DEF PmlTrail
  <2>2. CASE j = Len(undo) + 1
    <3>1. assignment[v] = entry[v]
      BY <1>1, <1>2, <1>5 DEF PmlTrail
    <3> QED BY <1>3, <1>4, <2>2, <3>1
  <2> QED BY <1>2, <2>1, <2>2
<1>9. \A u \in Vars' : (\A j \in DOMAIN undo' : undo'[j] # u) => assignment'[u] = entry'[u]
  <2> SUFFICES ASSUME NEW u \in Vars, \A j \in DOMAIN undo' : undo'[j] # u
               PROVE  assignment'[u] = entry[u]
    BY <1>6
  <2>1. u # v
    BY <1>2, <1>3
  <2>2. \A j \in DOMAIN undo : undo[j] # u
    BY <1>2, <1>3
  <2> QED BY <1>1, <1>4, <2>1, <2>2 DEF PmlTrail
<1>10. PmlTrail'
  BY <1>7, <1>8, <1>9 DEF PmlTrail
<1>11. ASSUME NEW full, NEW j \in 0 .. Len(undo) PROVE PmlAgrees(full, j)' <=> PmlAgrees(full, j)
  <2>1. \A i \in 1 .. j : undo'[i] = undo[i] /\ assignment'[undo[i]] = assignment[undo[i]]
    BY <1>2, <1>3, <1>4, <1>5
  <2> QED BY <2>1 DEF PmlAgrees
<1> QED BY <1>3, <1>4, <1>5, <1>10, <1>11

LEMMA ScanStep ==
  ASSUME PmlIInv, Scan
  PROVE  PmlIInv' /\ at' # "idle"
<1> USE DEF Scan
<1> DEFINE i == sweep.clause
<1>1. /\ PmlTyped /\ PmlTrail /\ PmlFrames /\ PmlInner /\ PmlMeaning /\ PmlAfford
      /\ at = "propagate" /\ i \in DOMAIN pml.clauses
      /\ pml' = pml /\ frames' = frames /\ budget' = budget /\ entry' = entry
  BY DEF PmlIInv
<1>2. Vars' = Vars /\ PmlModels' = PmlModels
  BY <1>1, SameModels
<1>3. CASE (Satisfied(i) \/ Cardinality(Undecided(i)) > 1)
             /\ UNCHANGED <<assignment, undo, at, outcome>>
  <2>1. \A full, j : PmlAgrees(full, j)' <=> PmlAgrees(full, j)
    BY <1>3 DEF PmlAgrees
  <2>2. PmlTyped'
    BY <1>1, <1>2, <1>3 DEF PmlTyped
  <2>3. PmlTrail' /\ PmlFrames'
    BY <1>1, <1>2, <1>3 DEF PmlTrail, PmlFrames
  <2>4. PmlInner'
    BY <1>1, <1>2, <1>3 DEF PmlInner, Innermost
  <2>5. PmlMeaning'
    BY <1>1, <1>2, <1>3, <2>1 DEF PmlMeaning, Follows, Innermost
  <2>6. PmlAfford'
    BY <1>1, <1>2, <1>3 DEF PmlAfford
  <2> QED BY <1>1, <1>3, <2>2, <2>3, <2>4, <2>5, <2>6 DEF PmlIInv
<1>4. CASE ~Satisfied(i) /\ Undecided(i) = {} /\ Leaving("UNSAT") /\ UNCHANGED <<assignment, undo>>
  <2>1. \A full, j : PmlAgrees(full, j)' <=> PmlAgrees(full, j)
    BY <1>4 DEF PmlAgrees
  <2>2. PmlTyped'
    BY <1>1, <1>2, <1>4 DEF PmlTyped, Leaving
  <2>3. PmlTrail' /\ PmlFrames'
    BY <1>1, <1>2, <1>4 DEF PmlTrail, PmlFrames
  <2>4. PmlInner'
    BY <1>4 DEF PmlInner, Leaving
  <2>5. ASSUME NEW full \in PmlModels PROVE ~PmlAgrees(full, Innermost.base)
    <3>1. ASSUME PmlAgrees(full, Innermost.base) PROVE FALSE
      <4>1. \A v \in Vars : assignment[v] # -1 => full[v] = assignment[v]
        BY <1>1, <3>1, AgreesAbove
      <4> QED BY <1>1, <1>4, <4>1, NoModelFalsified
    <3> QED BY <3>1
  <2>6. PmlMeaning'
    BY <1>1, <1>2, <1>4, <2>1, <2>5 DEF PmlMeaning, Follows, Innermost, Leaving
  <2>7. PmlAfford'
    BY <1>1, <1>2, <1>4 DEF PmlAfford, Leaving
  <2> QED BY <1>1, <1>4, <2>2, <2>3, <2>4, <2>6, <2>7 DEF PmlIInv, Leaving
<1>5. ASSUME NEW lit \in Undecided(i), ~Satisfied(i), Undecided(i) = {lit},
             assignment' = [assignment EXCEPT ![VarOf(lit)] = IF lit > 0 THEN 1 ELSE 0],
             undo' = Append(undo, VarOf(lit)), UNCHANGED <<at, outcome>>
      PROVE  PmlIInv' /\ at' # "idle"
  <2> DEFINE v == VarOf(lit)
             x == IF lit > 0 THEN 1 ELSE 0
  <2>1. lit \in LitsIn(i) /\ ValueOf(lit) = -1
    BY <1>5 DEF Undecided
  <2>2. v \in Vars /\ assignment[v] = -1 /\ x \in {0, 1}
    BY <1>1, <2>1, LitFacts
  <2>3. assignment' = [assignment EXCEPT ![v] = x] /\ undo' = Append(undo, v)
    BY <1>5
  <2> HIDE DEF v, x
  <2>4. /\ assignment' \in [Vars -> {-1, 0, 1}] /\ undo' \in Seq(Vars)
        /\ Len(undo') = Len(undo) + 1 /\ DOMAIN undo' = 1 .. Len(undo) + 1
        /\ undo'[Len(undo) + 1] = v /\ \A j \in 1 .. Len(undo) : undo'[j] = undo[j] /\ undo[j] # v
        /\ assignment'[v] = x /\ \A u \in Vars \ {v} : assignment'[u] = assignment[u]
        /\ PmlTrail'
        /\ \A full : \A j \in 0 .. Len(undo) : PmlAgrees(full, j)' <=> PmlAgrees(full, j)
    BY <1>1, <2>2, <2>3, PushStep
  <2>5. /\ Len(undo) \in Nat /\ DOMAIN undo = 1 .. Len(undo) /\ \A j \in 1 .. Len(undo) : undo[j] \in Vars
        /\ Len(frames) \in Nat /\ DOMAIN frames = 1 .. Len(frames)
        /\ \A k \in 1 .. Len(frames) : frames[k].base \in Nat
    BY <1>1, PmlFacts
  <2>6. PmlTyped'
    BY <1>1, <1>2, <1>5, <2>4 DEF PmlTyped
  <2>7. PmlFrames'
    <3>1. ASSUME NEW k \in 2 .. Len(frames)
          PROVE  /\ frames[k].base \in DOMAIN undo' /\ undo'[frames[k].base] = frames[k - 1].var
                 /\ frames[k - 1].value \in {1, 2}
                 /\ assignment'[frames[k - 1].var] = frames[k - 1].value - 1
      <4>1. /\ frames[k].base \in 1 .. Len(undo) /\ undo[frames[k].base] = frames[k - 1].var
            /\ frames[k - 1].value \in {1, 2}
            /\ assignment[frames[k - 1].var] = frames[k - 1].value - 1
        BY <1>1, <2>5 DEF PmlFrames
      <4>2. frames[k - 1].var \in Vars \ {v}
        BY <2>4, <2>5, <4>1
      <4> QED BY <2>4, <2>5, <4>1, <4>2
    <3> QED BY <1>1, <3>1 DEF PmlFrames
  <2>8. PmlInner'
    BY <1>1, <1>5 DEF PmlInner, Innermost
  <2>9. ASSUME NEW full \in PmlModels PROVE Follows(full)'
    <3>1. Follows(full)
      BY <1>1 DEF PmlMeaning
    <3>2. ASSUME NEW j \in 1 .. Len(undo) + 1, PmlAgrees(full, j - 1)'
          PROVE  \/ full[undo'[j]] = assignment'[undo'[j]]
                 \/ \E k \in 2 .. Len(frames) : frames[k].base = j /\ frames[k - 1].value = 1
      <4>1. PmlAgrees(full, j - 1)
        <5>1. j - 1 \in 0 .. Len(undo)
          BY <2>5, <3>2
        <5> QED BY <2>4, <3>2, <5>1
      <4>2. CASE j \in 1 .. Len(undo)
        <5>1. undo'[j] = undo[j] /\ assignment'[undo[j]] = assignment[undo[j]]
          BY <2>4, <2>5, <4>2
        <5> QED BY <2>5, <3>1, <4>1, <4>2, <5>1 DEF Follows
      <4>3. CASE j = Len(undo) + 1
        <5>1. PmlAgrees(full, Len(undo))
          BY <2>5, <4>1, <4>3
        <5>2. PmlAgrees(full, Innermost.base)
          <6>1. Innermost.base \in 0 .. Len(undo)
            BY <1>1, <2>5 DEF PmlFrames, Innermost
          <6> QED BY <2>5, <5>1, <6>1 DEF PmlAgrees
        <5>3. \A u \in Vars : assignment[u] # -1 => full[u] = assignment[u]
          BY <1>1, <5>2, AgreesAbove
        <5>4. PICK other \in LitsIn(i) : full[VarOf(other)] = (IF other > 0 THEN 1 ELSE 0)
          BY <1>1, FullFacts DEF IsModel
        <5>5. VarOf(other) \in Vars /\ ValueOf(other) = assignment[VarOf(other)]
          BY <1>1, LitFacts
        <5>6. ValueOf(other) = -1
          <6>1. ASSUME ValueOf(other) # -1 PROVE FALSE
            <7>1. MadeTrue(other)
              BY <5>3, <5>4, <5>5, <6>1 DEF MadeTrue
            <7> QED BY <1>5, <7>1 DEF Satisfied
          <6> QED BY <6>1
        <5>7. other = lit
          BY <1>5, <5>6 DEF Undecided
        <5> QED BY <2>4, <4>3, <5>4, <5>7 DEF v, x
      <4> QED BY <2>5, <4>2, <4>3
    <3> QED BY <1>1, <2>4, <3>2 DEF Follows
  <2>10. PmlMeaning'
    BY <1>1, <1>2, <1>5, <2>9 DEF PmlMeaning
  <2>11. PmlAfford'
    BY <1>1, <1>2, <1>5 DEF PmlAfford
  <2> QED BY <1>1, <1>5, <2>4, <2>6, <2>7, <2>8, <2>10, <2>11 DEF PmlIInv
<1>6. \/ (Satisfied(i) \/ Cardinality(Undecided(i)) > 1) /\ UNCHANGED <<assignment, undo, at, outcome>>
      \/ ~Satisfied(i) /\ Undecided(i) = {} /\ Leaving("UNSAT") /\ UNCHANGED <<assignment, undo>>
      \/ /\ ~Satisfied(i)
         /\ \E lit \in Undecided(i) :
              /\ Undecided(i) = {lit}
              /\ assignment' = [assignment EXCEPT ![VarOf(lit)] = IF lit > 0 THEN 1 ELSE 0]
              /\ undo' = Append(undo, VarOf(lit))
         /\ UNCHANGED <<at, outcome>>
  BY Zenon
<1>7. (at = "propagate" /\ at' = at) \/ Leaving("UNSAT") => at' # "idle"
  BY DEF Leaving
<1> QED BY <1>1, <1>3, <1>4, <1>5, <1>6, <1>7


LEMMA SweepEndsStep ==
  ASSUME PmlIInv, SweepEnds
  PROVE  PmlIInv' /\ at' # "idle"
<1>1. /\ PmlTyped /\ PmlTrail /\ PmlFrames /\ PmlInner /\ PmlMeaning /\ PmlAfford
      /\ at = "propagate" /\ at' \in {"propagate", "branch"}
      /\ pml' = pml /\ frames' = frames /\ budget' = budget /\ entry' = entry
      /\ assignment' = assignment /\ undo' = undo /\ outcome' = outcome
  BY DEF PmlIInv, SweepEnds, Propagating
<1>2. Vars' = Vars /\ PmlModels' = PmlModels
  BY <1>1, SameModels
<1>3. \A full, j : PmlAgrees(full, j)' <=> PmlAgrees(full, j)
  BY <1>1 DEF PmlAgrees
<1>4. PmlTyped'
  BY <1>1, <1>2 DEF PmlTyped
<1>5. PmlTrail' /\ PmlFrames'
  BY <1>1, <1>2 DEF PmlTrail, PmlFrames
<1>6. Innermost' = Innermost /\ Innermost.var = 0 /\ Innermost.value = 0
  BY <1>1 DEF PmlInner, Innermost
<1>7. PmlInner'
  BY <1>1, <1>6 DEF PmlInner
<1>8. PmlMeaning'
  BY <1>1, <1>2, <1>3, <1>6 DEF PmlMeaning, Follows
<1>9. PmlAfford'
  BY <1>1, <1>2 DEF PmlAfford
<1> QED BY <1>1, <1>4, <1>5, <1>7, <1>8, <1>9 DEF PmlIInv

\* The branch variable of the innermost call.
LEMMA PickedFrame ==
  ASSUME PmlTyped, Len(frames) # 0, NEW v \in Nat,
         frames' = [frames EXCEPT ![Len(frames)].var = v]
  PROVE  /\ frames' \in Seq(PmlFrame) /\ Len(frames') = Len(frames)
         /\ DOMAIN frames' = DOMAIN frames
         /\ \A k \in DOMAIN frames : /\ frames'[k].base = frames[k].base
                                     /\ frames'[k].value = frames[k].value
                                     /\ k # Len(frames) => frames'[k] = frames[k]
         /\ frames'[Len(frames)].var = v
<1> DEFINE m == Len(frames)
           g == [frames[m] EXCEPT !.var = v]
<1>1. frames \in Seq(PmlFrame) /\ m \in Nat /\ m \in DOMAIN frames /\ DOMAIN frames = 1 .. m
  BY DEF PmlTyped
<1>2. frames[m] \in PmlFrame
  BY <1>1
<1>3. g \in PmlFrame /\ g.base = frames[m].base /\ g.value = frames[m].value /\ g.var = v
  BY <1>2 DEF PmlFrame
<1>4. frames' = [frames EXCEPT ![m] = g]
  OBVIOUS
<1> HIDE DEF g
<1>5. frames' \in Seq(PmlFrame) /\ Len(frames') = m /\ DOMAIN frames' = DOMAIN frames
  BY <1>1, <1>3, <1>4
<1>6. frames'[m] = g /\ \A k \in DOMAIN frames : k # m => frames'[k] = frames[k]
  BY <1>1, <1>4
<1> QED BY <1>1, <1>3, <1>5, <1>6

\* One more entry at the end of a sequence.
LEMMA OneMore ==
  ASSUME NEW S, NEW s \in Seq(S), NEW e \in S
  PROVE  LET t == Append(s, e)
         IN  /\ t \in Seq(S) /\ Len(t) = Len(s) + 1 /\ DOMAIN t = 1 .. Len(s) + 1
             /\ t[Len(s) + 1] = e /\ \A k \in 1 .. Len(s) : t[k] = s[k]
OBVIOUS

\* The variable is assigned a value and a call is opened below.
LEMMA OpenedFrame ==
  ASSUME PmlTyped, Len(frames) # 0, frames[Len(frames)].value \in {0, 1}, NEW b \in Nat,
         frames' = Append([frames EXCEPT ![Len(frames)].value = @ + 1], Frame(b))
  PROVE  /\ frames' \in Seq(PmlFrame) /\ Len(frames') = Len(frames) + 1
         /\ DOMAIN frames' = 1 .. Len(frames) + 1
         /\ \A k \in DOMAIN frames : /\ frames'[k].base = frames[k].base
                                     /\ frames'[k].var = frames[k].var
                                     /\ k # Len(frames) => frames'[k] = frames[k]
         /\ frames'[Len(frames)].value = frames[Len(frames)].value + 1
         /\ frames'[Len(frames) + 1] = Frame(b)
<1> DEFINE m == Len(frames)
           g == [frames[m] EXCEPT !.value = frames[m].value + 1]
           fs == [frames EXCEPT ![m] = g]
<1>1. frames \in Seq(PmlFrame) /\ m \in Nat /\ m \in DOMAIN frames /\ DOMAIN frames = 1 .. m
  BY DEF PmlTyped
<1>2. frames[m] \in PmlFrame
  BY <1>1
<1>3. g \in PmlFrame /\ g.base = frames[m].base /\ g.var = frames[m].var /\ g.value = frames[m].value + 1
  BY <1>2 DEF PmlFrame
<1>4. frames' = Append(fs, Frame(b))
  OBVIOUS
<1> HIDE DEF g
<1>5. fs \in Seq(PmlFrame) /\ Len(fs) = m /\ DOMAIN fs = DOMAIN frames
  BY <1>1, <1>3
<1>6. fs[m] = g /\ \A k \in DOMAIN frames : k # m => fs[k] = frames[k]
  BY <1>1
<1>7. Frame(b) \in PmlFrame
  BY DEF Frame, PmlFrame
<1> HIDE DEF fs
<1>8. /\ frames' \in Seq(PmlFrame) /\ Len(frames') = m + 1 /\ DOMAIN frames' = 1 .. m + 1
      /\ frames'[m + 1] = Frame(b) /\ \A k \in 1 .. m : frames'[k] = fs[k]
  <2> DEFINE h == Frame(b)
  <2> HIDE DEF h
  <2>1. LET t == Append(fs, h)
        IN  /\ t \in Seq(PmlFrame) /\ Len(t) = Len(fs) + 1 /\ DOMAIN t = 1 .. Len(fs) + 1
            /\ t[Len(fs) + 1] = h /\ \A k \in 1 .. Len(fs) : t[k] = fs[k]
    <3>1. fs \in Seq(PmlFrame) /\ h \in PmlFrame
      BY <1>5, <1>7 DEF h
    <3> QED BY ONLY <3>1, OneMore
  <2>2. frames' = Append(fs, h)
    BY <1>4 DEF h
  <2> QED BY ONLY <1>1, <1>5, <2>1, <2>2 DEF h
<1> QED BY <1>1, <1>3, <1>6, <1>8

LEMMA PickVariableStep ==
  ASSUME PmlIInv, PickVariable
  PROVE  /\ PmlIInv'
         /\ at' = "idle" => /\ flag' = "SAT" /\ assignment' \in Extensions(entry)
                            /\ IsModel(assignment')
<1>1. /\ PmlTyped /\ PmlTrail /\ PmlFrames /\ PmlInner /\ PmlMeaning /\ PmlAfford
      /\ at = "branch" /\ Innermost.var = 0
      /\ pml' = pml /\ budget' = budget /\ entry' = entry /\ assignment' = assignment
  BY DEF PmlIInv, PickVariable
<1>2. Vars' = Vars /\ PmlModels' = PmlModels
  BY <1>1, SameModels
<1>3. /\ Len(undo) \in Nat /\ DOMAIN undo = 1 .. Len(undo) /\ \A j \in 1 .. Len(undo) : undo[j] \in Vars
      /\ Len(frames) \in Nat /\ DOMAIN frames = 1 .. Len(frames) /\ Len(frames) # 0
      /\ \A k \in 1 .. Len(frames) : frames[k].base \in Nat
      /\ Vars \subseteq Nat \ {0}
      /\ \A v \in Vars : assignment[v] \in {-1, 0, 1} /\ entry[v] \in {-1, 0, 1}
  BY <1>1, PmlFacts DEF PmlFrames
<1>4. ASSUME NEW v \in Unset, frames' = [frames EXCEPT ![Len(frames)].var = v],
             UNCHANGED <<flag, undo, at, outcome>>
      PROVE  PmlIInv' /\ at' # "idle"
  <2>1. v \in Vars /\ assignment[v] = -1 /\ v \in Nat
    BY <1>3 DEF Unset
  <2>2. /\ frames' \in Seq(PmlFrame) /\ Len(frames') = Len(frames)
        /\ DOMAIN frames' = DOMAIN frames
        /\ \A k \in DOMAIN frames : /\ frames'[k].base = frames[k].base
                                    /\ frames'[k].value = frames[k].value
                                    /\ k # Len(frames) => frames'[k] = frames[k]
        /\ frames'[Len(frames)].var = v
    BY <1>1, <1>3, <1>4, <2>1, PickedFrame
  <2>3. \A full, j : PmlAgrees(full, j)' <=> PmlAgrees(full, j)
    BY <1>1, <1>4 DEF PmlAgrees
  <2>4. PmlTyped'
    BY <1>1, <1>2, <1>4, <2>2 DEF PmlTyped
  <2>5. PmlTrail'
    BY <1>1, <1>2, <1>4 DEF PmlTrail
  <2>6. \A k \in 2 .. Len(frames) : /\ k \in DOMAIN frames /\ k - 1 \in DOMAIN frames
                                    /\ frames'[k - 1] = frames[k - 1] /\ frames'[k].base = frames[k].base
    BY <1>3, <2>2
  <2>7. PmlFrames'
    <3>1. frames'[1].base = 0
      BY <1>1, <1>3, <2>2 DEF PmlFrames
    <3>2. \A j, k \in DOMAIN frames : j < k => frames'[j].base < frames'[k].base
      BY <1>1, <2>2 DEF PmlFrames
    <3>3. \A k \in 2 .. Len(frames) :
            /\ frames'[k].base \in DOMAIN undo /\ undo[frames'[k].base] = frames'[k - 1].var
            /\ frames'[k - 1].value \in {1, 2}
            /\ assignment[frames'[k - 1].var] = frames'[k - 1].value - 1
      BY <1>1, <2>6 DEF PmlFrames
    <3> QED BY <1>1, <1>4, <2>2, <3>1, <3>2, <3>3 DEF PmlFrames
  <2>8. Innermost'.var = v /\ Innermost'.value = 0
    BY <1>1, <1>3, <2>2 DEF Innermost, PmlInner
  <2>9. PmlInner'
    BY <1>1, <1>2, <1>3, <1>4, <2>1, <2>8 DEF PmlInner
  <2>10. ASSUME NEW full \in PmlModels PROVE Follows(full)'
    <3>1. Follows(full)
      BY <1>1 DEF PmlMeaning
    <3>2. \A j \in DOMAIN undo : PmlAgrees(full, j - 1) =>
             \/ full[undo[j]] = assignment[undo[j]]
             \/ \E k \in 2 .. Len(frames) : frames'[k].base = j /\ frames'[k - 1].value = 1
      BY <2>6, <3>1 DEF Follows
    <3> QED BY <1>1, <1>4, <2>2, <2>3, <3>2 DEF Follows
  <2>11. \A full \in PmlModels : full[v] >= 0
    BY <1>1, <2>1, FullFacts
  <2>12. PmlMeaning'
    BY <1>1, <1>2, <1>4, <2>8, <2>10, <2>11 DEF PmlMeaning
  <2>13. PmlAfford'
    <3>1. \A k \in 1 .. Len(frames) : frames'[k].value = frames[k].value
      BY <1>3, <2>2
    <3> QED BY <1>1, <1>4, <2>2, <3>1 DEF PmlAfford
  <2> QED BY <1>1, <1>4, <2>4, <2>5, <2>7, <2>9, <2>12, <2>13 DEF PmlIInv
<1>5. CASE Unset = {} /\ CheckConflict /\ Leaving("UNSAT") /\ UNCHANGED <<flag, undo, frames>>
  <2>1. \A full, j : PmlAgrees(full, j)' <=> PmlAgrees(full, j)
    BY <1>1, <1>5 DEF PmlAgrees
  <2>2. PmlTyped'
    BY <1>1, <1>2, <1>5 DEF PmlTyped, Leaving
  <2>3. PmlTrail' /\ PmlFrames'
    BY <1>1, <1>2, <1>5 DEF PmlTrail, PmlFrames
  <2>4. PmlInner'
    BY <1>5 DEF PmlInner, Leaving
  <2>5. ASSUME NEW full \in PmlModels PROVE ~PmlAgrees(full, Innermost.base)
    <3>1. ASSUME PmlAgrees(full, Innermost.base) PROVE FALSE
      <4>1. \A v \in Vars : assignment[v] # -1 => full[v] = assignment[v]
        BY <1>1, <3>1, AgreesAbove
      <4>2. PICK i \in DOMAIN pml.clauses : ~Satisfied(i) /\ Undecided(i) = {}
        BY <1>5 DEF CheckConflict
      <4> QED BY <1>1, <4>1, <4>2, NoModelFalsified
    <3> QED BY <3>1
  <2>6. PmlMeaning'
    BY <1>1, <1>2, <1>5, <2>1, <2>5 DEF PmlMeaning, Follows, Innermost, Leaving
  <2>7. PmlAfford'
    BY <1>1, <1>2, <1>5 DEF PmlAfford, Leaving
  <2> QED BY <1>1, <1>5, <2>2, <2>3, <2>4, <2>6, <2>7 DEF PmlIInv, Leaving
<1>6. CASE /\ Unset = {} /\ ~CheckConflict /\ flag' = "SAT" /\ at' = "idle" /\ frames' = <<>>
           /\ undo' = <<>> /\ UNCHANGED outcome
  <2>1. PmlTyped'
    BY <1>1, <1>2, <1>6 DEF PmlTyped
  <2>2. PmlIInv'
    BY <1>6, <2>1 DEF PmlIInv
  <2>3. \A v \in Vars : assignment[v] \in {0, 1}
    BY <1>3, <1>6 DEF Unset
  <2>4. assignment \in [Vars -> {0, 1}]
    BY <1>1, <2>3 DEF PmlTyped
  <2>5. ASSUME NEW v \in Vars, entry[v] # -1 PROVE assignment[v] = entry[v]
    <3>1. \A j \in DOMAIN undo : undo[j] # v
      BY <1>1, <2>5 DEF PmlTrail
    <3> QED BY <1>1, <3>1 DEF PmlTrail
  <2>6. assignment \in Extensions(entry)
    BY <2>4, <2>5 DEF Extensions
  <2>7. ASSUME NEW i \in DOMAIN pml.clauses
        PROVE  \E lit \in LitsIn(i) : assignment[VarOf(lit)] = (IF lit > 0 THEN 1 ELSE 0)
    <3>1. Undecided(i) = {}
      <4>1. ASSUME NEW lit \in Undecided(i) PROVE FALSE
        <5>1. lit \in LitsIn(i) /\ ValueOf(lit) = -1
          BY DEF Undecided
        <5>2. VarOf(lit) \in Vars /\ ValueOf(lit) = assignment[VarOf(lit)]
          BY <1>1, <5>1, LitFacts
        <5> QED BY <2>3, <5>1, <5>2
      <4> QED BY <4>1
    <3>2. Satisfied(i)
      BY <1>6, <3>1 DEF CheckConflict
    <3>3. PICK lit \in LitsIn(i) : ValueOf(lit) = (IF lit > 0 THEN 1 ELSE 0)
      BY <3>2 DEF Satisfied, MadeTrue
    <3>4. ValueOf(lit) = assignment[VarOf(lit)]
      BY <1>1, LitFacts
    <3> QED BY <3>3, <3>4
  <2>8. IsModel(assignment)
    BY <2>7 DEF IsModel
  <2> QED BY <1>1, <1>6, <2>2, <2>6, <2>8
<1>7. \/ \E v \in Unset : frames' = [frames EXCEPT ![Len(frames)].var = v]
                          /\ UNCHANGED <<flag, undo, at, outcome>>
      \/ Unset = {} /\ CheckConflict /\ Leaving("UNSAT") /\ UNCHANGED <<flag, undo, frames>>
      \/ /\ Unset = {} /\ ~CheckConflict /\ flag' = "SAT" /\ at' = "idle" /\ frames' = <<>>
         /\ undo' = <<>> /\ UNCHANGED outcome
  BY Zenon DEF PickVariable
<1>8. Leaving("UNSAT") => at' # "idle"
  BY DEF Leaving
<1> QED BY <1>4, <1>5, <1>6, <1>7, <1>8


\* Branch variables are different, so that there are no more open calls than
\* variables before one more is assigned.
LEMMA Shallow ==
  ASSUME PmlIInv, at = "branch", Innermost.var # 0
  PROVE  Len(frames) <= pml.num_vars
<1> DEFINE m == Len(frames)
           f == [k \in 1 .. m |-> frames[k].var]
<1>1. /\ PmlTyped /\ PmlTrail /\ PmlFrames /\ Innermost.var \in Vars /\ assignment[Innermost.var] = -1
      /\ Innermost = frames[m]
  BY DEF PmlIInv, PmlInner, Innermost
<1>2. /\ DOMAIN undo = 1 .. Len(undo) /\ \A j \in 1 .. Len(undo) : undo[j] \in Vars
      /\ m \in Nat /\ DOMAIN frames = 1 .. m /\ m # 0
      /\ \A k \in 1 .. m : frames[k].base \in Nat
      /\ pml.num_vars \in Nat /\ Vars = 1 .. pml.num_vars
  BY <1>1, PmlFacts DEF PmlFrames
<1>0. m \in Nat /\ m # 0 /\ pml.num_vars \in Nat
  BY <1>2
<1> HIDE DEF m
<1>3. ASSUME NEW k \in 1 .. m, k # m
      PROVE  /\ k + 1 \in DOMAIN frames /\ frames[k + 1].base \in DOMAIN undo
             /\ frames[k].var = undo[frames[k + 1].base] /\ frames[k].var \in Vars
             /\ assignment[frames[k].var] # -1
  <2>1. k + 1 \in 2 .. m /\ (k + 1) - 1 = k /\ k + 1 \in 1 .. m
    BY <1>0, <1>3
  <2>2. /\ frames[k + 1].base \in DOMAIN undo /\ undo[frames[k + 1].base] = frames[k].var
    BY <1>1, <2>1 DEF PmlFrames, m
  <2> QED BY <1>1, <1>2, <2>1, <2>2 DEF PmlTrail
<1>4. ASSUME NEW j \in 1 .. m, NEW k \in 1 .. m, j < k PROVE frames[j].var # frames[k].var
  <2>1. j # m
    BY <1>0, <1>4
  <2>2. CASE k = m
    BY <1>1, <1>3, <2>1, <2>2
  <2>3. CASE k # m
    <3>0. j + 1 < k + 1 /\ j + 1 \in 1 .. m /\ k + 1 \in 1 .. m
      BY <1>0, <1>4, <2>1, <2>3
    <3>1. frames[j + 1].base < frames[k + 1].base
      BY <1>1, <1>3, <2>1, <2>3, <3>0 DEF PmlFrames
    <3>2. frames[j + 1].base # frames[k + 1].base
      <4>1. frames[j + 1].base \in Nat /\ frames[k + 1].base \in Nat
        BY <1>2, <3>0
      <4> QED BY <3>1, <4>1
    <3> QED BY <1>1, <1>3, <2>1, <2>3, <3>2 DEF PmlTrail
  <2> QED BY <2>2, <2>3
<1>5. f \in [1 .. m -> 1 .. pml.num_vars]
  BY <1>1, <1>2, <1>3
<1>6. \A j, k \in 1 .. m : f[j] = f[k] => j = k
  BY <1>2, <1>4
<1> HIDE DEF f
<1>7. f \in Injection(1 .. m, 1 .. pml.num_vars)
  BY <1>5, <1>6 DEF Injection, IsInjective
<1>8. /\ IsFiniteSet(1 .. m) /\ Cardinality(1 .. m) = m
      /\ IsFiniteSet(1 .. pml.num_vars) /\ Cardinality(1 .. pml.num_vars) = pml.num_vars
  BY <1>0, FS_Interval
<1>9. Cardinality(1 .. m) <= Cardinality(1 .. pml.num_vars)
  BY <1>7, <1>8, FS_Injection
<1> QED BY <1>8, <1>9 DEF m

LEMMA TryValueStep ==
  ASSUME PmlIInv, TryValue
  PROVE  PmlIInv' /\ at' # "idle"
<1> DEFINE m == Len(frames)
           v == Innermost.var
           x == Innermost.value
           b == Len(undo) + 1
           n == pml.num_vars
<1>1. /\ PmlTyped /\ PmlTrail /\ PmlFrames /\ PmlInner /\ PmlMeaning /\ PmlAfford
      /\ at = "branch" /\ v # 0 /\ x <= 1 /\ budget > 0 /\ budget' = budget - 1
      /\ pml' = pml /\ entry' = entry /\ at' = "propagate" /\ outcome' = outcome
      /\ assignment' = [assignment EXCEPT ![v] = x]
      /\ frames' = Append([frames EXCEPT ![m].value = @ + 1], Frame(b))
      /\ undo' = Append(undo, v)
  BY DEF PmlIInv, TryValue, Propagating
<1>2. Vars' = Vars /\ PmlModels' = PmlModels
  BY <1>1, SameModels
<1>3. /\ Len(undo) \in Nat /\ DOMAIN undo = 1 .. Len(undo) /\ \A j \in 1 .. Len(undo) : undo[j] \in Vars
      /\ m \in Nat /\ DOMAIN frames = 1 .. m /\ m # 0
      /\ \A k \in 1 .. m : frames[k].base \in Nat
      /\ n \in Nat /\ Innermost = frames[m] /\ x \in 0 .. 2 /\ budget \in Nat /\ b \in Nat
  <2>1. m # 0
    BY <1>1, PmlFacts DEF PmlFrames
  <2> QED BY <1>1, <2>1, PmlFacts DEF PmlTyped, Innermost
<1>4. v \in Vars /\ assignment[v] = -1 /\ x \in {0, 1}
  BY <1>1, <1>3 DEF PmlInner
<1>5. /\ frames' \in Seq(PmlFrame) /\ Len(frames') = m + 1
      /\ DOMAIN frames' = 1 .. m + 1
      /\ \A k \in DOMAIN frames : /\ frames'[k].base = frames[k].base
                                  /\ frames'[k].var = frames[k].var
                                  /\ k # m => frames'[k] = frames[k]
      /\ frames'[m].value = x + 1
      /\ frames'[m + 1] = Frame(b)
  BY <1>1, <1>3, <1>4, OpenedFrame
<1>6. /\ frames'[m + 1].base = b /\ frames'[m + 1].var = 0 /\ frames'[m + 1].value = 0
      /\ Innermost' = frames'[m + 1] /\ frames'[m].var = v
  BY <1>3, <1>5 DEF Frame, Innermost
<1>7. /\ assignment' \in [Vars -> {-1, 0, 1}] /\ undo' \in Seq(Vars)
      /\ Len(undo') = Len(undo) + 1 /\ DOMAIN undo' = 1 .. Len(undo) + 1
      /\ undo'[Len(undo) + 1] = v /\ \A j \in 1 .. Len(undo) : undo'[j] = undo[j] /\ undo[j] # v
      /\ assignment'[v] = x /\ \A u \in Vars \ {v} : assignment'[u] = assignment[u]
      /\ PmlTrail'
      /\ \A full : \A j \in 0 .. Len(undo) : PmlAgrees(full, j)' <=> PmlAgrees(full, j)
  <2> HIDE DEF v, x
  <2> QED BY <1>1, <1>4, PushStep
<1>8. m <= n
  BY <1>1, Shallow
<1> HIDE DEF m, v, x, b, n
<1>9. PmlTyped'
  <2>1. budget' \in Nat
    BY <1>1, <1>3
  <2> QED BY <1>1, <1>2, <1>5, <1>7, <2>1 DEF PmlTyped
<1>10. \A k \in 2 .. m : /\ k \in DOMAIN frames /\ k - 1 \in DOMAIN frames
                         /\ frames'[k - 1] = frames[k - 1] /\ frames'[k].base = frames[k].base
  <2> TAKE k \in 2 .. m
  <2>1. k \in 1 .. m /\ k - 1 \in 1 .. m /\ k - 1 # m
    BY <1>3
  <2> QED BY <1>3, <1>5, <2>1
<1>11. PmlFrames'
  <2>1. Len(frames') \in 1 .. n + 1
    BY <1>3, <1>5, <1>8
  <2>2. frames'[1].base = 0
    BY <1>1, <1>3, <1>5 DEF PmlFrames
  <2>3. \A k \in 1 .. m : frames[k].base <= Len(undo)
    <3>1. frames[1].base = 0 /\ \A k \in 2 .. m : frames[k].base \in 1 .. Len(undo)
      BY <1>1, <1>3 DEF PmlFrames, m
    <3> QED BY <1>3, <3>1
  <2>4. ASSUME NEW j \in 1 .. m + 1, NEW k \in 1 .. m + 1, j < k
        PROVE  frames'[j].base < frames'[k].base
    <3>1. CASE k = m + 1
      BY <1>3, <1>5, <1>6, <2>3, <2>4, <3>1 DEF b
    <3>2. CASE k # m + 1
      <4>1. j \in 1 .. m /\ k \in 1 .. m
        <5>1. m \in Nat /\ j \in Nat /\ k \in Nat /\ 1 <= j /\ j < k /\ k <= m + 1 /\ k # m + 1
          BY <1>3, <2>4, <3>2
        <5> QED BY ONLY <5>1
      <4> QED BY <1>1, <1>3, <1>5, <2>4, <4>1 DEF PmlFrames
    <3> QED BY <3>1, <3>2
  <2>5. ASSUME NEW k \in 2 .. m + 1
        PROVE  /\ frames'[k].base \in DOMAIN undo' /\ undo'[frames'[k].base] = frames'[k - 1].var
               /\ frames'[k - 1].value \in {1, 2}
               /\ assignment'[frames'[k - 1].var] = frames'[k - 1].value - 1
    <3>1. CASE k = m + 1
      BY <1>3, <1>4, <1>5, <1>6, <1>7, <3>1 DEF b
    <3>2. CASE k \in 2 .. m
      <4>1. /\ frames[k].base \in 1 .. Len(undo) /\ undo[frames[k].base] = frames[k - 1].var
            /\ frames[k - 1].value \in {1, 2}
            /\ assignment[frames[k - 1].var] = frames[k - 1].value - 1
        BY <1>1, <1>3, <3>2 DEF PmlFrames, m
      <4>2. frames[k - 1].var \in Vars \ {v}
        BY <1>3, <1>7, <4>1
      <4> QED BY <1>3, <1>7, <1>10, <3>2, <4>1, <4>2
    <3> QED BY <1>3, <3>1, <3>2
  <2> QED BY <1>1, <1>5, <2>1, <2>2, <2>4, <2>5 DEF PmlFrames, n
<1>12. PmlInner'
  BY <1>1, <1>6 DEF PmlInner
<1>13. ASSUME NEW full \in PmlModels PROVE Follows(full)'
  <2>1. Follows(full)
    BY <1>1 DEF PmlMeaning
  <2>2. ASSUME NEW j \in 1 .. Len(undo) + 1, PmlAgrees(full, j - 1)'
        PROVE  \/ full[undo'[j]] = assignment'[undo'[j]]
               \/ \E k \in 2 .. m + 1 : frames'[k].base = j /\ frames'[k - 1].value = 1
    <3>1. PmlAgrees(full, j - 1)
      <4>1. j - 1 \in 0 .. Len(undo)
        BY <1>3, <2>2
      <4> QED BY <1>7, <2>2, <4>1
    <3>2. CASE j \in 1 .. Len(undo)
      <4>1. undo'[j] = undo[j] /\ assignment'[undo[j]] = assignment[undo[j]]
        BY <1>3, <1>7, <3>2
      <4>2. \/ full[undo[j]] = assignment[undo[j]]
            \/ \E k \in 2 .. m : frames[k].base = j /\ frames[k - 1].value = 1
        BY <1>3, <2>1, <3>1, <3>2 DEF Follows, m
      <4>3. \A k \in 2 .. m : k \in 2 .. m + 1
        BY <1>3
      <4> QED BY <1>10, <4>1, <4>2, <4>3
    <3>3. CASE j = Len(undo) + 1
      <4>1. PmlAgrees(full, Len(undo))
        BY <1>3, <3>1, <3>3
      <4>2. full[v] >= x /\ full[v] \in {0, 1}
        BY <1>1, <1>4, <4>1, FullFacts DEF PmlMeaning, v, x
      <4>3. CASE x = 0
        <5>1. m + 1 \in 2 .. m + 1 /\ (m + 1) - 1 = m
          BY <1>3
        <5>2. frames'[m + 1].base = j /\ frames'[m].value = 1
          BY <1>5, <1>6, <3>3, <4>3 DEF b
        <5> QED BY <5>1, <5>2
      <4>4. CASE x = 1
        <5>1. full[v] = 1
          BY <4>2, <4>4
        <5> QED BY <1>7, <3>3, <4>4, <5>1
      <4> QED BY <1>4, <4>3, <4>4
    <3> QED BY <1>3, <3>2, <3>3
  <2> QED BY <1>5, <1>7, <2>2 DEF Follows
<1>14. PmlMeaning'
  BY <1>1, <1>2, <1>13 DEF PmlMeaning
<1>15. PmlAfford'
  <2> SUFFICES ASSUME n <= pml.complete
               PROVE  \E s \in [0 .. m + 1 -> Nat] :
                        /\ s[0] = 0 /\ s[m + 1] <= budget'
                        /\ \A k \in 1 .. m + 1 : s[k] = s[k - 1] + Price(n, frames'[k].value, k)
    BY <1>1, <1>5 DEF PmlAfford, n
  <2>1. PICK s \in [0 .. m -> Nat] :
          /\ s[0] = 0 /\ s[m] <= budget
          /\ \A k \in 1 .. m : s[k] = s[k - 1] + Price(n, frames[k].value, k)
    BY <1>1 DEF PmlAfford, n, m
  <2> DEFINE p == 2 ^ (n - m)
             more == Price(n, x + 1, m)
             t == [k \in 0 .. m + 1 |->
                     IF k < m THEN s[k]
                     ELSE IF k = m THEN s[m - 1] + more ELSE s[m - 1] + more + (2 * p - 2)]
  <2>2. n - m \in Nat /\ n - (m + 1) + 1 = n - m /\ (n - m) + 1 = n - m + 1
    BY <1>3, <1>8
  <2>3. p \in Nat /\ p >= 1 /\ 2 ^ (n - m + 1) = 2 * p
    BY <2>2, Powers
  <2>4. Price(n, 0, m + 1) = 2 * p - 2
    BY <2>2 DEF Price
  <2>5. /\ Price(n, x, m) = IF x = 0 THEN 4 * p - 2 ELSE 2 * p - 1
        /\ more = IF x = 0 THEN 2 * p - 1 ELSE 0
    <3> HIDE DEF p
    <3> QED BY <1>4, <2>3 DEF Price
  <2> HIDE DEF p, more
  <2>6. s[m] \in Nat /\ s[m - 1] \in Nat /\ s[m] = s[m - 1] + Price(n, x, m) /\ more \in Nat
    <3>1. m \in 1 .. m /\ m - 1 \in 0 .. m /\ m \in 0 .. m
      BY <1>3
    <3>2. frames[m].value = x
      BY <1>3 DEF x
    <3> QED BY <1>4, <2>1, <2>3, <2>5, <3>1, <3>2
  <2>7. t \in [0 .. m + 1 -> Nat]
    BY <1>3, <2>1, <2>3, <2>6
  <2>8. t[0] = 0
    <3>1. CASE m = 0
      BY <1>3, <3>1
    <3>2. CASE m # 0
      BY <1>3, <2>1, <3>2
    <3> QED BY <3>1, <3>2
  <2>9. t[m + 1] <= budget'
    <3>1. t[m + 1] = s[m - 1] + more + (2 * p - 2)
      BY <1>3
    <3>2. s[m - 1] + more + (2 * p - 2) = s[m - 1] + Price(n, x, m) - 1
      BY <1>4, <2>3, <2>5, <2>6
    <3>3. s[m] <= budget /\ s[m] \in Nat /\ budget \in Nat
      BY <1>3, <2>1, <2>6
    <3> HIDE DEF t
    <3>4. Price(n, x, m) \in Int
      BY <1>4, <2>3, <2>5
    <3>5. t[m + 1] = s[m] - 1
      BY <2>6, <3>1, <3>2, <3>4
    <3> QED BY <1>1, <3>3, <3>5
  <2>10. ASSUME NEW k \in 1 .. m + 1 PROVE t[k] = t[k - 1] + Price(n, frames'[k].value, k)
    <3>1. CASE k < m
      <4>1. t[k] = s[k] /\ t[k - 1] = s[k - 1] /\ k \in 1 .. m /\ k # m
        BY <1>3, <3>1
      <4>2. frames'[k] = frames[k]
        BY <1>3, <1>5, <4>1
      <4> QED BY <2>1, <4>1, <4>2
    <3>2. CASE k = m
      <4>1. t[k] = s[m - 1] + more /\ t[k - 1] = s[m - 1]
        BY <1>3, <3>2
      <4> QED BY <1>5, <3>2, <4>1 DEF more
    <3>3. CASE k = m + 1
      <4>1. t[k] = s[m - 1] + more + (2 * p - 2) /\ t[k - 1] = s[m - 1] + more
        BY <1>3, <3>3
      <4>2. Price(n, frames'[k].value, k) = 2 * p - 2
        BY <1>6, <2>4, <3>3
      <4> QED BY <4>1, <4>2
    <3> QED BY <1>3, <3>1, <3>2, <3>3
  <2> HIDE DEF t
  <2> QED BY <2>7, <2>8, <2>9, <2>10
<1> QED BY <1>1, <1>7, <1>9, <1>11, <1>12, <1>14, <1>15 DEF PmlIInv


LEMMA GiveUpStep ==
  ASSUME PmlIInv, GiveUp
  PROVE  PmlIInv' /\ at' # "idle"
<1> DEFINE n == pml.num_vars
           m == Len(frames)
<1>1. /\ PmlTyped /\ PmlTrail /\ PmlFrames /\ PmlInner /\ PmlMeaning /\ PmlAfford
      /\ at = "branch" /\ Innermost.var # 0
      /\ pml' = pml /\ budget' = budget /\ entry' = entry /\ assignment' = assignment
      /\ frames' = frames /\ undo' = undo /\ at' = "undo" /\ outcome' \in {"UNSAT", "UNRESOLVED"}
      /\ \/ Innermost.value > 1 /\ outcome' = "UNSAT"
         \/ Innermost.value <= 1 /\ budget = 0 /\ outcome' = "UNRESOLVED"
  BY DEF PmlIInv, GiveUp, Leaving
<1>2. Vars' = Vars /\ PmlModels' = PmlModels
  BY <1>1, SameModels
<1>3. \A full, j : PmlAgrees(full, j)' <=> PmlAgrees(full, j)
  BY <1>1 DEF PmlAgrees
<1>4. PmlTyped'
  BY <1>1, <1>2 DEF PmlTyped
<1>5. PmlTrail' /\ PmlFrames'
  BY <1>1, <1>2 DEF PmlTrail, PmlFrames
<1>6. PmlInner'
  BY <1>1 DEF PmlInner
<1>7. Innermost' = Innermost /\ Innermost.value \in 0 .. 2
  <2>1. m \in DOMAIN frames
    BY <1>1, PmlFacts DEF PmlFrames
  <2> QED BY <1>1, <2>1, PmlFacts DEF Innermost
<1>8. ASSUME outcome' = "UNSAT", NEW full \in PmlModels PROVE ~PmlAgrees(full, Innermost.base)
  <2>1. ASSUME PmlAgrees(full, Innermost.base) PROVE FALSE
    <3>1. PmlAgrees(full, Len(undo))
      BY <1>1, <2>1, AgreesAbove
    <3>2. full[Innermost.var] >= Innermost.value
      BY <1>1, <3>1 DEF PmlMeaning
    <3>3. full[Innermost.var] \in {0, 1}
      BY <1>1, FullFacts DEF PmlInner
    <3> QED BY <1>1, <1>7, <1>8, <3>2, <3>3
  <2> QED BY <2>1
<1>9. PmlMeaning'
  BY <1>1, <1>2, <1>3, <1>7, <1>8 DEF PmlMeaning, Follows
<1>10. ASSUME n <= pml.complete PROVE outcome' = "UNSAT"
  <2>1. ASSUME Innermost.value <= 1, budget = 0 PROVE FALSE
    <3>1. m \in Nat /\ m # 0 /\ n \in Nat
      BY <1>1, PmlFacts DEF PmlFrames
    <3>2. m <= n
      BY <1>1, Shallow
    <3>3. PICK s \in [0 .. m -> Nat] :
            /\ s[0] = 0 /\ s[m] <= budget
            /\ \A k \in 1 .. m : s[k] = s[k - 1] + Price(n, frames[k].value, k)
      BY <1>1, <1>10 DEF PmlAfford
    <3> HIDE DEF m, n
    <3>4. s[m] \in Nat /\ s[m - 1] \in Nat /\ s[m] = s[m - 1] + Price(n, Innermost.value, m)
      <4>1. m \in 1 .. m /\ m - 1 \in 0 .. m /\ m \in 0 .. m
        BY <3>1
      <4> QED BY <3>3, <4>1 DEF Innermost, m
    <3>5. n - m + 1 \in Nat /\ n - m \in Nat /\ (n - m) + 1 = n - m + 1
      BY <3>1, <3>2
    <3>6. 2 ^ (n - m) \in Nat /\ 2 ^ (n - m) >= 1 /\ 2 ^ (n - m + 1) = 2 * 2 ^ (n - m)
      BY <3>5, Powers
    <3> DEFINE p == 2 ^ (n - m + 1)
    <3>7. p \in Nat /\ p >= 2
      BY <3>6
    <3>8. Price(n, Innermost.value, m) \in {2 * p - 2, p - 1}
      BY <1>7, <2>1 DEF Price
    <3> HIDE DEF p
    <3>9. Price(n, Innermost.value, m) \in Nat /\ Price(n, Innermost.value, m) >= 1
      BY <3>7, <3>8
    <3> QED BY <2>1, <3>3, <3>4, <3>9
  <2> QED BY <1>1, <2>1
<1>11. PmlAfford'
  BY <1>1, <1>10 DEF PmlAfford
<1> QED BY <1>1, <1>4, <1>5, <1>6, <1>9, <1>11 DEF PmlIInv

LEMMA ReturnStep ==
  ASSUME PmlIInv, Return
  PROVE  /\ PmlIInv'
         /\ at' = "idle" => /\ flag' = outcome /\ assignment' = entry
                            /\ flag' = "UNSAT" => \A full \in Extensions(entry) : ~IsModel(full)
                            /\ pml.num_vars <= pml.complete => flag' = "UNSAT"
<1> DEFINE n == pml.num_vars
           m == Len(frames)
           b == Innermost.base
           v == frames[m - 1].var
<1>1. /\ PmlTyped /\ PmlTrail /\ PmlFrames /\ PmlInner /\ PmlMeaning /\ PmlAfford
      /\ at = "undo" /\ pml' = pml /\ budget' = budget /\ entry' = entry /\ outcome' = outcome
      /\ frames' = SubSeq(frames, 1, m - 1)
  BY DEF PmlIInv, Return
<1>2. Vars' = Vars /\ PmlModels' = PmlModels
  BY <1>1, SameModels
<1>3. /\ Len(undo) \in Nat /\ DOMAIN undo = 1 .. Len(undo) /\ \A j \in 1 .. Len(undo) : undo[j] \in Vars
      /\ m \in Nat /\ DOMAIN frames = 1 .. m /\ m # 0
      /\ \A k \in 1 .. m : frames[k].base \in Nat
      /\ n \in Nat /\ Innermost = frames[m]
      /\ \A u \in Vars : assignment[u] \in {-1, 0, 1} /\ entry[u] \in {-1, 0, 1}
  <2>1. m # 0
    BY <1>1, PmlFacts DEF PmlFrames
  <2> QED BY <1>1, <2>1, PmlFacts DEF PmlTyped, Innermost
<1>4. CASE m = 1
  <2>1. flag' = outcome /\ at' = "idle" /\ undo' = <<>> /\ assignment' = Undone(b)
    BY <1>4 DEF Return
  <2>2. b = 0
    BY <1>1, <1>3, <1>4 DEF PmlFrames
  <2>3. ASSUME NEW u \in Vars PROVE assignment'[u] = entry[u]
    <3>1. CASE \E k \in 1 .. Len(undo) : undo[k] = u
      <4>1. entry[u] = -1
        BY <1>1, <1>3, <3>1 DEF PmlTrail
      <4>2. assignment'[u] = -1
        BY <2>1, <2>2, <3>1 DEF Undone
      <4> QED BY <4>1, <4>2
    <3>2. CASE ~\E k \in 1 .. Len(undo) : undo[k] = u
      <4>1. assignment[u] = entry[u]
        BY <1>1, <1>3, <3>2 DEF PmlTrail
      <4>2. assignment'[u] = assignment[u]
        BY <2>1, <2>2, <3>2 DEF Undone
      <4> QED BY <4>1, <4>2
    <3> QED BY <3>1, <3>2
  <2>4. assignment' = entry
    <3>1. assignment' = [u \in Vars |-> assignment'[u]] /\ entry = [u \in Vars |-> entry[u]]
      BY <1>1, <2>1 DEF Undone, PmlTyped
    <3> QED BY <2>3, <3>1
  <2>5. frames' = <<>>
    BY <1>1, <1>4 DEF PmlTyped
  <2>6. PmlTyped'
    BY <1>1, <1>2, <2>1, <2>4, <2>5 DEF PmlTyped
  <2>7. PmlIInv'
    BY <2>1, <2>5, <2>6 DEF PmlIInv
  <2>8. ASSUME outcome = "UNSAT", NEW full \in Extensions(entry) PROVE ~IsModel(full)
    <3>1. ASSUME IsModel(full) PROVE FALSE
      <4>1. full \in PmlModels
        BY <3>1 DEF PmlModels
      <4>2. ~PmlAgrees(full, 0)
        BY <1>1, <2>2, <2>8, <4>1 DEF PmlMeaning
      <4> QED BY <4>2 DEF PmlAgrees
    <3> QED BY <3>1
  <2>9. n <= pml.complete => outcome = "UNSAT"
    BY <1>1 DEF PmlAfford
  <2> QED BY <2>1, <2>4, <2>7, <2>8, <2>9
<1>5. CASE m # 1
  <2>1. /\ assignment' = [Undone(b) EXCEPT ![v] = -1]
        /\ undo' = SubSeq(undo, 1, b - 1)
        /\ at' = IF outcome = "UNRESOLVED" THEN "undo" ELSE "branch"
    BY <1>5 DEF Return
  <2>2. m \in 2 .. m /\ m \in 1 .. m /\ m - 1 \in 1 .. m
    <3> HIDE DEF m
    <3> QED BY <1>3, <1>5
  <2>3. /\ b \in 1 .. Len(undo) /\ undo[b] = v /\ frames[m - 1].value \in {1, 2}
        /\ assignment[v] = frames[m - 1].value - 1 /\ v \in Vars
    BY <1>1, <1>3, <2>2 DEF PmlFrames
  <2>4. /\ undo' \in Seq(Vars) /\ Len(undo') = b - 1 /\ DOMAIN undo' = 1 .. b - 1
        /\ \A j \in 1 .. b - 1 : undo'[j] = undo[j]
    <3> HIDE DEF b
    <3> QED BY <1>1, <1>3, <2>1, <2>3 DEF PmlTyped
  <2>5. /\ frames' \in Seq(PmlFrame) /\ Len(frames') = m - 1 /\ DOMAIN frames' = 1 .. m - 1
        /\ \A k \in 1 .. m - 1 : frames'[k] = frames[k]
    BY <1>1, <1>3, <2>2 DEF PmlTyped
  <2>6. Innermost' = frames[m - 1] /\ m - 1 \in 1 .. m - 1
    <3>1. m - 1 \in 1 .. m - 1
      <4> HIDE DEF m
      <4> QED BY <1>3, <2>2
    <3> QED BY <2>5, <3>1 DEF Innermost
  <2> HIDE DEF m, b, v
  <2>7. ASSUME NEW u \in Vars
        PROVE  assignment'[u] = IF \E k \in b .. Len(undo) : undo[k] = u THEN -1 ELSE assignment[u]
    <3>1. CASE u = v
      <4>1. b \in b .. Len(undo)
        BY <1>3, <2>3
      <4> QED BY <2>1, <2>3, <3>1, <4>1 DEF Undone
    <3>2. CASE u # v
      <4>1. assignment'[u] = Undone(b)[u]
        BY <2>1, <3>2 DEF Undone
      <4>2. ASSUME NEW k \in b .. Len(undo), undo[k] = u PROVE k \in b + 1 .. Len(undo)
        BY <1>3, <2>3, <3>2, <4>2
      <4>3. \A k \in b + 1 .. Len(undo) : k \in b .. Len(undo)
        BY <1>3, <2>3
      <4> QED BY <4>1, <4>2, <4>3 DEF Undone
    <3> QED BY <3>1, <3>2
  <2>8. \A j \in 1 .. b - 1 : j \in 1 .. Len(undo) /\ assignment'[undo[j]] = assignment[undo[j]]
    <3> SUFFICES ASSUME NEW j \in 1 .. b - 1
                 PROVE  j \in 1 .. Len(undo) /\ assignment'[undo[j]] = assignment[undo[j]]
      OBVIOUS
    <3>1. j \in 1 .. Len(undo)
      BY <1>3, <2>3
    <3>2. ~\E k \in b .. Len(undo) : undo[k] = undo[j]
      <4>1. \A k \in b .. Len(undo) : k \in 1 .. Len(undo) /\ k # j
        BY <1>3, <2>3
      <4> QED BY <1>1, <1>3, <3>1, <4>1 DEF PmlTrail
    <3> QED BY <1>3, <2>7, <3>1, <3>2
  <2>9. \A full : \A j \in 0 .. b - 1 : PmlAgrees(full, j)' <=> PmlAgrees(full, j)
    <3> SUFFICES ASSUME NEW full, NEW j \in 0 .. b - 1 PROVE PmlAgrees(full, j)' <=> PmlAgrees(full, j)
      OBVIOUS
    <3>1. \A i \in 1 .. j : i \in 1 .. b - 1
      BY <1>3, <2>3
    <3>2. \A i \in 1 .. j : undo'[i] = undo[i] /\ assignment'[undo[i]] = assignment[undo[i]]
      BY <2>4, <2>8, <3>1
    <3> QED BY <3>2 DEF PmlAgrees
  <2>10. assignment' \in [Vars -> {-1, 0, 1}]
    <3>1. assignment' = [u \in Vars |-> assignment'[u]]
      BY <2>1 DEF Undone
    <3>2. \A u \in Vars : assignment'[u] \in {-1, 0, 1}
      BY <1>3, <2>7
    <3> QED BY <3>1, <3>2
  <2>11. at' \in {"undo", "branch"} /\ (at' = "undo" <=> outcome = "UNRESOLVED")
    BY <2>1
  <2>12. PmlTyped'
    BY <1>1, <1>2, <2>4, <2>5, <2>10, <2>11 DEF PmlTyped
  <2>13. PmlTrail'
    <3>1. \A i, j \in DOMAIN undo' : undo'[i] = undo'[j] => i = j
      BY <1>1, <1>3, <2>4, <2>8 DEF PmlTrail
    <3>2. \A j \in DOMAIN undo' : entry[undo'[j]] = -1 /\ assignment'[undo'[j]] # -1
      BY <1>1, <1>3, <2>4, <2>8 DEF PmlTrail
    <3>3. ASSUME NEW u \in Vars, \A j \in DOMAIN undo' : undo'[j] # u PROVE assignment'[u] = entry[u]
      <4>1. CASE \E k \in b .. Len(undo) : undo[k] = u
        <5>1. \A k \in b .. Len(undo) : k \in 1 .. Len(undo)
          BY <1>3, <2>3
        <5>2. entry[u] = -1
          BY <1>1, <1>3, <4>1, <5>1 DEF PmlTrail
        <5> QED BY <2>7, <4>1, <5>2
      <4>2. CASE ~\E k \in b .. Len(undo) : undo[k] = u
        <5>1. \A j \in 1 .. Len(undo) : j \in 1 .. b - 1 \/ j \in b .. Len(undo)
          BY <1>3, <2>3
        <5>2. \A j \in 1 .. Len(undo) : undo[j] # u
          BY <2>4, <3>3, <4>2, <5>1
        <5>3. assignment[u] = entry[u]
          BY <1>1, <1>3, <5>2 DEF PmlTrail
        <5> QED BY <2>7, <4>2, <5>3
      <4> QED BY <4>1, <4>2
    <3> QED BY <1>1, <1>2, <3>1, <3>2, <3>3 DEF PmlTrail
  <2>14. PmlFrames'
    <3>1. Len(frames') \in 1 .. n + 1
      <4>1. m \in 1 .. n + 1
        BY <1>1 DEF PmlFrames, m
      <4> QED BY <1>3, <2>2, <2>5, <4>1
    <3>2. frames'[1].base = 0
      <4>1. 1 \in 1 .. m - 1
        BY <1>3, <2>2
      <4> QED BY <1>1, <2>5, <4>1 DEF PmlFrames
    <3>3. ASSUME NEW j \in 1 .. m - 1, NEW k \in 1 .. m - 1, j < k
          PROVE  frames'[j].base < frames'[k].base
      <4>1. j \in DOMAIN frames /\ k \in DOMAIN frames
        BY <1>3
      <4> QED BY <1>1, <2>5, <3>3, <4>1 DEF PmlFrames
    <3>4. ASSUME NEW k \in 2 .. m - 1
          PROVE  /\ frames'[k].base \in DOMAIN undo' /\ undo'[frames'[k].base] = frames'[k - 1].var
                 /\ frames'[k - 1].value \in {1, 2}
                 /\ assignment'[frames'[k - 1].var] = frames'[k - 1].value - 1
      <4>1. k \in 2 .. m /\ k \in 1 .. m - 1 /\ k - 1 \in 1 .. m - 1 /\ k \in 1 .. m /\ k < m /\ m \in 1 .. m
        BY <1>3
      <4>2. /\ frames[k].base \in 1 .. Len(undo) /\ undo[frames[k].base] = frames[k - 1].var
            /\ frames[k - 1].value \in {1, 2}
            /\ assignment[frames[k - 1].var] = frames[k - 1].value - 1
        BY <1>1, <1>3, <4>1 DEF PmlFrames, m
      <4>3. frames[k].base < b
        BY <1>1, <1>3, <4>1 DEF PmlFrames, b
      <4>4. frames[k].base \in 1 .. b - 1
        BY <1>3, <2>3, <4>2, <4>3
      <4> QED BY <2>4, <2>5, <2>8, <4>1, <4>2, <4>4
    <3> QED BY <1>1, <2>5, <3>1, <3>2, <3>3, <3>4 DEF PmlFrames, n
  <2>15. Innermost'.var = v /\ v # 0 /\ Innermost'.value = frames[m - 1].value
    <3>1. Vars \subseteq Nat \ {0}
      BY <1>1, PmlFacts
    <3> QED BY <2>3, <2>6, <3>1 DEF v
  <2>16. assignment'[v] = -1
    <3>1. b \in b .. Len(undo)
      BY <1>3, <2>3
    <3> QED BY <2>3, <2>7, <3>1
  <2>17. PmlInner'
    BY <1>1, <1>2, <2>3, <2>11, <2>15, <2>16 DEF PmlInner
  <2>18. ASSUME NEW full \in PmlModels PROVE Follows(full)'
    <3>1. Follows(full)
      BY <1>1 DEF PmlMeaning
    <3>2. ASSUME NEW j \in 1 .. b - 1, PmlAgrees(full, j - 1)'
          PROVE  \/ full[undo'[j]] = assignment'[undo'[j]]
                 \/ \E k \in 2 .. m - 1 : frames'[k].base = j /\ frames'[k - 1].value = 1
      <4>1. j - 1 \in 0 .. b - 1 /\ j \in 1 .. Len(undo) /\ j # b
        BY <1>3, <2>3
      <4>2. PmlAgrees(full, j - 1)
        BY <2>9, <3>2, <4>1
      <4>3. \/ full[undo[j]] = assignment[undo[j]]
            \/ \E k \in 2 .. m : frames[k].base = j /\ frames[k - 1].value = 1
        BY <1>3, <3>1, <4>1, <4>2 DEF Follows, m
      <4>4. ASSUME NEW k \in 2 .. m, frames[k].base = j
            PROVE  k \in 2 .. m - 1 /\ frames'[k] = frames[k] /\ frames'[k - 1] = frames[k - 1]
        <5>1. k # m
          BY <1>3, <4>1, <4>4 DEF b
        <5>2. k \in 2 .. m - 1 /\ k \in 1 .. m - 1 /\ k - 1 \in 1 .. m - 1
          BY <1>3, <5>1
        <5> QED BY <2>5, <5>2
      <4> QED BY <2>4, <2>8, <4>3, <4>4
    <3> QED BY <2>4, <2>5, <3>2 DEF Follows
  <2>19. ASSUME NEW full \in PmlModels, outcome = "UNSAT", PmlAgrees(full, b - 1)
         PROVE  full[v] >= frames[m - 1].value
    <3>1. ~PmlAgrees(full, b)
      BY <1>1, <2>19 DEF PmlMeaning, b
    <3>2. full[v] # assignment[v]
      <4>1. \A i \in 1 .. b : i \in 1 .. b - 1 \/ i = b
        BY <1>3, <2>3
      <4> QED BY <2>3, <2>19, <3>1, <4>1 DEF PmlAgrees
    <3>3. \E k \in 2 .. m : frames[k].base = b /\ frames[k - 1].value = 1
      <4>1. Follows(full) /\ b \in DOMAIN undo
        BY <1>1, <1>3, <2>3 DEF PmlMeaning
      <4> QED BY <2>3, <2>19, <3>2, <4>1 DEF Follows, m
    <3>4. PICK k \in 2 .. m : frames[k].base = b /\ frames[k - 1].value = 1
      BY <3>3
    <3>5. k = m
      <4>1. ASSUME k # m PROVE FALSE
        <5>1. k < m /\ k \in 1 .. m /\ m \in 1 .. m
          BY <1>3, <4>1
        <5>2. frames[k].base < frames[m].base /\ frames[m].base = b
          BY <1>1, <1>3, <5>1 DEF PmlFrames, b
        <5> QED BY <2>3, <3>4, <5>2
      <4> QED BY <4>1
    <3>6. frames[m - 1].value = 1 /\ assignment[v] = 0
      BY <2>3, <3>4, <3>5
    <3>7. full[v] \in {0, 1}
      BY <1>1, <2>3, FullFacts
    <3> QED BY <3>2, <3>6, <3>7
  <2>20. PmlMeaning'
    <3>1. b - 1 \in 0 .. b - 1
      BY <2>3
    <3>2. \A full : PmlAgrees(full, Len(undo))' <=> PmlAgrees(full, b - 1)
      BY <2>4, <2>9, <3>1
    <3>3. ASSUME NEW full \in PmlModels
          PROVE  /\ at' = "branch" /\ PmlAgrees(full, Len(undo))' =>
                      full[Innermost'.var] >= Innermost'.value
                 /\ ~(at' = "undo" /\ outcome' = "UNSAT")
      BY <1>1, <2>11, <2>15, <2>19, <3>2 DEF PmlTyped
    <3> QED BY <1>2, <2>18, <3>3 DEF PmlMeaning
  <2>21. PmlAfford'
    <3> SUFFICES ASSUME n <= pml.complete
                 PROVE  \E s \in [0 .. m - 1 -> Nat] :
                          /\ s[0] = 0 /\ s[m - 1] <= budget
                          /\ \A k \in 1 .. m - 1 : s[k] = s[k - 1] + Price(n, frames'[k].value, k)
      BY <1>1, <2>5 DEF PmlAfford, n
    <3>1. PICK s \in [0 .. m -> Nat] :
            /\ s[0] = 0 /\ s[m] <= budget
            /\ \A k \in 1 .. m : s[k] = s[k - 1] + Price(n, frames[k].value, k)
      BY <1>1 DEF PmlAfford, n, m
    <3> DEFINE t == [k \in 0 .. m - 1 |-> s[k]]
    <3>2. t \in [0 .. m - 1 -> Nat] /\ t[0] = 0
      BY <1>3, <2>2, <3>1
    <3>3. t[m - 1] <= budget
      <4>1. s[m] = s[m - 1] + Price(n, frames[m].value, m) /\ t[m - 1] = s[m - 1]
            /\ s[m] \in Nat /\ s[m - 1] \in Nat
        BY <1>3, <2>2, <3>1
      <4>2. Price(n, frames[m].value, m) \in Nat
        <5>1. n - m + 1 \in Nat
          <6>1. m \in 1 .. n + 1
            BY <1>1 DEF PmlFrames, m
          <6> QED BY <1>3, <6>1
        <5>2. 2 ^ (n - m + 1) \in Nat /\ 2 ^ (n - m + 1) >= 1
          BY <5>1, Powers
        <5> DEFINE p == 2 ^ (n - m + 1)
        <5>3. p \in Nat /\ p >= 1
          BY <5>2
        <5>4. Price(n, frames[m].value, m) \in {2 * p - 2, p - 1, 0}
          BY DEF Price
        <5> HIDE DEF p
        <5> QED BY <5>3, <5>4
      <4>3. budget \in Nat
        BY <1>1 DEF PmlTyped
      <4> HIDE DEF t
      <4> QED BY <3>1, <4>1, <4>2, <4>3
    <3>4. ASSUME NEW k \in 1 .. m - 1 PROVE t[k] = t[k - 1] + Price(n, frames'[k].value, k)
      <4>1. k \in 1 .. m /\ k \in 0 .. m - 1 /\ k - 1 \in 0 .. m - 1
        BY <1>3
      <4> QED BY <2>5, <3>1, <4>1
    <3> HIDE DEF t
    <3> QED BY <3>2, <3>3, <3>4
  <2> QED BY <1>1, <2>11, <2>12, <2>13, <2>14, <2>17, <2>20, <2>21 DEF PmlIInv
<1> QED BY <1>4, <1>5


LEMMA RefineStep ==
  ASSUME PmlIInv, Refine
  PROVE  PmlIInv'
<1>1. PmlTyped /\ frames = <<>> /\ undo = <<>> /\ at = "idle" /\ pml' = pml /\ assignment' = assignment
      /\ entry' = assignment /\ outcome' = outcome
  BY DEF PmlIInv, Refine
<1>2. Vars' = Vars
  BY <1>1 DEF Vars
<1>3. CASE frames' = <<Frame(0)>> /\ undo' = <<>> /\ budget' = Budget /\ at' = "propagate"
  <2>1. Frame(0) \in PmlFrame /\ Frame(0).base = 0 /\ Frame(0).var = 0 /\ Frame(0).value = 0
    BY DEF Frame, PmlFrame
  <2>2. /\ frames' \in Seq(PmlFrame) /\ Len(frames') = 1 /\ DOMAIN frames' = 1 .. 1
        /\ frames'[1] = Frame(0)
    BY <1>3, <2>1
  <2>3. undo' \in Seq(Vars) /\ Len(undo') = 0 /\ DOMAIN undo' = {}
    BY <1>3
  <2>4. Innermost' = Frame(0)
    BY <2>2 DEF Innermost
  <2>5. pml.num_vars \in Nat
    BY <1>1, PmlFacts
  <2>6. Budget \in Nat /\ (pml.num_vars <= pml.complete => Budget = 2 ^ (pml.num_vars + 1))
    <3> DEFINE n == IF pml.num_vars <= pml.complete THEN pml.num_vars ELSE pml.complete
    <3>1. n \in Nat
      BY <1>1, <2>5, PmlAssumption DEF PmlTyped
    <3>2. n + 1 \in Nat
      BY <3>1
    <3> HIDE DEF n
    <3>3. 2 ^ (n + 1) \in Nat
      BY <3>2, Powers
    <3> QED BY <3>3 DEF Budget, n
  <2>7. PmlTyped'
    BY <1>1, <1>2, <1>3, <2>2, <2>3, <2>6 DEF PmlTyped
  <2>8. PmlTrail'
    BY <1>1, <2>3 DEF PmlTrail
  <2>9. PmlFrames'
    <3>1. \A j, k \in 1 .. 1 : ~(j < k)
      OBVIOUS
    <3>2. 2 .. 1 = {} /\ 1 \in 1 .. pml.num_vars + 1
      BY <2>5
    <3> QED BY <1>1, <2>1, <2>2, <3>1, <3>2 DEF PmlFrames
  <2>10. PmlInner'
    BY <1>3, <2>1, <2>4 DEF PmlInner
  <2>11. PmlMeaning'
    BY <1>3, <2>3 DEF PmlMeaning, Follows
  <2>12. PmlAfford'
    <3> DEFINE n == pml.num_vars
               t == [k \in 0 .. 1 |-> IF k = 0 THEN 0 ELSE 2 * 2 ^ n - 2]
               p == 2 ^ n
    <3>1. p \in Nat /\ p >= 1 /\ 2 ^ (n + 1) = 2 * p
      BY <2>5, Powers
    <3>2. Price(n, 0, 1) = 2 * p - 2
      <4>1. n - 1 + 1 = n
        BY <2>5
      <4> QED BY <4>1 DEF Price
    <3>3. t[0] = 0 /\ t[1] = 2 * p - 2
      OBVIOUS
    <3> HIDE DEF p
    <3>4. t \in [0 .. 1 -> Nat]
      <4>1. 2 * p - 2 \in Nat
        BY <3>1
      <4>2. t = [k \in 0 .. 1 |-> IF k = 0 THEN 0 ELSE 2 * p - 2]
        BY DEF p
      <4> HIDE DEF t
      <4> QED BY <4>1, <4>2
    <3> HIDE DEF t
    <3>5. n <= pml.complete => t[1] <= budget'
      <4> HIDE DEF n
      <4> QED BY <1>3, <2>6, <3>1, <3>3 DEF n
    <3>6. \A k \in 1 .. 1 : t[k] = t[k - 1] + Price(n, frames'[k].value, k)
      <4>1. 2 * p - 2 \in Int
        BY <3>1
      <4>2. t[1] = t[0] + Price(n, frames'[1].value, 1)
        BY <2>1, <2>2, <3>2, <3>3, <4>1
      <4>3. \A k \in 1 .. 1 : k = 1 /\ k - 1 = 0
        OBVIOUS
      <4> QED BY <4>2, <4>3
    <3> QED BY <1>1, <1>3, <2>2, <3>3, <3>4, <3>5, <3>6 DEF PmlAfford
  <2> QED BY <1>3, <2>7, <2>8, <2>9, <2>10, <2>11, <2>12 DEF PmlIInv
<1>4. CASE UNCHANGED <<frames, undo, budget, sweep, at>>
  <2>1. PmlTyped'
    BY <1>1, <1>2, <1>4 DEF PmlTyped
  <2> QED BY <1>1, <1>4, <2>1 DEF PmlIInv
<1>5. \/ frames' = <<Frame(0)>> /\ undo' = <<>> /\ budget' = Budget /\ at' = "propagate"
      \/ UNCHANGED <<frames, undo, budget, sweep, at>>
  BY Zenon DEF Refine, Propagating
<1> QED BY <1>3, <1>4, <1>5

LEMMA PresetStep ==
  ASSUME PmlIInv, NEW v \in Vars, NEW value \in {-1, 0, 1}, Preset(v, value)
  PROVE  PmlIInv'
<1>1. /\ PmlTyped /\ frames' = <<>> /\ undo' = <<>> /\ at' = "idle"
      /\ UNCHANGED <<pml, frames, undo, at, budget, entry, outcome>>
      /\ assignment' = [assignment EXCEPT ![v] = value]
  BY DEF PmlIInv, Preset
<1>2. Vars' = Vars
  BY <1>1 DEF Vars
<1>3. PmlTyped'
  BY <1>1, <1>2 DEF PmlTyped
<1> QED BY <1>1, <1>3 DEF PmlIInv

LEMMA PmlStart ==
  ASSUME InitPml(PmlProblems)
  PROVE  PmlIInv
<1>1. pml \in PmlProblems /\ assignment = [v \in Vars |-> -1] /\ frames = <<>> /\ undo = <<>>
      /\ budget = 0 /\ at = "idle" /\ outcome = "UNRESOLVED" /\ entry = assignment
  BY DEF InitPml
<1>2. PmlTyped
  BY <1>1 DEF PmlTyped
<1> QED BY <1>1, <1>2 DEF PmlIInv

LEMMA PmlIdle ==
  ASSUME PmlIInv, UNCHANGED pmlVars
  PROVE  PmlIInv'
<1>1. /\ pml' = pml /\ assignment' = assignment /\ frames' = frames /\ undo' = undo /\ budget' = budget
      /\ at' = at /\ outcome' = outcome /\ entry' = entry
  BY DEF pmlVars
<1>2. Vars' = Vars /\ PmlModels' = PmlModels
  BY <1>1, SameModels
<1>3. PmlTyped' <=> PmlTyped
  BY <1>1, <1>2 DEF PmlTyped
<1>4. (PmlTrail' <=> PmlTrail) /\ (PmlFrames' <=> PmlFrames)
  BY <1>1, <1>2 DEF PmlTrail, PmlFrames
<1>5. (PmlInner' <=> PmlInner) /\ (PmlAfford' <=> PmlAfford)
  BY <1>1, <1>2 DEF PmlInner, Innermost, PmlAfford
<1>6. \A full, j : PmlAgrees(full, j)' <=> PmlAgrees(full, j)
  BY <1>1 DEF PmlAgrees
<1>7. PmlMeaning' <=> PmlMeaning
  BY <1>1, <1>2, <1>6 DEF PmlMeaning, Follows, Innermost
<1> QED BY <1>1, <1>3, <1>4, <1>5, <1>7 DEF PmlIInv

\* What RefineAnswers says of a step.
RefineAnswered ==
  /\ flag' = "SAT" => assignment' \in Extensions(entry) /\ IsModel(assignment')
  /\ flag' = "UNSAT" => \A full \in Extensions(entry) : ~IsModel(full)
  /\ flag' # "SAT" => assignment' = entry
  /\ pml.num_vars <= pml.complete => flag' # "UNRESOLVED"

LEMMA PmlStep ==
  ASSUME PmlIInv, [PmlNext]_pmlVars
  PROVE  PmlIInv' /\ (at # "idle" /\ at' = "idle" => RefineAnswered)
<1>1. CASE UNCHANGED pmlVars
  BY <1>1, PmlIdle DEF pmlVars
<1>2. ASSUME NEW v \in Vars, NEW value \in {-1, 0, 1}, Preset(v, value)
      PROVE  PmlIInv' /\ at = "idle"
  BY <1>2, PresetStep DEF Preset
<1>3. CASE Refine
  BY <1>3, RefineStep DEF Refine
<1>4. CASE Scan
  BY <1>4, ScanStep
<1>5. CASE SweepEnds
  BY <1>5, SweepEndsStep
<1>6. CASE PickVariable
  BY <1>6, PickVariableStep DEF RefineAnswered
<1>7. CASE TryValue
  BY <1>7, TryValueStep
<1>8. CASE GiveUp
  BY <1>8, GiveUpStep
<1>9. CASE Return
  <2>1. outcome \in {"UNSAT", "UNRESOLVED"}
    BY DEF PmlIInv, PmlTyped
  <2> QED BY <1>9, <2>1, ReturnStep DEF RefineAnswered
<1> QED BY <1>1, <1>2, <1>3, <1>4, <1>5, <1>6, <1>7, <1>8, <1>9 DEF PmlNext, PmlSearch

\* In every state of the search the trail means what it should, and the
\* branches still to be paid for are within the budget.
THEOREM PmlInvariantHolds == PmlSpec => []PmlIInv
<1>1. InitPml(PmlProblems) => PmlIInv
  BY PmlStart
<1>2. PmlIInv /\ [PmlNext]_pmlVars => PmlIInv'
  BY PmlStep
<1> QED BY <1>1, <1>2, PTL DEF PmlSpec

\* pml_refine answers for the assignment it was called with, and puts it back
\* unless it returns a model; with few enough variables it always decides.
THEOREM RefineIsRight == PmlSpec => RefineAnswers
<1>1. PmlIInv /\ [PmlNext]_pmlVars => [at # "idle" /\ at' = "idle" => RefineAnswered]_pmlVars
  BY PmlStep
<1>2. PmlSpec => [][at # "idle" /\ at' = "idle" => RefineAnswered]_pmlVars
  BY <1>1, PmlInvariantHolds, PTL DEF PmlSpec
<1> QED BY <1>2 DEF RefineAnswers, RefineAnswered

\* A step of the search comes nearer to its end: it spends a branch; or leaves the
\* innermost call; or goes on in it, from propagation to a branch to the way out; or
\* assigns a variable, or begins the sweep after the one that did; or passes a clause.
PmlPhase ==
  IF at = "propagate" THEN 3
  ELSE IF at = "branch" THEN IF Innermost.var = 0 THEN 2 ELSE 1
  ELSE 0

PmlRank ==
  << budget, Len(frames), PmlPhase,
     2 * Cardinality(Unset) + (IF sweep.changed THEN 1 ELSE 0),
     Len(pml.clauses) + 1 - sweep.clause >>

Ranks == [1 .. 5 -> Nat]

\* The first of two ranks is lower, in the order of the lexicon.
Lower == OpToRel(<, Nat)

Nearer == LexProductOrdering(Lower, Nat, 5)

PmlSweep == sweep.clause \in 1 .. Len(pml.clauses) + 1 /\ sweep.changed \in BOOLEAN

LEMMA NearerFirst ==
  ASSUME NEW r \in Ranks, NEW s \in Ranks, NEW k \in 1 .. 5,
         r[k] < s[k], \A j \in 1 .. k - 1 : r[j] = s[j]
  PROVE  <<r, s>> \in Nearer
<1>1. r[k] \in Nat /\ s[k] \in Nat
  BY DEF Ranks
<1>2. <<r[k], s[k]>> \in Lower
  BY <1>1 DEF Lower, OpToRel
<1>3. <<r, s>> \in LexProductOrdering(Lower, Nat, 5)
  <2> DEFINE p == <<r, s>>
  <2>1. p[1] = r /\ p[2] = s /\ p \in [1 .. 5 -> Nat] \X [1 .. 5 -> Nat]
    BY DEF Ranks
  <2> HIDE DEF p
  <2>2. \E j \in 1 .. 5 : (\A i \in 1 .. (j - 1) : p[1][i] = p[2][i]) /\ <<p[1][j], p[2][j]>> \in Lower
    BY <1>2, <2>1, Zenon
  <2>3. p \in LexProductOrdering(Lower, Nat, 5)
    BY <2>1, <2>2, Zenon DEF LexProductOrdering
  <2> QED BY <2>3 DEF p
<1> QED BY <1>3 DEF Nearer

LEMMA NearerWellFounded == IsWellFoundedOn(Nearer, Ranks)
<1>1. 5 \in Nat
  OBVIOUS
<1>2. IsWellFoundedOn(Lower, Nat)
  BY NatLessThanWellFounded DEF Lower, OpToRel
<1> QED BY <1>1, <1>2, WFLexProductOrdering, Zenon DEF Nearer, Ranks

LEMMA UnsetFinite ==
  ASSUME PmlTyped
  PROVE  IsFiniteSet(Unset) /\ Cardinality(Unset) \in Nat
<1>1. IsFiniteSet(Vars)
  <2>1. Vars = 1 .. pml.num_vars /\ 1 \in Int /\ pml.num_vars \in Int
    BY PmlFacts
  <2> QED BY <2>1, FS_Interval
<1>2. Unset \subseteq Vars
  BY DEF Unset
<1> QED BY <1>1, <1>2, FS_Subset, FS_CardinalityType

LEMMA RankTyped ==
  ASSUME PmlIInv, PmlSweep
  PROVE  PmlRank \in Ranks
<1>1. PmlTyped /\ budget \in Nat /\ Len(frames) \in Nat
  BY PmlFacts DEF PmlIInv, PmlTyped
<1>2. PmlPhase \in Nat
  BY DEF PmlPhase
<1>3. 2 * Cardinality(Unset) + (IF sweep.changed THEN 1 ELSE 0) \in Nat
  BY <1>1, UnsetFinite
<1>4. Len(pml.clauses) + 1 - sweep.clause \in Nat
  <2>1. Len(pml.clauses) \in Nat
    BY <1>1, PmlAssumption DEF PmlTyped
  <2> QED BY <2>1 DEF PmlSweep
<1> QED BY <1>1, <1>2, <1>3, <1>4 DEF PmlRank, Ranks

LEMMA SweepStep ==
  ASSUME PmlIInv, PmlSweep, [PmlNext]_pmlVars
  PROVE  PmlSweep'
<1>1. PmlTyped /\ Len(pml.clauses) \in Nat /\ DOMAIN pml.clauses = 1 .. Len(pml.clauses)
  BY PmlAssumption DEF PmlIInv, PmlTyped
<1>2. CASE UNCHANGED <<pml, sweep>>
  BY <1>2 DEF PmlSweep
<1>3. CASE pml' = pml /\ Propagating
  BY <1>1, <1>3 DEF PmlSweep, Propagating
<1>4. CASE /\ pml' = pml /\ sweep.clause \in DOMAIN pml.clauses
           /\ NextClause(sweep.changed) \/ NextClause(TRUE)
  <2>1. sweep'.clause = sweep.clause + 1 /\ sweep'.changed \in BOOLEAN
    <3>1. PICK changed \in BOOLEAN : sweep' = [clause |-> sweep.clause + 1, changed |-> changed]
      BY <1>4, Zenon DEF PmlSweep, NextClause
    <3> QED BY <3>1
  <2>2. sweep.clause + 1 \in 1 .. Len(pml.clauses) + 1
    BY <1>1, <1>4
  <2> QED BY <1>4, <2>1, <2>2 DEF PmlSweep
<1>5. UNCHANGED pmlVars => UNCHANGED <<pml, sweep>>
  BY DEF pmlVars
<1>6. Scan => UNCHANGED <<pml, sweep>>
              \/ /\ pml' = pml /\ sweep.clause \in DOMAIN pml.clauses
                 /\ NextClause(sweep.changed) \/ NextClause(TRUE)
  BY Zenon DEF Scan
<1>7. Refine \/ SweepEnds \/ TryValue => UNCHANGED <<pml, sweep>> \/ (pml' = pml /\ Propagating)
  BY Zenon DEF Refine, SweepEnds, TryValue
<1>8. PickVariable \/ GiveUp \/ Return => UNCHANGED <<pml, sweep>>
  BY Zenon DEF PickVariable, GiveUp, Return
<1>9. (\E v \in Vars, value \in {-1, 0, 1} : Preset(v, value)) => UNCHANGED <<pml, sweep>>
  BY Zenon DEF Preset
<1> QED BY <1>2, <1>3, <1>4, <1>5, <1>6, <1>7, <1>8, <1>9, Zenon DEF PmlNext, PmlSearch

LEMMA RankFalls ==
  ASSUME PmlIInv, PmlRank \in Ranks, (PmlRank \in Ranks)', PmlSearch
  PROVE  <<PmlRank', PmlRank>> \in Nearer
<1> DEFINE m == Len(frames)
           w == 2 * Cardinality(Unset) + (IF sweep.changed THEN 1 ELSE 0)
           a == Len(pml.clauses) + 1 - sweep.clause
<1>1. /\ PmlTyped /\ at # "idle" /\ PmlFrames /\ PmlInner /\ m \in Nat /\ m >= 1
      /\ Vars \subseteq Nat \ {0} /\ budget \in Nat
  <2>1. at # "idle" /\ PmlTyped
    BY Zenon DEF PmlIInv, PmlSearch, Scan, SweepEnds, PickVariable, TryValue, GiveUp, Return
  <2>2. PmlFrames /\ PmlInner
    BY <2>1 DEF PmlIInv
  <2> QED BY <2>1, <2>2, PmlFacts DEF PmlFrames, PmlTyped
<1>2. PmlRank' \in Ranks
  BY DEF Ranks
<1>3. /\ PmlRank[1] = budget /\ PmlRank[2] = m /\ PmlRank[3] = PmlPhase
      /\ PmlRank[4] = w /\ PmlRank[5] = a
      /\ PmlRank'[1] = budget' /\ PmlRank'[2] = m' /\ PmlRank'[3] = PmlPhase'
      /\ PmlRank'[4] = w' /\ PmlRank'[5] = a'
  BY DEF PmlRank
<1> HIDE DEF w, a
\* The ways for the rank to fall
<1>4. ASSUME budget' < budget PROVE <<PmlRank', PmlRank>> \in Nearer
  <2>1. \A j \in 1 .. 1 - 1 : PmlRank'[j] = PmlRank[j]
    OBVIOUS
  <2> QED BY <1>2, <1>3, <1>4, <2>1, NearerFirst
<1>5. ASSUME budget' = budget, m' < m PROVE <<PmlRank', PmlRank>> \in Nearer
  <2>1. \A j \in 1 .. 2 - 1 : PmlRank'[j] = PmlRank[j]
    BY <1>3, <1>5
  <2> QED BY <1>2, <1>3, <1>5, <2>1, NearerFirst
<1>6. ASSUME budget' = budget, m' = m, PmlPhase' < PmlPhase PROVE <<PmlRank', PmlRank>> \in Nearer
  <2>1. \A j \in 1 .. 3 - 1 : PmlRank'[j] = PmlRank[j]
    <3>1. \A j \in 1 .. 3 - 1 : j = 1 \/ j = 2
      OBVIOUS
    <3> QED BY <1>3, <1>6, <3>1
  <2> QED BY <1>2, <1>3, <1>6, <2>1, NearerFirst
<1>7. ASSUME budget' = budget, m' = m, PmlPhase' = PmlPhase, w' < w
      PROVE  <<PmlRank', PmlRank>> \in Nearer
  <2>1. \A j \in 1 .. 4 - 1 : PmlRank'[j] = PmlRank[j]
    <3>1. \A j \in 1 .. 4 - 1 : j = 1 \/ j = 2 \/ j = 3
      OBVIOUS
    <3> QED BY <1>3, <1>7, <3>1
  <2> QED BY <1>2, <1>3, <1>7, <2>1, NearerFirst
<1>8. ASSUME budget' = budget, m' = m, PmlPhase' = PmlPhase, w' = w, a' < a
      PROVE  <<PmlRank', PmlRank>> \in Nearer
  <2>1. \A j \in 1 .. 5 - 1 : PmlRank'[j] = PmlRank[j]
    <3>1. \A j \in 1 .. 5 - 1 : j = 1 \/ j = 2 \/ j = 3 \/ j = 4
      OBVIOUS
    <3> QED BY <1>3, <1>8, <3>1
  <2> QED BY <1>2, <1>3, <1>8, <2>1, NearerFirst
<1>9. CASE Scan
  <2> DEFINE i == sweep.clause
  <2>1. /\ at = "propagate" /\ i \in DOMAIN pml.clauses
        /\ pml' = pml /\ frames' = frames /\ budget' = budget
    BY <1>9, Zenon DEF Scan
  <2>2. m' = m /\ Vars' = Vars /\ PmlPhase = 3
    BY <2>1 DEF Vars, PmlPhase
  <2>3. CASE NextClause(sweep.changed) /\ UNCHANGED <<assignment, at>>
    <3>1. sweep'.clause = sweep.clause + 1 /\ sweep'.changed = sweep.changed
      BY <2>3 DEF NextClause
    <3>2. Unset' = Unset
      BY <2>2, <2>3 DEF Unset
    <3>3. w' = w
      BY <3>1, <3>2 DEF w
    <3>4. a' < a
      <4>1. Len(pml.clauses) \in Nat /\ i \in Nat
        BY <1>1, <2>1, PmlAssumption DEF PmlTyped
      <4> QED BY <2>1, <3>1, <4>1 DEF a
    <3>5. PmlPhase' = PmlPhase
      BY <2>1, <2>2, <2>3 DEF PmlPhase
    <3> QED BY <1>8, <2>1, <2>2, <3>3, <3>4, <3>5
  <2>4. CASE at' = "undo"
    <3>1. PmlPhase' = 0
      BY <2>4 DEF PmlPhase
    <3> QED BY <1>6, <2>1, <2>2, <3>1
  <2>5. ASSUME NEW lit \in Undecided(i), NextClause(TRUE), UNCHANGED at,
               assignment' = [assignment EXCEPT ![VarOf(lit)] = IF lit > 0 THEN 1 ELSE 0]
        PROVE  <<PmlRank', PmlRank>> \in Nearer
    <3> DEFINE v == VarOf(lit)
               x == IF lit > 0 THEN 1 ELSE 0
    <3>1. v \in Vars /\ assignment[v] = -1 /\ x \in {0, 1}
      BY <1>1, <2>1, <2>5, LitFacts DEF Undecided
    <3>2. assignment' = [assignment EXCEPT ![v] = x]
      BY <2>5
    <3> HIDE DEF v, x
    <3>3. Unset' = Unset \ {v} /\ v \in Unset
      <4>1. assignment \in [Vars -> {-1, 0, 1}]
        BY <1>1 DEF PmlTyped
      <4> QED BY <2>2, <3>1, <3>2, <4>1 DEF Unset
    <3>4. Cardinality(Unset') = Cardinality(Unset) - 1 /\ Cardinality(Unset) \in Nat
      BY <1>1, <3>3, UnsetFinite, FS_RemoveElement
    <3>5. sweep'.changed = TRUE
      BY <2>5 DEF NextClause
    <3>6. w' < w
      BY <3>4, <3>5 DEF w
    <3>7. PmlPhase' = PmlPhase
      BY <2>1, <2>2, <2>5 DEF PmlPhase
    <3> QED BY <1>7, <2>1, <2>2, <3>6, <3>7
  <2>6. \/ NextClause(sweep.changed) /\ UNCHANGED <<assignment, at>>
        \/ at' = "undo"
        \/ \E lit \in Undecided(i) :
             /\ NextClause(TRUE) /\ UNCHANGED at
             /\ assignment' = [assignment EXCEPT ![VarOf(lit)] = IF lit > 0 THEN 1 ELSE 0]
    BY <1>9, Zenon DEF Scan, Leaving
  <2> QED BY <2>3, <2>4, <2>5, <2>6
<1>10. CASE SweepEnds
  <2>1. /\ at = "propagate" /\ pml' = pml /\ frames' = frames /\ budget' = budget
        /\ assignment' = assignment
    BY <1>10, Zenon DEF SweepEnds
  <2>2. m' = m /\ Vars' = Vars /\ Innermost' = Innermost /\ PmlPhase = 3
    BY <2>1 DEF Vars, Innermost, PmlPhase
  <2>3. CASE sweep.changed /\ Propagating
    <3>1. sweep'.changed = FALSE /\ at' = "propagate"
      BY <2>3 DEF Propagating
    <3>2. Unset' = Unset /\ Cardinality(Unset) \in Nat
      BY <1>1, <2>1, <2>2, UnsetFinite DEF Unset
    <3>3. w' < w
      BY <2>3, <3>1, <3>2 DEF w
    <3>4. PmlPhase' = PmlPhase
      BY <2>1, <3>1 DEF PmlPhase
    <3> QED BY <1>7, <2>1, <2>2, <3>3, <3>4
  <2>4. CASE at' = "branch"
    <3>1. Innermost.var = 0
      BY <1>1, <2>1 DEF PmlInner
    <3>2. PmlPhase' = 2
      BY <2>2, <2>4, <3>1 DEF PmlPhase
    <3> QED BY <1>6, <2>1, <2>2, <3>2
  <2>5. (sweep.changed /\ Propagating) \/ at' = "branch"
    BY <1>10 DEF SweepEnds
  <2> QED BY <2>3, <2>4, <2>5
<1>11. CASE PickVariable
  <2>1. at = "branch" /\ Innermost.var = 0 /\ budget' = budget
    BY <1>11, Zenon DEF PickVariable
  <2>2. PmlPhase = 2
    BY <2>1 DEF PmlPhase
  <2>3. ASSUME NEW v \in Unset, frames' = [frames EXCEPT ![Len(frames)].var = v], at' = at
        PROVE  <<PmlRank', PmlRank>> \in Nearer
    <3>1. v \in Nat \ {0}
      BY <1>1 DEF Unset
    <3>2. Len(frames') = Len(frames) /\ frames'[Len(frames)].var = v
      <4>1. Len(frames) # 0 /\ v \in Nat
        BY <1>1, <3>1
      <4> QED BY <1>1, <2>3, <4>1, PickedFrame
    <3>3. PmlPhase' = 1
      BY <2>1, <2>3, <3>1, <3>2 DEF PmlPhase, Innermost
    <3> QED BY <1>6, <2>1, <2>2, <3>2, <3>3
  <2>4. CASE at' = "undo" /\ frames' = frames
    <3>1. PmlPhase' = 0
      BY <2>4 DEF PmlPhase
    <3> QED BY <1>6, <2>1, <2>2, <2>4, <3>1
  <2>5. CASE frames' = <<>>
    BY <1>1, <1>5, <2>1, <2>5
  <2>6. \/ \E v \in Unset : frames' = [frames EXCEPT ![Len(frames)].var = v] /\ at' = at
        \/ at' = "undo" /\ frames' = frames
        \/ frames' = <<>>
    <3>1. CASE Unset # {} /\ at' = at
      BY <1>11, <2>1, <3>1 DEF PickVariable, Leaving
    <3> QED BY <1>11, <2>1 DEF PickVariable, Leaving
  <2> QED BY <2>3, <2>4, <2>5, <2>6
<1>12. CASE TryValue
  BY <1>1, <1>4, <1>12 DEF TryValue
<1>13. CASE GiveUp
  <2>1. at = "branch" /\ Innermost.var # 0 /\ budget' = budget /\ frames' = frames /\ at' = "undo"
    BY <1>13 DEF GiveUp, Leaving
  <2>2. PmlPhase = 1 /\ PmlPhase' = 0
    BY <2>1 DEF PmlPhase
  <2> QED BY <1>6, <2>1, <2>2
<1>14. CASE Return
  <2>1. budget' = budget /\ frames' = SubSeq(frames, 1, Len(frames) - 1)
    BY <1>14, Zenon DEF Return
  <2>2. Len(frames') = m - 1
    <3>1. frames \in Seq(PmlFrame)
      BY <1>1 DEF PmlTyped
    <3>2. CASE m = 1
      BY <2>1, <3>1, <3>2
    <3>3. CASE m # 1
      <4>1. m - 1 \in 1 .. m
        <5> HIDE DEF m
        <5> QED BY <1>1, <3>3
      <4> QED BY <2>1, <3>1, <4>1
    <3> QED BY <3>2, <3>3
  <2> QED BY <1>1, <1>5, <2>1, <2>2
<1> QED BY <1>9, <1>10, <1>11, <1>12, <1>13, <1>14 DEF PmlSearch

\* No search of pml_refine goes on for ever, whatever the clauses: its steps lower a
\* rank, and ranks cannot be lowered for ever.
THEOREM SearchRunsOut ==
  /\ IsWellFoundedOn(Nearer, Ranks)
  /\ PmlSpec => [](PmlRank \in Ranks) /\ [][PmlSearch => <<PmlRank', PmlRank>> \in Nearer]_pmlVars
<1>1. InitPml(PmlProblems) => PmlSweep
  <2>1. ASSUME InitPml(PmlProblems) PROVE PmlSweep
    <3>1. pml \in PmlProblems /\ sweep = [clause |-> 1, changed |-> FALSE]
      BY <2>1 DEF InitPml
    <3>2. Len(pml.clauses) \in Nat
      BY <3>1, PmlAssumption
    <3> QED BY <3>1, <3>2 DEF PmlSweep
  <2> QED BY <2>1
<1>2. PmlIInv /\ PmlSweep /\ [PmlNext]_pmlVars => PmlSweep'
  BY SweepStep
<1>3. PmlIInv /\ PmlSweep => PmlRank \in Ranks
  BY RankTyped
<1>4. PmlSpec => [](PmlRank \in Ranks)
  BY <1>1, <1>2, <1>3, PmlInvariantHolds, PTL DEF PmlSpec
<1>5. PmlIInv /\ PmlRank \in Ranks /\ (PmlRank \in Ranks)' /\ [PmlNext]_pmlVars
        => [PmlSearch => <<PmlRank', PmlRank>> \in Nearer]_pmlVars
  BY RankFalls
<1>6. PmlSpec => [][PmlSearch => <<PmlRank', PmlRank>> \in Nearer]_pmlVars
  BY <1>4, <1>5, PmlInvariantHolds, PTL DEF PmlSpec
<1> QED BY <1>4, <1>6, NearerWellFounded


-----------------------------------------------------------------------------
(* The elimination of XorSat                                               *)

\* What is in one of two sets: as many, up to an even number, as in both.
LEMMA ParityOfDiff ==
  ASSUME NEW A, NEW B, IsFiniteSet(A), IsFiniteSet(B)
  PROVE  /\ Cardinality(A) \in Nat /\ Cardinality(B) \in Nat
         /\ IsFiniteSet(SymDiff(A, B)) /\ Cardinality(SymDiff(A, B)) \in Nat
         /\ Cardinality(SymDiff(A, B)) % 2 = (Cardinality(A) + Cardinality(B)) % 2
<1> DEFINE C == A \intersect B
           D == A \ B
           E == B \ A
<1>1. IsFiniteSet(C) /\ IsFiniteSet(D) /\ IsFiniteSet(E)
  BY FS_Subset, FS_Difference, FS_Intersection
<1>2. Cardinality(D) = Cardinality(A) - Cardinality(C) /\ Cardinality(E) = Cardinality(B) - Cardinality(C)
  <2>1. Cardinality(D) = Cardinality(A) - Cardinality(A \intersect B)
    BY FS_Difference
  <2>2. Cardinality(E) = Cardinality(B) - Cardinality(B \intersect A)
    BY FS_Difference
  <2>3. B \intersect A = C
    OBVIOUS
  <2> QED BY <2>1, <2>2, <2>3
<1>3. D \intersect E = {} /\ SymDiff(A, B) = D \union E
  BY DEF SymDiff
<1>4. IsFiniteSet(D \union E) /\ Cardinality(D \union E) = Cardinality(D) + Cardinality(E) - Cardinality(D \intersect E)
  BY <1>1, FS_Union
<1>5. Cardinality({}) = 0
  BY FS_EmptySet
<1>6. Cardinality(A) \in Nat /\ Cardinality(B) \in Nat /\ Cardinality(C) \in Nat
  BY <1>1, FS_CardinalityType
<1>7. Cardinality(D \intersect E) = 0
  BY <1>3, <1>5
<1> DEFINE a == Cardinality(A)
           b == Cardinality(B)
           c == Cardinality(C)
<1>8. Cardinality(D \union E) = a + b - 2 * c
  BY <1>2, <1>4, <1>6, <1>7
<1>9. IsFiniteSet(SymDiff(A, B)) /\ Cardinality(SymDiff(A, B)) = a + b - 2 * c
  BY <1>3, <1>4, <1>8
<1>10. IsFiniteSet(SymDiff(A, B)) => Cardinality(SymDiff(A, B)) \in Nat
  BY FS_CardinalityType
<1> HIDE DEF a, b, c
<1>11. a \in Nat /\ b \in Nat /\ c \in Nat
  BY <1>6 DEF a, b, c
<1>12. (a + b - 2 * c) % 2 = (a + b) % 2
  BY <1>11
<1> QED BY <1>6, <1>9, <1>10, <1>12 DEF a, b

XorRow == [coeff : SUBSET XorVar, rhs : {0, 1}]

\* An assignment, as the set of the true variables, solves a row.
RowMet(true, row) == Cardinality(row.coeff \intersect true) % 2 = row.rhs

LEMMA RowFacts ==
  ASSUME NEW row \in XorRow
  PROVE  /\ row.coeff \subseteq XorVar /\ row.rhs \in {0, 1}
         /\ row = [coeff |-> row.coeff, rhs |-> row.rhs]
         /\ IsFiniteSet(row.coeff)
         /\ \A true : IsFiniteSet(row.coeff \intersect true)
                      /\ Cardinality(row.coeff \intersect true) \in Nat
<1>1. row.coeff \subseteq XorVar /\ row.rhs \in {0, 1} /\ row = [coeff |-> row.coeff, rhs |-> row.rhs]
  BY DEF XorRow
<1>2. IsFiniteSet(XorVar)
  BY XorVarAssumption
<1>3. IsFiniteSet(row.coeff)
  BY <1>1, <1>2, FS_Subset
<1>4. ASSUME NEW true
      PROVE  IsFiniteSet(row.coeff \intersect true) /\ Cardinality(row.coeff \intersect true) \in Nat
  <2>1. row.coeff \intersect true \subseteq row.coeff
    OBVIOUS
  <2>2. IsFiniteSet(row.coeff \intersect true)
    BY <1>3, <2>1, FS_Subset
  <2> QED BY <2>2, FS_CardinalityType
<1> QED BY <1>1, <1>3, <1>4

LEMMA PlusRow ==
  ASSUME NEW row \in XorRow, NEW other \in XorRow
  PROVE  /\ Plus(row, other) \in XorRow
         /\ Plus(row, other).coeff = SymDiff(row.coeff, other.coeff)
         /\ Plus(row, other).rhs = (row.rhs + other.rhs) % 2
<1>1. row.coeff \subseteq XorVar /\ other.coeff \subseteq XorVar /\ row.rhs \in {0, 1} /\ other.rhs \in {0, 1}
  BY RowFacts
<1>2. SymDiff(row.coeff, other.coeff) \subseteq XorVar
  BY <1>1 DEF SymDiff
<1>3. (row.rhs + other.rhs) % 2 \in {0, 1}
  BY <1>1
<1> QED BY <1>2, <1>3 DEF Plus, XorRow

\* Adding a row that is met changes nothing.
LEMMA PlusMeets ==
  ASSUME NEW row \in XorRow, NEW other \in XorRow, NEW true, RowMet(true, other)
  PROVE  RowMet(true, Plus(row, other)) <=> RowMet(true, row)
<1> DEFINE A == row.coeff \intersect true
           B == other.coeff \intersect true
<1>1. IsFiniteSet(A) /\ IsFiniteSet(B) /\ row.rhs \in {0, 1} /\ other.rhs \in {0, 1}
  BY RowFacts
<1>2. /\ Plus(row, other).coeff = SymDiff(row.coeff, other.coeff)
      /\ Plus(row, other).rhs = (row.rhs + other.rhs) % 2
  BY PlusRow
<1>3. SymDiff(row.coeff, other.coeff) \intersect true = SymDiff(A, B)
  BY DEF SymDiff
<1>4. /\ Cardinality(A) \in Nat /\ Cardinality(B) \in Nat
      /\ Cardinality(SymDiff(A, B)) % 2 = (Cardinality(A) + Cardinality(B)) % 2
  BY <1>1, ParityOfDiff
<1>5. Cardinality(B) % 2 = other.rhs
  BY DEF RowMet
<1> DEFINE a == Cardinality(A)
           b == Cardinality(B)
           x == row.rhs
           y == other.rhs
<1>6. RowMet(true, Plus(row, other)) <=> (a + b) % 2 = (x + y) % 2
  BY <1>2, <1>3, <1>4 DEF RowMet
<1>7. RowMet(true, row) <=> a % 2 = x
  BY DEF RowMet
<1>8. a \in Nat /\ b \in Nat /\ x \in {0, 1} /\ y \in {0, 1} /\ b % 2 = y
  BY <1>1, <1>4, <1>5
<1> HIDE DEF a, b, x, y
<1>9. (a + b) % 2 = (x + y) % 2 <=> a % 2 = x
  BY <1>8
<1> QED BY <1>6, <1>7, <1>9

-----------------------------------------------------------------------------

XorTyped ==
  /\ system \in Seq(Equation)
  /\ rows \in [DOMAIN system -> XorRow]
  /\ history \in [DOMAIN system -> SUBSET (DOMAIN system)]
  /\ pivots \in Seq(XorVar) /\ col \in Nat

LEMMA XorFacts ==
  ASSUME XorTyped
  PROVE  /\ Len(system) \in Nat /\ DOMAIN system = 1 .. Len(system)
         /\ DOMAIN rows = DOMAIN system /\ Len(rows) = Len(system)
         /\ \A j \in DOMAIN system : /\ Pack(system[j]) \in XorRow
                                     /\ Pack(system[j]).rhs = system[j].rhs
                                     /\ rows[j] \in XorRow /\ history[j] \subseteq DOMAIN system
         /\ Len(pivots) \in Nat /\ DOMAIN pivots = 1 .. Len(pivots)
         /\ \A k \in DOMAIN pivots : pivots[k] \in XorVar
<1>1. Len(system) \in Nat /\ DOMAIN system = 1 .. Len(system) /\ DOMAIN rows = DOMAIN system
  BY DEF XorTyped
<1>2. ASSUME NEW j \in DOMAIN system
      PROVE  /\ Pack(system[j]) \in XorRow /\ Pack(system[j]).rhs = system[j].rhs
             /\ rows[j] \in XorRow /\ history[j] \subseteq DOMAIN system
  <2>1. system[j] \in Equation
    BY <1>1 DEF XorTyped
  <2>2. system[j].rhs \in {0, 1}
    BY <2>1 DEF Equation
  <2>3. Pack(system[j]) \in XorRow /\ Pack(system[j]).rhs = system[j].rhs
    BY <2>2 DEF Pack, XorRow
  <2> QED BY <1>1, <2>3 DEF XorTyped
<1>3. Len(rows) = Len(system)
  <2>1. rows \in Seq(XorRow)
    BY <1>1 DEF XorTyped
  <2>2. Len(rows) \in Nat /\ DOMAIN rows = 1 .. Len(rows)
    BY <2>1
  <2> QED BY <1>1, <2>2
<1>4. Len(pivots) \in Nat /\ DOMAIN pivots = 1 .. Len(pivots) /\ \A k \in DOMAIN pivots : pivots[k] \in XorVar
  BY DEF XorTyped
<1> QED BY <1>1, <1>2, <1>3, <1>4

LEMMA IndicesFinite ==
  ASSUME XorTyped, NEW K \in SUBSET (DOMAIN system)
  PROVE  IsFiniteSet(K) /\ Cardinality(K) \in Nat
<1>1. IsFiniteSet(DOMAIN system)
  <2>1. Len(system) \in Nat /\ DOMAIN system = 1 .. Len(system)
    BY XorFacts
  <2>2. IsFiniteSet(1 .. Len(system))
    BY <2>1, FS_Interval
  <2> QED BY <2>1, <2>2
<1>2. IsFiniteSet(K)
  BY <1>1, FS_Subset
<1> QED BY <1>2, FS_CardinalityType

\* The equations of a sum that have a variable, and those with the right-hand
\* side 1.
Having(indices, v) == {j \in indices : v \in Pack(system[j]).coeff}

Ones(indices) == {j \in indices : system[j].rhs = 1}

LEMMA TotalFacts ==
  ASSUME XorTyped, NEW H \in SUBSET (DOMAIN system)
  PROVE  /\ Total(H) \in XorRow
         /\ Total(H).coeff = {v \in XorVar : Cardinality(Having(H, v)) % 2 = 1}
         /\ Total(H).rhs = Cardinality(Ones(H)) % 2
         /\ IsFiniteSet(Ones(H)) /\ Cardinality(Ones(H)) \in Nat
         /\ \A v : IsFiniteSet(Having(H, v)) /\ Cardinality(Having(H, v)) \in Nat
<1>1. IsFiniteSet(Ones(H)) /\ Cardinality(Ones(H)) \in Nat
  <2>1. Ones(H) \in SUBSET (DOMAIN system)
    BY DEF Ones
  <2> QED BY <2>1, IndicesFinite
<1>2. ASSUME NEW v
      PROVE  IsFiniteSet(Having(H, v)) /\ Cardinality(Having(H, v)) \in Nat
  <2>1. Having(H, v) \in SUBSET (DOMAIN system)
    BY DEF Having
  <2> QED BY <2>1, IndicesFinite
<1>3. /\ Total(H).coeff = {v \in XorVar : Cardinality(Having(H, v)) % 2 = 1}
      /\ Total(H).rhs = Cardinality(Ones(H)) % 2
  BY DEF Total, Having, Ones
<1>4. Cardinality(Ones(H)) % 2 \in {0, 1}
  BY <1>1
<1>5. Total(H) \in XorRow
  BY <1>4 DEF Total, XorRow, Ones
<1> QED BY <1>1, <1>2, <1>3, <1>5

\* The sum over what is in one of two sets of equations is the sum of their sums.
LEMMA TotalSum ==
  ASSUME XorTyped, NEW H \in SUBSET (DOMAIN system), NEW K \in SUBSET (DOMAIN system)
  PROVE  /\ SymDiff(H, K) \in SUBSET (DOMAIN system)
         /\ Total(SymDiff(H, K)) = Plus(Total(H), Total(K))
<1> DEFINE S == SymDiff(H, K)
<1>1. S \in SUBSET (DOMAIN system)
  BY DEF SymDiff
<1> HIDE DEF S
<1>2. ASSUME NEW v \in XorVar
      PROVE  v \in Total(S).coeff <=> ~(v \in Total(H).coeff <=> v \in Total(K).coeff)
  <2> DEFINE a == Cardinality(Having(H, v))
             b == Cardinality(Having(K, v))
             c == Cardinality(Having(S, v))
  <2>1. Having(S, v) = SymDiff(Having(H, v), Having(K, v))
    BY DEF Having, SymDiff, S
  <2>2. a \in Nat /\ b \in Nat /\ c \in Nat /\ c % 2 = (a + b) % 2
    <3>1. IsFiniteSet(Having(H, v)) /\ IsFiniteSet(Having(K, v))
      BY TotalFacts
    <3> QED BY <2>1, <3>1, ParityOfDiff
  <2>3. /\ v \in Total(H).coeff <=> a % 2 = 1
        /\ v \in Total(K).coeff <=> b % 2 = 1
        /\ v \in Total(S).coeff <=> c % 2 = 1
    BY <1>1, TotalFacts
  <2> HIDE DEF a, b, c
  <2>4. c % 2 = 1 <=> ~(a % 2 = 1 <=> b % 2 = 1)
    BY <2>2
  <2> QED BY <2>3, <2>4
<1>3. Total(S).rhs = (Total(H).rhs + Total(K).rhs) % 2
  <2> DEFINE a == Cardinality(Ones(H))
             b == Cardinality(Ones(K))
             c == Cardinality(Ones(S))
  <2>1. Ones(S) = SymDiff(Ones(H), Ones(K))
    BY DEF Ones, SymDiff, S
  <2>2. a \in Nat /\ b \in Nat /\ c \in Nat /\ c % 2 = (a + b) % 2
    <3>1. IsFiniteSet(Ones(H)) /\ IsFiniteSet(Ones(K))
      BY TotalFacts
    <3> QED BY <2>1, <3>1, ParityOfDiff
  <2>3. Total(H).rhs = a % 2 /\ Total(K).rhs = b % 2 /\ Total(S).rhs = c % 2
    BY <1>1, TotalFacts
  <2> HIDE DEF a, b, c
  <2> DEFINE x == a % 2
             y == b % 2
  <2>4. x \in {0, 1} /\ y \in {0, 1} /\ a % 2 = x /\ b % 2 = y
    BY <2>2
  <2> HIDE DEF x, y
  <2>5. (a + b) % 2 = (x + y) % 2
    BY <2>2, <2>4
  <2> QED BY <2>2, <2>3, <2>4, <2>5
<1>4. Total(S) \in XorRow /\ Total(H) \in XorRow /\ Total(K) \in XorRow
  BY <1>1, TotalFacts
<1>5. /\ Plus(Total(H), Total(K)) \in XorRow
      /\ Plus(Total(H), Total(K)).coeff = SymDiff(Total(H).coeff, Total(K).coeff)
      /\ Plus(Total(H), Total(K)).rhs = (Total(H).rhs + Total(K).rhs) % 2
  BY <1>4, PlusRow
<1>6. Total(S).coeff = SymDiff(Total(H).coeff, Total(K).coeff)
  <2>1. Total(S).coeff \subseteq XorVar /\ Total(H).coeff \subseteq XorVar /\ Total(K).coeff \subseteq XorVar
    BY <1>4, RowFacts
  <2> QED BY <1>2, <2>1 DEF SymDiff
<1>7. Total(S) = Plus(Total(H), Total(K))
  <2>1. Total(S) = [coeff |-> Total(S).coeff, rhs |-> Total(S).rhs]
    BY <1>4, RowFacts
  <2>2. Plus(Total(H), Total(K)) = [coeff |-> Plus(Total(H), Total(K)).coeff, rhs |-> Plus(Total(H), Total(K)).rhs]
    BY <1>5, RowFacts
  <2> QED BY <1>3, <1>5, <1>6, <2>1, <2>2
<1> QED BY <1>1, <1>7 DEF S

\* The sum over one equation is that equation.
LEMMA TotalOne ==
  ASSUME XorTyped, NEW j \in DOMAIN system
  PROVE  Total({j}) = Pack(system[j])
<1>1. {j} \in SUBSET (DOMAIN system)
  OBVIOUS
<1>2. /\ Pack(system[j]) \in XorRow /\ Pack(system[j]).rhs = system[j].rhs
      /\ Pack(system[j]).coeff \subseteq XorVar /\ system[j].rhs \in {0, 1}
      /\ Pack(system[j]) = [coeff |-> Pack(system[j]).coeff, rhs |-> system[j].rhs]
  BY XorFacts, RowFacts
<1>3. Cardinality({}) = 0 /\ Cardinality({j}) = 1
  BY FS_EmptySet, FS_Singleton
<1>4. Total({j}).coeff = Pack(system[j]).coeff
  <2>1. ASSUME NEW v \in XorVar
        PROVE  v \in Total({j}).coeff <=> v \in Pack(system[j]).coeff
    <3>1. v \in Total({j}).coeff <=> Cardinality(Having({j}, v)) % 2 = 1
      BY <1>1, TotalFacts
    <3>2. CASE v \in Pack(system[j]).coeff
      <4>1. Having({j}, v) = {j}
        BY <3>2 DEF Having
      <4> QED BY <1>3, <3>1, <3>2, <4>1
    <3>3. CASE v \notin Pack(system[j]).coeff
      <4>1. Having({j}, v) = {}
        BY <3>3 DEF Having
      <4> QED BY <1>3, <3>1, <3>3, <4>1
    <3> QED BY <3>2, <3>3
  <2>2. Total({j}).coeff \subseteq XorVar
    BY <1>1, TotalFacts
  <2> QED BY <1>2, <2>1, <2>2
<1>5. Total({j}).rhs = system[j].rhs
  <2>1. Total({j}).rhs = Cardinality(Ones({j})) % 2
    BY <1>1, TotalFacts
  <2>2. CASE system[j].rhs = 1
    <3>1. Ones({j}) = {j}
      BY <2>2 DEF Ones
    <3> QED BY <1>3, <2>1, <2>2, <3>1
  <2>3. CASE system[j].rhs = 0
    <3>1. Ones({j}) = {}
      BY <2>3 DEF Ones
    <3> QED BY <1>3, <2>1, <2>3, <3>1
  <2> QED BY <1>2, <2>2, <2>3
<1>6. Total({j}) = [coeff |-> Total({j}).coeff, rhs |-> Total({j}).rhs]
  BY <1>1, TotalFacts, RowFacts
<1> QED BY <1>2, <1>4, <1>5, <1>6

-----------------------------------------------------------------------------

\* Every row is the sum that its history names, and the rows have the solutions
\* of the system.
XorSums ==
  /\ \A i \in DOMAIN rows : rows[i] = Total(history[i])
  /\ \A true \in SUBSET XorVar : (\A i \in DOMAIN rows : RowMet(true, rows[i])) <=> Solves(true)

\* The rows below the pivots have no variable that was passed.
XorEchelon ==
  /\ Len(pivots) <= Len(rows) /\ col >= 1
  /\ \A k \in DOMAIN pivots : pivots[k] < col
  /\ \A k \in DOMAIN pivots, i \in DOMAIN rows : pivots[k] \in rows[i].coeff <=> i = k
  /\ \A i \in DOMAIN rows : i > Len(pivots) => \A v \in rows[i].coeff : v >= col

XorResult ==
  /\ result.sat = "SAT" => Solves(result.assignment)
  /\ result.sat = "UNSAT" => Certifies(result.certificate) /\ ~\E true \in SUBSET XorVar : Solves(true)

XorIInv == XorTyped /\ XorSums /\ XorEchelon /\ XorResult

LEMMA XorVarFacts ==
  /\ Cardinality(XorVar) \in Nat
  /\ \A v : v \in XorVar <=> v \in Int /\ 1 <= v /\ v <= Cardinality(XorVar)
<1>1. Cardinality(XorVar) \in Nat
  BY XorVarAssumption, FS_CardinalityType
<1>2. XorVar = 1 .. Cardinality(XorVar)
  BY XorVarAssumption
<1> DEFINE n == Cardinality(XorVar)
<1>3. \A v : v \in 1 .. n <=> v \in Int /\ 1 <= v /\ v <= n
  <2> HIDE DEF n
  <2> QED OBVIOUS
<1> QED BY <1>1, <1>2, <1>3

LEMMA XorStart == XorInit => XorIInv
<1> SUFFICES ASSUME XorInit
             PROVE  XorIInv
  OBVIOUS
<1>1. system \in Seq(Equation)
  BY SystemsAssumption DEF XorInit
<1>2. \A j \in DOMAIN system : Pack(system[j]) \in XorRow /\ Pack(system[j]).rhs = system[j].rhs
  <2> TAKE j \in DOMAIN system
  <2>1. system[j] \in Equation
    BY <1>1
  <2>2. system[j].rhs \in {0, 1}
    BY <2>1 DEF Equation
  <2> QED BY <2>2 DEF Pack, XorRow
<1>3. XorTyped
  BY <1>1, <1>2 DEF XorInit, XorTyped
<1>4. XorSums
  <2>1. \A i \in DOMAIN rows : rows[i] = Total(history[i])
    BY <1>3, TotalOne DEF XorInit
  <2>2. ASSUME NEW true \in SUBSET XorVar
        PROVE  (\A i \in DOMAIN rows : RowMet(true, rows[i])) <=> Solves(true)
    BY <1>2 DEF XorInit, RowMet, Solves
  <2> QED BY <2>1, <2>2 DEF XorSums
<1>5. XorEchelon
  <2>1. pivots = <<>> /\ Len(pivots) = 0 /\ DOMAIN pivots = {} /\ col = 1
    BY DEF XorInit
  <2>2. Len(rows) \in Nat
    BY <1>3, XorFacts
  <2>3. \A i \in DOMAIN rows : \A v \in rows[i].coeff : v >= col
    <3> TAKE i \in DOMAIN rows
    <3> TAKE v \in rows[i].coeff
    <3>1. v \in XorVar
      BY <1>3, XorFacts, RowFacts
    <3> QED BY <3>1, <2>1, XorVarFacts
  <2> QED BY <2>1, <2>2, <2>3 DEF XorEchelon
<1>6. XorResult
  BY DEF XorInit, NoResult, XorResult
<1> QED BY <1>3, <1>4, <1>5, <1>6 DEF XorIInv

\* A set of row numbers that is not empty has a least one.
LEMMA FirstRow ==
  ASSUME XorTyped, NEW R \in SUBSET (DOMAIN rows), R # {}
  PROVE  LET first == CHOOSE i \in R : \A j \in R : i <= j
         IN  first \in R /\ \A j \in R : first <= j
<1>1. R \subseteq Nat
  BY XorFacts
<1>2. \E i \in R : \A j \in R : i <= j
  BY <1>1, Least
<1> QED BY <1>2

\* What a step with a pivot row leaves: rows and histories swapped, then cleared.
Trade(i) == IF i = Len(pivots) + 1 THEN PivotRow ELSE IF i = PivotRow THEN Len(pivots) + 1 ELSE i

LEMMA TradeFacts ==
  ASSUME XorTyped, XorEchelon, Eligible # {}
  PROVE  LET r == Len(pivots) + 1
         IN  /\ PivotRow \in DOMAIN rows /\ PivotRow >= r /\ col \in rows[PivotRow].coeff
             /\ r \in DOMAIN rows /\ r \in Nat /\ PivotRow \in Nat
             /\ \A i \in DOMAIN rows : /\ Trade(i) \in DOMAIN rows /\ Trade(Trade(i)) = i
                                       /\ Swap(rows, r, PivotRow)[i] = rows[Trade(i)]
                                       /\ HistorySwapped[i] = history[Trade(i)]
                                       /\ i >= r => Trade(i) >= r
                                       /\ i < r => Trade(i) = i
             /\ Trade(r) = PivotRow
             /\ DOMAIN Swap(rows, r, PivotRow) = DOMAIN rows
<1> DEFINE r == Len(pivots) + 1
           p == PivotRow
<1>1. Eligible \in SUBSET (DOMAIN rows)
  BY DEF Eligible
<1>2. p \in Eligible
  BY <1>1, FirstRow DEF PivotRow
<1>3. p \in DOMAIN rows /\ p > Len(pivots) /\ col \in rows[p].coeff
  BY <1>2 DEF Eligible
<1>4. Len(pivots) \in Nat /\ DOMAIN rows = 1 .. Len(rows) /\ Len(rows) \in Nat /\ DOMAIN history = DOMAIN rows
  BY XorFacts DEF XorTyped
<1>5. r \in DOMAIN rows /\ r \in Nat /\ p \in Nat /\ p >= r
  <2> HIDE DEF p
  <2> QED BY <1>3, <1>4
<1>6. \A i \in DOMAIN rows : /\ Trade(i) \in DOMAIN rows /\ Trade(Trade(i)) = i
                             /\ i >= r => Trade(i) >= r
                             /\ i < r => Trade(i) = i
  <2> SUFFICES ASSUME NEW i \in DOMAIN rows
               PROVE  /\ Trade(i) \in DOMAIN rows /\ Trade(Trade(i)) = i
                      /\ i >= r => Trade(i) >= r
                      /\ i < r => Trade(i) = i
    OBVIOUS
  <2>1. Trade(i) = IF i = r THEN p ELSE IF i = p THEN r ELSE i
    BY DEF Trade
  <2>2. Trade(Trade(i)) = i
    BY DEF Trade
  <2> HIDE DEF p, r
  <2>3. i \in Nat
    BY <1>4
  <2> QED BY <1>3, <1>5, <2>1, <2>2, <2>3
<1>7. ASSUME NEW i \in DOMAIN rows
      PROVE  Swap(rows, r, p)[i] = rows[Trade(i)] /\ HistorySwapped[i] = history[Trade(i)]
  <2>1. Trade(i) = IF i = r THEN p ELSE IF i = p THEN r ELSE i
    BY DEF Trade
  <2>2. HistorySwapped = Swap(history, r, p)
    BY DEF HistorySwapped
  <2> HIDE DEF p, r
  <2> QED BY <1>3, <1>4, <1>5, <2>1, <2>2 DEF Swap
<1>8. Trade(r) = p
  BY DEF Trade
<1>9. DOMAIN Swap(rows, r, p) = DOMAIN rows
  BY DEF Swap
<1> QED BY <1>3, <1>5, <1>6, <1>7, <1>8, <1>9

LEMMA ColumnStep ==
  ASSUME XorIInv, Column
  PROVE  XorIInv'
<1> DEFINE r == Len(pivots) + 1
           p == PivotRow
           s(i) == rows[Trade(i)]
           h(i) == history[Trade(i)]
           cleared == {i \in DOMAIN rows : i # r /\ col \in s(i).coeff}
<1>1. XorTyped /\ XorSums /\ XorEchelon /\ XorResult
  BY DEF XorIInv
<1>2. /\ col \in Nat /\ col' = col + 1 /\ system' = system /\ result' = result /\ result = NoResult
      /\ col <= Cardinality(XorVar) /\ Len(pivots) < Len(rows)
  BY <1>1 DEF Column, Eliminating, XorTyped
<1>3. col \in XorVar
  BY <1>1, <1>2, XorVarFacts DEF XorEchelon
<1>4. /\ Len(system) \in Nat /\ DOMAIN system = 1 .. Len(system)
      /\ DOMAIN rows = DOMAIN system /\ Len(rows) = Len(system)
      /\ \A j \in DOMAIN system : rows[j] \in XorRow /\ history[j] \in SUBSET (DOMAIN system)
      /\ Len(pivots) \in Nat /\ DOMAIN pivots = 1 .. Len(pivots)
      /\ \A k \in DOMAIN pivots : pivots[k] \in XorVar
      /\ r \in Nat
  BY <1>1, XorFacts
<1>5. XorResult'
  BY <1>2 DEF XorResult, NoResult
<1>6. CASE Eligible = {} /\ UNCHANGED <<rows, history, pivots>>
  <2>1. XorTyped'
    BY <1>1, <1>2, <1>6 DEF XorTyped
  <2>2. XorSums'
    <3>1. (\A i \in DOMAIN rows : rows[i] = Total(history[i]))'
      BY <1>1, <1>2, <1>6 DEF XorSums, Total
    <3>2. (\A true \in SUBSET XorVar : (\A i \in DOMAIN rows : RowMet(true, rows[i])) <=> Solves(true))'
      BY <1>1, <1>2, <1>6 DEF XorSums, RowMet, Solves
    <3> QED BY <3>1, <3>2 DEF XorSums
  <2>3. XorEchelon'
    <3>1. col' \in Nat /\ col' >= 1
      BY <1>2
    <3>2. \A k \in DOMAIN pivots : pivots[k] < col'
      <4> TAKE k \in DOMAIN pivots
      <4>1. pivots[k] < col /\ pivots[k] \in Int
        BY <1>1, <1>4, XorVarFacts DEF XorEchelon
      <4> QED BY <4>1, <1>2
    <3>3. ASSUME NEW i \in DOMAIN rows, i > Len(pivots), NEW v \in rows[i].coeff
          PROVE  v >= col'
      <4>1. v >= col
        BY <1>1, <3>3 DEF XorEchelon
      <4>2. v # col
        BY <1>6, <3>3 DEF Eligible
      <4>3. v \in Int
        BY <1>4, RowFacts, XorVarFacts
      <4> QED BY <1>2, <4>1, <4>2, <4>3
    <3> QED BY <1>1, <1>6, <3>1, <3>2, <3>3 DEF XorEchelon
  <2> QED BY <1>5, <2>1, <2>2, <2>3 DEF XorIInv
<1>7. CASE /\ Eligible # {}
           /\ rows' = [i \in DOMAIN rows |-> IF i \in cleared THEN Plus(s(i), s(r)) ELSE s(i)]
           /\ history' = [i \in DOMAIN rows |-> IF i \in cleared THEN SymDiff(h(i), h(r)) ELSE h(i)]
           /\ pivots' = Append(pivots, col)
  <2>1. /\ p \in DOMAIN rows /\ p >= r /\ col \in rows[p].coeff
        /\ r \in DOMAIN rows /\ r \in Nat /\ p \in Nat
        /\ \A i \in DOMAIN rows : /\ Trade(i) \in DOMAIN rows /\ Trade(Trade(i)) = i
                                  /\ i >= r => Trade(i) >= r
                                  /\ i < r => Trade(i) = i
        /\ Trade(r) = p
    BY <1>1, <1>7, TradeFacts
  <2>2. s(r) = rows[p] /\ r \notin cleared /\ s(r) \in XorRow /\ h(r) \in SUBSET (DOMAIN system)
    BY <1>4, <2>1
  <2>3. \A i \in DOMAIN rows : s(i) \in XorRow /\ h(i) \in SUBSET (DOMAIN system)
    BY <1>4, <2>1
  <2>4. DOMAIN rows' = DOMAIN rows
    BY <1>7
  <2>5. \A i \in DOMAIN rows : rows'[i] = IF i \in cleared THEN Plus(s(i), s(r)) ELSE s(i)
    BY <1>7
  <2>6. \A i \in DOMAIN rows : history'[i] = IF i \in cleared THEN SymDiff(h(i), h(r)) ELSE h(i)
    BY <1>7
  <2>7. \A i \in DOMAIN rows : rows'[i] \in XorRow
    BY <2>2, <2>3, <2>5, PlusRow
  <2>8. \A i \in DOMAIN rows : history'[i] \in SUBSET (DOMAIN system)
    <3> TAKE i \in DOMAIN rows
    <3>1. h(i) \in SUBSET (DOMAIN system) /\ h(r) \in SUBSET (DOMAIN system)
      BY <2>2, <2>3
    <3> HIDE DEF h
    <3>2. SymDiff(h(i), h(r)) \in SUBSET (DOMAIN system)
      BY <1>1, <3>1, TotalSum
    <3> QED BY <2>6, <3>1, <3>2
  <2>9. /\ pivots' \in Seq(XorVar) /\ Len(pivots') = r /\ DOMAIN pivots' = 1 .. r
        /\ pivots'[r] = col /\ \A k \in DOMAIN pivots : pivots'[k] = pivots[k]
    BY <1>1, <1>3, <1>7 DEF XorTyped
  <2>10. Len(rows') = Len(rows)
    <3>1. rows' \in Seq(XorRow)
      BY <1>4, <2>4, <2>7, <1>7
    <3>2. Len(rows') \in Nat /\ DOMAIN rows' = 1 .. Len(rows')
      BY <3>1
    <3> QED BY <1>4, <2>4, <3>2
  <2>11. XorTyped'
    <3>1. rows' \in [DOMAIN system -> XorRow]
      BY <1>4, <1>7, <2>7
    <3>2. history' \in [DOMAIN system -> SUBSET (DOMAIN system)]
      BY <1>4, <1>7, <2>8
    <3> QED BY <1>1, <1>2, <2>9, <3>1, <3>2 DEF XorTyped
  <2>13. ASSUME NEW i \in DOMAIN rows
         PROVE  rows'[i] = Total(history'[i])
    <3>1. s(i) = Total(h(i)) /\ s(r) = Total(h(r))
      BY <1>1, <2>1 DEF XorSums
    <3>2. CASE i \in cleared
      <4>1. Total(SymDiff(h(i), h(r))) = Plus(Total(h(i)), Total(h(r)))
        BY <1>1, <2>2, <2>3, TotalSum
      <4>2. rows'[i] = Plus(s(i), s(r)) /\ history'[i] = SymDiff(h(i), h(r))
        BY <2>5, <2>6, <3>2
      <4> HIDE DEF s, h
      <4> QED BY <3>1, <4>1, <4>2
    <3>3. CASE i \notin cleared
      <4>1. rows'[i] = s(i) /\ history'[i] = h(i)
        BY <2>5, <2>6, <3>3
      <4> HIDE DEF s, h
      <4> QED BY <3>1, <4>1
    <3> QED BY <3>2, <3>3
  <2>14. ASSUME NEW true \in SUBSET XorVar
         PROVE  (\A i \in DOMAIN rows : RowMet(true, rows'[i])) <=> (\A i \in DOMAIN rows : RowMet(true, rows[i]))
    <3>1. ASSUME \A i \in DOMAIN rows : RowMet(true, rows'[i]), NEW i \in DOMAIN rows
          PROVE  RowMet(true, rows[i])
      <4>1. RowMet(true, s(r))
        BY <2>1, <2>2, <2>5, <3>1
      <4>2. PICK j \in DOMAIN rows : rows[i] = s(j)
        BY <2>1
      <4>3. RowMet(true, rows'[j]) /\ s(j) \in XorRow
        BY <2>3, <3>1
      <4>4. CASE j \in cleared
        <5>1. rows'[j] = Plus(s(j), s(r))
          BY <2>5, <4>4
        <5> QED BY <2>2, <4>1, <4>2, <4>3, <5>1, PlusMeets
      <4>5. CASE j \notin cleared
        BY <2>5, <4>2, <4>3, <4>5
      <4> QED BY <4>4, <4>5
    <3>2. ASSUME \A i \in DOMAIN rows : RowMet(true, rows[i]), NEW i \in DOMAIN rows
          PROVE  RowMet(true, rows'[i])
      <4>1. RowMet(true, s(r)) /\ RowMet(true, s(i)) /\ s(i) \in XorRow
        BY <2>1, <2>3, <3>2
      <4>2. RowMet(true, Plus(s(i), s(r)))
        BY <2>2, <4>1, PlusMeets
      <4> QED BY <2>5, <4>1, <4>2
    <3> QED BY <3>1, <3>2
  <2>15. XorSums'
    <3>1. \A true : Solves(true)' <=> Solves(true)
      BY <1>2 DEF Solves, Pack
    <3>2. \A true \in SUBSET XorVar : (\A i \in DOMAIN rows' : RowMet(true, rows'[i])) <=> Solves(true)'
      BY <1>1, <2>4, <2>14, <3>1 DEF XorSums
    <3>3. (\A i \in DOMAIN rows : rows[i] = Total(history[i]))'
      <4>1. ASSUME NEW i \in DOMAIN rows'
            PROVE  rows'[i] = Total(history[i])'
        <5> DEFINE H == history'[i]
        <5>1. rows'[i] = Total(H)
          BY <2>4, <2>13, <4>1
        <5>2. Total(H) = Total(history[i])'
          BY <1>2 DEF Total, Pack
        <5> QED BY <5>1, <5>2
      <4> QED BY <4>1
    <3>4. (\A true \in SUBSET XorVar : (\A i \in DOMAIN rows : RowMet(true, rows[i])) <=> Solves(true))'
      BY <3>2 DEF RowMet
    <3> QED BY <3>3, <3>4 DEF XorSums
  <2>16. \A i \in DOMAIN rows, v \in XorVar :
            v \in rows'[i].coeff <=> IF i \in cleared THEN ~(v \in s(i).coeff <=> v \in s(r).coeff)
                                     ELSE v \in s(i).coeff
    <3> TAKE i \in DOMAIN rows, v \in XorVar
    <3>1. Plus(s(i), s(r)).coeff = SymDiff(s(i).coeff, s(r).coeff)
      BY <2>2, <2>3, PlusRow
    <3> QED BY <2>5, <3>1 DEF SymDiff
  <2>17. XorEchelon'
    <3>1. Len(pivots') <= Len(rows') /\ col' >= 1
      BY <1>2, <1>4, <2>9, <2>10
    <3>2. \A k \in DOMAIN pivots' : pivots'[k] < col'
      <4> TAKE k \in DOMAIN pivots'
      <4>1. CASE k = r
        BY <1>2, <2>9, <4>1
      <4>2. CASE k # r
        <5>1. k \in DOMAIN pivots
          BY <1>4, <2>9, <4>2
        <5>2. pivots[k] < col /\ pivots[k] \in Int
          BY <1>1, <1>4, <5>1, XorVarFacts DEF XorEchelon
        <5> QED BY <1>2, <2>9, <5>1, <5>2
      <4> QED BY <4>1, <4>2
    <3>3. ASSUME NEW k \in DOMAIN pivots', NEW i \in DOMAIN rows
          PROVE  pivots'[k] \in rows'[i].coeff <=> i = k
      <4>1. CASE k = r
        <5>1. pivots'[k] = col /\ col \in s(r).coeff
          BY <2>1, <2>2, <2>9, <4>1
        <5>2. col \in rows'[i].coeff <=> IF i \in cleared THEN ~(col \in s(i).coeff) ELSE col \in s(i).coeff
          BY <1>3, <2>16, <5>1
        <5> QED BY <4>1, <5>1, <5>2
      <4>2. CASE k # r
        <5>1. k \in DOMAIN pivots /\ k < r /\ k \in Nat
          BY <1>4, <2>9, <4>2
        <5>2. pivots'[k] = pivots[k] /\ pivots[k] \in XorVar
          BY <1>4, <2>9, <5>1
        <5>3. \A j \in DOMAIN rows : pivots[k] \in s(j).coeff <=> Trade(j) = k
          BY <1>1, <2>1, <5>1 DEF XorEchelon
        <5>4. \A j \in DOMAIN rows : Trade(j) = k <=> j = k
          <6> TAKE j \in DOMAIN rows
          <6>1. j \in Nat
            BY <1>4
          <6>2. CASE j < r
            BY <2>1, <6>2
          <6>3. CASE j >= r
            <7>1. Trade(j) >= r /\ Trade(j) \in Nat
              BY <1>4, <2>1, <6>3
            <7> QED BY <5>1, <6>1, <6>3, <7>1, <2>1
          <6> QED BY <6>1, <6>2, <6>3, <2>1
        <5>5. pivots[k] \notin s(r).coeff
          BY <2>1, <5>1, <5>3, <5>4
        <5>6. pivots[k] \in rows'[i].coeff <=> pivots[k] \in s(i).coeff
          BY <2>16, <5>2, <5>5
        <5> QED BY <5>2, <5>3, <5>4, <5>6
      <4> QED BY <4>1, <4>2
    <3>4. ASSUME NEW i \in DOMAIN rows, i > Len(pivots'), NEW v \in rows'[i].coeff
          PROVE  v >= col'
      <4>1. i \in Nat /\ i > r /\ i >= r /\ r > Len(pivots)
        BY <1>4, <2>9, <3>4
      <4>2. v \in XorVar /\ v \in Int
        BY <2>7, RowFacts, XorVarFacts
      <4>3. \A j \in DOMAIN rows : j >= r => \A w \in s(j).coeff : w >= col
        <5> SUFFICES ASSUME NEW j \in DOMAIN rows, j >= r, NEW w \in s(j).coeff
                     PROVE  w >= col
          OBVIOUS
        <5>1. Trade(j) \in DOMAIN rows /\ Trade(j) >= r /\ Trade(j) \in Nat
          BY <1>4, <2>1
        <5>2. Trade(j) > Len(pivots)
          BY <1>4, <5>1
        <5> QED BY <1>1, <5>1, <5>2 DEF XorEchelon
      <4>4. v \in s(i).coeff \/ v \in s(r).coeff
        BY <2>16, <4>2
      <4>5. v >= col
        BY <2>1, <4>1, <4>3, <4>4
      <4>6. v # col
        <5>1. col \in s(r).coeff
          BY <2>1, <2>2
        <5>2. col \in rows'[i].coeff <=> IF i \in cleared THEN ~(col \in s(i).coeff) ELSE col \in s(i).coeff
          BY <1>3, <2>16, <5>1
        <5>3. i # r
          BY <4>1
        <5> QED BY <3>4, <5>2, <5>3
      <4> QED BY <1>2, <4>2, <4>5, <4>6
    <3> QED BY <2>4, <3>1, <3>2, <3>3, <3>4 DEF XorEchelon
  <2> QED BY <1>5, <2>11, <2>15, <2>17 DEF XorIInv
<1>8. CASE Eligible # {}
  <2>1. LET swapped == Swap(rows, r, p)
        IN  /\ \A i \in DOMAIN rows : swapped[i] = s(i) /\ HistorySwapped[i] = h(i)
            /\ r \in DOMAIN rows
    BY <1>1, <1>8, TradeFacts
  <2> DEFINE sw == Swap(rows, r, p)
             cl == {i \in DOMAIN rows : i # r /\ col \in sw[i].coeff}
  <2>2. /\ rows' = [i \in DOMAIN rows |-> IF i \in cl THEN Plus(sw[i], sw[r]) ELSE sw[i]]
        /\ history' = [i \in DOMAIN rows |-> IF i \in cl THEN SymDiff(HistorySwapped[i], HistorySwapped[r])
                                             ELSE HistorySwapped[i]]
        /\ pivots' = Append(pivots, col)
    BY <1>8 DEF Column
  <2>3. \A i \in DOMAIN rows : sw[i] = s(i) /\ HistorySwapped[i] = h(i)
    BY <2>1
  <2>4. r \in DOMAIN rows
    BY <2>1
  <2> HIDE DEF sw, s, h, r
  <2>5. cl = cleared
    BY <2>3
  <2> HIDE DEF cl, cleared
  <2>6. rows' = [i \in DOMAIN rows |-> IF i \in cleared THEN Plus(s(i), s(r)) ELSE s(i)]
    BY <2>2, <2>3, <2>4, <2>5
  <2>7. history' = [i \in DOMAIN rows |-> IF i \in cleared THEN SymDiff(h(i), h(r)) ELSE h(i)]
    BY <2>2, <2>3, <2>4, <2>5
  <2> QED BY <1>7, <1>8, <2>2, <2>6, <2>7
<1>9. Eligible # {} \/ (Eligible = {} /\ UNCHANGED <<rows, history, pivots>>)
  BY DEF Column
<1> QED BY <1>6, <1>8, <1>9

LEMMA AnswersStep ==
  ASSUME XorIInv, Answers
  PROVE  XorIInv'
<1> DEFINE absurd == {i \in DOMAIN rows : i > Len(pivots) /\ rows[i].coeff = {} /\ rows[i].rhs = 1}
           first  == CHOOSE i \in absurd : \A j \in absurd : i <= j
           truth  == {pivots[k] : k \in {j \in DOMAIN pivots : rows[j].rhs = 1}}
<1>1. XorTyped /\ XorSums /\ XorEchelon /\ XorResult
  BY DEF XorIInv
<1>2. UNCHANGED <<system, rows, history, pivots, col>> /\ result = NoResult /\ ~Eliminating
  BY DEF Answers
<1>3. result' = IF absurd # {} THEN [sat |-> "UNSAT", assignment |-> {}, certificate |-> history[first]]
                ELSE [sat |-> "SAT", certificate |-> {}, assignment |-> truth]
  BY DEF Answers
<1>4. XorTyped' /\ XorEchelon'
  BY <1>1, <1>2 DEF XorTyped, XorEchelon
<1>5. XorSums'
  <2>1. (\A i \in DOMAIN rows : rows[i] = Total(history[i]))'
    BY <1>1, <1>2 DEF XorSums, Total
  <2>2. (\A true \in SUBSET XorVar : (\A i \in DOMAIN rows : RowMet(true, rows[i])) <=> Solves(true))'
    BY <1>1, <1>2 DEF XorSums, RowMet, Solves
  <2> QED BY <2>1, <2>2 DEF XorSums
<1>6. /\ DOMAIN rows = 1 .. Len(rows) /\ Len(rows) \in Nat
      /\ \A j \in DOMAIN rows : rows[j] \in XorRow /\ history[j] \in SUBSET (DOMAIN system)
      /\ Len(pivots) \in Nat /\ DOMAIN pivots = 1 .. Len(pivots) /\ Len(pivots) <= Len(rows)
      /\ \A k \in DOMAIN pivots : pivots[k] \in XorVar
  <2>1. Len(pivots) <= Len(rows)
    BY <1>1 DEF XorEchelon
  <2> QED BY <1>1, <2>1, XorFacts
<1>7. Cardinality({}) = 0
  BY FS_EmptySet
<1>8. (\A true : Solves(true)' <=> Solves(true)) /\ (\A H : Certifies(H)' <=> Certifies(H))
  BY <1>2 DEF Solves, Certifies, Total
<1>9. CASE absurd # {}
  <2>1. first \in absurd
    <3>1. absurd \in SUBSET (DOMAIN rows)
      OBVIOUS
    <3> HIDE DEF absurd
    <3> QED BY <1>1, <1>9, <3>1, FirstRow
  <2> DEFINE f == first
             H == history[f]
  <2>2. f \in DOMAIN rows /\ rows[f].coeff = {} /\ rows[f].rhs = 1
    BY <2>1
  <2> HIDE DEF f
  <2>3. rows[f] = Total(H) /\ H \in SUBSET (DOMAIN system)
    BY <1>1, <1>6, <2>2 DEF XorSums
  <2>4. rows[f] = [coeff |-> {}, rhs |-> 1]
    BY <1>6, <2>2, RowFacts
  <2>5. H # {}
    <3>1. ASSUME H = {} PROVE FALSE
      <4>1. Ones(H) = {}
        BY <3>1 DEF Ones
      <4>2. Total(H).rhs = Cardinality(Ones(H)) % 2
        BY <1>1, <2>3, TotalFacts
      <4> QED BY <1>7, <2>2, <2>3, <4>1, <4>2
    <3> QED BY <3>1
  <2>6. Certifies(H)
    BY <2>3, <2>4, <2>5 DEF Certifies
  <2>7. ~\E true \in SUBSET XorVar : Solves(true)
    <3> SUFFICES ASSUME NEW true \in SUBSET XorVar, Solves(true)
                 PROVE  FALSE
      OBVIOUS
    <3>1. RowMet(true, rows[f])
      BY <1>1, <2>2 DEF XorSums
    <3>2. rows[f].coeff \intersect true = {}
      BY <2>2
    <3> QED BY <1>7, <2>2, <3>1, <3>2 DEF RowMet
  <2>8. result' = [sat |-> "UNSAT", assignment |-> {}, certificate |-> H]
    BY <1>3, <1>9 DEF f
  <2>9. result'.sat = "UNSAT" /\ result'.certificate = H
    BY <2>8
  <2>10. XorResult'
    BY <1>8, <2>6, <2>7, <2>9 DEF XorResult
  <2> QED BY <1>4, <1>5, <2>10 DEF XorIInv
<1>10. CASE absurd = {}
  <2>1. truth \in SUBSET XorVar
    BY <1>6
  <2>2. ASSUME NEW i \in DOMAIN rows
        PROVE  RowMet(truth, rows[i])
    <3>0. i \in Nat /\ i >= 1 /\ rows[i].rhs \in {0, 1} /\ rows[i].coeff \subseteq XorVar
      BY <1>6, RowFacts
    <3>1. CASE i <= Len(pivots)
      <4>1. i \in DOMAIN pivots
        BY <1>6, <3>0, <3>1
      <4>2. \A k \in DOMAIN pivots : pivots[k] \in rows[i].coeff <=> k = i
        BY <1>1 DEF XorEchelon
      <4>3. rows[i].coeff \intersect truth = IF rows[i].rhs = 1 THEN {pivots[i]} ELSE {}
        BY <4>1, <4>2
      <4>4. Cardinality({pivots[i]}) = 1
        BY FS_Singleton
      <4> HIDE DEF truth
      <4> DEFINE both == rows[i].coeff \intersect truth
      <4>5. CASE rows[i].rhs = 1
        <5>1. both = {pivots[i]}
          BY <4>3, <4>5
        <5>2. Cardinality(both) % 2 = 1
          BY <4>4, <5>1
        <5> QED BY <4>5, <5>2 DEF RowMet
      <4>6. CASE rows[i].rhs = 0
        <5>1. both = {}
          BY <4>3, <4>6
        <5>2. Cardinality(both) % 2 = 0
          BY <1>7, <5>1
        <5> QED BY <4>6, <5>2 DEF RowMet
      <4> QED BY <3>0, <4>5, <4>6
    <3>2. CASE i > Len(pivots)
      <4>1. Len(pivots) < Len(rows)
        BY <1>6, <3>0, <3>2
      <4>2. col > Cardinality(XorVar)
        BY <1>1, <1>2, <4>1, XorVarFacts DEF Eliminating, XorTyped
      <4>3. \A v \in rows[i].coeff : v >= col
        BY <1>1, <3>2 DEF XorEchelon
      <4>4. ASSUME NEW v \in rows[i].coeff PROVE FALSE
        <5>1. v \in Int /\ v <= Cardinality(XorVar) /\ v >= col
          BY <3>0, <4>3, <4>4, XorVarFacts
        <5> QED BY <1>1, <4>2, <5>1, XorVarFacts DEF XorTyped
      <4>5. rows[i].coeff = {}
        BY <4>4
      <4>6. rows[i].rhs = 0
        BY <1>10, <3>0, <3>2, <4>5
      <4>7. rows[i].coeff \intersect truth = {}
        BY <4>5
      <4> HIDE DEF truth
      <4> QED BY <1>7, <4>6, <4>7 DEF RowMet
    <3> QED BY <1>6, <3>0, <3>1, <3>2
  <2> HIDE DEF truth
  <2>3. Solves(truth)
    BY <1>1, <2>1, <2>2 DEF XorSums
  <2>4. result' = [sat |-> "SAT", certificate |-> {}, assignment |-> truth]
    BY <1>3, <1>10
  <2>5. result'.sat = "SAT" /\ result'.assignment = truth
    BY <2>4
  <2>6. XorResult'
    BY <1>8, <2>3, <2>5 DEF XorResult
  <2> QED BY <1>4, <1>5, <2>6 DEF XorIInv
<1> QED BY <1>9, <1>10

LEMMA XorStep == XorIInv /\ [XorNext]_xorVars => XorIInv'
<1> SUFFICES ASSUME XorIInv, [XorNext]_xorVars
             PROVE  XorIInv'
  OBVIOUS
<1>1. CASE Column
  BY <1>1, ColumnStep
<1>2. CASE Answers
  BY <1>2, AnswersStep
<1>3. CASE UNCHANGED xorVars
  <2>1. UNCHANGED <<system, rows, history, pivots, col, result>>
    BY <1>3 DEF xorVars
  <2>2. XorTyped' /\ XorEchelon'
    BY <2>1 DEF XorIInv, XorTyped, XorEchelon
  <2>3. XorResult'
    BY <2>1 DEF XorIInv, XorResult, Solves, Certifies, Total
  <2>4. (\A i \in DOMAIN rows : rows[i] = Total(history[i]))'
    BY <2>1 DEF XorIInv, XorSums, Total
  <2>5. (\A true \in SUBSET XorVar : (\A i \in DOMAIN rows : RowMet(true, rows[i])) <=> Solves(true))'
    BY <2>1 DEF XorIInv, XorSums, RowMet, Solves
  <2> QED BY <2>2, <2>3, <2>4, <2>5 DEF XorIInv, XorSums
<1> QED BY <1>1, <1>2, <1>3 DEF XorNext

THEOREM XorInvariantHolds == XorSpec => []XorIInv
<1>1. XorInit => XorIInv
  BY XorStart
<1>2. XorIInv /\ [XorNext]_xorVars => XorIInv'
  BY XorStep
<1> QED BY <1>1, <1>2, PTL DEF XorSpec

THEOREM EliminationIsSound == XorSpec => []EliminationSound
<1>1. XorIInv => EliminationSound
  <2> SUFFICES ASSUME XorIInv
               PROVE  EliminationSound
    OBVIOUS
  <2>1. \A i \in DOMAIN rows : rows[i] = Total(history[i])
    BY DEF XorIInv, XorSums
  <2>2. ASSUME NEW k \in DOMAIN pivots
        PROVE  {i \in DOMAIN rows : pivots[k] \in rows[i].coeff} = {k}
    <3>1. k \in DOMAIN rows
      <4>1. Len(pivots) \in Nat /\ DOMAIN pivots = 1 .. Len(pivots) /\ Len(rows) \in Nat /\ DOMAIN rows = 1 .. Len(rows)
        BY XorFacts DEF XorIInv
      <4>2. Len(pivots) <= Len(rows)
        BY DEF XorIInv, XorEchelon
      <4> QED BY <4>1, <4>2
    <3>2. \A i \in DOMAIN rows : pivots[k] \in rows[i].coeff <=> i = k
      BY DEF XorIInv, XorEchelon
    <3> QED BY <3>1, <3>2
  <2> QED BY <2>1, <2>2 DEF XorIInv, XorResult, EliminationSound
<1> QED BY <1>1, XorInvariantHolds, PTL

-----------------------------------------------------------------------------
(* Unit propagation and proofs                                              *)

\* A literal and its negation are two literals, neither of them 0.
LEMMA SatLit ==
  ASSUME NEW x \in Lit
  PROVE  x \in Int /\ x # 0 /\ -x \in Lit /\ -(-x) = x /\ x # -x
BY VarAssumption DEF Lit

\* The entry at p of a trail is what a clause leaves when the entries before it
\* make the rest false.
Derived(known, seq, p) ==
  \E clause \in known :
    /\ seq[p] \in clause
    /\ \A lit \in clause \ {seq[p]} : \E q \in 1 .. p - 1 : seq[q] = -lit

\* A clause of which the earlier entries make all but one literal false derives
\* that literal (a unit clause of unit_propagate, or the lemma of a flip).
LEMMA DerivedFrom ==
  ASSUME NEW known, NEW seq, NEW p, NEW clause \in known, seq[p] \in clause,
         \A lit \in clause \ {seq[p]} : \E q \in 1 .. p - 1 : seq[q] = -lit
  PROVE  Derived(known, seq, p)
BY DEF Derived

\* What was derived stays so when lemmas are added or the trail changes above it.
LEMMA DerivedKept ==
  ASSUME NEW known, NEW more, known \subseteq more, NEW seq, NEW other, NEW p \in Nat \ {0},
         \A q \in 1 .. p : other[q] = seq[q], Derived(known, seq, p)
  PROVE  Derived(more, other, p)
<1>1. PICK clause \in known :
        /\ seq[p] \in clause
        /\ \A lit \in clause \ {seq[p]} : \E q \in 1 .. p - 1 : seq[q] = -lit
  BY DEF Derived
<1>2. other[p] = seq[p] /\ \A q \in 1 .. p - 1 : other[q] = seq[q]
  OBVIOUS
<1> QED BY <1>1, <1>2 DEF Derived

\* A model makes a clause true.
Hits(m, clause) == \E lit \in clause : lit \in m

\* What run_drat does with a lemma, given the clauses that are known
UnitsOf(known, lits) ==
  lits \union UNION {c \in {{lit \in clause : -lit \notin lits} : clause \in known} : Cardinality(c) = 1}

Propagation(known, lemma, f) ==
  f = [n \in 0 .. Cardinality(Var) |->
         IF n = 0 THEN {-lit : lit \in lemma} ELSE UnitsOf(known, f[n - 1])]

Rup(known, lemma) ==
  LET step(lits) == lits \union
        UNION {c \in {{lit \in clause : -lit \notin lits} : clause \in known} : Cardinality(c) = 1}
      after[n \in 0 .. Cardinality(Var)] ==
        IF n = 0 THEN {-lit : lit \in lemma} ELSE step(after[n - 1])
  IN  \E clause \in known : \A lit \in clause : -lit \in after[Cardinality(Var)]

KnownTo(k) == {LitsOf(formula[i]) : i \in DOMAIN formula} \union {proof[j] : j \in 1 .. k - 1}

\* RupLemma, as a statement on the clauses known to a lemma
LEMMA RupLemmaIs ==
  ASSUME NEW k
  PROVE  RupLemma(k) <=> Rup(KnownTo(k), proof[k])
BY DEF RupLemma, Rup, KnownTo

\* The same, of the next state
LEMMA RupLemmaWillBe ==
  ASSUME NEW k
  PROVE  RupLemma(k)' <=> Rup(KnownTo(k)', proof'[k])
BY DEF RupLemma, Rup, KnownTo

\* There are finitely many variables, counted by a natural number.
LEMMA VarCount == Cardinality(Var) \in Nat
BY VarAssumption, FS_CardinalityType

\* What a recursive function of the first numbers is, if its values stay in a set
Iterated(D, a, g, N, f) ==
  f \in [0 .. N -> D] /\ f[0] = a /\ \A n \in 1 .. N : f[n] = g[f[n - 1]]

\* A step that is repeated any number of times has a sequence of results: the
\* recursive functions of RupLemma and PathsFrom are defined.
LEMMA Iterates ==
  ASSUME NEW D, NEW a \in D, NEW g \in [D -> D], NEW N \in Nat
  PROVE  \E f : Iterated(D, a, g, N, f)
<1> DEFINE Upto(m, f) == f[0] = a /\ \A n \in 1 .. m : f[n] = g[f[n - 1]]
           Bad == {m \in Nat : ~\E f \in [0 .. m -> D] : Upto(m, f)}
<1>1. \E f \in [0 .. 0 -> D] : Upto(0, f)
  <2> DEFINE f == [n \in 0 .. 0 |-> a]
  <2>1. f \in [0 .. 0 -> D] /\ f[0] = a
    OBVIOUS
  <2> HIDE DEF f
  <2> QED BY <2>1
<1>2. ASSUME NEW m \in Nat, NEW f \in [0 .. m -> D], Upto(m, f)
      PROVE  \E h \in [0 .. m + 1 -> D] : Upto(m + 1, h)
  <2> DEFINE h == [n \in 0 .. m + 1 |-> IF n = m + 1 THEN g[f[m]] ELSE f[n]]
  <2>1. h \in [0 .. m + 1 -> D]
    <3>1. \A n \in 0 .. m + 1 : n = m + 1 \/ n \in 0 .. m
      OBVIOUS
    <3>2. f[m] \in D
      OBVIOUS
    <3> QED BY <3>1, <3>2
  <2>2. h[m + 1] = g[f[m]] /\ \A n \in 0 .. m : h[n] = f[n]
    OBVIOUS
  <2> HIDE DEF h
  <2>3. h[0] = a
    BY <1>2, <2>2
  <2>4. ASSUME NEW n \in 1 .. m + 1 PROVE h[n] = g[h[n - 1]]
    <3>1. n - 1 \in 0 .. m /\ (n = m + 1 => n - 1 = m) /\ (n # m + 1 => n \in 1 .. m /\ n \in 0 .. m)
      OBVIOUS
    <3> QED BY <1>2, <2>2, <3>1
  <2> QED BY <2>1, <2>3, <2>4
<1> HIDE DEF Upto
<1>3. Bad = {}
  <2> SUFFICES ASSUME Bad # {} PROVE FALSE
    OBVIOUS
  <2>1. PICK m \in Bad : \A n \in Bad : m <= n
    BY Least
  <2>2. m # 0
    BY <1>1
  <2>3. m - 1 \in Nat /\ m - 1 \notin Bad /\ m - 1 + 1 = m
    BY <2>1, <2>2
  <2> QED BY <1>2, <2>1, <2>3
<1> QED BY <1>3 DEF Upto, Iterated

\* A round of unit propagation adds literals.
LEMMA UnitsAre ==
  ASSUME NEW known \in SUBSET SUBSET Lit, NEW lits \in SUBSET Lit
  PROVE  UnitsOf(known, lits) \in SUBSET Lit
BY DEF UnitsOf

\* The rounds of run_drat have values.
LEMMA PropagationIs ==
  ASSUME NEW known \in SUBSET SUBSET Lit, NEW lemma \in SUBSET Lit
  PROVE  \E f : Propagation(known, lemma, f)
<1> DEFINE N == Cardinality(Var)
           D == SUBSET Lit
           a == {-lit : lit \in lemma}
           g == [lits \in D |-> UnitsOf(known, lits)]
<1>1. N \in Nat /\ a \in D /\ g \in [D -> D]
  BY VarCount, SatLit, UnitsAre
<1>2. \A lits \in D : g[lits] = UnitsOf(known, lits)
  OBVIOUS
<1> HIDE DEF N, D, a, g
<1>7. PICK f : Iterated(D, a, g, N, f)
  BY <1>1, Iterates
<1>3. f \in [0 .. N -> D] /\ f[0] = a /\ \A n \in 1 .. N : f[n] = g[f[n - 1]]
  BY <1>7 DEF Iterated
<1>4. \A n \in 0 .. N : f[n] = IF n = 0 THEN a ELSE UnitsOf(known, f[n - 1])
  <2> TAKE n \in 0 .. N
  <2>1. n # 0 => n \in 1 .. N /\ n - 1 \in 0 .. N
    BY <1>1
  <2> QED BY <1>2, <1>3, <2>1
<1>5. f = [n \in 0 .. N |-> f[n]]
  BY <1>3
<1>6. f = [n \in 0 .. N |-> IF n = 0 THEN a ELSE UnitsOf(known, f[n - 1])]
  BY <1>4, <1>5, Zenon
<1> QED BY <1>6 DEF Propagation, N, a

\* drat-trim accepts a lemma when its last round falsifies a known clause.
LEMMA RupIs ==
  ASSUME NEW known \in SUBSET SUBSET Lit, NEW lemma \in SUBSET Lit
  PROVE  \E f : /\ Propagation(known, lemma, f)
                /\ Rup(known, lemma) <=>
                     \E clause \in known : \A lit \in clause : -lit \in f[Cardinality(Var)]
<1> DEFINE f == CHOOSE g : Propagation(known, lemma, g)
<1>1. Propagation(known, lemma, f)
  BY PropagationIs
<1>2. Rup(known, lemma) <=>
        \E clause \in known : \A lit \in clause : -lit \in f[Cardinality(Var)]
  BY DEF Rup, Propagation, UnitsOf
<1> HIDE DEF f
<1> QED BY <1>1, <1>2

\* A variable has one entry of a trail at most.
Distinct(seq) ==
  \A p, q \in DOMAIN seq : seq[p] = seq[q] \/ seq[p] = -seq[q] => p = q

\* A trail that has no variable twice is no longer than the variables are many.
LEMMA TrailShort ==
  ASSUME NEW seq \in Seq(Lit), Distinct(seq)
  PROVE  Len(seq) \in Nat /\ Len(seq) <= Cardinality(Var)
<1> DEFINE N == Len(seq)
           var(x) == IF x > 0 THEN x ELSE -x
           f == [p \in 1 .. N |-> var(seq[p])]
<1>1. N \in Nat /\ DOMAIN seq = 1 .. N /\ \A p \in 1 .. N : seq[p] \in Lit
  OBVIOUS
<1>2. \A x \in Lit : var(x) \in Var
  BY VarAssumption DEF Lit
<1>3. \A x, y \in Lit : var(x) = var(y) => x = y \/ x = -y
  BY SatLit
<1> HIDE DEF var, N
<1>4. f \in [1 .. N -> Var]
  BY <1>1, <1>2
<1>5. \A p, q \in 1 .. N : f[p] = f[q] => p = q
  BY <1>1, <1>3 DEF Distinct
<1> HIDE DEF f
<1>6. IsFiniteSet(1 .. N) /\ Cardinality(1 .. N) = N
  BY <1>1, FS_Interval
<1>7. ~(Cardinality(Var) < Cardinality(1 .. N))
  <2> SUFFICES ASSUME Cardinality(Var) < Cardinality(1 .. N) PROVE FALSE
    OBVIOUS
  <2>1. \E p, q \in 1 .. N : p # q /\ f[p] = f[q]
    <3> DEFINE S == 1 .. N
    <3>1. IsFiniteSet(S) /\ Cardinality(Var) < Cardinality(S) /\ f \in [S -> Var]
      BY <1>4, <1>6
    <3> HIDE DEF S
    <3>2. \E p, q \in S : p # q /\ f[p] = f[q]
      BY <3>1, VarAssumption, FS_PigeonHole
    <3> QED BY <3>2 DEF S
  <2> QED BY <1>5, <2>1
<1> QED BY <1>1, <1>6, <1>7, VarCount DEF N

\* The rounds of run_drat only add literals.
LEMMA Rounds ==
  ASSUME NEW known, NEW lemma, NEW f, Propagation(known, lemma, f)
  PROVE  /\ f[0] = {-lit : lit \in lemma}
         /\ \A n \in 1 .. Cardinality(Var) : f[n] = UnitsOf(known, f[n - 1]) /\ f[n - 1] \subseteq f[n]
         /\ \A n \in 0 .. Cardinality(Var) : f[0] \subseteq f[n] /\ f[n] \subseteq f[Cardinality(Var)]
<1> DEFINE N == Cardinality(Var)
           F(n) == IF n = 0 THEN {-lit : lit \in lemma} ELSE UnitsOf(known, f[n - 1])
<1>1. f = [n \in 0 .. N |-> F(n)] /\ N \in Nat
  BY VarCount DEF Propagation
<1>2. \A n \in 0 .. N : f[n] = F(n)
  <2> HIDE DEF F, N
  <2> QED BY <1>1, Zenon
<1> HIDE DEF N
<1>3. f[0] = {-lit : lit \in lemma}
  BY <1>1, <1>2
<1>4. \A n \in 1 .. N : f[n] = UnitsOf(known, f[n - 1]) /\ f[n - 1] \subseteq f[n]
  <2> TAKE n \in 1 .. N
  <2>1. n \in 0 .. N /\ n # 0
    BY <1>1
  <2>2. f[n] = UnitsOf(known, f[n - 1])
    BY <1>2, <2>1
  <2> QED BY <2>2 DEF UnitsOf
<1>5. \A n \in 0 .. N : f[0] \subseteq f[n]
  <2> DEFINE Bad == {n \in 0 .. N : ~(f[0] \subseteq f[n])}
  <2> SUFFICES ASSUME Bad # {} PROVE FALSE
    OBVIOUS
  <2>1. Bad \in SUBSET Nat
    BY <1>1
  <2>2. PICK n \in Bad : \A k \in Bad : n <= k
    <3> HIDE DEF Bad
    <3> QED BY <2>1, Least
  <2>3. n # 0 /\ n \in 1 .. N /\ n - 1 \in 0 .. N
    BY <1>1, <2>2
  <2>4. n - 1 \notin Bad
    BY <2>2, <2>3
  <2> QED BY <1>4, <2>2, <2>3, <2>4
<1>6. \A n \in 0 .. N : f[n] \subseteq f[N]
  <2> DEFINE Bad == {k \in 0 .. N : ~(f[N - k] \subseteq f[N])}
  <2>1. Bad = {}
    <3> SUFFICES ASSUME Bad # {} PROVE FALSE
      OBVIOUS
    <3>1. Bad \in SUBSET Nat
      BY <1>1
    <3>2. PICK k \in Bad : \A j \in Bad : k <= j
      <4> HIDE DEF Bad
      <4> QED BY <3>1, Least
    <3>3. k # 0
      BY <1>1, <3>2
    <3>4. k \in Nat /\ k - 1 \in 0 .. N /\ ~(k <= k - 1)
      BY <1>1, <3>2, <3>3
    <3>7. k - 1 \notin Bad
      <4> HIDE DEF Bad
      <4> QED BY <3>2, <3>4
    <3>5. f[N - (k - 1)] \subseteq f[N]
      BY <3>4, <3>7
    <3>6. N - (k - 1) \in 1 .. N /\ N - (k - 1) - 1 = N - k
      BY <1>1, <3>2, <3>3
    <3> QED BY <1>4, <3>2, <3>5, <3>6
  <2> TAKE n \in 0 .. N
  <2>2. N - n \in 0 .. N /\ N - (N - n) = n
    BY <1>1
  <2> QED BY <2>1, <2>2
<1> QED BY <1>3, <1>4, <1>5, <1>6 DEF N

\* What makes a clause false, if each of its entries is a literal that the lemma
\* negates or a unit, is found by propagation: the n-th entry by the n-th round.
LEMMA ConflictIsFound ==
  ASSUME NEW known \in SUBSET SUBSET Lit, NEW lemma \in SUBSET Lit, NEW seq \in Seq(Lit), Distinct(seq),
         \A p \in 1 .. Len(seq) : -seq[p] \in lemma \/ Derived(known, seq, p),
         NEW clause \in known, \A lit \in clause : \E p \in 1 .. Len(seq) : seq[p] = -lit
  PROVE  Rup(known, lemma)
<1> DEFINE N == Cardinality(Var)
<1>1. PICK f : /\ Propagation(known, lemma, f)
               /\ Rup(known, lemma) <=> \E c \in known : \A lit \in c : -lit \in f[N]
  BY RupIs
<1>2. Len(seq) \in Nat /\ Len(seq) <= N /\ N \in Nat
  BY TrailShort, VarCount
<1>3. /\ f[0] = {-lit : lit \in lemma}
      /\ \A n \in 1 .. N : f[n] = UnitsOf(known, f[n - 1]) /\ f[n - 1] \subseteq f[n]
      /\ \A n \in 0 .. N : f[0] \subseteq f[n] /\ f[n] \subseteq f[N]
  BY <1>1, Rounds
<1> SUFFICES ASSUME ~ \E c \in known : \A lit \in c : -lit \in f[N] PROVE FALSE
  BY <1>1
<1> HIDE DEF N
<1> DEFINE Bad == {n \in 0 .. Len(seq) : ~ \A q \in 1 .. n : seq[q] \in f[n]}
<1>4. Bad = {}
  <2> SUFFICES ASSUME Bad # {} PROVE FALSE
    OBVIOUS
  <2>1. Bad \in SUBSET Nat
    BY <1>2
  <2>2. PICK n \in Bad : \A k \in Bad : n <= k
    <3> HIDE DEF Bad
    <3> QED BY <2>1, Least
  <2>3. n \in 1 .. Len(seq) /\ n \in 1 .. N /\ n - 1 \in 0 .. N /\ n - 1 \in 0 .. Len(seq)
    BY <1>2, <2>2
  <2>4. n - 1 \notin Bad
    BY <2>2, <2>3
  <2>5. \A q \in 1 .. n - 1 : seq[q] \in f[n - 1]
    BY <2>3, <2>4
  <2>6. f[n] = UnitsOf(known, f[n - 1]) /\ f[n - 1] \subseteq f[n] /\ f[0] \subseteq f[n] /\ f[n - 1] \subseteq f[N]
    BY <1>2, <1>3, <2>3
  <2>7. seq[n] \in Lit
    BY <1>2, <2>3
  <2>8. seq[n] \in f[n]
    <3>1. CASE -seq[n] \in lemma
      <4>1. seq[n] = -(-seq[n])
        BY <2>7, SatLit
      <4> QED BY <1>3, <2>6, <3>1, <4>1
    <3>2. CASE Derived(known, seq, n)
      <4>1. PICK c \in known :
              /\ seq[n] \in c
              /\ \A lit \in c \ {seq[n]} : \E q \in 1 .. n - 1 : seq[q] = -lit
        BY <3>2 DEF Derived
      <4> DEFINE U == {lit \in c : -lit \notin f[n - 1]}
      <4>2. \A lit \in c \ {seq[n]} : -lit \in f[n - 1]
        BY <2>5, <4>1
      <4>3. \E lit \in c : -lit \notin f[n - 1]
        BY <2>6
      <4>4. U = {seq[n]}
        BY <4>1, <4>2, <4>3
      <4>5. Cardinality(U) = 1
        BY <4>4, FS_Singleton
      <4>6. U \in {{lit \in cl : -lit \notin f[n - 1]} : cl \in known}
        OBVIOUS
      <4> HIDE DEF U
      <4> QED BY <2>6, <4>4, <4>5, <4>6 DEF UnitsOf
    <3> QED BY <2>3, <3>1, <3>2
  <2>9. \A q \in 1 .. n : seq[q] \in f[n]
    <3> TAKE q \in 1 .. n
    <3>1. q = n \/ q \in 1 .. n - 1
      BY <2>3
    <3> QED BY <2>5, <2>6, <2>8, <3>1
  <2> QED BY <2>2, <2>9
<1>5. \A q \in 1 .. Len(seq) : seq[q] \in f[Len(seq)]
  BY <1>2, <1>4
<1>6. f[Len(seq)] \subseteq f[N]
  BY <1>2, <1>3
<1> QED BY <1>5, <1>6

\* Who makes every known clause true and the lemma false agrees with the trail.
LEMMA ConflictRefutes ==
  ASSUME NEW known \in SUBSET SUBSET Lit, NEW lemma, NEW seq \in Seq(Lit),
         \A p \in 1 .. Len(seq) : -seq[p] \in lemma \/ Derived(known, seq, p),
         NEW clause \in known, \A lit \in clause : \E p \in 1 .. Len(seq) : seq[p] = -lit,
         NEW m, \A lit \in Lit : lit \in m <=> -lit \notin m,
         \A c \in known : Hits(m, c)
  PROVE  Hits(m, lemma)
<1> SUFFICES ASSUME \A lit \in lemma : lit \notin m PROVE FALSE
  BY DEF Hits
<1> DEFINE Bad == {n \in 1 .. Len(seq) : seq[n] \notin m}
<1>1. Len(seq) \in Nat /\ \A p \in 1 .. Len(seq) : seq[p] \in Lit
  OBVIOUS
<1>2. Bad = {}
  <2> SUFFICES ASSUME Bad # {} PROVE FALSE
    OBVIOUS
  <2>1. Bad \in SUBSET Nat
    BY <1>1
  <2>2. PICK n \in Bad : \A k \in Bad : n <= k
    <3> HIDE DEF Bad
    <3> QED BY <2>1, Least
  <2>3. n \in 1 .. Len(seq) /\ \A q \in 1 .. n - 1 : q \in 1 .. Len(seq) /\ q \notin Bad
    BY <1>1, <2>2
  <2>4. \A q \in 1 .. n - 1 : seq[q] \in m
    BY <2>3
  <2>5. -seq[n] \in m
    BY <1>1, <2>2
  <2>6. Derived(known, seq, n)
    BY <2>3, <2>5
  <2>7. PICK c \in known :
          /\ seq[n] \in c
          /\ \A lit \in c \ {seq[n]} : \E q \in 1 .. n - 1 : seq[q] = -lit
    BY <2>6 DEF Derived
  <2>8. PICK lit \in c : lit \in m
    BY <2>7 DEF Hits
  <2>9. lit \in Lit /\ -lit \notin m
    BY <2>8
  <2>10. lit = seq[n]
    BY <2>4, <2>7, <2>9
  <2> QED BY <2>2, <2>8, <2>10
<1>3. PICK lit \in clause : lit \in m
  BY DEF Hits
<1>4. lit \in Lit /\ -lit \notin m
  BY <1>3
<1> QED BY <1>2, <1>3, <1>4

-----------------------------------------------------------------------------
(* The search of Dpll                                                       *)

Decisions == [lit : Lit, flipped : BOOLEAN, checkpoint : Nat]

Known == {LitsOf(formula[i]) : i \in DOMAIN formula} \union {proof[k] : k \in DOMAIN proof}

DpllModels ==
  {m \in SUBSET Lit : /\ \A lit \in Lit : lit \in m <=> -lit \notin m
                      /\ \A i \in DOMAIN formula : SatisfiedBy(m, formula[i])}

DpllTyped ==
  /\ formula \in Seq(Seq(Lit))
  /\ assigned \in Seq(Lit) /\ Distinct(assigned)
  /\ stack \in Seq(Decisions)
  /\ proof \in Seq(SUBSET Lit)
  /\ decision \in {"search", "SAT", "UNSAT"}

\* Each decision that is open is on the trail, one way or the other, right above
\* its checkpoint, and the checkpoints grow.
DpllStack ==
  /\ \A d \in DOMAIN stack :
       /\ stack[d].checkpoint + 1 \in DOMAIN assigned
       /\ assigned[stack[d].checkpoint + 1] = IF stack[d].flipped THEN -stack[d].lit ELSE stack[d].lit
  /\ \A d, e \in DOMAIN stack : d < e => stack[d].checkpoint < stack[e].checkpoint

Decided(p) == \E d \in DOMAIN stack : ~stack[d].flipped /\ p = stack[d].checkpoint + 1

\* An entry of the trail is a decision that was not flipped, or follows by unit
\* propagation from clauses and lemmas: a flipped decision from its lemma.
DpllReasons ==
  decision = "search" =>
    \A p \in DOMAIN assigned : Decided(p) \/ Derived(Known, assigned, p)

DpllProof ==
  \A k \in DOMAIN proof : RupLemma(k) /\ \A m \in DpllModels : Hits(m, proof[k])

DpllAnswer ==
  /\ decision = "UNSAT" => proof # <<>> /\ proof[Len(proof)] = {}
  /\ decision = "SAT" => \A i \in DOMAIN formula : SatisfiedBy(LitsOf(assigned), formula[i])

DpllIInv == DpllTyped /\ DpllStack /\ DpllReasons /\ DpllProof /\ DpllAnswer

\* The parts of the search are what their names say.
LEMMA DpllFacts ==
  ASSUME DpllTyped
  PROVE  /\ Len(assigned) \in Nat /\ DOMAIN assigned = 1 .. Len(assigned)
         /\ \A p \in 1 .. Len(assigned) : assigned[p] \in Lit
         /\ Len(stack) \in Nat /\ DOMAIN stack = 1 .. Len(stack)
         /\ \A d \in 1 .. Len(stack) : stack[d].lit \in Lit /\ stack[d].checkpoint \in Nat
         /\ Len(proof) \in Nat /\ DOMAIN proof = 1 .. Len(proof)
         /\ \A k \in 1 .. Len(proof) : proof[k] \in SUBSET Lit
         /\ \A i \in DOMAIN formula : formula[i] \in Seq(Lit) /\ LitsOf(formula[i]) \in SUBSET Lit
         /\ Known \in SUBSET SUBSET Lit
<1>1. \A i \in DOMAIN formula : formula[i] \in Seq(Lit) /\ LitsOf(formula[i]) \in SUBSET Lit
  <2> TAKE i \in DOMAIN formula
  <2>1. formula[i] \in Seq(Lit)
    BY DEF DpllTyped
  <2> QED BY <2>1 DEF LitsOf
<1>2. /\ Len(assigned) \in Nat /\ DOMAIN assigned = 1 .. Len(assigned)
      /\ \A p \in 1 .. Len(assigned) : assigned[p] \in Lit
  BY DEF DpllTyped
<1>3. /\ Len(stack) \in Nat /\ DOMAIN stack = 1 .. Len(stack)
      /\ \A d \in 1 .. Len(stack) : stack[d] \in Decisions
  BY DEF DpllTyped
<1>4. /\ Len(proof) \in Nat /\ DOMAIN proof = 1 .. Len(proof)
      /\ \A k \in 1 .. Len(proof) : proof[k] \in SUBSET Lit
  BY DEF DpllTyped
<1>5. Known \in SUBSET SUBSET Lit
  BY <1>1, <1>4 DEF Known
<1> QED BY <1>1, <1>2, <1>3, <1>4, <1>5 DEF Decisions

\* _lit_value reads the trail.
LEMMA HoldsAt ==
  ASSUME NEW lit
  PROVE  /\ Holds(lit) <=> \E p \in DOMAIN assigned : assigned[p] = lit
         /\ Refuted(lit) <=> \E p \in DOMAIN assigned : assigned[p] = -lit
BY DEF Holds, Refuted, LitsOf

\* A literal of a variable that is open goes on a part of a trail.
LEMMA TrailPushed ==
  ASSUME NEW seq \in Seq(Lit), Distinct(seq), NEW n \in 0 .. Len(seq), NEW lit \in Lit,
         \A p \in 1 .. n : seq[p] # lit /\ seq[p] # -lit
  PROVE  LET longer == Append(SubSeq(seq, 1, n), lit)
         IN  /\ longer \in Seq(Lit) /\ Len(longer) = n + 1 /\ DOMAIN longer = 1 .. n + 1
             /\ longer[n + 1] = lit /\ \A p \in 1 .. n : longer[p] = seq[p]
             /\ Distinct(longer)
<1> DEFINE longer == Append(SubSeq(seq, 1, n), lit)
<1>1. n \in Nat /\ Len(seq) \in Nat /\ DOMAIN seq = 1 .. Len(seq) /\ n <= Len(seq)
  OBVIOUS
<1> DEFINE part == SubSeq(seq, 1, n)
<1>2. part \in Seq(Lit) /\ Len(part) = n /\ \A p \in 1 .. n : part[p] = seq[p]
  BY <1>1
<1> HIDE DEF part
<1>3. /\ longer \in Seq(Lit) /\ Len(longer) = n + 1 /\ DOMAIN longer = 1 .. n + 1
      /\ longer[n + 1] = lit /\ \A p \in 1 .. n : longer[p] = seq[p]
  BY <1>1, <1>2 DEF part
<1> HIDE DEF longer
<1>4. \A p \in 1 .. n + 1 : p = n + 1 \/ p \in 1 .. n
  BY <1>1
<1>5. \A p \in 1 .. n : seq[p] \in Lit /\ p \in DOMAIN seq
  BY <1>1
<1>6. Distinct(longer)
  <2> SUFFICES ASSUME NEW p \in 1 .. n + 1, NEW q \in 1 .. n + 1,
                      longer[p] = longer[q] \/ longer[p] = -longer[q]
               PROVE  p = q
    BY <1>3 DEF Distinct
  <2>1. CASE p \in 1 .. n /\ q \in 1 .. n
    BY <1>3, <1>5, <2>1 DEF Distinct
  <2>2. CASE p = n + 1 /\ q \in 1 .. n
    <3>1. lit = seq[q] \/ lit = -seq[q]
      BY <1>3, <2>2
    <3>2. seq[q] = lit \/ seq[q] = -lit
      BY <1>5, <2>2, <3>1, SatLit
    <3> QED BY <2>2, <3>2
  <2>3. CASE q = n + 1 /\ p \in 1 .. n
    BY <1>3, <2>3
  <2> QED BY <1>4, <2>1, <2>2, <2>3
<1> QED BY <1>3, <1>6 DEF longer

\* Cutting a trail at its length leaves it whole.
LEMMA WholePart ==
  ASSUME NEW seq \in Seq(Lit)
  PROVE  SubSeq(seq, 1, Len(seq)) = seq /\ Len(seq) \in 0 .. Len(seq)
OBVIOUS

\* The proof is as it was.
LEMMA ProofKept ==
  ASSUME DpllProof, formula' = formula, proof' = proof
  PROVE  DpllProof' /\ DpllModels' = DpllModels /\ Known' = Known
<1>1. DpllModels' = DpllModels /\ Known' = Known
  BY DEF DpllModels, Known
<1>2. \A k : KnownTo(k)' = KnownTo(k)
  BY DEF KnownTo
<1>3. ASSUME NEW k \in DOMAIN proof PROVE RupLemma(k)'
  <2>1. Rup(KnownTo(k), proof[k])
    BY RupLemmaIs DEF DpllProof
  <2>2. Rup(KnownTo(k)', proof'[k])
    BY <1>2, <2>1
  <2> QED BY <2>2, RupLemmaWillBe
<1> QED BY <1>1, <1>3 DEF DpllProof

\* A literal that is open is put on the trail, for a reason.
LEMMA PushStep3 ==
  ASSUME DpllIInv, decision = "search", NEW lit \in Lit, ~Holds(lit), ~Refuted(lit),
         assigned' = Append(assigned, lit), formula' = formula, proof' = proof, decision' = decision,
         stack' \in Seq(Decisions), DpllStack',
         \A d \in DOMAIN stack : d \in DOMAIN stack' /\ stack'[d] = stack[d],
         \/ \E d \in DOMAIN stack' : ~stack'[d].flipped /\ Len(assigned) + 1 = stack'[d].checkpoint + 1
         \/ Derived(Known, assigned', Len(assigned) + 1)
  PROVE  DpllIInv'
<1> DEFINE n == Len(assigned)
<1>1. /\ n \in Nat /\ DOMAIN assigned = 1 .. n /\ assigned \in Seq(Lit) /\ Distinct(assigned)
  BY DpllFacts DEF DpllIInv, DpllTyped
<1>2. \A p \in 1 .. n : assigned[p] # lit /\ assigned[p] # -lit
  BY <1>1, HoldsAt
<1>3. SubSeq(assigned, 1, n) = assigned /\ n \in 0 .. n
  BY <1>1, WholePart
<1>4. /\ assigned' \in Seq(Lit) /\ DOMAIN assigned' = 1 .. n + 1
      /\ assigned'[n + 1] = lit /\ \A p \in 1 .. n : assigned'[p] = assigned[p]
      /\ Distinct(assigned')
  <2> HIDE DEF n
  <2>1. assigned' = Append(SubSeq(assigned, 1, n), lit)
    BY <1>3
  <2>2. n \in 0 .. Len(assigned)
    BY <1>3 DEF n
  <2> QED BY <1>1, <1>2, <2>1, <2>2, TrailPushed
<1> HIDE DEF n
<1>5. DpllTyped'
  <2>1. Distinct(assigned)'
    BY <1>4 DEF Distinct
  <2> QED BY <1>4, <2>1 DEF DpllIInv, DpllTyped
<1>6. DpllProof' /\ Known' = Known
  BY ProofKept DEF DpllIInv
<1>7. DpllReasons'
  <2> SUFFICES ASSUME NEW p \in 1 .. n + 1 PROVE Decided(p)' \/ Derived(Known, assigned', p)
    BY <1>4, <1>6 DEF DpllReasons
  <2>1. CASE p = n + 1
    BY <2>1 DEF Decided, n
  <2>2. CASE p # n + 1
    <3>1. p \in 1 .. n /\ p \in Nat \ {0} /\ \A q \in 1 .. p : q \in 1 .. n
      BY <1>1, <2>2
    <3>2. Decided(p) \/ Derived(Known, assigned, p)
      BY <1>1, <3>1 DEF DpllIInv, DpllReasons
    <3>3. Decided(p) => Decided(p)'
      BY DEF Decided
    <3>4. ASSUME Derived(Known, assigned, p) PROVE Derived(Known, assigned', p)
      BY <1>4, <3>1, <3>4, DerivedKept
    <3> QED BY <3>2, <3>3, <3>4
  <2> QED BY <2>1, <2>2
<1>8. DpllAnswer'
  BY DEF DpllIInv, DpllAnswer
<1> QED BY <1>5, <1>6, <1>7, <1>8 DEF DpllIInv

\* unit_propagate: the literal it pushes follows from the clause it was found in.
LEMMA ImplyStep ==
  ASSUME DpllIInv, NEW i \in DOMAIN formula, Imply(i)
  PROVE  DpllIInv'
<1> DEFINE c == formula[i]
           n == Len(assigned)
<1>1. PICK k \in Open(c) : assigned' = Append(assigned, c[k])
  BY DEF Imply
<1>2. c \in Seq(Lit) /\ n \in Nat /\ DOMAIN assigned = 1 .. n /\ assigned \in Seq(Lit)
  BY DpllFacts DEF DpllIInv, DpllTyped
<1>3. k \in DOMAIN c /\ c[k] \in Lit /\ ~Holds(c[k]) /\ ~Refuted(c[k])
  BY <1>1, <1>2 DEF Open
<1>4. ~SatisfiedBy(LitsOf(assigned), c) /\ Cardinality(Open(c)) = 1
  BY DEF Imply, Unit
<1>5. Open(c) = {k}
  <2>1. IsFiniteSet(Open(c))
    <3>1. IsFiniteSet(DOMAIN c)
      <4>1. Len(c) \in Nat /\ DOMAIN c = 1 .. Len(c)
        BY <1>2
      <4> QED BY <4>1, FS_Interval
    <3>2. Open(c) \in SUBSET (DOMAIN c)
      BY DEF Open
    <3> QED BY <3>1, <3>2, FS_Subset
  <2>2. \E x : Open(c) = {x}
    BY <1>4, <2>1, FS_Singleton
  <2> QED BY <1>1, <2>2
<1>6. LitsOf(c) \in Known /\ c[k] \in LitsOf(c)
  BY <1>3 DEF Known, LitsOf
<1>7. /\ \A p \in 1 .. n : assigned'[p] = assigned[p]
      /\ assigned'[n + 1] = c[k]
  BY <1>1, <1>2, <1>3
<1>8. \A lit \in LitsOf(c) \ {c[k]} : \E q \in 1 .. n : assigned'[q] = -lit
  <2> TAKE lit \in LitsOf(c) \ {c[k]}
  <2>1. PICK j \in DOMAIN c : lit = c[j]
    BY DEF LitsOf
  <2>2. j \notin Open(c)
    BY <1>5, <2>1
  <2>3. ~Holds(lit)
    BY <1>4 DEF SatisfiedBy, Holds
  <2>4. Refuted(lit)
    BY <2>1, <2>2, <2>3 DEF Open
  <2>5. \E q \in 1 .. n : assigned[q] = -lit
    BY <1>2, <2>4, HoldsAt
  <2> QED BY <1>7, <2>5
<1>9. Derived(Known, assigned', n + 1)
  <2>1. n + 1 - 1 = n
    BY <1>2
  <2> QED BY <1>6, <1>7, <1>8, <2>1 DEF Derived
<1>10. DpllStack' /\ stack' = stack /\ stack \in Seq(Decisions)
  <2>1. stack' = stack
    BY DEF Imply
  <2>2. DOMAIN assigned' = 1 .. n + 1
    BY <1>1, <1>2, <1>3
  <2>3. \A p \in 1 .. n : p \in 1 .. n + 1
    BY <1>2
  <2> QED BY <1>2, <1>7, <2>1, <2>2, <2>3 DEF DpllIInv, DpllStack, DpllTyped
<1> QED BY <1>1, <1>3, <1>9, <1>10, PushStep3 DEF Imply

\* A decision is pushed above the trail, with its length as the checkpoint.
LEMMA ChooseStep ==
  ASSUME DpllIInv, NEW v \in Var, Choose(v)
  PROVE  DpllIInv'
<1> DEFINE n == Len(assigned)
           new == [lit |-> v, flipped |-> FALSE, checkpoint |-> n]
           s == Len(stack)
<1>1. /\ v \in Lit /\ ~Holds(v) /\ ~Refuted(v)
      /\ stack' = Append(stack, new) /\ assigned' = Append(assigned, v)
      /\ formula' = formula /\ proof' = proof /\ decision' = decision /\ decision = "search"
  BY DEF Choose, Free, Lit
<1>2. /\ n \in Nat /\ DOMAIN assigned = 1 .. n /\ assigned \in Seq(Lit)
      /\ s \in Nat /\ DOMAIN stack = 1 .. s /\ stack \in Seq(Decisions)
      /\ \A d \in 1 .. s : stack[d].checkpoint \in Nat
  BY DpllFacts DEF DpllIInv, DpllTyped
<1>3. new \in Decisions /\ new.lit = v /\ new.checkpoint = n /\ new.flipped = FALSE
  BY <1>1, <1>2 DEF Decisions
<1>4. /\ \A p \in 1 .. n : assigned'[p] = assigned[p]
      /\ assigned'[n + 1] = v /\ DOMAIN assigned' = 1 .. n + 1
  BY <1>1, <1>2
<1> HIDE DEF new, n
<1>5. /\ stack' \in Seq(Decisions) /\ DOMAIN stack' = 1 .. s + 1 /\ stack'[s + 1] = new
      /\ \A d \in 1 .. s : stack'[d] = stack[d]
  BY <1>1, <1>2, <1>3
<1> HIDE DEF s
<1>6. \A d \in 1 .. s + 1 : d = s + 1 \/ d \in 1 .. s
  BY <1>2
<1>7. \A d \in 1 .. s : stack[d].checkpoint + 1 \in 1 .. n /\ stack[d].checkpoint < n
  <2> TAKE d \in 1 .. s
  <2>1. stack[d].checkpoint + 1 \in 1 .. n /\ stack[d].checkpoint \in Nat
    BY <1>2 DEF DpllIInv, DpllStack
  <2> QED BY <1>2, <2>1
<1>8. DpllStack'
  <2>1. ASSUME NEW d \in 1 .. s + 1
        PROVE  /\ stack'[d].checkpoint + 1 \in 1 .. n + 1
               /\ assigned'[stack'[d].checkpoint + 1] = IF stack'[d].flipped THEN -stack'[d].lit ELSE stack'[d].lit
    <3>1. CASE d = s + 1
      <4>1. stack'[d] = new /\ n + 1 \in 1 .. n + 1
        BY <1>2, <1>5, <3>1
      <4> QED BY <1>3, <1>4, <4>1
    <3>2. CASE d \in 1 .. s
      <4>1. /\ stack'[d] = stack[d] /\ stack[d].checkpoint + 1 \in 1 .. n
            /\ assigned[stack[d].checkpoint + 1] = IF stack[d].flipped THEN -stack[d].lit ELSE stack[d].lit
        BY <1>2, <1>5, <1>7, <3>2 DEF DpllIInv, DpllStack
      <4>2. stack[d].checkpoint + 1 \in 1 .. n + 1
        BY <1>2, <4>1
      <4> QED BY <1>4, <4>1, <4>2
    <3> QED BY <1>6, <3>1, <3>2
  <2>2. ASSUME NEW d \in 1 .. s + 1, NEW e \in 1 .. s + 1, d < e
        PROVE  stack'[d].checkpoint < stack'[e].checkpoint
    <3>1. d \in 1 .. s
      BY <1>2, <2>2
    <3>2. CASE e = s + 1
      BY <1>3, <1>5, <1>7, <3>1, <3>2
    <3>3. CASE e \in 1 .. s
      BY <1>2, <1>5, <2>2, <3>1, <3>3 DEF DpllIInv, DpllStack
    <3> QED BY <1>6, <3>2, <3>3
  <2> QED BY <1>4, <1>5, <2>1, <2>2 DEF DpllStack
<1>9. s + 1 \in DOMAIN stack' /\ ~stack'[s + 1].flipped /\ n + 1 = stack'[s + 1].checkpoint + 1
  BY <1>2, <1>3, <1>5
<1>10. \A d \in DOMAIN stack : d \in DOMAIN stack' /\ stack'[d] = stack[d]
  BY <1>2, <1>5
<1> QED BY <1>1, <1>5, <1>8, <1>9, <1>10, PushStep3 DEF n

\* The search ends with every clause satisfied: propagated, none is falsified.
LEMMA FoundStep ==
  ASSUME DpllIInv, FoundModel
  PROVE  DpllIInv'
<1>1. formula' = formula /\ assigned' = assigned /\ stack' = stack /\ proof' = proof /\ decision' = "SAT"
  BY DEF FoundModel
<1>2. \A i \in DOMAIN formula : SatisfiedBy(LitsOf(assigned), formula[i])
  <2>1. CASE Free = {}
    <3> TAKE i \in DOMAIN formula
    <3>1. ~Falsified(formula[i])
      BY DEF FoundModel, Propagated
    <3>2. PICK lit \in LitsOf(formula[i]) : ~Refuted(lit)
      BY <3>1 DEF Falsified
    <3>3. lit \in Lit
      BY <3>2, DpllFacts DEF DpllIInv
    <3>4. PICK v \in Var : lit = v \/ lit = -v
      BY <3>3 DEF Lit
    <3>5. Holds(v) \/ Refuted(v)
      BY <2>1 DEF Free
    <3>6. v \in Lit /\ -(-v) = v
      BY SatLit DEF Lit
    <3>7. Holds(lit)
      BY <3>2, <3>4, <3>5, <3>6 DEF Holds, Refuted
    <3> QED BY <3>2, <3>7 DEF SatisfiedBy, Holds
  <2> QED BY <2>1 DEF FoundModel
<1>3. DpllProof'
  BY <1>1, ProofKept DEF DpllIInv
<1>4. DpllTyped'
  BY <1>1 DEF DpllIInv, DpllTyped, Distinct
<1>5. DpllStack'
  BY <1>1 DEF DpllIInv, DpllStack
<1>6. DpllReasons' /\ DpllAnswer'
  BY <1>1, <1>2 DEF DpllReasons, DpllAnswer, SatisfiedBy
<1> QED BY <1>3, <1>4, <1>5, <1>6 DEF DpllIInv

\* What a conflict proves: the lemma follows by propagation, and from the formula.
LEMMA LemmaFollows ==
  ASSUME DpllIInv, decision = "search", Conflict
  PROVE  /\ Lemma \in SUBSET Lit
         /\ Rup(Known, Lemma)
         /\ \A m \in DpllModels : Hits(m, Lemma)
<1> DEFINE n == Len(assigned)
<1>1. /\ n \in Nat /\ DOMAIN assigned = 1 .. n /\ assigned \in Seq(Lit) /\ Distinct(assigned)
      /\ DOMAIN stack = 1 .. Len(stack) /\ Len(stack) \in Nat
      /\ \A d \in 1 .. Len(stack) : stack[d].lit \in Lit
      /\ Known \in SUBSET SUBSET Lit
  BY DpllFacts DEF DpllIInv, DpllTyped
<1>2. Lemma \in SUBSET Lit
  BY <1>1, SatLit DEF Lemma
<1>3. \A p \in 1 .. n : -assigned[p] \in Lemma \/ Derived(Known, assigned, p)
  <2> TAKE p \in 1 .. n
  <2>1. Decided(p) \/ Derived(Known, assigned, p)
    BY <1>1 DEF DpllIInv, DpllReasons
  <2>2. ASSUME NEW d \in DOMAIN stack, ~stack[d].flipped, p = stack[d].checkpoint + 1
        PROVE  -assigned[p] \in Lemma
    BY <2>2 DEF DpllIInv, DpllStack, Lemma
  <2> QED BY <2>1, <2>2 DEF Decided
<1>4. PICK i \in DOMAIN formula : Falsified(formula[i])
  BY DEF Conflict
<1> DEFINE c == LitsOf(formula[i])
<1>5. c \in Known /\ \A lit \in c : \E p \in 1 .. n : assigned[p] = -lit
  BY <1>1, <1>4, HoldsAt DEF Known, Falsified
<1> HIDE DEF c
<1>6. Rup(Known, Lemma)
  BY <1>1, <1>2, <1>3, <1>5, ConflictIsFound
<1>7. ASSUME NEW m \in DpllModels PROVE Hits(m, Lemma)
  <2>1. \A lit \in Lit : lit \in m <=> -lit \notin m
    BY DEF DpllModels
  <2>2. \A cl \in Known : Hits(m, cl)
    <3> TAKE cl \in Known
    <3>1. ASSUME NEW j \in DOMAIN formula, cl = LitsOf(formula[j]) PROVE Hits(m, cl)
      BY <3>1 DEF DpllModels, SatisfiedBy, Hits
    <3>2. ASSUME NEW k \in DOMAIN proof, cl = proof[k] PROVE Hits(m, cl)
      BY <3>2 DEF DpllIInv, DpllProof
    <3> QED BY <3>1, <3>2 DEF Known
  <2>3. /\ Known \in SUBSET SUBSET Lit /\ assigned \in Seq(Lit)
        /\ \A p \in 1 .. Len(assigned) : -assigned[p] \in Lemma \/ Derived(Known, assigned, p)
        /\ c \in Known /\ \A lit \in c : \E p \in 1 .. Len(assigned) : assigned[p] = -lit
    BY <1>1, <1>3, <1>5
  <2> HIDE DEF n
  <2> QED BY <2>1, <2>2, <2>3, ConflictRefutes
<1> QED BY <1>2, <1>6, <1>7

\* The lemma of a conflict joins the proof; the earlier ones follow as they did.
LEMMA ProofGrows ==
  ASSUME DpllIInv, decision = "search", Conflict, formula' = formula, proof' = Append(proof, Lemma)
  PROVE  /\ proof' \in Seq(SUBSET Lit) /\ DOMAIN proof' = 1 .. Len(proof) + 1
         /\ Len(proof') = Len(proof) + 1 /\ proof'[Len(proof) + 1] = Lemma
         /\ Known \subseteq Known' /\ Lemma \in Known'
         /\ DpllProof'
<1>0. PICK k \in Nat : k = Len(proof)
  BY DpllFacts DEF DpllIInv
<1>1. DOMAIN proof = 1 .. k /\ proof \in Seq(SUBSET Lit)
  BY <1>0, DpllFacts DEF DpllIInv, DpllTyped
<1>2. Lemma \in SUBSET Lit /\ Rup(Known, Lemma) /\ \A m \in DpllModels : Hits(m, Lemma)
  BY LemmaFollows
<1>3. /\ proof' \in Seq(SUBSET Lit) /\ DOMAIN proof' = 1 .. k + 1 /\ Len(proof') = k + 1
      /\ proof'[k + 1] = Lemma /\ \A j \in 1 .. k : proof'[j] = proof[j]
  BY <1>0, <1>1, <1>2
<1>4. \A j \in 1 .. k + 1 : j = k + 1 \/ j \in 1 .. k
  BY <1>1
<1>5. k + 1 \in 1 .. k + 1 /\ \A j \in 1 .. k : j \in 1 .. k + 1
  BY <1>1
<1>6. Known \subseteq Known' /\ Lemma \in Known'
  BY <1>1, <1>3, <1>5 DEF Known
<1>7. DpllModels' = DpllModels
  BY DEF DpllModels
<1>8. ASSUME NEW j \in 1 .. k PROVE RupLemma(j)'
  <2>1. KnownTo(j)' = KnownTo(j)
    <3>1. \A h \in 1 .. j - 1 : proof'[h] = proof[h]
      BY <1>1, <1>3
    <3>2. KnownTo(j)' = {LitsOf(formula[i]) : i \in DOMAIN formula} \union {proof'[h] : h \in 1 .. j - 1}
      BY DEF KnownTo
    <3>3. {proof'[h] : h \in 1 .. j - 1} = {proof[h] : h \in 1 .. j - 1}
      BY <3>1
    <3> QED BY <3>2, <3>3 DEF KnownTo
  <2>2. Rup(KnownTo(j), proof[j])
    BY <1>1, RupLemmaIs DEF DpllIInv, DpllProof
  <2>3. proof'[j] = proof[j]
    BY <1>3
  <2>4. Rup(KnownTo(j)', proof'[j])
    BY <2>1, <2>2, <2>3
  <2> QED BY <2>4, RupLemmaWillBe
<1>9. ASSUME NEW j \in 1 .. k + 1, j = k + 1 PROVE RupLemma(j)'
  <2>1. KnownTo(j)' = Known
    <3>1. j - 1 = k
      BY <1>9
    <3>2. KnownTo(j)' = {LitsOf(formula[i]) : i \in DOMAIN formula} \union {proof'[h] : h \in 1 .. j - 1}
      BY DEF KnownTo
    <3>3. {proof'[h] : h \in 1 .. k} = {proof[h] : h \in 1 .. k}
      BY <1>3
    <3> QED BY <1>1, <3>1, <3>2, <3>3 DEF Known
  <2>2. Rup(KnownTo(j)', proof'[j])
    BY <1>2, <1>3, <1>9, <2>1
  <2> QED BY <2>2, RupLemmaWillBe
<1>10. DpllProof'
  <2> SUFFICES ASSUME NEW j \in 1 .. k + 1
               PROVE  RupLemma(j)' /\ \A m \in DpllModels : Hits(m, proof'[j])
    BY <1>3, <1>7 DEF DpllProof
  <2>1. RupLemma(j)'
    BY <1>4, <1>8, <1>9
  <2>2. \A m \in DpllModels : Hits(m, proof'[j])
    BY <1>1, <1>2, <1>3, <1>4 DEF DpllIInv, DpllProof
  <2> QED BY <2>1, <2>2
<1> QED BY <1>0, <1>3, <1>6, <1>10

\* The deepest decision that is not flipped can be flipped.
LEMMA Deepest ==
  ASSUME DpllTyped, Flippable = {}
  PROVE  Lemma = {}
<1> DEFINE s == Len(stack)
           U == {d \in 1 .. s : ~stack[d].flipped}
           G == {s - d : d \in U}
<1>1. s \in Nat /\ DOMAIN stack = 1 .. s
  BY DpllFacts
<1>2. U = {}
  <2> SUFFICES ASSUME U # {} PROVE FALSE
    OBVIOUS
  <2>1. G \in SUBSET Nat /\ G # {}
    BY <1>1
  <2>2. PICK g \in G : \A h \in G : g <= h
    <3> HIDE DEF G
    <3> QED BY <2>1, Least
  <2>3. PICK d \in U : g = s - d
    OBVIOUS
  <2>4. \A e \in d + 1 .. s : stack[e].flipped
    <3> TAKE e \in d + 1 .. s
    <3>1. e \in 1 .. s /\ ~(s - d <= s - e)
      BY <1>1, <2>3
    <3>2. s - e \notin G
      <4> HIDE DEF G
      <4> QED BY <2>2, <2>3, <3>1
    <3> QED BY <3>1, <3>2
  <2>5. d \in Flippable
    BY <1>1, <2>3, <2>4 DEF Flippable
  <2> QED BY <2>5
<1> QED BY <1>1, <1>2 DEF Lemma

\* With every decision flipped, the lemma of the conflict is the empty one.
LEMMA RefutedStep ==
  ASSUME DpllIInv, BackUp, Flippable = {}
  PROVE  DpllIInv'
<1>1. /\ decision = "search" /\ Conflict /\ formula' = formula /\ proof' = Append(proof, Lemma)
      /\ decision' = "UNSAT" /\ stack' = <<>> /\ assigned' = assigned
  BY DEF BackUp
<1>2. Len(proof) \in Nat
  BY DpllFacts DEF DpllIInv
<1>3. /\ proof' \in Seq(SUBSET Lit) /\ Len(proof') = Len(proof) + 1
      /\ proof'[Len(proof) + 1] = {} /\ DpllProof'
  BY <1>1, ProofGrows, Deepest DEF DpllIInv
<1>4. DpllTyped'
  BY <1>1, <1>3 DEF DpllIInv, DpllTyped, Distinct
<1>5. DpllStack' /\ DpllReasons'
  BY <1>1 DEF DpllStack, DpllReasons
<1>6. proof' # <<>> /\ proof'[Len(proof')] = {}
  BY <1>2, <1>3
<1>7. DpllAnswer'
  BY <1>1, <1>6 DEF DpllAnswer
<1> QED BY <1>3, <1>4, <1>5, <1>7 DEF DpllIInv

\* BackUp, when d is the decision that is flipped
Flips(d) ==
  /\ decision = "search" /\ Conflict /\ proof' = Append(proof, Lemma)
  /\ stack' = Append(SubSeq(stack, 1, d - 1), [stack[d] EXCEPT !.flipped = TRUE])
  /\ assigned' = Append(SubSeq(assigned, 1, stack[d].checkpoint), -stack[d].lit)
  /\ decision' = decision /\ formula' = formula

\* What is flipped follows by unit propagation from the lemma just emitted.
LEMMA FlippedStep ==
  ASSUME DpllIInv, NEW d \in Flippable, Flips(d)
  PROVE  DpllIInv'
<1> DEFINE n == stack[d].checkpoint
           l == stack[d].lit
           new == [stack[d] EXCEPT !.flipped = TRUE]
<1>1. /\ Len(assigned) \in Nat /\ DOMAIN assigned = 1 .. Len(assigned)
      /\ assigned \in Seq(Lit) /\ Distinct(assigned)
      /\ Len(stack) \in Nat /\ DOMAIN stack = 1 .. Len(stack) /\ stack \in Seq(Decisions)
      /\ \A e \in 1 .. Len(stack) : stack[e].lit \in Lit /\ stack[e].checkpoint \in Nat
  BY DpllFacts DEF DpllIInv, DpllTyped
<1>2. d \in 1 .. Len(stack) /\ ~stack[d].flipped /\ \A e \in d + 1 .. Len(stack) : stack[e].flipped
  BY <1>1 DEF Flippable
<1>3. /\ n \in Nat /\ n + 1 \in 1 .. Len(assigned) /\ assigned[n + 1] = l
      /\ l \in Lit /\ -l \in Lit /\ -(-l) = l /\ stack[d] \in Decisions
  BY <1>1, <1>2, SatLit DEF DpllIInv, DpllStack
<1>4. new \in Decisions /\ new.lit = l /\ new.checkpoint = n /\ new.flipped
  BY <1>3 DEF Decisions
<1> HIDE DEF n, l, new
<1>5. \A p \in 1 .. n : assigned[p] # -l /\ assigned[p] # -(-l)
  <2> TAKE p \in 1 .. n
  <2>1. p \in 1 .. Len(assigned) /\ p # n + 1
    BY <1>1, <1>3
  <2> QED BY <1>1, <1>3, <2>1 DEF Distinct
<1>6. /\ assigned' \in Seq(Lit) /\ DOMAIN assigned' = 1 .. n + 1
      /\ assigned'[n + 1] = -l /\ \A p \in 1 .. n : assigned'[p] = assigned[p]
      /\ Distinct(assigned')
  <2>1. assigned' = Append(SubSeq(assigned, 1, n), -l) /\ n \in 0 .. Len(assigned)
    <3>1. n \in 0 .. Len(assigned)
      BY <1>1, <1>3
    <3> QED BY <3>1 DEF n, l, Flips
  <2>2. assigned \in Seq(Lit) /\ Distinct(assigned) /\ -l \in Lit
    BY <1>1, <1>3
  <2> QED BY <1>5, <2>1, <2>2, TrailPushed
<1>7. /\ stack' \in Seq(Decisions) /\ DOMAIN stack' = 1 .. d /\ stack'[d] = new
      /\ \A e \in 1 .. d - 1 : stack'[e] = stack[e]
  <2> DEFINE part == SubSeq(stack, 1, d - 1)
  <2>1. part \in Seq(Decisions) /\ Len(part) = d - 1 /\ \A e \in 1 .. d - 1 : part[e] = stack[e]
    BY <1>1, <1>2
  <2>2. stack' = Append(part, new)
    BY DEF new, Flips
  <2> HIDE DEF part
  <2> QED BY <1>2, <1>4, <2>1, <2>2
<1>8. \A e \in 1 .. d : e = d \/ e \in 1 .. d - 1
  BY <1>2
<1>9. \A e \in 1 .. d - 1 : /\ e \in 1 .. Len(stack) /\ stack[e].checkpoint < n
                            /\ stack[e].checkpoint + 1 \in 1 .. n
  <2> TAKE e \in 1 .. d - 1
  <2>1. e \in 1 .. Len(stack) /\ e < d
    BY <1>2
  <2>2. stack[e].checkpoint < n /\ stack[e].checkpoint \in Nat
    <3>1. e \in DOMAIN stack /\ d \in DOMAIN stack
      BY <1>1, <1>2, <2>1
    <3> QED BY <1>1, <2>1, <3>1 DEF DpllIInv, DpllStack, n
  <2>3. n \in Nat
    BY <1>3
  <2>4. stack[e].checkpoint + 1 \in 1 .. n
    BY <2>2, <2>3
  <2> QED BY <2>1, <2>2, <2>4
<1>10. /\ proof' \in Seq(SUBSET Lit) /\ Known \subseteq Known' /\ Lemma \in Known' /\ DpllProof'
  BY ProofGrows DEF Flips
<1>11. DpllTyped'
  <2>1. Distinct(assigned)'
    BY <1>6 DEF Distinct
  <2> QED BY <1>6, <1>7, <1>10, <2>1 DEF DpllIInv, DpllTyped, Flips
<1>12. DpllStack'
  <2>1. ASSUME NEW e \in 1 .. d
        PROVE  /\ stack'[e].checkpoint + 1 \in 1 .. n + 1
               /\ assigned'[stack'[e].checkpoint + 1] = IF stack'[e].flipped THEN -stack'[e].lit ELSE stack'[e].lit
    <3>1. CASE e = d
      <4>1. n + 1 \in 1 .. n + 1
        BY <1>3
      <4> QED BY <1>4, <1>6, <1>7, <3>1, <4>1
    <3>2. CASE e \in 1 .. d - 1
      <4>1. /\ stack'[e] = stack[e] /\ stack[e].checkpoint + 1 \in 1 .. n
            /\ assigned[stack[e].checkpoint + 1] = IF stack[e].flipped THEN -stack[e].lit ELSE stack[e].lit
        BY <1>1, <1>7, <1>9, <3>2 DEF DpllIInv, DpllStack
      <4>2. stack[e].checkpoint + 1 \in 1 .. n + 1
        BY <1>3, <4>1
      <4> QED BY <1>6, <4>1, <4>2
    <3> QED BY <1>8, <3>1, <3>2
  <2>2. ASSUME NEW e \in 1 .. d, NEW g \in 1 .. d, e < g
        PROVE  stack'[e].checkpoint < stack'[g].checkpoint
    <3>1. e \in 1 .. d - 1
      BY <1>2, <2>2
    <3>2. CASE g = d
      BY <1>4, <1>7, <1>9, <3>1, <3>2
    <3>3. CASE g \in 1 .. d - 1
      BY <1>1, <1>7, <1>9, <2>2, <3>1, <3>3 DEF DpllIInv, DpllStack
    <3> QED BY <1>8, <3>2, <3>3
  <2> QED BY <1>6, <1>7, <2>1, <2>2 DEF DpllStack
<1>13. Derived(Known', assigned', n + 1)
  <2>1. -l \in Lemma
    BY <1>1, <1>2 DEF Lemma, l
  <2>2. ASSUME NEW lit \in Lemma \ {-l} PROVE \E q \in 1 .. n : assigned'[q] = -lit
    <3>1. PICK e \in 1 .. Len(stack) : ~stack[e].flipped /\ lit = -stack[e].lit
      BY <1>1 DEF Lemma
    <3>2. e # d
      BY <2>2, <3>1 DEF l
    <3>3. e \in 1 .. d - 1
      BY <1>2, <3>1, <3>2
    <3>4. assigned[stack[e].checkpoint + 1] = stack[e].lit /\ -lit = stack[e].lit
      <4>1. -(-stack[e].lit) = stack[e].lit
        BY <1>1, <3>1, SatLit
      <4> QED BY <1>1, <3>1, <4>1 DEF DpllIInv, DpllStack
    <3> QED BY <1>6, <1>9, <3>3, <3>4
  <2>3. n + 1 - 1 = n
    BY <1>3
  <2>4. assigned'[n + 1] \in Lemma
        /\ \A lit \in Lemma \ {assigned'[n + 1]} : \E q \in 1 .. n + 1 - 1 : assigned'[q] = -lit
    BY <1>6, <2>1, <2>2, <2>3
  <2>5. Lemma \in Known'
    BY <1>10
  <2>6. n + 1 \in Nat
    BY <1>3
  <2>7. ASSUME NEW known, NEW seq, NEW p \in Nat, known = Known', seq = assigned', p = n + 1
        PROVE  Derived(known, seq, p)
    <3>1. Lemma \in known /\ seq[p] = -l /\ p - 1 = n
      <4>1. p - 1 = n
        BY <1>3, <2>7
      <4>2. seq[p] = -l
        BY <1>6, <2>7, Zenon
      <4> QED BY <2>5, <2>7, <4>1, <4>2
    <3>2. \A lit \in Lemma \ {seq[p]} : \E q \in 1 .. p - 1 : seq[q] = -lit
      BY <2>2, <2>7, <3>1
    <3> QED BY <2>1, <3>1, <3>2, DerivedFrom
  <2> QED BY <2>6, <2>7
<1>14. DpllReasons'
  <2> SUFFICES ASSUME NEW p \in 1 .. n + 1 PROVE Decided(p)' \/ Derived(Known', assigned', p)
    BY <1>6 DEF DpllReasons, Flips
  <2>1. CASE p = n + 1
    BY <1>13, <2>1
  <2>2. CASE p # n + 1
    <3>1. p \in 1 .. n /\ p \in 1 .. Len(assigned) /\ p \in Nat \ {0} /\ \A q \in 1 .. p : q \in 1 .. n
      BY <1>1, <1>3, <2>2
    <3>2. Decided(p) \/ Derived(Known, assigned, p)
      BY <1>1, <3>1 DEF DpllIInv, DpllReasons, Flips
    <3>3. ASSUME NEW e \in DOMAIN stack, ~stack[e].flipped, p = stack[e].checkpoint + 1
          PROVE  Decided(p)'
      <4>1. ~(d < e) /\ e # d
        <5>1. d < e => n < stack[e].checkpoint
          BY <1>1, <1>2, <3>3 DEF DpllIInv, DpllStack, n
        <5>2. e # d
          BY <1>3, <3>1, <3>3 DEF n
        <5>3. stack[e].checkpoint \in Nat
          BY <1>1, <3>3
        <5> QED BY <1>3, <3>1, <3>3, <5>1, <5>2, <5>3
      <4>2. e \in 1 .. d - 1 /\ e \in 1 .. d
        BY <1>1, <1>2, <3>3, <4>1
      <4>3. stack'[e] = stack[e] /\ e \in DOMAIN stack'
        BY <1>7, <4>2
      <4> QED BY <3>3, <4>3 DEF Decided
    <3>4. ASSUME Derived(Known, assigned, p) PROVE Derived(Known', assigned', p)
      BY <1>6, <1>10, <3>1, <3>4, DerivedKept
    <3> QED BY <3>2, <3>3, <3>4 DEF Decided
  <2> QED BY <2>1, <2>2
<1>15. DpllAnswer'
  BY DEF DpllAnswer, Flips
<1> QED BY <1>10, <1>11, <1>12, <1>14, <1>15 DEF DpllIInv

\* The search begins with nothing assigned, decided or proved.
LEMMA DpllStart == DpllInit => DpllIInv
<1> SUFFICES ASSUME DpllInit PROVE DpllIInv
  OBVIOUS
<1>1. formula \in Formulas /\ assigned = <<>> /\ stack = <<>> /\ proof = <<>> /\ decision = "search"
  BY DEF DpllInit
<1>2. formula \in Seq(Seq(Lit))
  BY <1>1, DpllFormulasAssumption
<1>3. DpllTyped
  BY <1>1, <1>2 DEF DpllTyped, Distinct
<1>4. DpllStack /\ DpllReasons /\ DpllProof /\ DpllAnswer
  BY <1>1 DEF DpllStack, DpllReasons, DpllProof, DpllAnswer
<1> QED BY <1>3, <1>4 DEF DpllIInv

\* Every step of solve_3sat and its mirror keeps what the proof relies on.
LEMMA DpllStep == DpllIInv /\ [DpllNext]_dpllVars => DpllIInv'
<1>1. ASSUME DpllIInv, BackUp PROVE DpllIInv'
  <2>1. CASE \E d \in Flippable : Flips(d)
    BY <1>1, <2>1, FlippedStep
  <2>2. CASE Flippable = {}
    BY <1>1, <2>2, RefutedStep
  <2> QED BY <1>1, <2>1, <2>2 DEF BackUp, Flips
<1>2. ASSUME DpllIInv, UNCHANGED dpllVars PROVE DpllIInv'
  <2>1. formula' = formula /\ assigned' = assigned /\ stack' = stack /\ proof' = proof /\ decision' = decision
    BY <1>2 DEF dpllVars
  <2>2. DpllProof' /\ Known' = Known
    BY <1>2, <2>1, ProofKept DEF DpllIInv
  <2>3. DpllTyped' /\ DpllStack' /\ DpllAnswer'
    BY <1>2, <2>1 DEF DpllIInv, DpllTyped, Distinct, DpllStack, DpllAnswer, SatisfiedBy
  <2>4. DpllReasons'
    BY <1>2, <2>1, <2>2 DEF DpllIInv, DpllReasons, Decided
  <2> QED BY <2>2, <2>3, <2>4 DEF DpllIInv
<1> QED BY <1>1, <1>2, ImplyStep, ChooseStep, FoundStep DEF DpllNext

\* The search of the manifest keeps its trail, its decisions and its proof in step:
\* every entry is decided or derived, and every lemma follows.
THEOREM SearchHolds == ManifestSpec => []DpllIInv
<1>1. ManifestInit(Instances) => DpllIInv
  BY DpllStart DEF ManifestInit
<1>2. DpllIInv /\ [ManifestNext]_manifestVars => DpllIInv'
  BY DpllStep DEF ManifestNext, AddRecord, manifestVars
<1> QED BY <1>1, <1>2, PTL DEF ManifestSpec

\* Every lemma that solve_with_proof emits passes run_drat, whichever decisions were
\* flipped before it, and a refutation ends with the empty lemma.
THEOREM ProofsAreRight == ManifestSpec => []LemmasFollow
<1>1. DpllIInv => LemmasFollow
  <2> SUFFICES ASSUME DpllIInv PROVE LemmasFollow
    OBVIOUS
  <2>1. proof # <<>> => Len(proof) \in DOMAIN proof
    BY DEF DpllIInv, DpllTyped
  <2> QED BY <2>1 DEF DpllIInv, DpllProof, DpllAnswer, LemmasFollow
<1> QED BY <1>1, SearchHolds, PTL

-----------------------------------------------------------------------------
(* The components of TwoSat                                                 *)

Closed(E, S) == \A e \in E : e[1] \in S => e[2] \in S

\* b is reached from a over the edges of E.
Reaches(E, a, b) == \A S \in SUBSET Lit : a \in S /\ Closed(E, S) => b \in S

Mutual(E, a, b) == Reaches(E, a, b) /\ Reaches(E, b, a)

\* Reaching is reflexive and transitive, and so is reaching each other.
LEMMA ReachFacts ==
  ASSUME NEW E \in SUBSET (Lit \X Lit)
  PROVE  /\ \A a \in Lit : Reaches(E, a, a) /\ Mutual(E, a, a)
         /\ \A a, b, c \in Lit : Reaches(E, a, b) /\ Reaches(E, b, c) => Reaches(E, a, c)
         /\ \A a, b \in Lit : <<a, b>> \in E => Reaches(E, a, b)
         /\ \A a, b \in Lit : Mutual(E, a, b) => Mutual(E, b, a)
         /\ \A a, b, c \in Lit : Mutual(E, a, b) /\ Mutual(E, b, c) => Mutual(E, a, c)
<1>1. \A a \in Lit : Reaches(E, a, a)
  BY DEF Reaches
<1>2. \A a, b, c \in Lit : Reaches(E, a, b) /\ Reaches(E, b, c) => Reaches(E, a, c)
  BY DEF Reaches
<1>3. \A a, b \in Lit : <<a, b>> \in E => Reaches(E, a, b)
  <2> SUFFICES ASSUME NEW a \in Lit, NEW b \in Lit, <<a, b>> \in E,
                      NEW S \in SUBSET Lit, a \in S, Closed(E, S)
               PROVE  b \in S
    BY DEF Reaches
  <2>1. <<a, b>>[1] = a /\ <<a, b>>[2] = b
    OBVIOUS
  <2> QED BY <2>1 DEF Closed
<1> QED BY <1>1, <1>2, <1>3 DEF Mutual

\* The finished literals that share no component with one on the path
Black(E, onPath, done) == {u \in done : \A g \in onPath : ~Mutual(E, u, g)}

\* What the first search has at any time: the path is one, without repetitions, of
\* what is not finished; the successors of what is finished were seen, and those of
\* what is black are black.
Searched1(E, p, done) ==
  /\ \A i, j \in 1 .. Len(p) : i <= j => Reaches(E, p[i], p[j])
  /\ \A i, j \in 1 .. Len(p) : p[i] = p[j] => i = j
  /\ LitsOf(p) \intersect done = {}
  /\ \A u \in done, v \in Lit : <<u, v>> \in E => v \in done \union LitsOf(p)
  /\ Closed(E, Black(E, LitsOf(p), done))

\* From whatever w is reached, a literal of its component is finished later.
Ordered(E, f) ==
  \A k \in DOMAIN f : \A u \in Lit :
    Reaches(E, u, f[k]) =>
      \E twin \in Lit : /\ Mutual(E, u, twin)
                        /\ twin \notin LitsOf(f) \/ \E j \in k .. Len(f) : f[j] = twin

\* A sequence of literals and the set of them
LEMMA SeqLits ==
  ASSUME NEW seq \in Seq(Lit)
  PROVE  /\ LitsOf(seq) \in SUBSET Lit /\ DOMAIN seq = 1 .. Len(seq) /\ Len(seq) \in Nat
         /\ \A i \in 1 .. Len(seq) : seq[i] \in Lit /\ seq[i] \in LitsOf(seq)
         /\ \A lit \in LitsOf(seq) : \E i \in 1 .. Len(seq) : seq[i] = lit
BY DEF LitsOf

\* A literal is put at the end.
LEMMA Appended3 ==
  ASSUME NEW seq \in Seq(Lit), NEW lit \in Lit
  PROVE  LET longer == Append(seq, lit)
         IN  /\ longer \in Seq(Lit) /\ Len(longer) = Len(seq) + 1 /\ DOMAIN longer = 1 .. Len(seq) + 1
             /\ longer[Len(seq) + 1] = lit /\ \A i \in 1 .. Len(seq) : longer[i] = seq[i]
             /\ LitsOf(longer) = LitsOf(seq) \union {lit}
<1> DEFINE longer == Append(seq, lit)
           n == Len(seq)
<1>1. /\ longer \in Seq(Lit) /\ Len(longer) = n + 1 /\ DOMAIN longer = 1 .. n + 1
      /\ longer[n + 1] = lit /\ (\A i \in 1 .. n : longer[i] = seq[i])
      /\ n \in Nat /\ DOMAIN seq = 1 .. n
  OBVIOUS
<1> HIDE DEF longer, n
<1>2. \A i \in 1 .. n + 1 : i = n + 1 \/ i \in 1 .. n
  BY <1>1
<1>3. n + 1 \in 1 .. n + 1 /\ \A i \in 1 .. n : i \in 1 .. n + 1
  BY <1>1
<1>4. LitsOf(longer) = LitsOf(seq) \union {lit}
  BY <1>1, <1>2, <1>3 DEF LitsOf
<1> QED BY <1>1, <1>4 DEF longer, n

\* The last literal is taken off.
LEMMA Popped ==
  ASSUME NEW seq \in Seq(Lit), seq # <<>>
  PROVE  LET n       == Len(seq)
             shorter == SubSeq(seq, 1, n - 1)
         IN  /\ n \in Nat \ {0} /\ seq[n] \in Lit
             /\ shorter \in Seq(Lit) /\ Len(shorter) = n - 1 /\ DOMAIN shorter = 1 .. n - 1
             /\ \A i \in 1 .. n - 1 : shorter[i] = seq[i]
             /\ LitsOf(seq) = LitsOf(shorter) \union {seq[n]}
<1> DEFINE n == Len(seq)
           shorter == SubSeq(seq, 1, n - 1)
<1>1. n \in Nat \ {0} /\ DOMAIN seq = 1 .. n
  OBVIOUS
<1>2. /\ shorter \in Seq(Lit) /\ Len(shorter) = n - 1 /\ DOMAIN shorter = 1 .. n - 1
      /\ \A i \in 1 .. n - 1 : shorter[i] = seq[i]
  BY <1>1
<1>3. seq[n] \in Lit
  BY <1>1
<1> HIDE DEF n, shorter
<1>4. \A i \in 1 .. n : i = n \/ i \in 1 .. n - 1
  BY <1>1
<1>5. n \in 1 .. n /\ \A i \in 1 .. n - 1 : i \in 1 .. n
  BY <1>1
<1>6. LitsOf(seq) = LitsOf(shorter) \union {seq[n]}
  BY <1>1, <1>2, <1>4, <1>5 DEF LitsOf
<1> QED BY <1>1, <1>2, <1>3, <1>6 DEF n, shorter

\* dfs1 goes on to a literal that was not seen.
LEMMA Descends ==
  ASSUME NEW E \in SUBSET (Lit \X Lit), NEW p \in Seq(Lit), NEW done \in SUBSET Lit, NEW x \in Lit,
         Searched1(E, p, done), x \notin done \union LitsOf(p),
         p # <<>> => <<p[Len(p)], x>> \in E
  PROVE  Searched1(E, Append(p, x), done)
<1> DEFINE n == Len(p)
           q == Append(p, x)
<1>1. /\ n \in Nat /\ \A i \in 1 .. n : p[i] \in Lit
      /\ LitsOf(p) \in SUBSET Lit
  BY SeqLits
<1>2. /\ Len(q) = n + 1 /\ q[n + 1] = x /\ (\A i \in 1 .. n : q[i] = p[i])
      /\ LitsOf(q) = LitsOf(p) \union {x}
  BY Appended3
<1>3. \A i \in 1 .. n : Reaches(E, p[i], x)
  <2> TAKE i \in 1 .. n
  <2>1. n \in 1 .. n /\ i <= n /\ p # <<>>
    BY <1>1
  <2>2. Reaches(E, p[i], p[n]) /\ <<p[n], x>> \in E
    BY <2>1 DEF Searched1
  <2> QED BY <1>1, <2>1, <2>2, ReachFacts
<1> HIDE DEF n, q
<1>4. \A i, j \in 1 .. n + 1 : i <= j => Reaches(E, q[i], q[j])
  <2> SUFFICES ASSUME NEW i \in 1 .. n + 1, NEW j \in 1 .. n + 1, i <= j PROVE Reaches(E, q[i], q[j])
    OBVIOUS
  <2>1. CASE j \in 1 .. n
    <3>1. i \in 1 .. n
      BY <1>1, <2>1
    <3> QED BY <1>2, <2>1, <3>1 DEF Searched1, n
  <2>2. CASE j = n + 1 /\ i \in 1 .. n
    BY <1>2, <1>3, <2>2
  <2>3. CASE j = n + 1 /\ i = n + 1
    BY <1>2, <2>3, ReachFacts
  <2> QED BY <1>1, <2>1, <2>2, <2>3
<1>5. \A u \in done, v \in Lit : <<u, v>> \in E => v \in done \union LitsOf(q)
  BY <1>2 DEF Searched1
<1>7. LitsOf(q) \intersect done = {}
  BY <1>2 DEF Searched1
<1>8. \A i, j \in 1 .. n + 1 : q[i] = q[j] => i = j
  <2>1. \A i \in 1 .. n + 1 : i = n + 1 \/ i \in 1 .. n
    BY <1>1
  <2>2. \A i \in 1 .. n : p[i] # x
    BY SeqLits DEF n
  <2>3. \A i, j \in 1 .. n : p[i] = p[j] => i = j
    BY DEF Searched1, n
  <2> QED BY <1>2, <2>1, <2>2, <2>3
<1>6. Closed(E, Black(E, LitsOf(q), done))
  <2> DEFINE B == Black(E, LitsOf(p), done)
  <2>1. Closed(E, B) /\ B \in SUBSET Lit /\ B \subseteq done
    BY DEF Searched1, Black
  <2> SUFFICES ASSUME NEW e \in E, e[1] \in Black(E, LitsOf(q), done)
               PROVE  e[2] \in Black(E, LitsOf(q), done)
    BY DEF Closed
  <2>2. e[1] \in B
    BY <1>2 DEF Black
  <2>3. e[2] \in B
    BY <2>1, <2>2 DEF Closed
  <2>4. ~Mutual(E, e[2], x)
    BY <2>1, <2>3 DEF Mutual, Reaches
  <2> HIDE DEF B
  <2>5. \A g \in LitsOf(p) : ~Mutual(E, e[2], g)
    BY <2>3 DEF B, Black
  <2>6. e[2] \in done
    BY <2>1, <2>3
  <2> QED BY <1>2, <2>4, <2>5, <2>6 DEF Black
<1> QED BY <1>2, <1>4, <1>5, <1>6, <1>7, <1>8 DEF Searched1, q

\* dfs1 leaves the top of the path, whose successors were seen.
LEMMA Leaves ==
  ASSUME NEW E \in SUBSET (Lit \X Lit), NEW p \in Seq(Lit), NEW done \in SUBSET Lit,
         Searched1(E, p, done), p # <<>>,
         \A v \in Lit : <<p[Len(p)], v>> \in E => v \in done \union LitsOf(p)
  PROVE  Searched1(E, SubSeq(p, 1, Len(p) - 1), done \union {p[Len(p)]})
<1> DEFINE n == Len(p)
           q == SubSeq(p, 1, n - 1)
           top == p[n]
           more == done \union {top}
<1>1. /\ n \in Nat \ {0} /\ top \in Lit /\ Len(q) = n - 1
      /\ (\A i \in 1 .. n - 1 : q[i] = p[i])
      /\ LitsOf(p) = LitsOf(q) \union {top} /\ q \in Seq(Lit)
  BY Popped
<1>2. LitsOf(p) \in SUBSET Lit /\ LitsOf(q) \in SUBSET Lit
  BY <1>1, SeqLits
<1>3. \A g \in LitsOf(p) : Reaches(E, g, top)
  <2> TAKE g \in LitsOf(p)
  <2>1. PICK i \in 1 .. n : p[i] = g
    BY SeqLits
  <2>2. n \in 1 .. n /\ i <= n
    BY <1>1
  <2> QED BY <2>1, <2>2 DEF Searched1
<1>4. \A u \in more, v \in Lit : <<u, v>> \in E => v \in done \union LitsOf(p)
  BY DEF Searched1
<1> HIDE DEF n, q, top, more
<1>5. \A i, j \in 1 .. n - 1 : i <= j => Reaches(E, q[i], q[j])
  <2>1. \A i \in 1 .. n - 1 : i \in 1 .. n
    BY <1>1
  <2> QED BY <1>1, <2>1 DEF Searched1, n
<1>6. done \union LitsOf(p) = more \union LitsOf(q)
  BY <1>1 DEF more
<1>8. \A i, j \in 1 .. n - 1 : q[i] = q[j] => i = j
  <2>1. \A i \in 1 .. n - 1 : i \in 1 .. n
    BY <1>1
  <2> QED BY <1>1, <2>1 DEF Searched1, n
<1>9. LitsOf(q) \intersect more = {}
  <2> SUFFICES ASSUME NEW g \in LitsOf(q), g = top PROVE FALSE
    BY <1>1 DEF more, Searched1
  <2>1. PICK i \in 1 .. n - 1 : q[i] = g
    BY <1>1, SeqLits
  <2>2. p[i] = p[n] /\ i \in 1 .. n /\ n \in 1 .. n /\ i # n
    BY <1>1, <2>1 DEF top
  <2> QED BY <2>2 DEF Searched1, n
<1>7. Closed(E, Black(E, LitsOf(q), more))
  <2> DEFINE B == Black(E, LitsOf(p), done)
             C == Black(E, LitsOf(q), more)
  <2>1. Closed(E, B) /\ B \in SUBSET Lit /\ B \subseteq C
    BY <1>1 DEF Searched1, Black, more
  <2> SUFFICES ASSUME NEW e \in E, e[1] \in C PROVE e[2] \in C
    BY DEF Closed
  <2>2. PICK u \in Lit, v \in Lit : e = <<u, v>>
    OBVIOUS
  <2>3. e[1] = u /\ e[2] = v /\ <<u, v>> \in E
    BY <2>2
  <2>4. u \in more /\ (u \in done \/ u = top) /\ \A g \in LitsOf(q) : ~Mutual(E, u, g)
    BY <2>3 DEF Black, more
  <2>5. CASE u \in B
    BY <2>1, <2>3, <2>5 DEF Closed
  <2>6. CASE u \notin B
    <3>1. Mutual(E, u, top)
      <4>1. CASE u = top
        BY <1>1, <4>1, ReachFacts
      <4>2. CASE u \in done
        <5>1. PICK g \in LitsOf(p) : Mutual(E, u, g)
          BY <2>6, <4>2 DEF Black
        <5>2. g = top
          BY <1>1, <2>4, <5>1
        <5> QED BY <5>1, <5>2
      <4> QED BY <2>4, <4>1, <4>2
    <3>2. Reaches(E, u, v)
      BY <2>3, ReachFacts
    <3>3. \A g \in LitsOf(p) : Reaches(E, v, g) => Mutual(E, v, top)
      <4> SUFFICES ASSUME NEW g \in LitsOf(p), Reaches(E, v, g) PROVE Mutual(E, v, top)
        OBVIOUS
      <4>1. Reaches(E, v, top)
        BY <1>1, <1>2, <1>3, ReachFacts
      <4>2. Reaches(E, top, v)
        BY <1>1, <3>1, <3>2, ReachFacts DEF Mutual
      <4> QED BY <4>1, <4>2 DEF Mutual
    <3>4. \A g \in LitsOf(q) : ~Mutual(E, v, g)
      <4> SUFFICES ASSUME NEW g \in LitsOf(q), Mutual(E, v, g) PROVE FALSE
        OBVIOUS
      <4>1. g \in LitsOf(p) /\ g \in Lit
        BY <1>1, <1>2
      <4>2. Mutual(E, v, top)
        BY <3>3, <4>1 DEF Mutual
      <4>3. Mutual(E, u, g)
        BY <1>1, <3>1, <4>1, <4>2, ReachFacts
      <4> QED BY <2>4, <4>3
    <3>5. v \in done \union LitsOf(p)
      BY <1>4, <2>3, <2>4
    <3>6. v \in more
      <4>1. ASSUME v \in LitsOf(q) PROVE FALSE
        BY <3>4, <4>1, ReachFacts
      <4> QED BY <1>6, <3>5, <4>1
    <3> QED BY <2>3, <3>4, <3>6 DEF Black
  <2> QED BY <2>5, <2>6
<1> QED BY <1>1, <1>4, <1>5, <1>6, <1>7, <1>8, <1>9 DEF Searched1, n, q, top, more

\* The order in which dfs1 leaves literals is kept.
LEMMA LeavesOrdered ==
  ASSUME NEW E \in SUBSET (Lit \X Lit), NEW p \in Seq(Lit), NEW f \in Seq(Lit),
         Searched1(E, p, LitsOf(f)), Ordered(E, f), p # <<>>
  PROVE  Ordered(E, Append(f, p[Len(p)]))
<1> DEFINE n == Len(f)
           top == p[Len(p)]
           h == Append(f, top)
<1>1. top \in Lit /\ top \in LitsOf(p) /\ LitsOf(p) \in SUBSET Lit
  <2>1. top \in Lit /\ Len(p) \in Nat \ {0}
    BY Popped
  <2>2. Len(p) \in 1 .. Len(p)
    BY <2>1
  <2> QED BY <2>1, <2>2, SeqLits
<1> HIDE DEF top
<1>2. /\ Len(h) = n + 1 /\ DOMAIN h = 1 .. n + 1 /\ h[n + 1] = top
      /\ (\A i \in 1 .. n : h[i] = f[i]) /\ LitsOf(h) = LitsOf(f) \union {top}
  BY <1>1, Appended3
<1>3. n \in Nat /\ DOMAIN f = 1 .. n /\ LitsOf(f) \in SUBSET Lit
  BY SeqLits
<1> HIDE DEF n, h
<1> SUFFICES Ordered(E, h)
  BY DEF h, top
<1> SUFFICES ASSUME NEW k \in 1 .. n + 1, NEW u \in Lit, Reaches(E, u, h[k])
             PROVE  \E twin \in Lit :
                      /\ Mutual(E, u, twin)
                      /\ twin \notin LitsOf(h) \/ \E j \in k .. n + 1 : h[j] = twin
  BY <1>2, <1>3 DEF Ordered
<1>4. n + 1 \in k .. n + 1
  BY <1>3
<1>5. CASE k \in 1 .. n
  <2>1. PICK twin \in Lit : /\ Mutual(E, u, twin)
                            /\ twin \notin LitsOf(f) \/ \E j \in k .. n : f[j] = twin
    BY <1>2, <1>3, <1>5 DEF Ordered, n
  <2>2. twin \notin LitsOf(f) => twin \notin LitsOf(h) \/ h[n + 1] = twin
    BY <1>2
  <2>3. \A j \in k .. n : j \in 1 .. n /\ j \in k .. n + 1 /\ h[j] = f[j]
    BY <1>2, <1>3, <1>5
  <2> QED BY <1>4, <2>1, <2>2, <2>3
<1>6. CASE k = n + 1
  <2>1. Reaches(E, u, top)
    BY <1>2, <1>6
  <2>2. CASE u \notin LitsOf(f)
    <3>1. u \notin LitsOf(h) \/ h[n + 1] = u
      BY <1>2, <2>2
    <3> QED BY <1>4, <3>1, ReachFacts
  <2>3. CASE u \in LitsOf(f)
    <3> DEFINE B == Black(E, LitsOf(p), LitsOf(f))
    <3>1. Closed(E, B) /\ B \in SUBSET Lit
      BY <1>3 DEF Searched1, Black
    <3>2. top \notin B
      BY <1>1, ReachFacts DEF Black
    <3>3. u \notin B
      <4> HIDE DEF B
      <4> QED BY <2>1, <3>1, <3>2 DEF Reaches
    <3>4. PICK g \in LitsOf(p) : Mutual(E, u, g)
      BY <2>3, <3>3 DEF Black
    <3>5. g \notin LitsOf(f) /\ g \in Lit
      BY <1>1, <3>4 DEF Searched1
    <3>6. g \notin LitsOf(h) \/ h[n + 1] = g
      BY <1>2, <3>5
    <3> QED BY <1>2, <1>4, <1>6, <3>4, <3>5, <3>6
  <2> QED BY <2>2, <2>3
<1> QED BY <1>3, <1>5, <1>6

\* Component c of comp cmp begins at the k-th finished literal: what was finished
\* later has an earlier component, and the members reach each other.
Root(E, f, cmp, c, k) ==
  /\ cmp[f[k]] = c
  /\ \A j \in k + 1 .. Len(f) : cmp[f[j]] \in 0 .. c - 1
  /\ \A p \in Lit : cmp[p] = c => Mutual(E, p, f[k])

\* What the second search has at any time, with n components begun and w to be done:
\* what implies a literal that is done has a component, no later than its own.
Grouped(E, f, cmp, n, w) ==
  /\ \A p \in Lit : cmp[p] \in -1 .. n - 1
  /\ \A p \in w : cmp[p] = n - 1 /\ n # 0
  /\ \A p, q \in Lit : <<p, q>> \in E /\ cmp[q] # -1 /\ q \notin w => cmp[p] \in 0 .. cmp[q]
  /\ \A c \in 0 .. n - 1 : \E k \in 1 .. Len(f) : Root(E, f, cmp, c, k)

\* dfs2 begins a component.
LEMMA Begins ==
  ASSUME NEW E \in SUBSET (Lit \X Lit), NEW f \in Seq(Lit), NEW cmp \in [Lit -> Int], NEW n \in Nat,
         Grouped(E, f, cmp, n, {}), NEW k \in 1 .. Len(f), cmp[f[k]] = -1,
         \A j \in k + 1 .. Len(f) : cmp[f[j]] # -1
  PROVE  Grouped(E, f, [cmp EXCEPT ![f[k]] = n], n + 1, {f[k]})
<1> DEFINE root == f[k]
           new == [cmp EXCEPT ![root] = n]
<1>1. /\ root \in Lit /\ Len(f) \in Nat /\ \A j \in 1 .. Len(f) : f[j] \in Lit
  BY SeqLits
<1>2. new \in [Lit -> Int] /\ new[root] = n /\ \A p \in Lit : p # root => new[p] = cmp[p]
  BY <1>1
<1>3. \A p \in Lit : cmp[p] \in Int /\ cmp[p] >= -1 /\ cmp[p] < n
  BY DEF Grouped
<1>0. cmp[root] = -1
  OBVIOUS
<1> HIDE DEF new, root
<1>4. \A p \in Lit : new[p] \in -1 .. n
  <2> TAKE p \in Lit
  <2>1. CASE p = root
    BY <1>2, <2>1
  <2>2. CASE p # root
    <3>1. new[p] = cmp[p] /\ cmp[p] \in -1 .. n - 1
      BY <1>2, <2>2 DEF Grouped
    <3> QED BY <3>1
  <2> QED BY <2>1, <2>2
<1>5. \A p, q \in Lit : <<p, q>> \in E /\ new[q] # -1 /\ q \notin {root} => new[p] \in 0 .. new[q]
  <2> SUFFICES ASSUME NEW p \in Lit, NEW q \in Lit, <<p, q>> \in E, new[q] # -1, q # root
               PROVE  new[p] \in 0 .. new[q]
    OBVIOUS
  <2>1. new[q] = cmp[q] /\ cmp[p] \in 0 .. cmp[q]
    BY <1>2 DEF Grouped
  <2>2. p # root
    BY <1>0, <2>1
  <2> QED BY <1>2, <2>1, <2>2
<1>6. ASSUME NEW c \in 0 .. n PROVE \E j \in 1 .. Len(f) : Root(E, f, new, c, j)
  <2>1. CASE c = n
    <3>1. \A j \in k + 1 .. Len(f) : new[f[j]] \in 0 .. n - 1
      <4> TAKE j \in k + 1 .. Len(f)
      <4>1. f[j] \in Lit /\ cmp[f[j]] # -1
        BY <1>1
      <4>2. f[j] # root
        BY <1>0, <4>1
      <4> QED BY <1>2, <1>3, <4>1, <4>2
    <3>2. \A p \in Lit : new[p] = n => p = root
      BY <1>2, <1>3
    <3>3. \A p \in Lit : new[p] = n => Mutual(E, p, root)
      BY <1>1, <3>2, ReachFacts
    <3> QED BY <1>2, <2>1, <3>1, <3>3 DEF Root, root
  <2>2. CASE c \in 0 .. n - 1
    <3>1. PICK j \in 1 .. Len(f) : Root(E, f, cmp, c, j)
      BY <2>2 DEF Grouped
    <3>2. f[j] # root
      BY <1>0, <2>2, <3>1 DEF Root
    <3>3. new[f[j]] = c
      BY <1>1, <1>2, <3>1, <3>2 DEF Root
    <3>4. \A i \in j + 1 .. Len(f) : new[f[i]] \in 0 .. c - 1
      <4> TAKE i \in j + 1 .. Len(f)
      <4>1. f[i] \in Lit /\ cmp[f[i]] \in 0 .. c - 1
        BY <1>1, <3>1 DEF Root
      <4>2. cmp[f[i]] # -1
        BY <2>2, <4>1
      <4>3. f[i] # root
        BY <1>0, <4>2
      <4> QED BY <1>2, <4>1, <4>3
    <3>5. \A p \in Lit : new[p] = c => cmp[p] = c
      BY <1>2, <2>2
    <3> QED BY <3>1, <3>3, <3>4, <3>5 DEF Root
  <2> QED BY <2>1, <2>2
<1>7. n + 1 - 1 = n
  OBVIOUS
<1>8. Grouped(E, f, new, n + 1, {root})
  BY <1>2, <1>4, <1>5, <1>6, <1>7 DEF Grouped
<1> QED BY <1>8 DEF new, root

\* dfs2 goes on: the predecessors without a component join.
LEMMA Gathers ==
  ASSUME NEW E \in SUBSET (Lit \X Lit), NEW f \in Seq(Lit), Lit \subseteq LitsOf(f), Ordered(E, f),
         NEW cmp \in [Lit -> Int], NEW n \in Nat, NEW w \in SUBSET Lit,
         Grouped(E, f, cmp, n, w), NEW lit \in w,
         NEW joining \in SUBSET Lit, \A p \in Lit : p \in joining <=> <<p, lit>> \in E /\ cmp[p] = -1,
         NEW new, \A p \in Lit : new[p] = IF p \in joining THEN n - 1 ELSE cmp[p]
  PROVE  Grouped(E, f, new, n, (w \ {lit}) \union joining)
<1> DEFINE left == (w \ {lit}) \union joining
<1>1. /\ Len(f) \in Nat /\ DOMAIN f = 1 .. Len(f) /\ \A j \in 1 .. Len(f) : f[j] \in Lit
  BY SeqLits
<1>2. /\ \A p \in joining : p \in Lit /\ new[p] = n - 1 /\ cmp[p] = -1 /\ <<p, lit>> \in E
      /\ \A p \in Lit : p \notin joining => new[p] = cmp[p]
  OBVIOUS
<1>3. /\ \A p \in Lit : cmp[p] \in Int /\ cmp[p] >= -1 /\ cmp[p] < n
      /\ lit \in Lit /\ cmp[lit] = n - 1 /\ n # 0
      /\ \A p \in w : cmp[p] = n - 1
  BY DEF Grouped
<1>4. \A p \in Lit : cmp[p] # -1 => p \notin joining /\ new[p] = cmp[p]
  BY <1>2
<1>13. \A p \in Lit : <<p, lit>> \in E /\ cmp[p] = -1 => p \in joining
  OBVIOUS
<1>5. PICK k \in 1 .. Len(f) : Root(E, f, cmp, n - 1, k)
  <2>1. n - 1 \in 0 .. n - 1
    BY <1>3
  <2> QED BY <2>1 DEF Grouped
<1>6. ASSUME NEW p \in joining PROVE Mutual(E, p, f[k])
  <2> DEFINE Early == {q \in Lit : cmp[q] \in 0 .. n - 2}
             Late == Lit \ Early
  <2>1. Closed(E, Late)
    <3> SUFFICES ASSUME NEW e \in E, e[1] \in Late, e[2] \notin Late PROVE FALSE
      BY DEF Closed
    <3>1. PICK a \in Lit, b \in Lit : e = <<a, b>>
      OBVIOUS
    <3>2. e[1] = a /\ e[2] = b /\ <<a, b>> \in E
      BY <3>1
    <3>3. b \in Early
      BY <3>2
    <3>4. cmp[b] \in 0 .. n - 2 /\ b \notin w
      BY <1>3, <3>3
    <3>7. cmp[b] # -1
      BY <1>3, <3>4
    <3>5. cmp[a] \in 0 .. cmp[b]
      BY <3>2, <3>4, <3>7 DEF Grouped
    <3>6. a \in Early
      BY <1>3, <3>4, <3>5
    <3> QED BY <3>2, <3>6
  <2>2. p \in Lit /\ p \in Late
    <3>1. p \in Lit /\ cmp[p] = -1
      BY <1>2
    <3>2. ~(cmp[p] \in 0 .. n - 2)
      BY <3>1
    <3> QED BY <3>1, <3>2
  <2>3. Reaches(E, p, lit) /\ Mutual(E, lit, f[k])
    BY <1>2, <1>3, <1>5, ReachFacts DEF Root
  <2>4. Reaches(E, p, f[k])
    BY <1>1, <1>3, <2>2, <2>3, ReachFacts DEF Mutual
  <2>5. PICK twin \in Lit : /\ Mutual(E, p, twin)
                            /\ twin \notin LitsOf(f) \/ \E j \in k .. Len(f) : f[j] = twin
    BY <1>1, <2>2, <2>4 DEF Ordered
  <2>6. PICK j \in k .. Len(f) : f[j] = twin
    BY <2>5
  <2>7. twin \in Late
    <3> HIDE DEF Late
    <3>1. Late \in SUBSET Lit
      BY DEF Late
    <3> QED BY <2>1, <2>2, <2>5, <3>1 DEF Mutual, Reaches
  <2>8. j = k
    <3> SUFFICES ASSUME j # k PROVE FALSE
      OBVIOUS
    <3>1. j \in k + 1 .. Len(f) /\ n - 1 - 1 = n - 2
      BY <1>1
    <3>2. cmp[twin] \in 0 .. n - 2
      BY <1>5, <2>6, <3>1 DEF Root
    <3> QED BY <2>7, <3>2
  <2> QED BY <2>5, <2>6, <2>8
<1>7. \A p \in Lit : new[p] \in -1 .. n - 1
  <2> TAKE p \in Lit
  <2>1. CASE p \in joining
    BY <1>2, <1>3, <2>1
  <2>2. CASE p \notin joining
    <3>1. new[p] = cmp[p] /\ cmp[p] \in -1 .. n - 1
      BY <1>2, <2>2 DEF Grouped
    <3> QED BY <3>1
  <2> QED BY <2>1, <2>2
<1>8. \A p \in left : new[p] = n - 1 /\ n # 0
  <2> TAKE p \in left
  <2>1. CASE p \in joining
    BY <1>2, <1>3, <2>1
  <2>2. CASE p \in w
    <3>1. cmp[p] = n - 1 /\ p \in Lit /\ cmp[p] # -1
      BY <1>3, <2>2
    <3> QED BY <1>3, <1>4, <3>1
  <2> QED BY <2>1, <2>2
<1>9. \A p, q \in Lit : <<p, q>> \in E /\ new[q] # -1 /\ q \notin left => new[p] \in 0 .. new[q]
  <2> SUFFICES ASSUME NEW p \in Lit, NEW q \in Lit, <<p, q>> \in E, new[q] # -1, q \notin left
               PROVE  new[p] \in 0 .. new[q]
    OBVIOUS
  <2>1. q \notin joining /\ new[q] = cmp[q] /\ (q \in w => q = lit)
    BY <1>2
  <2>2. CASE q \notin w
    <3>1. cmp[p] \in 0 .. cmp[q] /\ cmp[p] # -1
      BY <1>3, <2>1, <2>2 DEF Grouped
    <3> QED BY <1>4, <2>1, <3>1
  <2>3. CASE q = lit
    <3>1. new[p] # -1 /\ new[q] = n - 1
      BY <1>2, <1>3, <1>13, <2>1, <2>3
    <3> QED BY <1>3, <1>7, <3>1
  <2> QED BY <2>1, <2>2, <2>3
<1>10. ASSUME NEW c \in 0 .. n - 1 PROVE \E j \in 1 .. Len(f) : Root(E, f, new, c, j)
  <2>1. PICK j \in 1 .. Len(f) : Root(E, f, cmp, c, j) /\ (c = n - 1 => j = k)
    <3>1. CASE c = n - 1
      BY <1>5, <3>1
    <3>2. CASE c # n - 1
      BY <3>2 DEF Grouped
    <3> QED BY <3>1, <3>2
  <2>2. new[f[j]] = c
    <3>1. f[j] \in Lit /\ cmp[f[j]] = c /\ c # -1
      BY <1>1, <2>1 DEF Root
    <3> QED BY <1>4, <3>1
  <2>3. \A i \in j + 1 .. Len(f) : new[f[i]] \in 0 .. c - 1
    <3> TAKE i \in j + 1 .. Len(f)
    <3>1. f[i] \in Lit /\ cmp[f[i]] \in 0 .. c - 1
      BY <1>1, <2>1 DEF Root
    <3>2. cmp[f[i]] # -1
      BY <3>1
    <3> QED BY <1>4, <3>1, <3>2
  <2>4. ASSUME NEW p \in Lit, new[p] = c PROVE Mutual(E, p, f[j])
    <3>1. CASE p \in joining
      BY <1>2, <1>6, <2>1, <2>4, <3>1
    <3>2. CASE p \notin joining
      BY <1>2, <2>1, <2>4, <3>2 DEF Root
    <3> QED BY <3>1, <3>2
  <2> QED BY <2>2, <2>3, <2>4 DEF Root
<1>11. Grouped(E, f, new, n, left)
  <2> HIDE DEF left
  <2> QED BY <1>7, <1>8, <1>9, <1>10 DEF Grouped
<1> QED BY <1>11

-----------------------------------------------------------------------------
(* What the solvers of the manifest decide                                  *)

SolvedBy(m) ==
  /\ m \in SUBSET Lit /\ \A lit \in m : -lit \notin m
  /\ \A i \in DOMAIN formula : SatisfiedBy(m, formula[i])

\* A witness that leaves variables open is completed to a model.
LEMMA WitnessIsModel ==
  ASSUME DpllTyped, NEW w, SolvedBy(w)
  PROVE  DpllModels # {}
<1> DEFINE m == w \union {-v : v \in {u \in Var : u \notin w}}
<1>1. m \in SUBSET Lit
  BY DEF Lit, SolvedBy
<1>2. ASSUME NEW v \in Var PROVE /\ v \in m <=> v \in w
                                 /\ -v \in m <=> v \notin w
  <2>1. v \in Nat \ {0} /\ v \in Lit /\ -(-v) = v
    BY VarAssumption DEF Lit
  <2>2. \A u \in Var : -u # v /\ (-u = -v => u = v)
    BY VarAssumption, <2>1
  <2>3. -v \in w => v \notin w
    BY <2>1 DEF SolvedBy
  <2> QED BY <2>2, <2>3
<1> HIDE DEF m
<1>3. \A lit \in Lit : lit \in m <=> -lit \notin m
  <2> TAKE lit \in Lit
  <2>1. PICK v \in Var : lit = v \/ lit = -v
    BY DEF Lit
  <2>2. -(-v) = v
    BY VarAssumption
  <2> QED BY <1>2, <2>1, <2>2
<1>4. \A i \in DOMAIN formula : SatisfiedBy(m, formula[i])
  <2>1. w \subseteq m
    BY DEF m
  <2> QED BY <2>1 DEF SatisfiedBy, SolvedBy
<1> QED BY <1>1, <1>3, <1>4 DEF DpllModels

\* brute finds a model exactly when there is one.
LEMMA BruteIsRight ==
  ASSUME DpllTyped
  PROVE  Satisfiable <=> DpllModels # {}
<1>1. ASSUME NEW true \in SUBSET Var,
             \A i \in DOMAIN formula : SatisfiedBy({IF v \in true THEN v ELSE -v : v \in Var}, formula[i])
      PROVE  DpllModels # {}
  <2> DEFINE m == {IF v \in true THEN v ELSE -v : v \in Var}
  <2>1. m \in SUBSET Lit
    BY DEF Lit
  <2>2. \A lit \in m : -lit \notin m
    <3> SUFFICES ASSUME NEW u \in Var, NEW v \in Var,
                        (IF u \in true THEN u ELSE -u) = -(IF v \in true THEN v ELSE -v)
                 PROVE  FALSE
      OBVIOUS
    <3>1. u \in Nat \ {0} /\ v \in Nat \ {0}
      BY VarAssumption
    <3>2. u = v
      BY <3>1
    <3> QED BY <3>1, <3>2
  <2>3. SolvedBy(m)
    BY <1>1, <2>1, <2>2 DEF SolvedBy
  <2> QED BY <2>3, WitnessIsModel
<1>2. ASSUME NEW m \in DpllModels PROVE Satisfiable
  <2> DEFINE true == {v \in Var : v \in m}
             all == {IF v \in true THEN v ELSE -v : v \in Var}
  <2>1. m \subseteq all
    <3> SUFFICES ASSUME NEW lit \in m PROVE lit \in all
      OBVIOUS
    <3>1. lit \in Lit /\ -lit \notin m
      BY DEF DpllModels
    <3>2. CASE lit \in Var
      BY <3>2
    <3>3. CASE lit \notin Var
      <4>1. PICK v \in Var : lit = -v
        BY <3>1, <3>3 DEF Lit
      <4>2. v = -lit
        BY <4>1, VarAssumption
      <4> QED BY <3>1, <4>1, <4>2
    <3> QED BY <3>2, <3>3
  <2>2. \A i \in DOMAIN formula : SatisfiedBy(all, formula[i])
    <3> HIDE DEF all
    <3> QED BY <2>1 DEF DpllModels, SatisfiedBy
  <2>3. true \in SUBSET Var
    OBVIOUS
  <2> QED BY <2>2, <2>3 DEF Satisfiable
<1> QED BY <1>1, <1>2 DEF Satisfiable

\* The search decides rightly, and its witness contradicts itself nowhere.
LEMMA SearchDecides ==
  ASSUME DpllIInv
  PROVE  /\ decision = "SAT" => SolvedBy(Witness3)
         /\ decision = "UNSAT" => DpllModels = {}
<1>1. /\ DOMAIN assigned = 1 .. Len(assigned) /\ Len(assigned) \in Nat
      /\ \A p \in 1 .. Len(assigned) : assigned[p] \in Lit
  BY DpllFacts DEF DpllIInv
<1>2. Witness3 \in SUBSET Lit
  BY DEF Witness3, Lit, Free
<1>3. ASSUME NEW lit \in Witness3, -lit \in Witness3 PROVE FALSE
  <2>1. lit \in Lit /\ -lit \in Lit /\ -(-lit) = lit /\ lit # -lit
    BY <1>2, SatLit
  <2>2. ~(Holds(lit) /\ Holds(-lit))
    <3> SUFFICES ASSUME NEW p \in 1 .. Len(assigned), NEW q \in 1 .. Len(assigned),
                        assigned[p] = lit, assigned[q] = -lit
                 PROVE  FALSE
      BY <1>1, HoldsAt
    <3> QED BY <1>1, <2>1 DEF DpllIInv, DpllTyped, Distinct
  <2>3. ASSUME NEW v \in Free
        PROVE  v \in Nat \ {0} /\ v \in Lit /\ -(-v) = v /\ ~Holds(v) /\ ~Holds(-v)
    <3>1. v \in Var /\ ~Holds(v) /\ ~Refuted(v)
      BY DEF Free
    <3>2. ~Holds(-v)
      BY <3>1 DEF Holds, Refuted
    <3>3. v \in Nat \ {0} /\ v \in Lit /\ -(-v) = v
      BY <3>1, VarAssumption DEF Lit
    <3> QED BY <3>1, <3>2, <3>3
  <2>4. Holds(lit) \/ \E v \in Free : lit = -v
    BY <1>3 DEF Witness3
  <2>5. Holds(-lit) \/ \E v \in Free : -lit = -v
    BY <1>3 DEF Witness3
  <2>6. CASE \E v \in Free : lit = -v
    <3>1. PICK v \in Free : lit = -v
      BY <2>6
    <3>2. -lit = v
      BY <2>3, <3>1
    <3>3. PICK u \in Free : -lit = -u
      BY <2>3, <2>5, <3>2
    <3> QED BY <2>3, <3>2, <3>3
  <2>7. CASE \E v \in Free : -lit = -v
    <3>1. PICK v \in Free : -lit = -v
      BY <2>7
    <3>2. lit = v
      BY <2>1, <2>3, <3>1
    <3> QED BY <2>3, <2>4, <2>6, <3>2
  <2> QED BY <2>2, <2>4, <2>5, <2>6, <2>7
<1>4. ASSUME decision = "SAT" PROVE SolvedBy(Witness3)
  <2>1. \A i \in DOMAIN formula : SatisfiedBy(LitsOf(assigned), formula[i])
    BY <1>4 DEF DpllIInv, DpllAnswer
  <2>2. \A i \in DOMAIN formula : SatisfiedBy(Witness3, formula[i])
    <3> TAKE i \in DOMAIN formula
    <3>1. PICK lit \in LitsOf(formula[i]) : lit \in LitsOf(assigned)
      BY <2>1 DEF SatisfiedBy
    <3>2. lit \in Lit
      BY <3>1, DpllFacts DEF DpllIInv
    <3> QED BY <3>1, <3>2 DEF SatisfiedBy, Witness3, Holds
  <2> QED BY <1>2, <1>3, <2>2 DEF SolvedBy
<1>5. ASSUME decision = "UNSAT" PROVE DpllModels = {}
  <2>1. proof # <<>> /\ proof[Len(proof)] = {} /\ Len(proof) \in DOMAIN proof
    BY <1>5 DEF DpllIInv, DpllAnswer, DpllTyped
  <2>2. \A m \in DpllModels : Hits(m, {})
    BY <2>1 DEF DpllIInv, DpllProof
  <2> QED BY <2>2 DEF Hits
<1> QED BY <1>4, <1>5

AllTwo == \A i \in DOMAIN formula : Len(formula[i]) = 2

\* adj: an implication is a clause, read one way or the other.
LEMMA ImplicationsAre ==
  ASSUME DpllTyped, AllTwo
  PROVE  /\ Implications \in SUBSET (Lit \X Lit)
         /\ \A a, b \in Lit : <<a, b>> \in Implications => \E i \in DOMAIN formula : LitsOf(formula[i]) = {-a, b}
         /\ \A i \in DOMAIN formula :
              /\ formula[i][1] \in Lit /\ formula[i][2] \in Lit
              /\ LitsOf(formula[i]) = {formula[i][1], formula[i][2]}
              /\ <<-formula[i][1], formula[i][2]>> \in Implications
              /\ <<-formula[i][2], formula[i][1]>> \in Implications
<1>1. ASSUME NEW i \in DOMAIN formula
      PROVE  /\ formula[i][1] \in Lit /\ formula[i][2] \in Lit
             /\ LitsOf(formula[i]) = {formula[i][1], formula[i][2]}
  <2>1. formula[i] \in Seq(Lit) /\ Len(formula[i]) = 2
    BY DpllFacts DEF AllTwo
  <2>2. DOMAIN formula[i] = {1, 2}
    BY <2>1
  <2> QED BY <2>1, <2>2 DEF LitsOf
<1>2. Implications \in SUBSET (Lit \X Lit)
  BY <1>1, SatLit DEF Implications
<1>3. ASSUME NEW a \in Lit, NEW b \in Lit, <<a, b>> \in Implications
      PROVE  \E i \in DOMAIN formula : LitsOf(formula[i]) = {-a, b}
  <2>1. PICK i \in DOMAIN formula : <<a, b>> \in {<<-formula[i][1], formula[i][2]>>, <<-formula[i][2], formula[i][1]>>}
    BY <1>3 DEF Implications
  <2>2. (a = -formula[i][1] /\ b = formula[i][2]) \/ (a = -formula[i][2] /\ b = formula[i][1])
    BY <2>1
  <2>3. -(-formula[i][1]) = formula[i][1] /\ -(-formula[i][2]) = formula[i][2]
    BY <1>1, SatLit
  <2>4. LitsOf(formula[i]) = {-a, b}
    BY <1>1, <2>2, <2>3
  <2> QED BY <2>4
<1>4. ASSUME NEW i \in DOMAIN formula
      PROVE  /\ <<-formula[i][1], formula[i][2]>> \in Implications
             /\ <<-formula[i][2], formula[i][1]>> \in Implications
  <2> DEFINE pair == {<<-formula[i][1], formula[i][2]>>, <<-formula[i][2], formula[i][1]>>}
  <2>1. pair \subseteq Implications
    BY DEF Implications
  <2>2. <<-formula[i][1], formula[i][2]>> \in pair /\ <<-formula[i][2], formula[i][1]>> \in pair
    OBVIOUS
  <2> HIDE DEF pair
  <2> QED BY <2>1, <2>2
<1> QED BY <1>1, <1>2, <1>3, <1>4

\* No model if a variable and its negation imply each other.
LEMMA CycleRefutes ==
  ASSUME DpllTyped, AllTwo, NEW v \in Var, Mutual(Implications, v, -v)
  PROVE  DpllModels = {}
<1> SUFFICES ASSUME NEW m \in DpllModels PROVE FALSE
  OBVIOUS
<1>1. m \in SUBSET Lit /\ (\A lit \in Lit : lit \in m <=> -lit \notin m)
  BY DEF DpllModels
<1>2. Closed(Implications, m)
  <2> SUFFICES ASSUME NEW e \in Implications, e[1] \in m PROVE e[2] \in m
    BY DEF Closed
  <2>1. PICK a \in Lit, b \in Lit : e = <<a, b>>
    BY ImplicationsAre
  <2>2. e[1] = a /\ e[2] = b
    BY <2>1
  <2>3. PICK i \in DOMAIN formula : LitsOf(formula[i]) = {-a, b}
    BY <2>1, ImplicationsAre
  <2>4. PICK lit \in {-a, b} : lit \in m
    BY <2>3 DEF DpllModels, SatisfiedBy
  <2> QED BY <1>1, <2>2, <2>4
<1>3. v \in Lit /\ (v \in m \/ -v \in m)
  BY <1>1 DEF Lit
<1> QED BY <1>1, <1>2, <1>3 DEF Mutual, Reaches

\* What solve_2sat reads off the components is right.
LEMMA ReadsRight ==
  ASSUME DpllTyped, AllTwo, finished \in Seq(Lit), comp \in [Lit -> Int], components \in Nat,
         Grouped(Implications, finished, comp, components, {}), \A lit \in Lit : comp[lit] # -1
  PROVE  /\ (\A v \in Var : comp[v] # comp[-v]) => SolvedBy(TrueLits)
         /\ \A v \in Var : comp[v] = comp[-v] => Mutual(Implications, v, -v)
<1>1. \A lit \in Lit : lit \in Int /\ -lit \in Lit /\ -(-lit) = lit /\ comp[lit] \in Int
  BY SatLit
<1>2. ASSUME \A v \in Var : comp[v] # comp[-v] PROVE SolvedBy(TrueLits)
  <2>1. \A lit \in Lit : comp[lit] # comp[-lit]
    <3> TAKE lit \in Lit
    <3>1. PICK v \in Var : lit = v \/ lit = -v
      BY DEF Lit
    <3>2. v \in Lit /\ -(-v) = v /\ comp[v] # comp[-v]
      BY <1>1, <1>2, Zenon DEF Lit
    <3>3. CASE lit = v
      BY <3>2, <3>3
    <3>4. CASE lit = -v
      <4>1. -lit = v
        BY <3>2, <3>4
      <4> QED BY <3>2, <3>4, <4>1
    <3> QED BY <3>1, <3>3, <3>4
  <2>2. \A lit \in TrueLits : -lit \notin TrueLits
    BY <1>1 DEF TrueLits
  <2>3. ASSUME NEW i \in DOMAIN formula PROVE SatisfiedBy(TrueLits, formula[i])
    <3> DEFINE a == formula[i][1]
               b == formula[i][2]
    <3>1. /\ a \in Lit /\ b \in Lit /\ LitsOf(formula[i]) = {a, b}
          /\ <<-a, b>> \in Implications /\ <<-b, a>> \in Implications
      BY ImplicationsAre
    <3> HIDE DEF a, b
    <3>2. -a \in Lit /\ -b \in Lit
      BY <1>1, <3>1
    <3>3. comp[-a] \in 0 .. comp[b] /\ comp[-b] \in 0 .. comp[a]
      BY <3>1, <3>2 DEF Grouped
    <3>4. comp[a] > comp[-a] \/ comp[b] > comp[-b]
      BY <1>1, <2>1, <3>1, <3>2, <3>3
    <3> QED BY <3>1, <3>4 DEF SatisfiedBy, TrueLits
  <2> QED BY <2>2, <2>3 DEF SolvedBy, TrueLits
<1>3. ASSUME NEW v \in Var, comp[v] = comp[-v] PROVE Mutual(Implications, v, -v)
  <2>1. v \in Lit /\ -v \in Lit /\ comp[v] \in 0 .. components - 1
    <3>1. v \in Lit /\ -v \in Lit
      BY <1>1 DEF Lit
    <3>2. comp[v] \in -1 .. components - 1 /\ comp[v] # -1
      BY <3>1 DEF Grouped
    <3> QED BY <3>1, <3>2
  <2>2. PICK k \in 1 .. Len(finished) : Root(Implications, finished, comp, comp[v], k)
    BY <2>1 DEF Grouped
  <2>3. Mutual(Implications, v, finished[k]) /\ Mutual(Implications, -v, finished[k]) /\ finished[k] \in Lit
    BY <1>3, <2>1, <2>2, SeqLits DEF Root
  <2>4. Implications \in SUBSET (Lit \X Lit)
    BY ImplicationsAre
  <2> QED BY <2>1, <2>3, <2>4, ReachFacts
<1> QED BY <1>2, <1>3

-----------------------------------------------------------------------------
(* The certificates of the manifest                                         *)

\* A round of implication_cert
Extended(E, paths) ==
  [t \in Lit |->
     IF paths[t] # <<>> THEN paths[t]
     ELSE LET via == {e \in E : e[2] = t /\ paths[e[1]] # <<>>}
          IN  IF via = {} THEN <<>> ELSE Append(paths[(CHOOSE e \in via : TRUE)[1]], t)]

Begun(s) == [t \in Lit |-> IF t = s THEN <<s>> ELSE <<>>]

RoundsFrom(E, s, f) ==
  f = [n \in 0 .. Cardinality(Lit) |-> IF n = 0 THEN Begun(s) ELSE Extended(E, f[n - 1])]

\* A path from s to t over the edges of E
Linked(E, chain, s, t) ==
  /\ chain \in Seq(Lit) /\ chain # <<>> /\ chain[1] = s /\ chain[Len(chain)] = t
  /\ \A k \in 1 .. Len(chain) - 1 : <<chain[k], chain[k + 1]>> \in E

Found(paths) == {t \in Lit : paths[t] # <<>>}

PathsHold(E, s, paths) ==
  /\ paths \in [Lit -> Seq(Lit)] /\ s \in Found(paths)
  /\ \A t \in Found(paths) : Linked(E, paths[t], s, t)

\* A path goes on over an edge.
LEMMA LinkedOn ==
  ASSUME NEW E, NEW chain, NEW s, NEW t, NEW u \in Lit, Linked(E, chain, s, t), <<t, u>> \in E
  PROVE  Linked(E, Append(chain, u), s, u) /\ Append(chain, u) # <<>>
<1> DEFINE longer == Append(chain, u)
           n == Len(chain)
<1>1. /\ longer \in Seq(Lit) /\ Len(longer) = n + 1 /\ longer[n + 1] = u
      /\ \A i \in 1 .. n : longer[i] = chain[i]
  BY Appended3 DEF Linked
<1>2. n \in Nat \ {0} /\ chain[1] = s /\ chain[n] = t
  BY DEF Linked
<1>3. \A k \in 1 .. n - 1 : <<chain[k], chain[k + 1]>> \in E
  BY DEF Linked
<1> HIDE DEF longer, n
<1>4. longer # <<>>
  BY <1>1, <1>2
<1>5. 1 \in 1 .. n /\ n \in 1 .. n /\ n + 1 - 1 = n
  BY <1>2
<1>6. \A k \in 1 .. n : <<longer[k], longer[k + 1]>> \in E
  <2> TAKE k \in 1 .. n
  <2>1. CASE k = n
    BY <1>1, <1>2, <1>5, <2>1
  <2>2. CASE k # n
    <3>1. k \in 1 .. n - 1 /\ k + 1 \in 1 .. n
      BY <1>2, <2>2
    <3> QED BY <1>1, <1>3, <3>1
  <2> QED BY <2>1, <2>2
<1>7. Linked(E, longer, s, u)
  BY <1>1, <1>2, <1>4, <1>5, <1>6 DEF Linked
<1> QED BY <1>4, <1>7 DEF longer

\* A round finds the successors of what was found, with paths to them.
LEMMA RoundFinds ==
  ASSUME NEW E \in SUBSET (Lit \X Lit), NEW s \in Lit, NEW paths, PathsHold(E, s, paths)
  PROVE  /\ PathsHold(E, s, Extended(E, paths))
         /\ Found(paths) \subseteq Found(Extended(E, paths))
         /\ Closed(E, Found(paths)) <=> Found(Extended(E, paths)) = Found(paths)
<1> DEFINE via(t) == {e \in E : e[2] = t /\ paths[e[1]] # <<>>}
           next(t) == IF paths[t] # <<>> THEN paths[t]
                      ELSE IF via(t) = {} THEN <<>> ELSE Append(paths[(CHOOSE e \in via(t) : TRUE)[1]], t)
           new == [t \in Lit |-> next(t)]
<1>1. new = Extended(E, paths)
  BY DEF Extended
<1>2. \A t \in Lit : paths[t] \in Seq(Lit) /\ (paths[t] # <<>> => Linked(E, paths[t], s, t))
  BY DEF PathsHold, Found
<1>3. ASSUME NEW t \in Lit
      PROVE  /\ next(t) \in Seq(Lit)
             /\ next(t) # <<>> <=> paths[t] # <<>> \/ via(t) # {}
             /\ next(t) # <<>> => Linked(E, next(t), s, t)
  <2>1. CASE paths[t] # <<>>
    BY <1>2, <2>1
  <2>2. CASE paths[t] = <<>> /\ via(t) = {}
    BY <2>2
  <2>3. CASE paths[t] = <<>> /\ via(t) # {}
    <3> DEFINE e == CHOOSE x \in via(t) : TRUE
    <3>1. e \in via(t) /\ next(t) = Append(paths[e[1]], t)
      BY <2>3
    <3>2. PICK a \in Lit, b \in Lit : e = <<a, b>>
      BY <3>1
    <3>6. e \in E /\ e[2] = t /\ paths[e[1]] # <<>>
      BY <3>1
    <3> HIDE DEF e, next, via
    <3>7. e[1] = a /\ e[2] = b
      BY <3>2
    <3>3. e[1] = a /\ <<a, t>> \in E /\ paths[a] # <<>>
      BY <3>2, <3>6, <3>7
    <3>4. Linked(E, paths[a], s, a)
      BY <1>2, <3>2, <3>3
    <3>5. Linked(E, next(t), s, t) /\ next(t) # <<>>
      BY <3>1, <3>3, <3>4, LinkedOn
    <3> QED BY <2>3, <3>5 DEF Linked
  <2> QED BY <2>1, <2>2, <2>3
<1>4. \A t \in Lit : new[t] = next(t)
  OBVIOUS
<1> HIDE DEF next
<1>5. new \in [Lit -> Seq(Lit)]
  BY <1>3
<1> HIDE DEF new
<1>6. Found(paths) \subseteq Found(new)
  BY <1>3, <1>4 DEF Found
<1>7. PathsHold(E, s, new)
  BY <1>3, <1>4, <1>5, <1>6 DEF PathsHold, Found
<1>8. ASSUME Closed(E, Found(paths)) PROVE Found(new) = Found(paths)
  <2> SUFFICES ASSUME NEW t \in Found(new), t \notin Found(paths) PROVE FALSE
    BY <1>6
  <2>1. t \in Lit /\ via(t) # {}
    BY <1>3, <1>4 DEF Found
  <2>2. PICK e \in E : e[2] = t /\ paths[e[1]] # <<>>
    BY <2>1
  <2>3. PICK a \in Lit, b \in Lit : e = <<a, b>>
    OBVIOUS
  <2>4. e[1] \in Found(paths)
    BY <2>2, <2>3 DEF Found
  <2> QED BY <1>8, <2>2, <2>4 DEF Closed
<1>9. ASSUME Found(new) = Found(paths) PROVE Closed(E, Found(paths))
  <2> SUFFICES ASSUME NEW e \in E, e[1] \in Found(paths) PROVE e[2] \in Found(paths)
    BY DEF Closed
  <2>1. PICK a \in Lit, b \in Lit : e = <<a, b>>
    OBVIOUS
  <2>2. e[1] = a /\ e[2] = b
    BY <2>1
  <2>3. e \in via(b)
    BY <2>2 DEF Found
  <2>4. b \in Found(new)
    BY <1>3, <1>4, <2>3 DEF Found
  <2> QED BY <1>9, <2>2, <2>4
<1> QED BY <1>1, <1>6, <1>7, <1>8, <1>9

\* As many rounds as there are literals find whatever is reached.
LEMMA SearchFinds ==
  ASSUME NEW E \in SUBSET (Lit \X Lit), NEW s \in Lit, NEW f, RoundsFrom(E, s, f),
         NEW t \in Lit, Reaches(E, s, t)
  PROVE  Linked(E, f[Cardinality(Lit)][t], s, t)
<1> DEFINE N == Cardinality(Lit)
           Round(n) == IF n = 0 THEN Begun(s) ELSE Extended(E, f[n - 1])
<1>1. N \in Nat
  BY LitFinite, FS_CardinalityType
<1>2. f = [n \in 0 .. N |-> Round(n)]
  BY DEF RoundsFrom
<1>3. \A n \in 0 .. N : f[n] = Round(n)
  <2> HIDE DEF Round, N
  <2> QED BY <1>2, Zenon
<1> DEFINE Size(n) == Cardinality(Found(f[n]))
           Holding(n) == /\ PathsHold(E, s, f[n])
                         /\ Closed(E, Found(f[n])) \/ Size(n) >= n + 1
           Bad == {n \in 0 .. N : ~Holding(n)}
<1>4. \A n \in 0 .. N : IsFiniteSet(Found(f[n])) /\ Size(n) \in Nat /\ Size(n) <= N
  <2> TAKE n \in 0 .. N
  <2>1. Found(f[n]) \in SUBSET Lit
    BY DEF Found
  <2> QED BY <2>1, LitFinite, FS_Subset, FS_CardinalityType
<1> HIDE DEF N
<1>5. Holding(0)
  <2>1. f[0] = Begun(s)
    BY <1>1, <1>3
  <2>2. Found(f[0]) = {s} /\ f[0][s] = <<s>>
    BY <2>1 DEF Found, Begun
  <2>3. f[0] \in [Lit -> Seq(Lit)]
    BY <2>1 DEF Begun
  <2>4. Linked(E, <<s>>, s, s)
    BY DEF Linked
  <2>5. Size(0) = 1
    BY <2>2, FS_Singleton
  <2> QED BY <2>2, <2>3, <2>4, <2>5 DEF PathsHold
<1>6. ASSUME NEW n \in 1 .. N, Holding(n - 1) PROVE Holding(n)
  <2>1. /\ n \in 0 .. N /\ n # 0 /\ n - 1 \in 0 .. N /\ n - 1 + 1 = n
        /\ f[n] = Extended(E, f[n - 1])
    BY <1>1, <1>3
  <2>2. /\ PathsHold(E, s, f[n])
        /\ Found(f[n - 1]) \subseteq Found(f[n])
        /\ Closed(E, Found(f[n - 1])) <=> Found(f[n]) = Found(f[n - 1])
    BY <1>6, <2>1, RoundFinds
  <2>3. CASE Closed(E, Found(f[n - 1]))
    BY <2>2, <2>3
  <2>4. CASE ~Closed(E, Found(f[n - 1]))
    <3>1. Size(n - 1) >= n /\ Size(n - 1) \in Nat /\ Size(n) \in Nat
      BY <1>4, <1>6, <2>1, <2>4
    <3>2. Found(f[n - 1]) # Found(f[n])
      BY <2>2, <2>4
    <3>3. Size(n - 1) <= Size(n) /\ Size(n - 1) # Size(n)
      <4>1. IsFiniteSet(Found(f[n])) /\ Found(f[n - 1]) \in SUBSET Found(f[n])
        BY <1>4, <2>1, <2>2
      <4> QED BY <3>2, <4>1, FS_Subset
    <3>4. Size(n) >= n + 1
      <4> HIDE DEF Size
      <4> QED BY <3>1, <3>3
    <3> QED BY <2>2, <3>4
  <2> QED BY <2>3, <2>4
<1>7. Bad = {}
  <2> HIDE DEF Holding
  <2> SUFFICES ASSUME Bad # {} PROVE FALSE
    OBVIOUS
  <2>1. Bad \in SUBSET Nat
    BY <1>1
  <2>2. PICK n \in Bad : \A k \in Bad : n <= k
    <3> HIDE DEF Bad
    <3> QED BY <2>1, Least
  <2>3. n \in 0 .. N /\ n # 0 /\ ~Holding(n)
    BY <1>5, <2>2
  <2>4. n \in 1 .. N /\ n - 1 \in 0 .. N /\ ~(n <= n - 1)
    BY <1>1, <2>3
  <2>5. n - 1 \notin Bad
    <3> HIDE DEF Bad
    <3> QED BY <2>2, <2>4
  <2> QED BY <1>6, <2>3, <2>4, <2>5
<1>8. Holding(N) /\ N \in 0 .. N
  BY <1>1, <1>7
<1>9. Closed(E, Found(f[N]))
  <2> HIDE DEF Size
  <2>1. Size(N) <= N /\ Size(N) \in Nat
    BY <1>4, <1>8
  <2> QED BY <1>1, <1>8, <2>1
<1>10. t \in Found(f[N]) /\ Found(f[N]) \in SUBSET Lit
  <2>1. s \in Found(f[N]) /\ Found(f[N]) \in SUBSET Lit
    BY <1>8 DEF PathsHold, Found
  <2> QED BY <1>9, <2>1 DEF Reaches
<1> QED BY <1>8, <1>10 DEF PathsHold, N

\* The rounds of implication_cert have values, and PathsFrom is the last.
LEMMA PathsAre ==
  ASSUME NEW s \in Lit, Implications \in SUBSET (Lit \X Lit)
  PROVE  \E f : RoundsFrom(Implications, s, f) /\ PathsFrom(s) = f[Cardinality(Lit)]
<1> DEFINE E == Implications
           N == Cardinality(Lit)
           D == {paths \in [Lit -> Seq(Lit)] : PathsHold(E, s, paths)}
           g == [paths \in D |-> Extended(E, paths)]
<1>1. N \in Nat
  BY LitFinite, FS_CardinalityType
<1>2. Begun(s) \in D
  <2>1. Begun(s) \in [Lit -> Seq(Lit)] /\ Found(Begun(s)) = {s} /\ Begun(s)[s] = <<s>>
    BY DEF Begun, Found
  <2>2. Linked(E, <<s>>, s, s)
    BY DEF Linked
  <2> QED BY <2>1, <2>2 DEF PathsHold
<1>3. g \in [D -> D] /\ \A paths \in D : g[paths] = Extended(E, paths)
  <2>1. \A paths \in D : Extended(E, paths) \in D
    BY RoundFinds DEF PathsHold
  <2> QED BY <2>1
<1> HIDE DEF N, D, g, E
<1>4. PICK f : Iterated(D, Begun(s), g, N, f)
  BY <1>1, <1>2, <1>3, Iterates
<1>5. f \in [0 .. N -> D] /\ f[0] = Begun(s) /\ \A n \in 1 .. N : f[n] = g[f[n - 1]]
  BY <1>4 DEF Iterated
<1>6. \A n \in 0 .. N : f[n] = IF n = 0 THEN Begun(s) ELSE Extended(E, f[n - 1])
  <2> TAKE n \in 0 .. N
  <2>1. n # 0 => n \in 1 .. N /\ n - 1 \in 0 .. N
    BY <1>1
  <2> QED BY <1>3, <1>5, <2>1
<1>7. f = [n \in 0 .. N |-> f[n]]
  BY <1>5
<1>8. f = [n \in 0 .. N |-> IF n = 0 THEN Begun(s) ELSE Extended(E, f[n - 1])]
  BY <1>6, <1>7, Zenon
<1>9. RoundsFrom(E, s, f)
  BY <1>8 DEF RoundsFrom, N
<1> DEFINE h == CHOOSE x : RoundsFrom(E, s, x)
<1>10. RoundsFrom(E, s, h)
  BY <1>9
<1>11. PathsFrom(s) = h[N]
  BY DEF PathsFrom, RoundsFrom, Extended, Begun, N, E
<1> QED BY <1>10, <1>11 DEF N, E

\* Each way round a cycle of implications has its chain of clauses.
LEMMA ChainsAre ==
  ASSUME DpllTyped, AllTwo, NEW s \in Lit, NEW t \in Lit, s # t, Reaches(Implications, s, t)
  PROVE  IsChain(PathsFrom(s)[t], s, t)
<1> DEFINE chain == PathsFrom(s)[t]
<1>1. Implications \in SUBSET (Lit \X Lit)
  BY ImplicationsAre
<1>2. Linked(Implications, chain, s, t)
  BY <1>1, PathsAre, SearchFinds
<1> HIDE DEF chain
<1>3. chain \in Seq(Lit) /\ Len(chain) \in Nat \ {0} /\ chain[1] = s /\ chain[Len(chain)] = t
  BY <1>2 DEF Linked
<1>4. Len(chain) > 1
  BY <1>3
<1>5. ASSUME NEW k \in 1 .. Len(chain) - 1
      PROVE  \E i \in DOMAIN formula : LitsOf(formula[i]) = {-chain[k], chain[k + 1]}
  <2>1. <<chain[k], chain[k + 1]>> \in Implications
    BY <1>2 DEF Linked
  <2>2. k \in 1 .. Len(chain) /\ k + 1 \in 1 .. Len(chain)
    BY <1>3
  <2> QED BY <1>3, <2>1, <2>2, ImplicationsAre
<1> QED BY <1>3, <1>4, <1>5 DEF IsChain, chain

-----------------------------------------------------------------------------
(* The records of the manifest                                              *)

TwoTyped ==
  /\ path \in Seq(Lit) /\ finished \in Seq(Lit)
  /\ comp \in [Lit -> Int] /\ components \in Nat /\ work \in SUBSET Lit

TwoAnswer ==
  \/ answer = NoAnswer
  \/ answer.sat = "SAT" /\ SolvedBy(answer.assignment)
  \/ /\ answer.sat = "UNSAT" /\ answer.conflict \in Var
     /\ Mutual(Implications, answer.conflict, -answer.conflict)

\* What the two searches of a 2-SAT instance have, and what is read off them
TwoIInv ==
  /\ AllTwo /\ TwoTyped
  /\ Searched1(Implications, path, LitsOf(finished)) /\ Ordered(Implications, finished)
  /\ Grouped(Implications, finished, comp, components, work)
  /\ components # 0 => Explored
  /\ TwoAnswer

\* The linear procedure begins when the search is done, and what is stored comes
\* after both.
ManifestIInv ==
  /\ DpllIInv
  /\ kind \in {"2sat", "3sat", "xor"}
  /\ kind = "2sat" => TwoIInv /\ (answer # NoAnswer => decision # "search")
  /\ record # NoRecord => kind # "xor" /\ Answered /\ RecordChecks

\* The implications and the models are those of the formula.
LEMMA FormulaKept ==
  ASSUME formula' = formula
  PROVE  /\ Implications' = Implications /\ AllTwo' = AllTwo
         /\ \A m : SolvedBy(m)' = SolvedBy(m)
BY DEF Implications, AllTwo, SolvedBy, SatisfiedBy

\* Both searches begin with nothing seen.
LEMMA TwoStart ==
  ASSUME AllTwo, TwoSatInit
  PROVE  TwoIInv
<1>1. path = <<>> /\ finished = <<>> /\ comp = [lit \in Lit |-> -1] /\ components = 0 /\ work = {} /\ answer = NoAnswer
  BY DEF TwoSatInit
<1>2. TwoTyped
  BY <1>1 DEF TwoTyped
<1>3. LitsOf(path) = {} /\ LitsOf(finished) = {} /\ DOMAIN finished = {} /\ Len(path) = 0 /\ Len(finished) = 0
  BY <1>1 DEF LitsOf
<1>4. Searched1(Implications, path, LitsOf(finished)) /\ Ordered(Implications, finished)
  BY <1>3 DEF Searched1, Ordered, Closed, Black
<1>5. Grouped(Implications, finished, comp, components, work)
  BY <1>1 DEF Grouped
<1> QED BY <1>1, <1>2, <1>4, <1>5 DEF TwoIInv, TwoAnswer

\* Nothing of a 2-SAT instance changes.
LEMMA TwoKept ==
  ASSUME TwoIInv, formula' = formula, UNCHANGED twoVars
  PROVE  TwoIInv'
<1>1. /\ path' = path /\ finished' = finished /\ comp' = comp /\ components' = components
      /\ work' = work /\ answer' = answer
  BY DEF twoVars
<1>2. Implications' = Implications /\ AllTwo' = AllTwo /\ \A m : SolvedBy(m)' = SolvedBy(m)
  BY FormulaKept
<1> QED BY <1>1, <1>2 DEF TwoIInv, TwoTyped, TwoAnswer, Explored, Seen, LitsOf

\* Before dfs2 there are no components, whatever is finished.
LEMMA NoneGrouped ==
  ASSUME NEW E, NEW f, NEW h, NEW cmp, NEW w, Grouped(E, f, cmp, 0, w)
  PROVE  Grouped(E, h, cmp, 0, w)
BY DEF Grouped

\* dfs1 goes on: what it has is kept.
LEMMA DescendStep ==
  ASSUME DpllTyped, TwoIInv, formula' = formula, NEW lit \in Lit, Descend(lit)
  PROVE  TwoIInv'
<1>1. /\ lit \notin LitsOf(path) \union LitsOf(finished)
      /\ path # <<>> => <<path[Len(path)], lit>> \in Implications
      /\ path' = Append(path, lit) /\ finished' = finished /\ comp' = comp
      /\ components' = components /\ work' = work /\ answer' = answer
  BY DEF Descend, Seen
<1>2. Implications' = Implications /\ AllTwo' = AllTwo /\ \A m : SolvedBy(m)' = SolvedBy(m)
  BY FormulaKept
<1>3. Implications \in SUBSET (Lit \X Lit) /\ path \in Seq(Lit) /\ LitsOf(finished) \in SUBSET Lit
  BY ImplicationsAre, SeqLits DEF TwoIInv, TwoTyped
<1>4. components = 0
  BY <1>1 DEF TwoIInv, Explored, Seen
<1>5. Searched1(Implications, path', LitsOf(finished))
  BY <1>1, <1>3, Descends DEF TwoIInv
<1>6. path' \in Seq(Lit)
  BY <1>1, <1>3, Appended3
<1>7. LitsOf(finished)' = LitsOf(finished)
  BY <1>1 DEF LitsOf
<1> QED BY <1>1, <1>2, <1>4, <1>5, <1>6, <1>7 DEF TwoIInv, TwoTyped, TwoAnswer

\* dfs1 leaves the top of its path, in the order of finishing.
LEMMA LeaveStep ==
  ASSUME DpllTyped, TwoIInv, formula' = formula, Leave
  PROVE  TwoIInv'
<1>1. /\ path # <<>>
      /\ \A v \in Lit : <<path[Len(path)], v>> \in Implications => v \in LitsOf(finished) \union LitsOf(path)
      /\ finished' = Append(finished, path[Len(path)])
      /\ path' = SubSeq(path, 1, Len(path) - 1) /\ comp' = comp
      /\ components' = components /\ work' = work /\ answer' = answer
  BY DEF Leave, Seen
<1>2. Implications' = Implications /\ AllTwo' = AllTwo /\ \A m : SolvedBy(m)' = SolvedBy(m)
  BY FormulaKept
<1>3. /\ Implications \in SUBSET (Lit \X Lit) /\ path \in Seq(Lit) /\ finished \in Seq(Lit)
      /\ LitsOf(finished) \in SUBSET Lit
  BY ImplicationsAre, SeqLits DEF TwoIInv, TwoTyped
<1>4. components = 0
  BY <1>1 DEF TwoIInv, Explored
<1>5. path[Len(path)] \in Lit /\ path' \in Seq(Lit)
  BY <1>1, <1>3, Popped
<1>6. finished' \in Seq(Lit) /\ LitsOf(finished)' = LitsOf(finished) \union {path[Len(path)]}
  <2>1. LitsOf(finished)' = LitsOf(finished')
    BY DEF LitsOf
  <2> QED BY <1>1, <1>3, <1>5, <2>1, Appended3
<1>7. Searched1(Implications, path', LitsOf(finished) \union {path[Len(path)]})
  BY <1>1, <1>3, Leaves DEF TwoIInv
<1>8. Ordered(Implications, finished')
  BY <1>1, <1>3, LeavesOrdered DEF TwoIInv
<1>9. Grouped(Implications, finished', comp, components, work)
  BY <1>4, NoneGrouped DEF TwoIInv
<1> QED BY <1>1, <1>2, <1>4, <1>5, <1>6, <1>7, <1>8, <1>9 DEF TwoIInv, TwoTyped, TwoAnswer

\* dfs2 begins with the last finished literal that has no component.
LEMMA ComponentStep ==
  ASSUME DpllTyped, TwoIInv, formula' = formula, NewComponent
  PROVE  TwoIInv'
<1>1. PICK k \in DOMAIN finished :
        /\ comp[finished[k]] = -1 /\ \A j \in k + 1 .. Len(finished) : comp[finished[j]] # -1
        /\ comp' = [comp EXCEPT ![finished[k]] = components]
        /\ work' = {finished[k]}
  BY DEF NewComponent
<1>2. /\ Explored /\ work = {} /\ components' = components + 1
      /\ path' = path /\ finished' = finished /\ answer' = answer
  BY DEF NewComponent
<1>3. Implications' = Implications /\ AllTwo' = AllTwo /\ \A m : SolvedBy(m)' = SolvedBy(m)
  BY FormulaKept
<1>4. /\ Implications \in SUBSET (Lit \X Lit) /\ finished \in Seq(Lit) /\ comp \in [Lit -> Int]
      /\ components \in Nat /\ DOMAIN finished = 1 .. Len(finished)
  BY ImplicationsAre, SeqLits DEF TwoIInv, TwoTyped
<1>5. Grouped(Implications, finished, comp', components', work')
  <2>1. Grouped(Implications, finished, comp, components, {})
    BY <1>2 DEF TwoIInv
  <2> QED BY <1>1, <1>2, <1>4, <2>1, Begins
<1>6. finished[k] \in Lit
  BY <1>4, SeqLits
<1>7. comp' \in [Lit -> Int] /\ components' \in Nat /\ work' \in SUBSET Lit
  BY <1>1, <1>2, <1>4, <1>6
<1>8. LitsOf(finished)' = LitsOf(finished) /\ Explored'
  BY <1>2 DEF LitsOf, Explored, Seen
<1> QED BY <1>2, <1>3, <1>5, <1>7, <1>8 DEF TwoIInv, TwoTyped, TwoAnswer

\* dfs2 takes in the predecessors of a node.
LEMMA GatherStep ==
  ASSUME DpllTyped, TwoIInv, formula' = formula, NEW lit \in Lit, Gather(lit)
  PROVE  TwoIInv'
<1> DEFINE joining == {p \in Lit : <<p, lit>> \in Implications /\ comp[p] = -1}
<1>1. /\ lit \in work /\ comp' = [p \in Lit |-> IF p \in joining THEN components - 1 ELSE comp[p]]
      /\ work' = (work \ {lit}) \union joining
      /\ path' = path /\ finished' = finished /\ answer' = answer /\ components' = components
  BY DEF Gather
<1>2. Implications' = Implications /\ AllTwo' = AllTwo /\ \A m : SolvedBy(m)' = SolvedBy(m)
  BY FormulaKept
<1>3. /\ Implications \in SUBSET (Lit \X Lit) /\ finished \in Seq(Lit) /\ comp \in [Lit -> Int]
      /\ components \in Nat /\ work \in SUBSET Lit
  BY ImplicationsAre DEF TwoIInv, TwoTyped
<1>4. components # 0 /\ Explored
  BY <1>1 DEF TwoIInv, Grouped
<1>5. Lit \subseteq LitsOf(finished)
  BY <1>4 DEF Explored, Seen, LitsOf
<1>6. comp' \in [Lit -> Int] /\ work' \in SUBSET Lit
  BY <1>1, <1>3
<1>7. Grouped(Implications, finished, comp', components, work')
  <2>2. Ordered(Implications, finished) /\ Grouped(Implications, finished, comp, components, work)
    BY DEF TwoIInv
  <2>3. /\ joining \in SUBSET Lit
        /\ \A p \in Lit : p \in joining <=> <<p, lit>> \in Implications /\ comp[p] = -1
    OBVIOUS
  <2> HIDE DEF joining
  <2>4. \A p \in Lit : comp'[p] = IF p \in joining THEN components - 1 ELSE comp[p]
    BY <1>1
  <2>5. Grouped(Implications, finished, comp', components, (work \ {lit}) \union joining)
    BY <1>1, <1>3, <1>5, <2>2, <2>3, <2>4, Gathers
  <2> QED BY <1>1, <2>5
<1>8. LitsOf(finished)' = LitsOf(finished) /\ Explored'
  BY <1>1, <1>4 DEF LitsOf, Explored, Seen
<1> HIDE DEF joining
<1> QED BY <1>1, <1>2, <1>3, <1>6, <1>7, <1>8 DEF TwoIInv, TwoTyped, TwoAnswer

\* assignment: the answer is read off the components.
LEMMA ReadStep ==
  ASSUME DpllTyped, TwoIInv, formula' = formula, ReadOff
  PROVE  TwoIInv'
<1> DEFINE clash == {v \in Var : comp[v] = comp[-v]}
           first == CHOOSE v \in clash : \A u \in clash : v <= u
<1>1. /\ Explored /\ work = {} /\ (\A lit \in Lit : comp[lit] # -1)
      /\ answer' = IF clash = {} THEN [sat |-> "SAT", assignment |-> TrueLits, conflict |-> 0]
                   ELSE [sat |-> "UNSAT", assignment |-> {}, conflict |-> first]
      /\ path' = path /\ finished' = finished /\ comp' = comp /\ components' = components /\ work' = work
  BY DEF ReadOff
<1>2. Implications' = Implications /\ AllTwo' = AllTwo /\ \A m : SolvedBy(m)' = SolvedBy(m)
  BY FormulaKept
<1>3. /\ clash = {} => SolvedBy(TrueLits)
      /\ \A v \in clash : Mutual(Implications, v, -v)
  BY <1>1, ReadsRight DEF TwoIInv, TwoTyped
<1>4. clash # {} => first \in clash
  <2> SUFFICES ASSUME clash # {} PROVE first \in clash
    OBVIOUS
  <2>1. clash \in SUBSET Nat
    BY VarAssumption
  <2>2. \E x \in clash : \A y \in clash : x <= y
    <3> HIDE DEF clash
    <3> QED BY <2>1, Least
  <2> QED BY <2>2
<1>5. TwoAnswer'
  <2>1. CASE clash = {}
    <3>1. answer'.sat = "SAT" /\ answer'.assignment = TrueLits
      BY <1>1, <2>1
    <3>2. SolvedBy(answer.assignment)'
      BY <1>3, <2>1, <3>1 DEF SolvedBy, SatisfiedBy
    <3> QED BY <3>1, <3>2 DEF TwoAnswer
  <2>2. CASE clash # {}
    <3>1. answer'.sat = "UNSAT" /\ answer'.conflict = first /\ first \in Var
      BY <1>1, <1>4, <2>2
    <3>2. Mutual(Implications', first, -first)
      BY <1>2, <1>3, <1>4, <2>2
    <3> HIDE DEF first
    <3> QED BY <3>1, <3>2 DEF TwoAnswer
  <2> QED BY <2>1, <2>2
<1>6. LitsOf(finished)' = LitsOf(finished) /\ Explored'
  BY <1>1 DEF LitsOf, Explored, Seen
<1> QED BY <1>1, <1>2, <1>5, <1>6 DEF TwoIInv, TwoTyped

\* Every step of solve_2sat keeps what its answer rests on.
LEMMA TwoStep ==
  ASSUME DpllTyped, TwoIInv, formula' = formula, TwoSatNext
  PROVE  TwoIInv'
BY DescendStep, LeaveStep, ComponentStep, GatherStep, ReadStep DEF TwoSatNext

\* What was recorded passes the checks as long as nothing is stored anew.
LEMMA RecordKept ==
  ASSUME RecordChecks, formula' = formula, record' = record, kind' = kind, answer' = answer
  PROVE  RecordChecks'
BY DEF RecordChecks, IsChain, SatisfiedBy

\* A cycle of implications is certified both ways.
LEMMA CycleIsCertified ==
  ASSUME DpllTyped, AllTwo, NEW v \in Var, Mutual(Implications, v, -v)
  PROVE  IsChain(Certificate(v).there, v, -v) /\ IsChain(Certificate(v).back, -v, v)
<1>1. v \in Lit /\ -v \in Lit /\ v # -v /\ -v # v
  BY SatLit DEF Lit
<1>2. IsChain(PathsFrom(v)[-v], v, -v)
  BY <1>1, ChainsAre DEF Mutual
<1>3. IsChain(PathsFrom(-v)[v], -v, v)
  BY <1>1, ChainsAre DEF Mutual
<1>4. Certificate(v).there = PathsFrom(v)[-v] /\ Certificate(v).back = PathsFrom(-v)[v]
  BY DEF Certificate
<1> QED BY <1>2, <1>3, <1>4

\* add stores what its own checks accept.
LEMMA RecordStep ==
  ASSUME ManifestIInv, AddRecord
  PROVE  kind # "xor" /\ Answered /\ RecordChecks'
<1> DEFINE sat == IF kind = "2sat" THEN answer.sat ELSE decision
           witness == IF kind = "2sat" THEN answer.assignment ELSE Witness3
           certificate == IF kind = "2sat" /\ sat = "UNSAT" THEN Certificate(answer.conflict)
                          ELSE [there |-> <<>>, back |-> <<>>]
           stored == [decision |-> sat,
                      same |-> kind = "2sat" => answer.sat = decision,
                      brute |-> Satisfiable <=> sat = "SAT",
                      witness |-> IF sat = "SAT" THEN witness ELSE {},
                      certificate |-> certificate]
<1>1. /\ kind # "xor" /\ Answered /\ record' = stored
      /\ formula' = formula /\ kind' = kind /\ answer' = answer
  BY DEF AddRecord, dpllVars, twoVars
<1>2. /\ DpllIInv /\ DpllTyped /\ decision \in {"search", "SAT", "UNSAT"}
      /\ kind = "2sat" => TwoIInv /\ (answer # NoAnswer => decision # "search")
  BY DEF ManifestIInv, DpllIInv, DpllTyped
<1>3. /\ decision = "SAT" => SolvedBy(Witness3)
      /\ decision = "UNSAT" => DpllModels = {}
  BY <1>2, SearchDecides
<1>4. ASSUME kind = "2sat"
      PROVE  /\ AllTwo
             /\ \/ answer.sat = "SAT" /\ SolvedBy(answer.assignment)
                \/ /\ answer.sat = "UNSAT" /\ answer.conflict \in Var
                   /\ Mutual(Implications, answer.conflict, -answer.conflict)
  BY <1>1, <1>2, <1>4 DEF TwoIInv, TwoAnswer, Answered
<1>5. /\ sat \in {"SAT", "UNSAT"}
      /\ sat = "SAT" => SolvedBy(witness)
      /\ sat = "UNSAT" => DpllModels = {}
  <2>1. CASE kind = "2sat"
    BY <1>2, <1>4, <2>1, CycleRefutes
  <2>2. CASE kind # "2sat"
    BY <1>1, <1>2, <1>3, <2>2 DEF Answered
  <2> QED BY <2>1, <2>2
<1>6. Satisfiable <=> sat = "SAT"
  BY <1>2, <1>5, BruteIsRight, WitnessIsModel
<1>7. kind = "2sat" => answer.sat = decision
  <2> SUFFICES ASSUME kind = "2sat" PROVE answer.sat = decision
    OBVIOUS
  <2>1. sat = answer.sat /\ decision \in {"SAT", "UNSAT"}
    BY <1>1, <1>2 DEF Answered
  <2> QED BY <1>2, <1>3, <1>5, <2>1, WitnessIsModel
<1>8. ASSUME kind = "2sat", sat = "UNSAT"
      PROVE  /\ IsChain(certificate.there, answer.conflict, -answer.conflict)
             /\ IsChain(certificate.back, -answer.conflict, answer.conflict)
  <2>1. /\ AllTwo /\ answer.conflict \in Var
        /\ Mutual(Implications, answer.conflict, -answer.conflict)
    BY <1>4, <1>8
  <2> QED BY <1>2, <1>8, <2>1, CycleIsCertified
<1>9. /\ record'.decision = sat /\ record'.certificate = certificate
      /\ sat = "SAT" => record'.witness = witness
      /\ record'.same = (kind = "2sat" => answer.sat = decision)
      /\ record'.brute = (Satisfiable <=> sat = "SAT")
  BY <1>1
<1>10. record'.same /\ record'.brute
  <2> HIDE DEF sat, witness, certificate
  <2> QED BY <1>6, <1>7, <1>9, Zenon
<1> HIDE DEF sat, witness, certificate, stored
<1>11. ASSUME sat = "SAT"
       PROVE  /\ \A lit \in record'.witness : -lit \notin record'.witness
              /\ \A i \in DOMAIN formula : SatisfiedBy(record'.witness, formula[i])
  BY <1>5, <1>9, <1>11 DEF SolvedBy
<1>12. ASSUME kind = "2sat", sat = "UNSAT"
       PROVE  /\ IsChain(record'.certificate.there, answer.conflict, -answer.conflict)
              /\ IsChain(record'.certificate.back, -answer.conflict, answer.conflict)
  BY <1>8, <1>9, <1>12
<1>13. RecordChecks'
  BY <1>1, <1>9, <1>10, <1>11, <1>12 DEF RecordChecks, IsChain, SatisfiedBy
<1> QED BY <1>1, <1>13

\* The search and the procedures of the manifest keep what its records rest on.
THEOREM ManifestHolds == ManifestSpec => []ManifestIInv
<1>1. ManifestInit(Instances) => ManifestIInv
  <2> SUFFICES ASSUME ManifestInit(Instances) PROVE ManifestIInv
    OBVIOUS
  <2>1. PICK inst \in Instances : kind = inst.kind /\ formula = inst.clauses
    BY DEF ManifestInit
  <2>2. kind \in {"2sat", "3sat", "xor"} /\ (kind = "2sat" => AllTwo)
    BY <2>1, InstancesAssumption DEF AllTwo
  <2>3. DpllInit /\ TwoSatInit /\ record = NoRecord
    BY DEF ManifestInit
  <2>4. DpllIInv
    BY <2>3, DpllStart
  <2>5. AllTwo => TwoIInv
    BY <2>3, TwoStart
  <2>6. answer = NoAnswer
    BY <2>3 DEF TwoSatInit
  <2> QED BY <2>2, <2>3, <2>4, <2>5, <2>6 DEF ManifestIInv
<1>2. ManifestIInv /\ [ManifestNext]_manifestVars => ManifestIInv'
  <2> SUFFICES ASSUME ManifestIInv, [ManifestNext]_manifestVars PROVE ManifestIInv'
    OBVIOUS
  <2>1. DpllIInv'
    BY DpllStep DEF ManifestIInv, ManifestNext, AddRecord, manifestVars
  <2>2. kind' = kind /\ formula' = formula
    BY DEF ManifestNext, manifestVars, AddRecord, DpllNext, Imply, Choose, FoundModel, BackUp, dpllVars
  <2>3. DpllTyped
    BY DEF ManifestIInv, DpllIInv
  <2>4. CASE DpllNext /\ UNCHANGED <<twoVars, xorVars, kind, record>>
    <3>1. decision = "search" /\ answer' = answer /\ record' = record /\ UNCHANGED twoVars
      BY <2>4 DEF DpllNext, Imply, Choose, FoundModel, BackUp, twoVars
    <3>2. kind = "2sat" => TwoIInv' /\ answer' = NoAnswer
      BY <2>2, <3>1, TwoKept DEF ManifestIInv
    <3>3. record = NoRecord
      BY <3>1 DEF ManifestIInv, Answered
    <3> QED BY <2>1, <2>2, <3>1, <3>2, <3>3 DEF ManifestIInv, NoRecord, NoAnswer
  <2>5. CASE kind = "2sat" /\ decision # "search" /\ TwoSatNext /\ UNCHANGED <<dpllVars, xorVars, kind, record>>
    <3>1. decision' = decision /\ record' = record
      BY <2>5 DEF dpllVars
    <3>2. TwoIInv'
      BY <2>2, <2>3, <2>5, TwoStep DEF ManifestIInv
    <3>3. record # NoRecord => answer # NoAnswer /\ answer' = answer
      <4> SUFFICES ASSUME record # NoRecord PROVE answer # NoAnswer /\ answer' = answer
        OBVIOUS
      <4>1. answer # NoAnswer
        BY <2>5 DEF ManifestIInv, Answered
      <4> QED BY <2>5, <4>1 DEF TwoSatNext, Descend, Gather, Leave, NewComponent, ReadOff
    <3>4. ASSUME record # NoRecord PROVE Answered' /\ RecordChecks'
      <4>1. RecordChecks
        BY <3>4 DEF ManifestIInv
      <4>2. RecordChecks'
        BY <2>2, <3>1, <3>3, <3>4, <4>1, RecordKept
      <4> QED BY <2>2, <2>5, <3>3, <3>4, <4>2 DEF Answered, NoAnswer
    <3> QED BY <2>1, <2>2, <2>5, <3>1, <3>2, <3>4 DEF ManifestIInv, NoRecord, NoAnswer
  <2>6. CASE AddRecord
    <3>1. kind # "xor" /\ Answered /\ RecordChecks'
      BY <2>6, RecordStep
    <3>2. UNCHANGED twoVars /\ decision' = decision /\ answer' = answer
      BY <2>6 DEF AddRecord, dpllVars, twoVars
    <3>3. Answered'
      BY <2>2, <3>1, <3>2 DEF Answered, NoAnswer
    <3>4. kind = "2sat" => TwoIInv'
      BY <2>2, <3>2, TwoKept DEF ManifestIInv
    <3> QED BY <2>1, <2>2, <3>1, <3>2, <3>3, <3>4 DEF ManifestIInv, NoAnswer
  <2>7. CASE \/ kind = "xor" /\ XorNext /\ UNCHANGED <<dpllVars, twoVars, kind, record>>
             \/ UNCHANGED manifestVars
    <3>1. UNCHANGED <<dpllVars, twoVars, kind, record>>
      BY <2>7 DEF manifestVars
    <3>2. UNCHANGED twoVars /\ decision' = decision /\ answer' = answer /\ record' = record
      BY <3>1 DEF dpllVars, twoVars
    <3>3. kind = "2sat" => TwoIInv'
      BY <2>2, <3>2, TwoKept DEF ManifestIInv
    <3>4. ASSUME record # NoRecord PROVE Answered' /\ RecordChecks'
      <4>1. RecordChecks /\ Answered
        BY <3>4 DEF ManifestIInv
      <4>2. RecordChecks'
        BY <2>2, <3>2, <4>1, RecordKept
      <4> QED BY <2>2, <3>2, <4>1, <4>2 DEF Answered, NoAnswer
    <3> QED BY <2>1, <2>2, <3>2, <3>3, <3>4 DEF ManifestIInv, NoRecord, NoAnswer
  <2> QED BY <2>4, <2>5, <2>6, <2>7 DEF ManifestNext
<1> QED BY <1>1, <1>2, PTL DEF ManifestSpec

\* The linear procedure, the search and brute force agree on every instance; a
\* witness is a model, and the certificate of a refutation is a cycle.
THEOREM RecordsAreRight == ManifestSpec => []RecordChecks
<1>1. ManifestIInv => RecordChecks
  BY DEF ManifestIInv, RecordChecks
<1> QED BY <1>1, ManifestHolds, PTL

-----------------------------------------------------------------------------
(* The solvers side by side                                                *)

\* Each of the solvers of a behaviour of Solvers behaves as it does alone.
THEOREM SolversApart == Spec => CdclSpec /\ ManifestSpec /\ XorSpec /\ PmlSpec
<1>1. ASSUME Init PROVE CdclInit(Problems) /\ ManifestInit(Instances) /\ XorInit /\ InitPml(PmlProblems)
  <2>1. ASSUME NEW who, NEW inputs, inputs # {} PROVE Given(who, inputs) \subseteq inputs
    BY <2>1 DEF Given, OneOf
  <2>2. /\ Given("cdcl", Problems) \subseteq Problems
        /\ Given("manifest", Instances) \subseteq Instances
        /\ Given("pml", PmlProblems) \subseteq PmlProblems
    BY <2>1, InputsAssumption
  <2>3. CdclInit(Problems)
    BY <1>1, <2>2 DEF Init, CdclInit
  <2>4. XorInit
    BY <1>1, Zenon DEF Init, ManifestInit
  <2>5. InitPml(PmlProblems)
    BY <1>1, <2>2 DEF Init, InitPml
  <2>6. ManifestInit(Instances)
    BY <1>1, <2>2 DEF Init, ManifestInit
  <2> QED BY <2>3, <2>4, <2>5, <2>6
<1>2. [Next]_vars => [CdclNext]_cdclVars
  BY DEF Next, vars
<1>3. [Next]_vars => [XorNext]_xorVars
  BY DEF Next, vars, ManifestNext, manifestVars, AddRecord
<1>4. [Next]_vars => [PmlNext]_pmlVars
  BY DEF Next, vars
<1>5. [Next]_vars => [ManifestNext]_manifestVars
  BY DEF Next, vars
<1> QED BY <1>1, <1>2, <1>3, <1>4, <1>5, PTL DEF Spec, CdclSpec, ManifestSpec, XorSpec, PmlSpec

\* Whichever solver runs, and on which input: an answer of the learning solver is
\* right and what it learns follows from the formula, the lemmas of the manifest
\* follow and its records pass their checks, an elimination and its certificate are
\* sound, and a call of pml_refine answers for the assignment it was given.
THEOREM SolversAreRight ==
  Spec => /\ []AnswersRight /\ []LearnedImplied
          /\ []LemmasFollow /\ []RecordChecks
          /\ []EliminationSound /\ RefineAnswers
BY SolversApart, SolversAnswerRight, LearnedFollow, ProofsAreRight, RecordsAreRight, EliminationIsSound,
   RefineIsRight, PTL
=============================================================================
