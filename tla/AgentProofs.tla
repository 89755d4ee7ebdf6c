---------------------------- MODULE AgentProofs ----------------------------
(***************************************************************************)
(* Theorems of the game agents.  SelfTalk: what the GAME_OVERs of a run     *)
(* leave behind - support is credited and taken back exactly once, the      *)
(* events that keep their credit differ, old files penalize nothing, and no *)
(* game is played for ever.                                                 *)
(* TraceMemory: what is learned from traces was seen, or stems from a reply *)
(* the client could not read.  Agents: a behaviour of either is one of the  *)
(* composition, and none disturbs the other.                                *)
(***************************************************************************)
EXTENDS Agents, FiniteSetTheorems, WellFoundedInduction, TLAPS

Event == [r : Nat, l : Nat, periodic : BOOLEAN, credited : SUBSET Thing]

\* What a run was seeded with supports no lethal claim more than once.
PriorsDiscounted == \A k \in DOMAIN prior : prior[k].s <= 1

\* A process begins without events.
NothingYet == pc = "off" => events = <<>>

Accounts == TypeOK /\ NothingYet /\ PriorsDiscounted /\ SupportIsAccounted /\ KeptCreditsDiffer

---------------------------------------------------------------------------
(* Priors *)

\* Rounding a quotient of naturals
LEMMA RoundedBounds ==
  ASSUME NEW n \in Nat, NEW d \in Nat \ {0}
  PROVE  Rounded(n, d) \in Nat /\ (n <= d => Rounded(n, d) <= 1)
<1> DEFINE q == n \div d
           m == n % d
<1>1. q \in Int /\ m \in 0 .. d - 1 /\ n = d * q + m
  OBVIOUS
<1>2. q >= 0
  <2>1. ASSUME q <= -1 PROVE FALSE
    <3>1. d * q <= d * (-1)
      BY <1>1, <2>1
    <3> QED BY <1>1, <3>1
  <2> QED BY <1>1, <2>1
<1>3. ASSUME n <= d PROVE q <= 1 /\ (q = 1 => m = 0)
  <2>1. ASSUME q >= 2 PROVE FALSE
    <3>1. d * q >= d * 2
      BY <1>1, <2>1
    <3> QED BY <1>1, <1>3, <3>1
  <2> QED BY <1>1, <1>3, <2>1
<1> HIDE DEF q, m
<1>4. Rounded(n, d) = IF 2 * m > d \/ (2 * m = d /\ q % 2 = 1) THEN q + 1 ELSE q
  BY DEF Rounded, q, m
<1>5. Rounded(n, d) \in Nat
  BY <1>1, <1>2, <1>4
<1>6. n <= d => Rounded(n, d) <= 1
  BY <1>1, <1>2, <1>3, <1>4
<1> QED BY <1>5, <1>6

\* The counts a prior is seeded with are naturals, and no support grows beyond one.
LEMMA ScaledBounds ==
  ASSUME NEW s \in Nat, NEW c \in Nat, s + c > 0, s <= 1, NEW w \in Nat \ {0}
  PROVE  Scaled(s, c, w) \in Counts /\ Scaled(s, c, w).s <= 1
<1> DEFINE tot == s + c
           cap == IF tot < w THEN tot ELSE w
           up  == Rounded(s * cap, tot)
           ps  == IF s > 0 /\ up = 0 THEN 1 ELSE up
           pc0 == Rounded(c * cap, tot)
<1>1. tot \in Nat \ {0} /\ cap \in Nat /\ cap <= tot /\ cap >= 1
  OBVIOUS
<1>2. s * cap \in Nat /\ c * cap \in Nat /\ s * cap <= tot
  <2> HIDE DEF tot, cap
  <2>1. s = 0 \/ s = 1
    OBVIOUS
  <2>2. s * cap \in Nat /\ s * cap <= tot
    BY <1>1, <2>1
  <2>3. c * cap \in Nat
    BY <1>1
  <2> QED BY <2>2, <2>3
<1> HIDE DEF tot, cap
<1>3. up \in Nat /\ up <= 1 /\ pc0 \in Nat
  BY <1>1, <1>2, RoundedBounds
<1>4. ps \in Nat /\ ps <= 1
  BY <1>3
<1>5. Scaled(s, c, w) = IF ps + pc0 <= cap THEN [s |-> ps, c |-> pc0]
                        ELSE IF pc0 > 0 /\ (pc0 >= ps \/ ps <= 1) THEN [s |-> ps, c |-> pc0 - 1]
                        ELSE [s |-> ps - 1, c |-> pc0]
  BY DEF Scaled, tot, cap
<1> HIDE DEF ps, pc0
<1>6. CASE ps + pc0 <= cap
  BY <1>3, <1>4, <1>5, <1>6 DEF Counts
<1>7. CASE ps + pc0 > cap /\ pc0 > 0
  <2>1. pc0 - 1 \in Nat
    BY <1>3, <1>7
  <2>2. Scaled(s, c, w) = [s |-> ps, c |-> pc0 - 1]
    BY <1>1, <1>3, <1>4, <1>5, <1>7
  <2> QED BY <1>4, <2>1, <2>2 DEF Counts
<1>8. CASE ps + pc0 > cap /\ pc0 = 0
  BY <1>1, <1>3, <1>4, <1>8
<1> QED BY <1>1, <1>3, <1>4, <1>6, <1>7, <1>8

\* The claims a file seeds
LEMMA SeededBounds ==
  ASSUME NEW rows, IsFile(rows), PriorWeight > 0
  PROVE  /\ DOMAIN Seeded(rows) \subseteq Thing /\ Seeded(rows) \in [DOMAIN Seeded(rows) -> Counts]
         /\ \A k \in DOMAIN Seeded(rows) : Seeded(rows)[k].s <= 1
<1> DEFINE D(k) == Discounted(rows.lethal[k].s)
           C(k) == rows.lethal[k].c
           kept == {k \in DOMAIN rows.lethal \ rows.goals : D(k) + C(k) > 0}
<1>1. Seeded(rows) = [k \in kept |-> Scaled(D(k), C(k), PriorWeight)]
  BY DEF Seeded
<1>2. kept \subseteq Thing
  BY DEF IsFile
<1>3. ASSUME NEW k \in kept PROVE Scaled(D(k), C(k), PriorWeight) \in Counts /\ Scaled(D(k), C(k), PriorWeight).s <= 1
  <2>1. rows.lethal[k] \in Counts
    BY DEF IsFile
  <2>2. D(k) \in Nat /\ D(k) <= 1 /\ C(k) \in Nat
    BY <2>1 DEF Discounted, Counts
  <2>3. D(k) + C(k) > 0
    OBVIOUS
  <2> HIDE DEF D, C, kept
  <2> QED BY <2>2, <2>3, ScaledBounds, WeightAssumption
<1> HIDE DEF D, C, kept
<1> QED BY <1>1, <1>2, <1>3
---------------------------------------------------------------------------
(* Credits *)

\* The events credited to a thing are finitely many.
LEMMA CreditsFinite ==
  ASSUME NEW evs \in Seq(Event), NEW k
  PROVE  /\ IsFiniteSet(Credits(evs, k)) /\ Credits(evs, k) \subseteq 1 .. Len(evs)
         /\ Cardinality(Credits(evs, k)) \in Nat
<1>1. Credits(evs, k) \subseteq 1 .. Len(evs)
  BY DEF Credits
<1>2. IsFiniteSet(1 .. Len(evs))
  BY FS_Interval
<1> QED BY <1>1, <1>2, FS_Subset, FS_CardinalityType

\* classify marks events and takes their credit, and no more.
LEMMA MarkedEvents ==
  ASSUME NEW matching \in SUBSET DOMAIN events, events \in Seq(Event)
  PROVE  /\ Marked(matching) \in Seq(Event) /\ Len(Marked(matching)) = Len(events)
         /\ \A i \in DOMAIN events :
              /\ Marked(matching)[i].r = events[i].r /\ Marked(matching)[i].l = events[i].l
              /\ Marked(matching)[i].credited = IF i \in matching THEN {} ELSE events[i].credited
<1>1. DOMAIN events = 1 .. Len(events) /\ Len(events) \in Nat
  OBVIOUS
<1>2. ASSUME NEW i \in DOMAIN events
      PROVE  /\ Marked(matching)[i] \in Event
             /\ Marked(matching)[i].r = events[i].r /\ Marked(matching)[i].l = events[i].l
             /\ Marked(matching)[i].credited = IF i \in matching THEN {} ELSE events[i].credited
  <2>1. events[i] \in Event
    OBVIOUS
  <2>2. Marked(matching)[i] = IF i \in matching
                              THEN [[events[i] EXCEPT !.periodic = TRUE] EXCEPT !.credited = {}]
                              ELSE events[i]
    BY DEF Marked, Uncredited
  <2>3. [[events[i] EXCEPT !.periodic = TRUE] EXCEPT !.credited = {}] \in Event
    BY <2>1 DEF Event
  <2>4. CASE i \in matching
    BY <2>1, <2>2, <2>3, <2>4 DEF Event
  <2>5. CASE i \notin matching
    BY <2>1, <2>2, <2>5
  <2> QED BY <2>4, <2>5
<1>3. Marked(matching) = [i \in 1 .. Len(events) |-> Marked(matching)[i]]
  BY <1>1 DEF Marked
<1>4. \A i \in 1 .. Len(events) : Marked(matching)[i] \in Event
  BY <1>1, <1>2
<1>5. Marked(matching) \in Seq(Event) /\ Len(Marked(matching)) = Len(events)
  <2> DEFINE n == Len(events)
             evs == Marked(matching)
  <2>1. n \in Nat /\ evs = [i \in 1 .. n |-> evs[i]] /\ \A i \in 1 .. n : evs[i] \in Event
    BY <1>1, <1>3, <1>4
  <2> HIDE DEF n, evs
  <2>2. evs \in Seq(Event) /\ Len(evs) = n
    BY <2>1
  <2> QED BY <2>2 DEF n, evs
<1> QED BY <1>2, <1>5

\* The event of this step is appended.
LEMMA AppendedEvents ==
  ASSUME NEW evs \in Seq(Event), NEW ev \in Event, NEW k
  PROVE  /\ Append(evs, ev) \in Seq(Event) /\ DOMAIN Append(evs, ev) = 1 .. Len(evs) + 1
         /\ \A i \in 1 .. Len(evs) : Append(evs, ev)[i] = evs[i]
         /\ Append(evs, ev)[Len(evs) + 1] = ev
         /\ Cardinality(Credits(Append(evs, ev), k))
              = Cardinality(Credits(evs, k)) + (IF k \in ev.credited THEN 1 ELSE 0)
<1> DEFINE n == Len(evs) + 1
<1>1. /\ Append(evs, ev) \in Seq(Event) /\ DOMAIN Append(evs, ev) = 1 .. n
      /\ \A i \in 1 .. Len(evs) : Append(evs, ev)[i] = evs[i]
      /\ Append(evs, ev)[n] = ev
      /\ DOMAIN evs = 1 .. Len(evs) /\ Len(evs) \in Nat
  OBVIOUS
<1>2. Credits(Append(evs, ev), k) = IF k \in ev.credited THEN Credits(evs, k) \union {n} ELSE Credits(evs, k)
  BY <1>1 DEF Credits
<1>3. n \notin Credits(evs, k)
  BY <1>1 DEF Credits
<1>4. k \in ev.credited => Cardinality(Credits(Append(evs, ev), k)) = Cardinality(Credits(evs, k)) + 1
  BY <1>2, <1>3, CreditsFinite, FS_AddElement
<1>5. k \notin ev.credited => Cardinality(Credits(Append(evs, ev), k)) = Cardinality(Credits(evs, k))
  BY <1>2
<1>6. Cardinality(Credits(evs, k)) \in Nat
  BY CreditsFinite
<1> QED BY <1>1, <1>4, <1>5, <1>6

\* Taking back the credit of matching events
LEMMA UncreditedCount ==
  ASSUME NEW matching \in SUBSET DOMAIN events, events \in Seq(Event), NEW k
  PROVE  /\ Cardinality(Credits(events, k) \intersect matching) \in Nat
         /\ Cardinality(Credits(events, k) \intersect matching) <= Cardinality(Credits(events, k))
         /\ Cardinality(Credits(Marked(matching), k))
              = Cardinality(Credits(events, k)) - Cardinality(Credits(events, k) \intersect matching)
<1>1. DOMAIN Marked(matching) = DOMAIN events
  BY DEF Marked
<1>2. Credits(Marked(matching), k) = Credits(events, k) \ matching
  BY <1>1, MarkedEvents DEF Credits
<1>3. IsFiniteSet(Credits(events, k))
  BY CreditsFinite
<1>4. /\ IsFiniteSet(Credits(events, k) \intersect matching) /\ IsFiniteSet(Credits(events, k) \ matching)
      /\ Cardinality(Credits(events, k) \ matching)
           = Cardinality(Credits(events, k)) - Cardinality(Credits(events, k) \intersect matching)
      /\ Cardinality(Credits(events, k) \intersect matching) <= Cardinality(Credits(events, k))
  BY <1>3, FS_Difference, FS_Subset, FS_Intersection
<1>5. Cardinality(Credits(events, k) \intersect matching) \in Nat
  BY <1>4, FS_CardinalityType
<1> QED BY <1>2, <1>4, <1>5

---------------------------------------------------------------------------
(* Claims *)

\* claims are well formed, and told is what gained one support.
Gained(claims, told) ==
  /\ DOMAIN claims \subseteq Thing /\ claims \in [DOMAIN claims -> Counts]
  /\ \A k \in Thing : Support(claims, k) = Support(lethal, k) + (IF k \in told THEN 1 ELSE 0)

\* One observation of each thing that is heard of
LEMMA ClaimedBounds ==
  ASSUME NEW e \in Ekey, NEW touched \in SUBSET Touch, NEW over \in BOOLEAN,
         lethal \in [DOMAIN lethal -> Counts], DOMAIN lethal \subseteq Thing
  PROVE  Gained(ClaimedNext(lethal, e, touched, over), IF over THEN {e} \union touched ELSE {})
<1> DEFINE heard == {k \in {e} \union touched : over \/ k \in DOMAIN lethal}
           claims == ClaimedNext(lethal, e, touched, over)
           old(k) == IF k \in DOMAIN lethal THEN lethal[k] ELSE [s |-> 0, c |-> 0]
           new(k) == IF over THEN [s |-> old(k).s + 1, c |-> old(k).c] ELSE [s |-> old(k).s, c |-> old(k).c + 1]
<1>1. ASSUME NEW k \in DOMAIN lethal \union heard
      PROVE  /\ old(k) \in Counts /\ new(k) \in Counts
             /\ claims[k] = IF k \in heard THEN new(k) ELSE lethal[k]
  <2>1. old(k) \in Counts
    BY DEF Counts
  <2>2. new(k) = IF over THEN [old(k) EXCEPT !.s = @ + 1] ELSE [old(k) EXCEPT !.c = @ + 1]
    BY <2>1 DEF Counts
  <2>3. Observed(lethal, k, over)[k] = new(k)
    BY <2>2 DEF Observed
  <2>4. claims[k] = IF k \in heard THEN Observed(lethal, k, over)[k] ELSE lethal[k]
    BY DEF ClaimedNext
  <2> QED BY <2>1, <2>3, <2>4 DEF Counts
<1>2. DOMAIN claims = DOMAIN lethal \union heard
  BY DEF ClaimedNext
<1>3. heard \subseteq Thing
  BY DEF Thing
<1>4. claims = [k \in DOMAIN lethal \union heard |-> claims[k]]
  BY DEF ClaimedNext
<1>5. \A k \in DOMAIN lethal \union heard : k \notin heard => lethal[k] \in Counts
  OBVIOUS
<1> HIDE DEF claims, new
<1>6. claims \in [DOMAIN claims -> Counts]
  BY <1>1, <1>2, <1>4, <1>5
<1>7. ASSUME NEW k \in Thing
      PROVE  Support(claims, k) = Support(lethal, k) + (IF over /\ k \in {e} \union touched THEN 1 ELSE 0)
  <2>1. CASE k \in heard
    <3>1. claims[k] = new(k) /\ old(k) \in Counts /\ Support(claims, k) = new(k).s
      BY <1>1, <1>2, <2>1 DEF Support
    <3>2. Support(lethal, k) = old(k).s
      BY DEF Support
    <3>3. old(k).s \in Nat
      BY <3>1 DEF Counts
    <3>4. k \in {e} \union touched
      BY <2>1
    <3>5. new(k).s = old(k).s + (IF over THEN 1 ELSE 0)
      <4> HIDE DEF old
      <4> QED BY <3>3 DEF new
    <3> HIDE DEF old
    <3> QED BY <3>1, <3>2, <3>4, <3>5
  <2>2. CASE k \notin heard /\ k \in DOMAIN lethal
    BY <1>1, <1>2, <2>2 DEF Support, Counts
  <2>3. CASE k \notin heard /\ k \notin DOMAIN lethal
    BY <1>2, <2>3 DEF Support
  <2> QED BY <2>1, <2>2, <2>3
<1>8. DOMAIN claims \subseteq Thing
  BY <1>2, <1>3
<1> HIDE DEF heard, old
<1> QED BY <1>6, <1>7, <1>8 DEF claims, Gained

\* Taking back what matching events had credited
LEMMA RetractedBounds ==
  ASSUME NEW matching \in SUBSET DOMAIN events, events \in Seq(Event),
         lethal \in [DOMAIN lethal -> Counts], DOMAIN lethal \subseteq Thing,
         \A k \in Thing : Support(lethal, k) >= Cardinality(Credits(events, k))
  PROVE  LET claims == Retracted(lethal, matching)
         IN  /\ DOMAIN claims \subseteq Thing /\ claims \in [DOMAIN claims -> Counts]
             /\ \A k \in Thing : Support(claims, k)
                  = Support(lethal, k) - Cardinality(Credits(events, k) \intersect matching)
<1> DEFINE claims == Retracted(lethal, matching)
           credits(k) == Cardinality(Credits(events, k) \intersect matching)
           all(k) == Cardinality(Credits(events, k))
           left(k) == IF lethal[k].s >= credits(k) THEN lethal[k].s - credits(k) ELSE 0
<1>1. \A k : credits(k) \in Nat /\ credits(k) <= all(k) /\ all(k) \in Nat
  BY UncreditedCount, CreditsFinite
<1>2. claims = [k \in DOMAIN lethal |-> [lethal[k] EXCEPT !.s = left(k)]]
  BY DEF Retracted
<1>3. \A k \in Thing : Support(lethal, k) >= all(k)
  OBVIOUS
<1> HIDE DEF claims, credits, all
<1>4. ASSUME NEW k \in DOMAIN lethal
      PROVE  claims[k] \in Counts /\ claims[k].s = left(k)
  <2>1. lethal[k] \in Counts
    OBVIOUS
  <2>2. left(k) \in Nat
    BY <1>1, <2>1 DEF Counts
  <2> HIDE DEF left
  <2>3. [lethal[k] EXCEPT !.s = left(k)] \in Counts /\ [lethal[k] EXCEPT !.s = left(k)].s = left(k)
    BY <2>1, <2>2 DEF Counts
  <2> QED BY <1>2, <2>3
<1>5. DOMAIN claims = DOMAIN lethal
  BY <1>2
<1>6. claims \in [DOMAIN claims -> Counts]
  BY <1>2, <1>4, <1>5
<1>7. ASSUME NEW k \in Thing
      PROVE  Support(claims, k) = Support(lethal, k) - credits(k)
  <2>1. CASE k \in DOMAIN lethal
    <3>1. Support(lethal, k) = lethal[k].s /\ lethal[k].s \in Nat /\ Support(claims, k) = left(k)
      BY <1>4, <1>5, <2>1 DEF Support, Counts
    <3>2. lethal[k].s >= credits(k)
      BY <1>1, <1>3, <3>1
    <3> QED BY <3>1, <3>2
  <2>2. CASE k \notin DOMAIN lethal
    <3>1. Support(lethal, k) = 0 /\ Support(claims, k) = 0
      BY <1>5, <2>2 DEF Support
    <3>2. credits(k) = 0
      BY <1>1, <1>3, <3>1
    <3> QED BY <3>1, <3>2
  <2> QED BY <2>1, <2>2
<1> QED BY <1>5, <1>6, <1>7 DEF claims, credits

---------------------------------------------------------------------------
(* Steps *)

\* The confirmed claims make a file.
LEMMA ConfirmedIsFile == ASSUME TypeOK PROVE IsFile(ConfirmedRows)
<1> DEFINE D == {x \in DOMAIN lethal : Confirmed(lethal[x])}
<1>1. ConfirmedRows.lethal = [k \in D |-> lethal[k]] /\ ConfirmedRows.goals = goals
  BY DEF ConfirmedRows
<1>2. D \subseteq Thing /\ \A k \in D : lethal[k] \in Counts
  BY DEF TypeOK
<1> HIDE DEF D
<1> QED BY <1>1, <1>2 DEF IsFile, TypeOK

LEMMA EmptyMemory ==
  /\ DOMAIN <<>> = {} /\ <<>> \in [DOMAIN <<>> -> Counts] /\ <<>> \in Seq(Event)
  /\ \A k : Credits(<<>>, k) = {} /\ Support(<<>>, k) = 0 /\ Cardinality(Credits(<<>>, k)) = 0
<1>1. DOMAIN <<>> = {}
  OBVIOUS
<1>2. <<>> \in [{} -> Counts] /\ <<>> \in Seq(Event)
  OBVIOUS
<1>3. \A k : Credits(<<>>, k) = {} /\ Support(<<>>, k) = 0
  BY <1>1 DEF Credits, Support
<1> QED BY <1>1, <1>2, <1>3, FS_EmptySet

\* A process that is over leaves nothing behind.
LEMMA ExitAccounts ==
  ASSUME TypeOK, Exit, IsFile(file')
  PROVE  Accounts'
<1>1. TypeOK'
  BY EmptyMemory DEF TypeOK, Exit, rules, Event
<1>2. (NothingYet /\ PriorsDiscounted /\ KeptCreditsDiffer)'
  BY EmptyMemory DEF NothingYet, PriorsDiscounted, KeptCreditsDiffer, Exit
<1>3. SupportIsAccounted'
  <2>1. lethal' = <<>> /\ prior' = <<>> /\ events' = <<>>
    BY DEF Exit
  <2>2. \A k \in Thing : Support(lethal', k) = Support(prior', k) + Cardinality(Credits(events', k))
    BY <2>1, EmptyMemory
  <2> QED BY <2>2 DEF SupportIsAccounted, Support, Credits
<1> QED BY <1>1, <1>2, <1>3 DEF Accounts

\* Steps that teach nothing
LEMMA IdleAccounts ==
  ASSUME Accounts, UNCHANGED <<memory, prior, events>>, UNCHANGED <<file, rules>>,
         sinceReset' \in Nat, sinceLevel' \in Nat, pc' \in {"first", "loop", "reset", "over"}
  PROVE  Accounts'
<1>1. TypeOK'
  BY DEF Accounts, TypeOK, memory, rules
<1>2. NothingYet' /\ PriorsDiscounted'
  BY DEF Accounts, NothingYet, PriorsDiscounted
<1>3. SupportIsAccounted'
  BY DEF Accounts, SupportIsAccounted, Support, Credits, memory
<1>4. KeptCreditsDiffer'
  BY DEF Accounts, KeptCreditsDiffer
<1> QED BY <1>1, <1>2, <1>3, <1>4 DEF Accounts

\* A run begins with its priors and without events.
LEMMA StartAccounts ==
  ASSUME Accounts, NEW warm \in BOOLEAN, Start(warm)
  PROVE  Accounts'
<1>1. events = <<>> /\ events' = events /\ pc' = "first" /\ lethal' = prior'
  BY DEF Accounts, NothingYet, Start, tracker
<1>2. IsFile(file) /\ file' = file
  BY DEF Accounts, TypeOK, Start
<1>3. /\ DOMAIN prior' \subseteq Thing /\ prior' \in [DOMAIN prior' -> Counts]
      /\ \A k \in DOMAIN prior' : prior'[k].s <= 1
  <2>1. CASE warm /\ PriorWeight > 0
    BY <1>2, <2>1, SeededBounds DEF Start
  <2>2. CASE ~(warm /\ PriorWeight > 0)
    BY <2>2, EmptyMemory DEF Start
  <2> QED BY <2>1, <2>2
<1>4. goals' \subseteq Thing
  BY <1>2 DEF Start, IsFile
<1>5. TypeOK'
  BY <1>1, <1>2, <1>3, <1>4 DEF Accounts, TypeOK, Start, tracker, rules
<1>6. (NothingYet /\ PriorsDiscounted)'
  BY <1>1, <1>3 DEF NothingYet, PriorsDiscounted
<1>7. KeptCreditsDiffer'
  BY <1>1, EmptyMemory DEF KeptCreditsDiffer
<1>8. SupportIsAccounted'
  <2>1. ASSUME NEW k \in Thing
        PROVE  Support(lethal', k) = Support(prior', k) + Cardinality(Credits(events', k))
    <3>1. Support(prior', k) \in Nat
      BY <1>3 DEF Support, Counts
    <3>2. Cardinality(Credits(events', k)) = 0
      BY <1>1, EmptyMemory
    <3> QED BY <1>1, <3>1, <3>2
  <2> QED BY <2>1 DEF SupportIsAccounted, Support, Credits
<1> QED BY <1>5, <1>6, <1>7, <1>8 DEF Accounts

\* No event that keeps its credit shares a count with another one.
Differ(evs) ==
  \A i, j \in DOMAIN evs :
    i # j /\ evs[i].credited # {} /\ evs[j].credited # {} =>
      evs[i].r # evs[j].r /\ evs[i].l # evs[j].l

\* What the event of a GAME_OVER leaves: its counts are new, or nothing is credited.
LEMMA DifferKept ==
  ASSUME NEW evs \in Seq(Event), NEW ev \in Event, Differ(evs),
         ev.credited # {} => \A i \in DOMAIN evs : evs[i].credited # {} => evs[i].r # ev.r /\ evs[i].l # ev.l
  PROVE  Differ(Append(evs, ev))
<1> DEFINE n == Len(evs) + 1
           app == Append(evs, ev)
<1>1. /\ DOMAIN app = 1 .. n /\ app[n] = ev /\ \A i \in 1 .. Len(evs) : app[i] = evs[i]
      /\ DOMAIN evs = 1 .. Len(evs) /\ Len(evs) \in Nat
  BY AppendedEvents
<1>2. \A i \in 1 .. n : i = n \/ i \in DOMAIN evs
  BY <1>1
<1> HIDE DEF n, app
<1>3. \A i \in DOMAIN evs : app[i] = evs[i]
  BY <1>1
<1>4. ASSUME NEW i \in DOMAIN app, NEW j \in DOMAIN app, i # j, app[i].credited # {}, app[j].credited # {}
      PROVE  app[i].r # app[j].r /\ app[i].l # app[j].l
  <2>1. CASE i \in DOMAIN evs /\ j \in DOMAIN evs
    BY <1>3, <1>4, <2>1 DEF Differ
  <2>2. CASE i = n
    BY <1>1, <1>2, <1>3, <1>4, <2>2
  <2>3. CASE j = n
    BY <1>1, <1>2, <1>3, <1>4, <2>3
  <2> QED BY <1>1, <1>2, <2>1, <2>2, <2>3
<1>5. Differ(app)
  BY <1>4 DEF Differ
<1> QED BY <1>5 DEF app

LEMMA DifferMarked ==
  ASSUME NEW matching \in SUBSET DOMAIN events, events \in Seq(Event), Differ(events)
  PROVE  Differ(Marked(matching))
<1>1. DOMAIN Marked(matching) = DOMAIN events
  BY DEF Marked
<1>2. \A i \in DOMAIN events : Marked(matching)[i].credited # {} => events[i].credited # {}
  BY MarkedEvents
<1>3. \A i \in DOMAIN events : Marked(matching)[i].r = events[i].r /\ Marked(matching)[i].l = events[i].l
  BY MarkedEvents
<1> QED BY <1>1, <1>2, <1>3 DEF Differ

\* The three things an action may teach keep the account.
LEMMA ActAccounts ==
  ASSUME Accounts, NEW e \in Ekey, NEW touched \in SUBSET bounds.board, Act(e, touched)
  PROVE  Accounts'
<1>1. /\ events \in Seq(Event) /\ touched \subseteq Touch /\ {e} \union touched \subseteq Thing
      /\ lethal \in [DOMAIN lethal -> Counts] /\ DOMAIN lethal \subseteq Thing
      /\ sinceReset \in Nat /\ sinceLevel \in Nat /\ Differ(events) /\ goals \subseteq Thing
  BY BoardsAssumption DEF Accounts, TypeOK, Event, KeptCreditsDiffer, Differ, Thing
<1>2. ASSUME NEW k \in Thing
      PROVE  /\ Support(prior, k) \in Nat /\ Cardinality(Credits(events, k)) \in Nat
             /\ Support(lethal, k) = Support(prior, k) + Cardinality(Credits(events, k))
  <2>1. Support(prior, k) \in Nat
    BY DEF Accounts, TypeOK, Support, Counts
  <2> QED BY <1>1, <2>1, CreditsFinite DEF Accounts, SupportIsAccounted
<1>3. PICK levelUp, over, periodic \in BOOLEAN, r, l \in Nat, matching \in SUBSET DOMAIN events :
        /\ periodic = (over /\ Periodic(r, l))
        /\ matching = IF over THEN Matching(r, l) ELSE {}
        /\ sinceReset' = r /\ sinceLevel' = l
        /\ lethal' = IF periodic THEN Retracted(lethal, matching) ELSE ClaimedNext(lethal, e, touched, over)
        /\ events' = IF ~over THEN events
                     ELSE Append(Marked(matching),
                                 [r |-> r, l |-> l, periodic |-> periodic,
                                  credited |-> IF periodic THEN {} ELSE {e} \union touched])
        /\ goals' = RaisedNext(e, touched, levelUp)
  <2>1. PICK levelUp \in {data'.lv > data.lv}, over \in {data'.state = "GAME_OVER"} :
          Taught(e, touched, levelUp, over, sinceReset + 1, IF levelUp THEN 0 ELSE sinceLevel + 1)
    BY Zenon DEF Act
  <2> DEFINE r == sinceReset + 1
             l == IF levelUp THEN 0 ELSE sinceLevel + 1
             periodic == over /\ Periodic(r, l)
             matching == IF over THEN Matching(r, l) ELSE {}
  <2>2. r \in Nat /\ l \in Nat
    BY <1>1
  <2>3. Taught(e, touched, levelUp, over, r, l)
    BY <2>1
  <2>4. levelUp \in BOOLEAN /\ over \in BOOLEAN /\ periodic \in BOOLEAN
    OBVIOUS
  <2> HIDE DEF r, l
  <2>5. /\ sinceReset' = r /\ sinceLevel' = l
        /\ lethal' = IF periodic THEN Retracted(lethal, matching) ELSE ClaimedNext(lethal, e, touched, over)
        /\ events' = IF ~over THEN events
                     ELSE Append(Marked(matching),
                                 [r |-> r, l |-> l, periodic |-> periodic,
                                  credited |-> IF periodic THEN {} ELSE {e} \union touched])
        /\ goals' = RaisedNext(e, touched, levelUp)
    BY <2>3, Zenon DEF Taught
  <2>6. periodic = (over /\ Periodic(r, l)) /\ matching = IF over THEN Matching(r, l) ELSE {}
    OBVIOUS
  <2>7. matching \in SUBSET DOMAIN events
    BY DEF Matching
  <2> HIDE DEF periodic, matching
  <2> QED BY <2>2, <2>4, <2>5, <2>6, <2>7, Zenon
<1> DEFINE ev == [r |-> r, l |-> l, periodic |-> periodic, credited |-> IF periodic THEN {} ELSE {e} \union touched]
<1>4. ev \in Event
  BY <1>1 DEF Event
<1>5. matching \in SUBSET DOMAIN events
  OBVIOUS
<1>6. Marked(matching) \in Seq(Event) /\ Differ(Marked(matching))
  BY <1>1, <1>5, MarkedEvents, DifferMarked
<1>7. /\ events' \in Seq(Event) /\ Differ(events')
      /\ DOMAIN lethal' \subseteq Thing /\ lethal' \in [DOMAIN lethal' -> Counts]
      /\ \A k \in Thing : Support(lethal', k) = Support(prior, k) + Cardinality(Credits(events', k))
  <2>1. CASE ~over
    <3>1. events' = events /\ lethal' = ClaimedNext(lethal, e, touched, FALSE)
      BY <1>3, <2>1
    <3>2. Gained(lethal', {})
      BY <1>1, <3>1, ClaimedBounds
    <3>3. ASSUME NEW k \in Thing
          PROVE  Support(lethal', k) = Support(prior, k) + Cardinality(Credits(events', k))
      <4>1. Support(lethal', k) = Support(lethal, k) + 0
        BY <3>2 DEF Gained
      <4>2. Support(lethal', k) = Support(lethal, k)
        BY <1>2, <4>1
      <4>3. Cardinality(Credits(events', k)) = Cardinality(Credits(events, k))
        BY <3>1
      <4> QED BY <1>2, <4>2, <4>3
    <3>4. DOMAIN lethal' \subseteq Thing /\ lethal' \in [DOMAIN lethal' -> Counts]
      BY <3>2 DEF Gained
    <3> QED BY <1>1, <3>1, <3>3, <3>4
  <2>2. CASE over /\ periodic
    <3>1. events' = Append(Marked(matching), ev) /\ lethal' = Retracted(lethal, matching)
      BY <1>3, <2>2
    <3>2. ev.credited = {}
      BY <2>2
    <3> HIDE DEF ev
    <3>3. \A k \in Thing : Support(lethal, k) >= Cardinality(Credits(events, k))
      BY <1>2
    <3>4. /\ DOMAIN lethal' \subseteq Thing /\ lethal' \in [DOMAIN lethal' -> Counts]
          /\ \A k \in Thing : Support(lethal', k)
               = Support(lethal, k) - Cardinality(Credits(events, k) \intersect matching)
      BY <1>1, <1>5, <3>1, <3>3, RetractedBounds
    <3>5. ASSUME NEW k \in Thing
          PROVE  Support(lethal', k) = Support(prior, k) + Cardinality(Credits(events', k))
      <4>1. Cardinality(Credits(events', k)) = Cardinality(Credits(Marked(matching), k)) + 0
        BY <1>4, <1>6, <3>1, <3>2, AppendedEvents
      <4>2. /\ Cardinality(Credits(events, k) \intersect matching) \in Nat
            /\ Cardinality(Credits(Marked(matching), k))
                 = Cardinality(Credits(events, k)) - Cardinality(Credits(events, k) \intersect matching)
        BY <1>1, <1>5, UncreditedCount
      <4> QED BY <1>2, <3>4, <4>1, <4>2
    <3>6. events' \in Seq(Event)
      BY <1>4, <1>6, <3>1, AppendedEvents
    <3>7. Differ(events')
      BY <1>4, <1>6, <3>1, <3>2, DifferKept
    <3> QED BY <3>4, <3>5, <3>6, <3>7
  <2>3. CASE over /\ ~periodic
    <3>1. events' = Append(Marked(matching), ev) /\ lethal' = ClaimedNext(lethal, e, touched, TRUE)
      BY <1>3, <2>3
    <3>2. ev.credited = {e} \union touched /\ ev.r = r /\ ev.l = l
      BY <2>3
    <3> HIDE DEF ev
    <3>3. matching = {} /\ Matching(r, l) = {}
      BY <1>3, <2>3 DEF Periodic
    <3>4. \A i \in DOMAIN events : events[i].r # r /\ events[i].l # l
      BY <3>3 DEF Matching, Matches
    <3>5. Gained(lethal', {e} \union touched)
      BY <1>1, <3>1, ClaimedBounds
    <3>6. ASSUME NEW k \in Thing
          PROVE  Support(lethal', k) = Support(prior, k) + Cardinality(Credits(events', k))
      <4>1. Cardinality(Credits(events', k))
              = Cardinality(Credits(Marked(matching), k)) + (IF k \in {e} \union touched THEN 1 ELSE 0)
        BY <1>4, <1>6, <3>1, <3>2, AppendedEvents
      <4>2. Cardinality(Credits(events, k) \intersect matching) = 0
        BY <3>3, FS_EmptySet, Credits(events, k) \intersect matching = {}
      <4>3. Cardinality(Credits(Marked(matching), k)) = Cardinality(Credits(events, k))
        <5>1. Cardinality(Credits(Marked(matching), k)) = Cardinality(Credits(events, k)) - 0
          BY <1>1, <1>5, <4>2, UncreditedCount
        <5>2. Cardinality(Credits(events, k)) \in Nat
          BY <1>2
        <5> QED BY <5>1, <5>2
      <4>4. Support(lethal', k) = Support(lethal, k) + (IF k \in {e} \union touched THEN 1 ELSE 0)
        BY <3>5 DEF Gained
      <4> QED BY <1>2, <4>1, <4>3, <4>4
    <3>7. events' \in Seq(Event)
      BY <1>4, <1>6, <3>1, AppendedEvents
    <3>8. \A i \in DOMAIN Marked(matching) : Marked(matching)[i].r # ev.r /\ Marked(matching)[i].l # ev.l
      BY <1>1, <1>5, <3>2, <3>4, MarkedEvents DEF Marked
    <3>9. Differ(events')
      BY <1>4, <1>6, <3>1, <3>8, DifferKept
    <3> QED BY <3>5, <3>6, <3>7, <3>9 DEF Gained
  <2> QED BY <2>1, <2>2, <2>3
<1>8. UNCHANGED <<prior, pc, file, rules>> /\ pc = "loop"
  BY DEF Act, Playing
<1>9. goals' \subseteq Thing
  BY <1>1, <1>3 DEF RaisedNext
<1>10. TypeOK'
  BY <1>3, <1>7, <1>8, <1>9 DEF Accounts, TypeOK, Event, rules
<1>11. (NothingYet /\ PriorsDiscounted)'
  BY <1>8 DEF Accounts, NothingYet, PriorsDiscounted
<1>12. SupportIsAccounted'
  BY <1>7, <1>8 DEF SupportIsAccounted, Support, Credits
<1>13. KeptCreditsDiffer'
  BY <1>7 DEF KeptCreditsDiffer, Differ
<1> QED BY <1>10, <1>11, <1>12, <1>13 DEF Accounts

LEMMA InitAccounts == Init => Accounts
<1> SUFFICES ASSUME Init PROVE Accounts
  OBVIOUS
<1>1. TypeOK
  BY EmptyMemory, FilesAssumption DEF Init, TypeOK, Event
<1>2. NothingYet /\ PriorsDiscounted /\ KeptCreditsDiffer
  BY EmptyMemory DEF Init, NothingYet, PriorsDiscounted, KeptCreditsDiffer
<1>3. SupportIsAccounted
  BY EmptyMemory DEF Init, SupportIsAccounted
<1> QED BY <1>1, <1>2, <1>3 DEF Accounts

LEMMA StepAccounts == Accounts /\ [Next]_vars => Accounts'
<1> SUFFICES ASSUME Accounts, [Next]_vars PROVE Accounts'
  OBVIOUS
<1> USE DEF Accounts
<1>1. ASSUME NEW warm \in BOOLEAN, Start(warm) PROVE Accounts'
  BY <1>1, StartAccounts
<1>2. CASE FirstReset
  BY <1>2, IdleAccounts DEF FirstReset, OnReset, rules
<1>3. CASE Reset
  BY <1>3, IdleAccounts DEF Reset, TypeOK, tracker, rules
<1>4. CASE ResetDone
  BY <1>4, IdleAccounts DEF ResetDone, OnReset, rules
<1>5. CASE Stop
  BY <1>5, IdleAccounts DEF Stop, TypeOK, tracker, rules
<1>6. CASE Fail
  BY <1>6, IdleAccounts DEF Fail, TypeOK, tracker, rules
<1>7. CASE WriteFinal
  <2>1. IsFile(file')
    BY <1>7, ConfirmedIsFile DEF WriteFinal
  <2> QED BY <1>7, <2>1, ExitAccounts DEF WriteFinal
<1>8. CASE Kill
  <2>1. IsFile(file')
    BY <1>8 DEF Kill, TypeOK
  <2> QED BY <1>8, <2>1, ExitAccounts DEF Kill
<1>9. ASSUME NEW e \in Ekey, NEW touched \in SUBSET bounds.board, Act(e, touched) PROVE Accounts'
  BY <1>9, ActAccounts
<1>10. CASE UNCHANGED vars
  BY <1>10, IdleAccounts DEF vars, memory, tracker, loop, rules, TypeOK, IsFile, Support, Credits,
     NothingYet, PriorsDiscounted, SupportIsAccounted, KeptCreditsDiffer
<1> QED BY <1>1, <1>2, <1>3, <1>4, <1>5, <1>6, <1>7, <1>8, <1>9, <1>10 DEF Next, Play

\* The inductive invariant of a run
THEOREM AccountsHold == Spec => []Accounts
BY InitAccounts, StepAccounts, PTL DEF Spec

---------------------------------------------------------------------------
(* However crediting and retracting alternate, the support of a lethal     *)
(* claim is its prior and the GAME_OVERs still credited to it.             *)
THEOREM SupportIsExact == Spec => []SupportIsAccounted
<1>1. Accounts => SupportIsAccounted
  BY DEF Accounts
<1> QED BY <1>1, AccountsHold, PTL

(* Two GAME_OVERs that keep their credit differ in both counts.            *)
THEOREM CreditsDiffer == Spec => []KeptCreditsDiffer
<1>1. Accounts => KeptCreditsDiffer
  BY DEF Accounts
<1> QED BY <1>1, AccountsHold, PTL

(* What a file of an earlier run brought is not enough to penalize an      *)
(* action: a penalizing claim has a GAME_OVER of this run to its credit.   *)
THEOREM FreshEvidence == Spec => []OnlyFreshEvidencePenalizes
<1>1. ASSUME Accounts PROVE OnlyFreshEvidencePenalizes
  <2> SUFFICES ASSUME NEW k \in DOMAIN lethal, lethal[k].s >= MinSupport, Credits(events, k) = {}
               PROVE  FALSE
    BY DEF OnlyFreshEvidencePenalizes
  <2>1. k \in Thing /\ Support(lethal, k) = lethal[k].s
    BY <1>1 DEF Accounts, TypeOK, Support
  <2>2. Cardinality(Credits(events, k)) = 0
    BY FS_EmptySet
  <2>3. Support(prior, k) \in Nat /\ Support(prior, k) <= 1
    BY <1>1 DEF Accounts, TypeOK, PriorsDiscounted, Support, Counts
  <2>4. lethal[k].s <= 1
    BY <1>1, <2>1, <2>2, <2>3 DEF Accounts, SupportIsAccounted
  <2>5. lethal[k].s \in Nat
    BY <1>1 DEF Accounts, TypeOK, Counts
  <2> QED BY <2>4, <2>5, WeightAssumption
<1>2. Accounts => OnlyFreshEvidencePenalizes
  BY <1>1
<1> QED BY <1>2, AccountsHold, PTL

---------------------------------------------------------------------------
(* The end of a game                                                       *)

\* What is left of a run: the script's stage, the actions of the budget, and in the
\* loop the steps to the next action, none without a reset ahead.
Stage ==
  IF pc = "first" THEN 3 ELSE IF pc \in {"loop", "reset"} THEN 2 ELSE IF pc = "over" THEN 1 ELSE 0

ActionsLeft == IF steps < bounds.budget THEN bounds.budget - steps ELSE 0

ToAction == IF pc = "loop" THEN IF MustReset THEN 2 ELSE 0 ELSE 1

PlayRank == << Stage, ActionsLeft, ToAction >>

PlayRanks == [1 .. 3 -> Nat]

\* The first of two ranks is lower, in the order of the lexicon.
Lower == OpToRel(<, Nat)

SoonerOver == LexProductOrdering(Lower, Nat, 3)

Counted == steps \in Nat /\ bounds \in Bounds

LEMMA SoonerOverFirst ==
  ASSUME NEW r \in PlayRanks, NEW s \in PlayRanks, NEW k \in 1 .. 3,
         r[k] < s[k], \A j \in 1 .. k - 1 : r[j] = s[j]
  PROVE  <<r, s>> \in SoonerOver
<1>1. r[k] \in Nat /\ s[k] \in Nat
  BY DEF PlayRanks
<1>2. <<r[k], s[k]>> \in Lower
  BY <1>1 DEF Lower, OpToRel
<1> DEFINE p == <<r, s>>
<1>3. p[1] = r /\ p[2] = s /\ p \in [1 .. 3 -> Nat] \X [1 .. 3 -> Nat]
  BY DEF PlayRanks
<1> HIDE DEF p
<1>4. \E j \in 1 .. 3 : (\A i \in 1 .. (j - 1) : p[1][i] = p[2][i]) /\ <<p[1][j], p[2][j]>> \in Lower
  BY <1>2, <1>3, Zenon
<1>5. p \in LexProductOrdering(Lower, Nat, 3)
  BY <1>3, <1>4, Zenon DEF LexProductOrdering
<1> QED BY <1>5 DEF p, SoonerOver

LEMMA SoonerOverWellFounded == IsWellFoundedOn(SoonerOver, PlayRanks)
<1>1. 3 \in Nat
  OBVIOUS
<1>2. IsWellFoundedOn(Lower, Nat)
  BY NatLessThanWellFounded DEF Lower, OpToRel
<1> QED BY <1>1, <1>2, WFLexProductOrdering, Zenon DEF SoonerOver, PlayRanks

LEMMA PlayRankTyped == ASSUME Counted PROVE PlayRank \in PlayRanks
<1>1. Stage \in Nat /\ ToAction \in Nat
  BY DEF Stage, ToAction
<1>2. ActionsLeft \in Nat
  BY LoopAssumption DEF Counted, ActionsLeft
<1> QED BY <1>1, <1>2 DEF PlayRank, PlayRanks

LEMMA CountedStep == ASSUME Counted, [Next]_vars PROVE Counted'
<1>1. bounds' = bounds
  BY DEF Next, vars, Play, FirstReset, Reset, ResetDone, Stop, Fail, WriteFinal, Kill, Exit, Start, Act, rules
<1>2. steps' \in {steps, steps + 1, 0}
  BY DEF Next, vars, loop, Play, FirstReset, Reset, ResetDone, Stop, Fail, WriteFinal, Kill, Exit, Start, Act
<1> QED BY <1>1, <1>2 DEF Counted

LEMMA PlayRankFalls ==
  ASSUME Counted, PlayRank \in PlayRanks, (PlayRank \in PlayRanks)', Play
  PROVE  <<PlayRank', PlayRank>> \in SoonerOver
<1>1. PlayRank' \in PlayRanks
  BY DEF PlayRanks
<1>2. /\ PlayRank[1] = Stage /\ PlayRank[2] = ActionsLeft /\ PlayRank[3] = ToAction
      /\ PlayRank'[1] = Stage' /\ PlayRank'[2] = ActionsLeft' /\ PlayRank'[3] = ToAction'
  BY DEF PlayRank
<1>3. ASSUME Stage' < Stage PROVE <<PlayRank', PlayRank>> \in SoonerOver
  <2>1. \A j \in 1 .. 1 - 1 : PlayRank'[j] = PlayRank[j]
    OBVIOUS
  <2> QED BY <1>1, <1>2, <1>3, <2>1, SoonerOverFirst
<1>4. ASSUME Stage' = Stage, ActionsLeft' < ActionsLeft PROVE <<PlayRank', PlayRank>> \in SoonerOver
  <2>1. \A j \in 1 .. 2 - 1 : PlayRank'[j] = PlayRank[j]
    BY <1>2, <1>4
  <2> QED BY <1>1, <1>2, <1>4, <2>1, SoonerOverFirst
<1>5. ASSUME Stage' = Stage, ActionsLeft' = ActionsLeft, ToAction' < ToAction
      PROVE  <<PlayRank', PlayRank>> \in SoonerOver
  <2>1. \A j \in 1 .. 3 - 1 : PlayRank'[j] = PlayRank[j]
    <3>1. \A j \in 1 .. 3 - 1 : j = 1 \/ j = 2
      OBVIOUS
    <3> QED BY <1>2, <1>5, <3>1
  <2> QED BY <1>1, <1>2, <1>5, <2>1, SoonerOverFirst
<1>6. CASE FirstReset
  BY <1>3, <1>6 DEF FirstReset, Stage
<1>7. CASE Reset
  <2>1. pc = "loop" /\ MustReset /\ pc' = "reset" /\ steps' = steps /\ bounds' = bounds
    BY <1>7 DEF Reset, Playing, rules
  <2>2. Stage' = Stage /\ ActionsLeft' = ActionsLeft
    BY <2>1 DEF Stage, ActionsLeft
  <2>3. ToAction = 2 /\ ToAction' = 1
    BY <2>1 DEF ToAction
  <2> QED BY <1>5, <2>2, <2>3
<1>8. CASE ResetDone
  <2>1. /\ pc = "reset" /\ steps' = steps /\ bounds' = bounds /\ idle' = 0
        /\ pc' = IF data'.state \in {"http400", "NOT_PLAYED"} THEN "over" ELSE "loop"
    BY <1>8 DEF ResetDone, AfterReset, rules
  <2>2. CASE pc' = "over"
    BY <1>3, <2>1, <2>2 DEF Stage
  <2>3. CASE pc' = "loop"
    <3>1. data'.state = "NOT_FINISHED"
      <4>1. \/ data' = Answer(server') /\ server' = Fresh(server.lv)
            \/ data' \in {Refusal, NotPlayed(server)}
        BY <1>8 DEF ResetDone, ResetAnswer
      <4> QED BY <2>1, <2>3, <4>1 DEF Refusal, NotPlayed, Answer, Fresh
    <3>2. ~MustReset'
      BY <2>1, <3>1, LoopAssumption DEF MustReset
    <3>3. ToAction = 1 /\ ToAction' = 0
      BY <2>1, <2>3, <3>2 DEF ToAction
    <3>4. Stage' = Stage /\ ActionsLeft' = ActionsLeft
      BY <2>1, <2>3 DEF Stage, ActionsLeft
    <3> QED BY <1>5, <3>3, <3>4
  <2> QED BY <2>1, <2>2, <2>3
<1>9. ASSUME NEW e \in Ekey, NEW touched \in SUBSET bounds.board, Act(e, touched)
      PROVE  <<PlayRank', PlayRank>> \in SoonerOver
  <2>1. pc' = pc /\ steps < bounds.budget /\ steps' = steps + 1 /\ bounds' = bounds
    BY <1>9 DEF Act, Playing, rules
  <2>2. Stage' = Stage
    BY <2>1 DEF Stage
  <2>3. ActionsLeft' < ActionsLeft
    BY <2>1, LoopAssumption DEF Counted, ActionsLeft
  <2> QED BY <1>4, <2>2, <2>3
<1>10. CASE Stop \/ Fail
  BY <1>3, <1>10 DEF Stop, Fail, Stage
<1>11. CASE WriteFinal
  BY <1>3, <1>11 DEF WriteFinal, Exit, Stage
<1> QED BY <1>6, <1>7, <1>8, <1>9, <1>10, <1>11 DEF Play

\* No game is played for ever: every step the script takes lowers a rank, an action by
\* using up the budget, a reset by bringing the next action nearer, and ranks cannot be
\* lowered for ever.
THEOREM GameRunsOut ==
  /\ IsWellFoundedOn(SoonerOver, PlayRanks)
  /\ Spec => [](PlayRank \in PlayRanks) /\ [][Play => <<PlayRank', PlayRank>> \in SoonerOver]_vars
<1>1. Init => Counted
  BY DEF Init, Counted
<1>2. Counted /\ [Next]_vars => Counted'
  BY CountedStep
<1>3. Counted => PlayRank \in PlayRanks
  BY PlayRankTyped
<1>4. Counted /\ PlayRank \in PlayRanks /\ (PlayRank \in PlayRanks)' /\ [Next]_vars
        => [Play => <<PlayRank', PlayRank>> \in SoonerOver]_vars
  BY PlayRankFalls
<1>5. Spec => [](PlayRank \in PlayRanks) /\ [][Play => <<PlayRank', PlayRank>> \in SoonerOver]_vars
  BY <1>1, <1>2, <1>3, <1>4, PTL DEF Spec
<1> QED BY <1>5, SoonerOverWellFounded

-----------------------------------------------------------------------------
(* The trace agents                                                        *)

TraceRow == [action : Actions, sig : Signatures \union {"empty"}, levels : Nat, up : BOOLEAN]

Reply == [frame : Frame \union {"empty"}, levels : Nat,
          state : {"http400", "NOT_FINISHED", "GAME_OVER", "WIN", "NOT_PLAYED"}]

TraceTyped ==
  /\ traces \in [Agents -> Seq(TraceRow)] /\ agent \in Agents /\ offer \subseteq Actions
  /\ recipes \in Seq(Actions) /\ progress \in [Signatures -> Actions \union {NoAction}]
  /\ reply \in Reply /\ (reply.state = "http400" \/ reply.frame \in Frame)
  /\ game \in Reply /\ game.state # "http400" /\ game.frame \in Frame
  /\ lastLevels \in Nat

\* An action has raised a level, by what was done, or may be misread.
Witnessed(action, did, unsure) ==
  \/ \E e \in did : e.up /\ e.action = action
  \/ \E d \in unsure : d[2] = action

\* What a row would teach WorldModel.ingest_jsonl
EdgeOfRow(rows, i) ==
  Edge(rows[i - 1].sig, rows[i].action, RaisesFrom(rows, i), rows[i].sig # rows[i - 1].sig)

\* What would be learned from a row has happened.
RowIsSeen(rows, i, did, unsure) ==
  /\ Raises(rows, i) => Witnessed(rows[i].action, did, unsure)
  /\ i > 1 => \/ \E deed \in did : Told(EdgeOfRow(rows, i), deed)
              \/ <<rows[i - 1].sig, rows[i].action>> \in unsure

TracesSeen == \A a \in Agents : \A i \in DOMAIN traces[a] : RowIsSeen(traces[a], i, took, doubtful)

\* Within the loop the agent counts no level the server has not given; once it has
\* sent something after the last RESET, what it last logged is where the game is.
Attentive ==
  stage = "loop" =>
    /\ lastLevels <= game.levels
    /\ traces[agent] = <<>> => first
    /\ ~first /\ reply.state # "http400" =>
         /\ reply = game /\ lastLevels = game.levels
         /\ traces[agent] # <<>> /\ traces[agent][Len(traces[agent])].sig = SignatureOf(reply.frame)
         /\ traces[agent][Len(traces[agent])].levels = game.levels

TraceIInv == TraceTyped /\ TracesSeen /\ Attentive /\ LearnedIsSeen

-----------------------------------------------------------------------------

\* A sequence taken from some places of a list
LEMMA TakenFrom ==
  ASSUME NEW S, NEW n \in Nat, NEW places \in SUBSET (1 .. n), NEW list \in [1 .. n -> S],
         NEW at \in Ascending(places), NEW c, c = [k \in DOMAIN at |-> list[at[k]]]
  PROVE  c \in Seq(S) /\ \A k \in DOMAIN c : \E i \in places : c[k] = list[i]
<1> DEFINE m == Cardinality(places)
<1>1. m \in Nat
  <2>1. IsFiniteSet(1 .. n)
    BY FS_Interval
  <2> QED BY <2>1, FS_Subset, FS_CardinalityType
<1>2. at \in [1 .. m -> places]
  BY DEF Ascending
<1> HIDE DEF m
<1>3. c \in [1 .. m -> S]
  BY <1>2
<1>4. c \in Seq(S)
  BY <1>1, <1>3
<1>5. \A k \in DOMAIN c : at[k] \in places /\ c[k] = list[at[k]]
  BY <1>2
<1> QED BY <1>4, <1>5

LEMMA ChosenFrom ==
  ASSUME NEW rows \in Seq(TraceRow), NEW places \in SUBSET (DOMAIN rows), NEW c \in Chosen(rows, places)
  PROVE  c \in Seq(Actions) /\ \A k \in DOMAIN c : \E i \in places : c[k] = rows[i].action
<1> DEFINE n == Len(rows)
           list == [i \in 1 .. n |-> rows[i].action]
<1>1. n \in Nat /\ DOMAIN rows = 1 .. n /\ \A i \in 1 .. n : rows[i] \in TraceRow
  OBVIOUS
<1>2. PICK at \in Ascending(places) : c = [k \in DOMAIN at |-> rows[at[k]].action]
  BY DEF Chosen
<1>3. at \in [DOMAIN at -> places]
  BY DEF Ascending
<1> HIDE DEF n
<1>4. list \in [1 .. n -> Actions]
  BY <1>1 DEF TraceRow
<1>5. c = [k \in DOMAIN at |-> list[at[k]]]
  BY <1>1, <1>2, <1>3
<1>6. places \in SUBSET (1 .. n)
  BY <1>1
<1>7. \A i \in places : list[i] = rows[i].action
  BY <1>6
<1> HIDE DEF list
<1>8. c \in Seq(Actions) /\ \A k \in DOMAIN c : \E i \in places : c[k] = list[i]
  BY <1>1, <1>4, <1>5, <1>6, TakenFrom
<1> QED BY <1>7, <1>8

LEMMA AddedFrom ==
  ASSUME NEW list \in Seq(Actions), NEW c \in Added(list)
  PROVE  c \in Seq(Actions) /\ \A k \in DOMAIN c : \E i \in DOMAIN list : c[k] = list[i]
<1> DEFINE places == {k \in DOMAIN list : \A j \in 1 .. k - 1 : list[j] # list[k]}
           n == Len(list)
<1>1. n \in Nat /\ DOMAIN list = 1 .. n /\ list \in [1 .. n -> Actions]
  OBVIOUS
<1>2. PICK at \in Ascending(places) : c = [k \in DOMAIN at |-> list[at[k]]]
  BY DEF Added
<1>3. places \in SUBSET (1 .. n)
  BY <1>1
<1> HIDE DEF places, n
<1>4. c \in Seq(Actions) /\ \A k \in DOMAIN c : \E i \in places : c[k] = list[i]
  BY <1>1, <1>2, <1>3, TakenFrom
<1> QED BY <1>1, <1>3, <1>4

\* Recipes taken from traces are clicks whose rows raise a level, or seeds.
LEMMA RecipesFrom ==
  ASSUME NEW f1 \in Seq(TraceRow), NEW f2 \in Seq(TraceRow), NEW files, files[1] = f1, files[2] = f2,
         NEW c \in IngestedRecipes(files)
  PROVE  /\ c \in Seq(Actions)
         /\ \A k \in DOMAIN c : \/ c[k] \in ToSet(Seeds)
                                \/ \E i \in DOMAIN f1 : Raises(f1, i) /\ c[k] = f1[i].action
                                \/ \E i \in DOMAIN f2 : Raises(f2, i) /\ c[k] = f2[i].action
<1>1. PICK one \in Clicked(f1), other \in Clicked(f2) : c \in Added(one \o other \o Seeds)
  BY DEF IngestedRecipes
<1>2. one \in Seq(Actions) /\ \A k \in DOMAIN one : \E i \in DOMAIN f1 : Raises(f1, i) /\ one[k] = f1[i].action
  <2> DEFINE places == {i \in DOMAIN f1 : f1[i].action \in Clicks /\ Raises(f1, i)}
  <2>1. one \in Chosen(f1, places) /\ places \in SUBSET (DOMAIN f1)
    BY <1>1 DEF Clicked
  <2> HIDE DEF places
  <2>2. one \in Seq(Actions) /\ \A k \in DOMAIN one : \E i \in places : one[k] = f1[i].action
    BY <2>1, ChosenFrom
  <2> QED BY <2>2 DEF places
<1>3. other \in Seq(Actions) /\ \A k \in DOMAIN other : \E i \in DOMAIN f2 : Raises(f2, i) /\ other[k] = f2[i].action
  <2> DEFINE places == {i \in DOMAIN f2 : f2[i].action \in Clicks /\ Raises(f2, i)}
  <2>1. other \in Chosen(f2, places) /\ places \in SUBSET (DOMAIN f2)
    BY <1>1 DEF Clicked
  <2> HIDE DEF places
  <2>2. other \in Seq(Actions) /\ \A k \in DOMAIN other : \E i \in places : other[k] = f2[i].action
    BY <2>1, ChosenFrom
  <2> QED BY <2>2 DEF places
<1>4. Seeds \in Seq(Actions)
  BY SeedsAreActions
<1> DEFINE both == one \o other
           all == both \o Seeds
<1>5. /\ both \in Seq(Actions)
      /\ \A k \in DOMAIN both : (\E j \in DOMAIN one : both[k] = one[j]) \/ (\E j \in DOMAIN other : both[k] = other[j])
  <2>1. both \in Seq(Actions) /\ Len(both) = Len(one) + Len(other)
    BY <1>2, <1>3
  <2>2. ASSUME NEW k \in DOMAIN both
        PROVE  (\E j \in DOMAIN one : both[k] = one[j]) \/ (\E j \in DOMAIN other : both[k] = other[j])
    <3>1. CASE k <= Len(one)
      <4>1. k \in DOMAIN one /\ both[k] = one[k]
        BY <1>2, <1>3, <2>1, <3>1
      <4> QED BY <4>1
    <3>2. CASE k > Len(one)
      <4>1. k - Len(one) \in DOMAIN other /\ both[k] = other[k - Len(one)]
        BY <1>2, <1>3, <2>1, <3>2
      <4> QED BY <4>1
    <3>3. k \in Nat /\ Len(one) \in Nat
      BY <1>2, <2>1
    <3> QED BY <3>1, <3>2, <3>3
  <2> QED BY <2>1, <2>2
<1>6. /\ all \in Seq(Actions)
      /\ \A k \in DOMAIN all : (\E j \in DOMAIN both : all[k] = both[j]) \/ (\E j \in DOMAIN Seeds : all[k] = Seeds[j])
  <2> HIDE DEF both
  <2>1. all \in Seq(Actions) /\ Len(all) = Len(both) + Len(Seeds)
    BY <1>4, <1>5
  <2>2. ASSUME NEW k \in DOMAIN all
        PROVE  (\E j \in DOMAIN both : all[k] = both[j]) \/ (\E j \in DOMAIN Seeds : all[k] = Seeds[j])
    <3>1. CASE k <= Len(both)
      <4>1. k \in DOMAIN both /\ all[k] = both[k]
        BY <1>4, <1>5, <2>1, <3>1
      <4> QED BY <4>1
    <3>2. CASE k > Len(both)
      <4>1. k - Len(both) \in DOMAIN Seeds /\ all[k] = Seeds[k - Len(both)]
        BY <1>4, <1>5, <2>1, <3>2
      <4> QED BY <4>1
    <3>3. k \in Nat /\ Len(both) \in Nat
      BY <1>5, <2>1
    <3> QED BY <3>1, <3>2, <3>3
  <2> QED BY <2>1, <2>2
<1>7. \A j \in DOMAIN Seeds : Seeds[j] \in ToSet(Seeds)
  BY DEF ToSet
<1> HIDE DEF all, both
<1>8. c \in Seq(Actions) /\ \A k \in DOMAIN c : \E i \in DOMAIN all : c[k] = all[i]
  <2>1. c \in Added(all)
    BY <1>1 DEF all, both
  <2> QED BY <1>6, <2>1, AddedFrom
<1>9. \A k \in DOMAIN c : \/ \E j \in DOMAIN one : c[k] = one[j]
                          \/ \E j \in DOMAIN other : c[k] = other[j]
                          \/ \E j \in DOMAIN Seeds : c[k] = Seeds[j]
  <2> TAKE k \in DOMAIN c
  <2>1. PICK i \in DOMAIN all : c[k] = all[i]
    BY <1>8
  <2>2. CASE \E j \in DOMAIN Seeds : all[i] = Seeds[j]
    BY <2>1, <2>2
  <2>3. CASE \E j \in DOMAIN both : all[i] = both[j]
    BY <1>5, <2>1, <2>3
  <2> QED BY <1>6, <2>1, <2>2, <2>3
<1>10. ASSUME NEW k \in DOMAIN c
       PROVE  \/ c[k] \in ToSet(Seeds)
              \/ \E i \in DOMAIN f1 : Raises(f1, i) /\ c[k] = f1[i].action
              \/ \E i \in DOMAIN f2 : Raises(f2, i) /\ c[k] = f2[i].action
  <2>1. CASE \E j \in DOMAIN one : c[k] = one[j]
    BY <1>2, <2>1
  <2>2. CASE \E j \in DOMAIN other : c[k] = other[j]
    BY <1>3, <2>2
  <2>3. CASE \E j \in DOMAIN Seeds : c[k] = Seeds[j]
    BY <1>7, <2>3
  <2> QED BY <1>9, <2>1, <2>2, <2>3
<1> QED BY <1>8, <1>10

\* What has happened has happened.
LEMMA Lasting ==
  ASSUME took \subseteq took', doubtful \subseteq doubtful'
  PROVE  /\ \A action : Witnessed(action, took, doubtful) => Witnessed(action, took', doubtful')
         /\ \A rows, i : RowIsSeen(rows, i, took, doubtful) => RowIsSeen(rows, i, took', doubtful')
<1>1. \A action : Witnessed(action, took, doubtful) => Witnessed(action, took', doubtful')
  BY DEF Witnessed
<1>2. ASSUME NEW rows, NEW i, RowIsSeen(rows, i, took, doubtful)
      PROVE  RowIsSeen(rows, i, took', doubtful')
  BY <1>1, <1>2 DEF RowIsSeen
<1> QED BY <1>1, <1>2

\* What the server answers
LEMMA Replies ==
  ASSUME TraceTyped
  PROVE  /\ Refused \in Reply /\ Refused.state = "http400" /\ Refused.levels = 0
         /\ \A r \in Running \union Raised :
              /\ r \in Reply /\ r.state # "http400" /\ r.frame \in Frame /\ r # Refused
              /\ game.levels <= r.levels
<1>1. game.levels \in Nat
  BY DEF TraceTyped, Reply
<1>2. Refused \in Reply /\ Refused.state = "http400" /\ Refused.levels = 0
  BY DEF Refused, Reply
<1>3. ASSUME NEW r \in Running \union Raised
      PROVE  /\ r \in Reply /\ r.state # "http400" /\ r.frame \in Frame
             /\ game.levels <= r.levels
  <2>1. CASE r \in Running
    BY <1>1, <2>1, FirstFrameAssumption DEF Running, Reply
  <2>2. CASE r \in Raised
    <3>1. /\ r \in [frame : Frame, levels : {game.levels + 1},
                    state : {IF game.levels + 1 = TopLevel THEN "WIN" ELSE "NOT_FINISHED"}]
      BY <2>2 DEF Raised
    <3>2. r.levels = game.levels + 1 /\ r.frame \in Frame /\ r.state \in {"WIN", "NOT_FINISHED"}
          /\ r = [frame |-> r.frame, levels |-> r.levels, state |-> r.state]
      BY <3>1
    <3> QED BY <1>1, <3>2 DEF Reply
  <2> QED BY <2>1, <2>2
<1> QED BY <1>2, <1>3

LEMMA AfterResetting ==
  ASSUME TraceTyped, ResetReply
  PROVE  /\ reply' \in Reply /\ (reply'.state = "http400" \/ reply'.frame \in Frame)
         /\ game' \in Reply /\ game'.state # "http400" /\ game'.frame \in Frame
         /\ game'.levels = game.levels /\ reply'.levels <= game.levels
<1>1. game.levels \in Nat
  BY DEF TraceTyped, Reply
<1>2. Refused \in Reply /\ Refused.state = "http400" /\ Refused.levels = 0
  BY Replies
<1>3. /\ Restarted \in Reply /\ Restarted.levels = game.levels /\ Restarted.frame \in Frame
      /\ Restarted.state # "http400"
  BY <1>1, FirstFrameAssumption DEF Restarted, Reply
<1>4. CASE game' = Restarted /\ reply' = Restarted
  BY <1>1, <1>3, <1>4
<1>5. CASE UNCHANGED game /\ reply' = Refused
  BY <1>1, <1>2, <1>5 DEF TraceTyped
<1>6. CASE UNCHANGED game /\ reply' = [Restarted EXCEPT !.state = "NOT_PLAYED"]
  <2>1. /\ reply' \in Reply /\ reply'.levels = game.levels /\ reply'.frame \in Frame
    BY <1>1, <1>6, FirstFrameAssumption DEF Restarted, Reply
  <2> QED BY <1>1, <1>6, <2>1 DEF TraceTyped
<1> QED BY <1>4, <1>5, <1>6 DEF ResetReply

LEMMA ActionsOffered ==
  ASSUME TraceTyped, reply.frame \in Frame, NEW c \in NextActions
  PROVE  c.action \in Actions
<1>1. offer \subseteq Actions /\ recipes \in Seq(Actions) /\ progress[SignatureOf(reply.frame)] \in Actions \union {NoAction}
  BY FirstFrameAssumption DEF TraceTyped, Signatures, SignatureOf
<1>2. \A k \in RecipeChoice : k.action \in Actions
  <2>1. RecipeAt \subseteq DOMAIN recipes
    BY DEF RecipeAt
  <2> QED BY <1>1, <2>1 DEF RecipeChoice, Choice
<1>3. \A k \in ProgressChoice : k.action \in Actions
  BY <1>1 DEF ProgressChoice, Choice
<1>4. \A k \in PlanChoice : k.action \in Actions
  BY <1>1 DEF PlanChoice, Choice
<1>5. \A S : \A k \in New(S) \union Whatever(S) : k.action \in Actions
  BY <1>1 DEF New, Whatever, Choice
<1>6. \A k \in Exploring : k.action \in Actions
  BY <1>5 DEF Exploring
<1>7. \A A, B : First(A, B) = A \/ First(A, B) = B
  BY DEF First
<1>8. \A k \in MemoryChoice : k.action \in Actions
  BY <1>2, <1>3, <1>6, <1>7 DEF MemoryChoice
<1>9. \A k \in MergeChoice : k.action \in Actions
  BY <1>2, <1>4, <1>6, <1>7 DEF MergeChoice
<1> QED BY <1>8, <1>9 DEF NextActions

\* Nothing is sent or learned.
LEMMA Unlearning ==
  ASSUME TraceIInv, UNCHANGED <<traces, took, doubtful, recipes, edges>>
  PROVE  TracesSeen' /\ LearnedIsSeen'
<1>1. TracesSeen'
  BY DEF TraceIInv, TracesSeen
<1> QED BY <1>1 DEF TraceIInv, LearnedIsSeen

\* Everything but the actions sent and the start
LEMMA PlainSteps ==
  ASSUME TraceIInv, Enter \/ Restart \/ Finish \/ Abort \/ Revisit
  PROVE  TraceIInv'
<1>1. TraceTyped /\ Attentive
  BY DEF TraceIInv
<1>2. UNCHANGED <<traces, took, doubtful, recipes, edges>>
  BY DEF Enter, Restart, Finish, Abort, Revisit, silo, model, turn, past
<1>3. TracesSeen' /\ LearnedIsSeen'
  BY <1>2, Unlearning
<1>4. UNCHANGED <<agent, progress, offer>>
  BY DEF Enter, Restart, Finish, Abort, Revisit, silo, model, turn, past
<1>5. CASE Enter
  <2>1. ResetReply /\ lastLevels' = reply'.levels /\ first' = TRUE
    BY <1>5 DEF Enter, ResetEpisode
  <2>2. /\ reply' \in Reply /\ (reply'.state = "http400" \/ reply'.frame \in Frame)
        /\ game' \in Reply /\ game'.state # "http400" /\ game'.frame \in Frame
        /\ game'.levels = game.levels /\ reply'.levels <= game.levels
    BY <1>1, <2>1, AfterResetting
  <2>3. lastLevels' \in Nat
    BY <2>1, <2>2 DEF Reply
  <2>4. TraceTyped'
    BY <1>1, <1>2, <1>4, <2>2, <2>3 DEF TraceTyped
  <2>5. Attentive'
    BY <2>1, <2>2 DEF Attentive
  <2> QED BY <1>3, <2>4, <2>5 DEF TraceIInv
<1>6. CASE Restart
  <2>1. ResetReply /\ lastLevels' = lastLevels /\ first' = TRUE /\ stage = "loop"
    BY <1>6 DEF Restart, ResetEpisode, Looping
  <2>2. /\ reply' \in Reply /\ (reply'.state = "http400" \/ reply'.frame \in Frame)
        /\ game' \in Reply /\ game'.state # "http400" /\ game'.frame \in Frame
        /\ game'.levels = game.levels
    BY <1>1, <2>1, AfterResetting
  <2>3. TraceTyped'
    BY <1>1, <1>2, <1>4, <2>1, <2>2 DEF TraceTyped
  <2>4. Attentive'
    BY <1>1, <2>1, <2>2 DEF Attentive
  <2> QED BY <1>3, <2>3, <2>4 DEF TraceIInv
<1>7. CASE Finish \/ Abort \/ Revisit
  <2>1. stage' # "loop" /\ UNCHANGED <<reply, lastLevels>>
    BY <1>7 DEF Finish, Abort, Revisit, silo, model, turn, past
  <2>2. game' \in Reply /\ game'.state # "http400" /\ game'.frame \in Frame
    <3>1. game' = game \/ game' \in Raised
      BY <1>7 DEF Finish, Abort, Revisit, silo, model, turn, past
    <3> QED BY <1>1, <3>1, Replies DEF TraceTyped
  <2>3. TraceTyped'
    BY <1>1, <1>2, <1>4, <2>1, <2>2 DEF TraceTyped
  <2> QED BY <1>3, <2>1, <2>3 DEF TraceIInv, Attentive
<1> QED BY <1>5, <1>6, <1>7

LEMMA QuitStep ==
  ASSUME TraceIInv, Quit
  PROVE  TraceIInv'
<1>1. TraceTyped /\ TracesSeen
  BY DEF TraceIInv
<1>2. /\ UNCHANGED <<traces, took, doubtful, agent>> /\ stage' = "off"
      /\ recipes' = <<>> /\ progress' = NoRecipes /\ edges' = {}
      /\ reply' = Quiet /\ game' = Quiet /\ lastLevels' = 0 /\ offer' = {}
  BY DEF Quit
<1>3. Quiet \in Reply /\ Quiet.state # "http400" /\ Quiet.frame \in Frame
  BY FirstFrameAssumption DEF Quiet, Reply
<1>4. TraceTyped'
  BY <1>1, <1>2, <1>3 DEF TraceTyped, NoRecipes
<1>5. TracesSeen' /\ Attentive' /\ LearnedIsSeen'
  BY <1>1, <1>2 DEF TracesSeen, Attentive, LearnedIsSeen
<1> QED BY <1>4, <1>5 DEF TraceIInv

LEMMA LaunchStep ==
  ASSUME TraceIInv, NEW who \in Agents, Launch(who)
  PROVE  TraceIInv'
<1>1. TraceTyped /\ TracesSeen
  BY DEF TraceIInv
<1>2. /\ agent' = who /\ stage' = "first" /\ traces' = [traces EXCEPT ![who] = <<>>]
      /\ progress' = NoRecipes /\ offer' \in Offers /\ UNCHANGED <<took, doubtful, reply, lastLevels>>
      /\ game' = [frame |-> FirstFrame, levels |-> 0, state |-> "NOT_FINISHED"]
  BY DEF Launch, Own, turn, past
<1>3. PICK order \in Orders :
        /\ recipes' \in IngestedRecipes([n \in 1 .. 2 |-> traces'[order[n]]])
        /\ edges' = {} \/ edges' = UNION {IngestedEdges(traces[a]) : a \in Agents}
  BY DEF Launch
<1>4. /\ order[1] \in Agents /\ order[2] \in Agents
  BY DEF Orders, Agents
<1>5. /\ traces \in [Agents -> Seq(TraceRow)] /\ traces' \in [Agents -> Seq(TraceRow)]
      /\ \A a \in Agents : a # who => traces'[a] = traces[a]
      /\ traces'[who] = <<>>
  BY <1>1, <1>2 DEF TraceTyped
<1>6. TracesSeen'
  <2> SUFFICES ASSUME NEW a \in Agents, NEW i \in DOMAIN traces'[a]
               PROVE  RowIsSeen(traces'[a], i, took, doubtful)
    BY <1>2 DEF TracesSeen
  <2>1. a # who
    BY <1>5
  <2> QED BY <1>1, <1>5, <2>1 DEF TracesSeen
<1>7. /\ recipes' \in Seq(Actions)
      /\ \A k \in DOMAIN recipes' : recipes'[k] \in ToSet(Seeds) \/ Witnessed(recipes'[k], took, doubtful)
  <2> DEFINE f1 == traces'[order[1]]
             f2 == traces'[order[2]]
             files == [n \in 1 .. 2 |-> traces'[order[n]]]
  <2>1. f1 \in Seq(TraceRow) /\ f2 \in Seq(TraceRow) /\ files[1] = f1 /\ files[2] = f2
    BY <1>4, <1>5
  <2>2. /\ \A i \in DOMAIN f1 : RowIsSeen(f1, i, took, doubtful)
        /\ \A i \in DOMAIN f2 : RowIsSeen(f2, i, took, doubtful)
    BY <1>2, <1>4, <1>6 DEF TracesSeen
  <2>3. recipes' \in IngestedRecipes(files)
    BY <1>3
  <2> HIDE DEF f1, f2, files
  <2>4. /\ recipes' \in Seq(Actions)
        /\ \A k \in DOMAIN recipes' : \/ recipes'[k] \in ToSet(Seeds)
                                      \/ \E i \in DOMAIN f1 : Raises(f1, i) /\ recipes'[k] = f1[i].action
                                      \/ \E i \in DOMAIN f2 : Raises(f2, i) /\ recipes'[k] = f2[i].action
    BY <2>1, <2>3, RecipesFrom
  <2> QED BY <2>2, <2>4 DEF RowIsSeen
<1>8. \A e \in edges' : (\E deed \in took : Told(e, deed)) \/ <<e.sig, e.action>> \in doubtful
  <2> SUFFICES ASSUME NEW a \in Agents, NEW e \in IngestedEdges(traces[a])
               PROVE  (\E deed \in took : Told(e, deed)) \/ <<e.sig, e.action>> \in doubtful
    BY <1>3
  <2> DEFINE rows == traces[a]
  <2>1. PICK i \in 2 .. Len(rows) : e = EdgeOfRow(rows, i)
    BY DEF IngestedEdges, EdgeOfRow
  <2>2. i \in DOMAIN rows /\ i > 1
    BY <1>5
  <2>3. RowIsSeen(rows, i, took, doubtful)
    BY <1>1, <2>2 DEF TracesSeen
  <2>4. e.sig = rows[i - 1].sig /\ e.action = rows[i].action
    BY <2>1 DEF EdgeOfRow, Edge
  <2> QED BY <2>1, <2>2, <2>3, <2>4 DEF RowIsSeen
<1>9. TraceTyped'
  <2>1. game' \in Reply /\ game'.state # "http400" /\ game'.frame \in Frame
    BY <1>2, FirstFrameAssumption DEF Reply
  <2> QED BY <1>1, <1>2, <1>5, <1>7, <2>1, SeedsAreActions DEF TraceTyped, NoRecipes
<1>10. Attentive' /\ LearnedIsSeen'
  BY <1>2, <1>7, <1>8 DEF Attentive, LearnedIsSeen, Witnessed
<1> QED BY <1>6, <1>9, <1>10 DEF TraceIInv

LEMMA NotedFacts ==
  ASSUME recipes \in Seq(Actions), NEW action \in Actions
  PROVE  /\ Noted(action) \in Seq(Actions)
         /\ \A k \in DOMAIN Noted(action) :
              Noted(action)[k] = action \/ \E j \in DOMAIN recipes : Noted(action)[k] = recipes[j]
<1> DEFINE list == IF action \in ToSet(recipes) THEN recipes ELSE <<action>> \o recipes
<1>1. /\ list \in Seq(Actions)
      /\ \A k \in DOMAIN list : list[k] = action \/ \E j \in DOMAIN recipes : list[k] = recipes[j]
  <2>1. CASE action \in ToSet(recipes)
    BY <2>1
  <2>2. CASE action \notin ToSet(recipes)
    <3> DEFINE longer == <<action>> \o recipes
    <3>1. longer \in Seq(Actions) /\ Len(longer) = 1 + Len(recipes)
      OBVIOUS
    <3>2. ASSUME NEW k \in DOMAIN longer
          PROVE  longer[k] = action \/ \E j \in DOMAIN recipes : longer[k] = recipes[j]
      <4>1. CASE k = 1
        BY <4>1
      <4>2. CASE k # 1
        <5>1. k - 1 \in DOMAIN recipes /\ longer[k] = recipes[k - 1]
          BY <3>1, <4>2
        <5> QED BY <5>1
      <4> QED BY <4>1, <4>2
    <3> QED BY <2>2, <3>1, <3>2
  <2> QED BY <2>1, <2>2
<1>2. Noted(action) = IF Len(list) > MostRecipes THEN SubSeq(list, 1, MostRecipes) ELSE list
  BY DEF Noted
<1> HIDE DEF list
<1>3. CASE Len(list) > MostRecipes
  <2> DEFINE cut == SubSeq(list, 1, MostRecipes)
  <2>1. cut \in Seq(Actions) /\ DOMAIN cut = 1 .. MostRecipes /\ \A k \in 1 .. MostRecipes : k \in DOMAIN list /\ cut[k] = list[k]
    BY <1>1, <1>3, MostAssumption
  <2> QED BY <1>1, <1>2, <1>3, <2>1
<1>4. CASE ~(Len(list) > MostRecipes)
  BY <1>1, <1>2, <1>4
<1> QED BY <1>3, <1>4

LEMMA SendStep ==
  ASSUME TraceIInv, Send
  PROVE  TraceIInv'
<1> DEFINE rows == traces[agent]
           n == Len(rows)
<1>1. TraceTyped /\ TracesSeen /\ Attentive /\ LearnedIsSeen
  BY DEF TraceIInv
<1>2. stage = "loop" /\ reply.state # "http400" /\ reply.frame \in Frame
  BY <1>1 DEF Send, Looping, NeedsReset, TraceTyped
<1>3. PICK c \in NextActions : Sent(c)
  BY DEF Send
<1>4. c.action \in Actions
  BY <1>1, <1>2, ActionsOffered
<1> DEFINE row == [action |-> c.action, sig |-> SignatureOf(reply'.frame), levels |-> reply'.levels,
                   up |-> reply'.levels > lastLevels]
           sig == SignatureOf(reply.frame)
           e == Deed(c.action)
<1>5. /\ traces' = [traces EXCEPT ![agent] = Append(rows, row)]
      /\ UNCHANGED <<agent, stage, offer>> /\ first' = FALSE
      /\ took' = took \union {e}
  BY <1>3 DEF Sent, Own
<1>6. /\ lastLevels' = IF reply'.levels > lastLevels THEN reply'.levels ELSE lastLevels
      /\ recipes' = IF reply'.levels > lastLevels THEN Noted(c.action) ELSE recipes
      /\ progress' = IF reply'.levels > lastLevels THEN [progress EXCEPT ![sig] = c.action] ELSE progress
      /\ \/ edges' = edges
         \/ edges' = edges \union {Edge(sig, c.action, reply'.levels > lastLevels,
                                        reply'.frame # reply.frame)}
  BY <1>3 DEF Sent, model
<1>7. doubtful' = IF ~first THEN doubtful
                  ELSE doubtful \union {<<s, c.action>> : s \in
                         {sig} \union {rows[i].sig : i \in {n} \ {0}}}
  BY <1>3 DEF Sent
<1>8. /\ rows \in Seq(TraceRow) /\ n \in Nat /\ DOMAIN rows = 1 .. n
      /\ lastLevels \in Nat /\ game.levels \in Nat /\ lastLevels <= game.levels
  BY <1>1, <1>2 DEF TraceTyped, Reply, Attentive
<1>9. /\ Refused.levels = 0 /\ Refused.state = "http400"
      /\ reply' \in Reply /\ (reply'.state = "http400" \/ reply'.frame \in Frame)
      /\ \/ reply' = Refused /\ game' = game
         \/ reply' # Refused /\ game' = reply' /\ reply'.state # "http400" /\ game.levels <= reply'.levels
  <2>1. reply' = Refused \/ reply' \in Running \union Raised
    BY <1>3 DEF Sent
  <2>2. game' = IF reply' = Refused THEN game ELSE reply'
    BY <1>3 DEF Sent
  <2>3. /\ Refused \in Reply /\ Refused.state = "http400" /\ Refused.levels = 0
        /\ \A r \in Running \union Raised :
              /\ r \in Reply /\ r.state # "http400" /\ r.frame \in Frame /\ r # Refused
              /\ game.levels <= r.levels
    BY <1>1, Replies
  <2> QED BY <2>1, <2>2, <2>3
<1>10. reply'.levels \in Nat /\ reply'.frame \in Frame \union {"empty"}
  BY <1>9 DEF Reply
<1>11. row \in TraceRow
  BY <1>4, <1>10 DEF TraceRow, SignatureOf, Signatures
<1>12. took \subseteq took' /\ doubtful \subseteq doubtful'
  BY <1>5, <1>7
<1>13. /\ \A action : Witnessed(action, took, doubtful) => Witnessed(action, took', doubtful')
       /\ \A r, i : RowIsSeen(r, i, took, doubtful) => RowIsSeen(r, i, took', doubtful')
  BY <1>12, Lasting
<1>14. first => <<sig, c.action>> \in doubtful' /\ (n # 0 => <<rows[n].sig, c.action>> \in doubtful')
  BY <1>7, <1>8
\* Otherwise the last row and the counted level are those of the game.
<1>15. ~first => /\ lastLevels = game.levels /\ n # 0
                 /\ rows[n].sig = sig /\ rows[n].levels = game.levels
  BY <1>1, <1>2, <1>8 DEF Attentive
<1>16. ~first => (reply'.levels > lastLevels <=> reply' # Refused /\ reply'.levels > game.levels)
  BY <1>8, <1>9, <1>10, <1>15
<1>17. /\ e.sig = sig /\ e.action = c.action /\ e.up = (reply' # Refused /\ reply'.levels > game.levels)
       /\ e.change = (reply'.frame # reply.frame) /\ e.looks = (SignatureOf(reply'.frame) # sig)
  BY DEF Deed
\* A signature that changes is one of a frame that does.
<1>17a. e.looks => e.change
  BY <1>17
<1> HIDE DEF e
<1>18. reply'.levels > lastLevels => Witnessed(c.action, took', doubtful')
  <2> SUFFICES ASSUME reply'.levels > lastLevels
               PROVE  Witnessed(c.action, took', doubtful')
    OBVIOUS
  <2>1. CASE first
    <3>1. <<sig, c.action>>[2] = c.action
      OBVIOUS
    <3> QED BY <1>14, <2>1, <3>1 DEF Witnessed
  <2>2. CASE ~first
    <3>1. e \in took' /\ e.up /\ e.action = c.action
      BY <1>5, <1>16, <1>17, <2>2
    <3> QED BY <3>1 DEF Witnessed
  <2> QED BY <2>1, <2>2
<1> DEFINE more == Append(rows, row)
<1>19. /\ more \in Seq(TraceRow) /\ Len(more) = n + 1 /\ DOMAIN more = 1 .. n + 1
       /\ more[n + 1] = row /\ \A i \in 1 .. n : more[i] = rows[i]
  <2> HIDE DEF row
  <2> QED BY <1>8, <1>11
<1>20. row.action = c.action /\ row.sig = SignatureOf(reply'.frame) /\ row.levels = reply'.levels
       /\ row.up = (reply'.levels > lastLevels)
  OBVIOUS
<1> HIDE DEF more, row
<1>21. RowIsSeen(more, n + 1, took', doubtful')
  <2>1. Raises(more, n + 1) => Witnessed(row.action, took', doubtful')
    <3> SUFFICES ASSUME Raises(more, n + 1)
                 PROVE  Witnessed(c.action, took', doubtful')
      BY <1>20
    <3>1. CASE first
      <4>1. <<sig, c.action>>[2] = c.action
        OBVIOUS
      <4> QED BY <1>14, <3>1, <4>1 DEF Witnessed
    <3>2. CASE ~first
      <4>1. more[n].levels = game.levels /\ n + 1 # 1 /\ (n + 1) - 1 = n
        BY <1>8, <1>15, <1>19, <3>2
      <4>2. reply'.levels > game.levels
        BY <1>19, <1>20, <4>1 DEF Raises, LevelsBefore
      <4> QED BY <1>15, <1>18, <3>2, <4>2
    <3> QED BY <3>1, <3>2
  <2>2. ASSUME n + 1 > 1
        PROVE  \/ \E deed \in took' : Told(EdgeOfRow(more, n + 1), deed)
               \/ <<more[n].sig, c.action>> \in doubtful'
    <3>1. n # 0 /\ more[n] = rows[n] /\ (n + 1) - 1 = n /\ n + 1 # 1
      BY <1>8, <1>19, <2>2
    <3>2. CASE first
      BY <1>14, <3>1, <3>2
    <3>3. CASE ~first
      <4>1. more[n].sig = sig /\ more[n].levels = game.levels
        BY <1>15, <3>1, <3>3
      <4>2. RaisesFrom(more, n + 1) <=> reply' # Refused /\ reply'.levels > game.levels
        <5>1. RaisesFrom(more, n + 1) <=> row.up \/ reply'.levels > game.levels
          BY <1>19, <1>20, <2>2, <3>1, <4>1 DEF RaisesFrom, Raises, LevelsBefore
        <5>2. reply'.levels > game.levels <=> reply' # Refused /\ reply'.levels > game.levels
          BY <1>8, <1>9
        <5> QED BY <1>16, <1>20, <3>3, <5>1, <5>2
      <4>3. /\ EdgeOfRow(more, n + 1).sig = sig /\ EdgeOfRow(more, n + 1).action = c.action
            /\ EdgeOfRow(more, n + 1).up = RaisesFrom(more, n + 1)
            /\ EdgeOfRow(more, n + 1).change = (SignatureOf(reply'.frame) # sig)
        BY <1>19, <1>20, <3>1, <4>1 DEF EdgeOfRow, Edge
      <4>4. RaisesFrom(more, n + 1) = e.up
        BY <1>17, <4>2 DEF RaisesFrom
      <4>5. Told(EdgeOfRow(more, n + 1), e)
        BY <1>17, <1>17a, <4>3, <4>4 DEF Told
      <4> QED BY <1>5, <4>5
    <3> QED BY <3>2, <3>3
  <2>3. (n + 1) - 1 = n
    BY <1>8
  <2> QED BY <1>19, <1>20, <2>1, <2>2, <2>3 DEF RowIsSeen
<1>22. \A i \in 1 .. n : RowIsSeen(more, i, took', doubtful')
  <2> TAKE i \in 1 .. n
  <2>1. RowIsSeen(rows, i, took', doubtful')
    BY <1>1, <1>8, <1>13 DEF TracesSeen, TraceTyped
  <2>2. more[i] = rows[i] /\ (i > 1 => more[i - 1] = rows[i - 1]) /\ (i = 1 \/ i > 1)
    BY <1>8, <1>19
  <2> QED BY <2>1, <2>2 DEF RowIsSeen, Raises, LevelsBefore, RaisesFrom, EdgeOfRow
<1>23. /\ traces' \in [Agents -> Seq(TraceRow)] /\ traces'[agent] = more
       /\ \A a \in Agents : a # agent => traces'[a] = traces[a]
  BY <1>1, <1>5, <1>19 DEF TraceTyped, more
<1>24. TracesSeen'
  <2> SUFFICES ASSUME NEW a \in Agents, NEW i \in DOMAIN traces'[a]
               PROVE  RowIsSeen(traces'[a], i, took', doubtful')
    BY DEF TracesSeen
  <2>1. CASE a = agent
    <3>1. i \in 1 .. n \/ i = n + 1
      BY <1>8, <1>19, <1>23, <2>1
    <3> QED BY <1>21, <1>22, <1>23, <2>1, <3>1
  <2>2. CASE a # agent
    BY <1>1, <1>13, <1>23, <2>2 DEF TracesSeen
  <2> QED BY <2>1, <2>2
<1>25. /\ recipes' \in Seq(Actions)
       /\ \A k \in DOMAIN recipes' : recipes'[k] \in ToSet(Seeds) \/ Witnessed(recipes'[k], took', doubtful')
  <2>1. /\ recipes \in Seq(Actions)
        /\ \A k \in DOMAIN recipes : recipes[k] \in ToSet(Seeds) \/ Witnessed(recipes[k], took, doubtful)
    BY <1>1 DEF TraceTyped, LearnedIsSeen, Witnessed
  <2>2. CASE reply'.levels > lastLevels
    <3>1. /\ Noted(c.action) \in Seq(Actions)
          /\ \A k \in DOMAIN Noted(c.action) :
               Noted(c.action)[k] = c.action \/ \E j \in DOMAIN recipes : Noted(c.action)[k] = recipes[j]
      BY <1>4, <2>1, NotedFacts
    <3> QED BY <1>6, <1>13, <1>18, <2>1, <2>2, <3>1
  <2>3. CASE ~(reply'.levels > lastLevels)
    BY <1>6, <1>13, <2>1, <2>3
  <2> QED BY <2>2, <2>3
<1>26. \A d \in edges' : (\E deed \in took' : Told(d, deed)) \/ <<d.sig, d.action>> \in doubtful'
  <2> DEFINE learned == Edge(sig, c.action, reply'.levels > lastLevels, reply'.frame # reply.frame)
  <2>1. (\E deed \in took' : Told(learned, deed)) \/ <<learned.sig, learned.action>> \in doubtful'
    <3>1. /\ learned.sig = sig /\ learned.action = c.action
          /\ learned.up = (reply'.levels > lastLevels) /\ learned.change = (reply'.frame # reply.frame)
      BY DEF Edge
    <3>2. CASE first
      BY <1>14, <3>1, <3>2
    <3>3. CASE ~first
      <4>1. Told(learned, e)
        BY <1>16, <1>17, <1>17a, <3>1, <3>3 DEF Told
      <4> QED BY <1>5, <4>1
    <3> QED BY <3>2, <3>3
  <2>2. \A d \in edges : (\E deed \in took' : Told(d, deed)) \/ <<d.sig, d.action>> \in doubtful'
    BY <1>1, <1>12 DEF LearnedIsSeen
  <2> HIDE DEF learned
  <2>3. edges' = edges \/ edges' = edges \union {learned}
    BY <1>6 DEF learned
  <2> QED BY <2>1, <2>2, <2>3
<1>27. LearnedIsSeen'
  BY <1>25, <1>26 DEF LearnedIsSeen, Witnessed
<1>28. TraceTyped'
  <2>1. lastLevels' \in Nat
    BY <1>6, <1>8, <1>10
  <2>2. progress' \in [Signatures -> Actions \union {NoAction}]
    BY <1>1, <1>4, <1>6 DEF TraceTyped
  <2>3. game' \in Reply /\ game'.state # "http400" /\ game'.frame \in Frame
    BY <1>1, <1>9 DEF TraceTyped
  <2> QED BY <1>1, <1>5, <1>9, <1>23, <1>25, <2>1, <2>2, <2>3 DEF TraceTyped
<1>29. Attentive'
  <2>1. lastLevels' <= game'.levels
    BY <1>6, <1>8, <1>9, <1>10
  <2>2. traces'[agent'] = more /\ more # <<>> /\ Len(more) = n + 1
    BY <1>5, <1>8, <1>19, <1>23
  <2>3. ASSUME reply'.state # "http400"
        PROVE  reply' = game' /\ lastLevels' = game'.levels
    <3>1. reply' # Refused /\ game' = reply' /\ game.levels <= reply'.levels
      BY <1>9, <2>3
    <3> QED BY <1>6, <1>8, <1>10, <3>1
  <2> QED BY <1>5, <1>19, <1>20, <2>1, <2>2, <2>3 DEF Attentive
<1> QED BY <1>24, <1>27, <1>28, <1>29 DEF TraceIInv

\* What the loop keeps of the game, and every row of the two files, is explained by
\* what was done or by a reply the client misread.
THEOREM TracesHold == TraceSpec => []TraceIInv
<1>1. TraceInit => TraceIInv
  <2> SUFFICES ASSUME TraceInit
               PROVE  TraceIInv
    OBVIOUS
  <2>1. Quiet \in Reply /\ Quiet.state # "http400" /\ Quiet.frame \in Frame
    BY FirstFrameAssumption DEF Quiet, Reply
  <2>2. TraceTyped
    BY <2>1 DEF TraceInit, TraceTyped, NoRecipes, Agents
  <2>3. TracesSeen /\ Attentive /\ LearnedIsSeen
    BY DEF TraceInit, TracesSeen, Attentive, LearnedIsSeen
  <2> QED BY <2>2, <2>3 DEF TraceIInv
<1>2. TraceIInv /\ [TraceNext]_traceVars => TraceIInv'
  <2> SUFFICES ASSUME TraceIInv, [TraceNext]_traceVars
               PROVE  TraceIInv'
    OBVIOUS
  <2>1. CASE \E who \in Agents : Launch(who)
    BY <2>1, LaunchStep
  <2>2. CASE Enter \/ Restart \/ Finish \/ Abort \/ Revisit
    BY <2>2, PlainSteps
  <2>3. CASE Send
    BY <2>3, SendStep
  <2>4. CASE Quit
    BY <2>4, QuitStep
  <2>5. CASE UNCHANGED traceVars
    <3>1. /\ UNCHANGED <<traces, took, doubtful, recipes, edges>>
          /\ UNCHANGED <<agent, stage, offer, progress, reply, game, lastLevels, first>>
      BY <2>5 DEF traceVars, silo, model, turn, past
    <3>2. TracesSeen' /\ LearnedIsSeen'
      BY <3>1, Unlearning
    <3>3. TraceTyped' /\ Attentive'
      BY <3>1 DEF TraceIInv, TraceTyped, Attentive
    <3> QED BY <3>2, <3>3 DEF TraceIInv
  <2> QED BY <2>1, <2>2, <2>3, <2>4, <2>5 DEF TraceNext
<1> QED BY <1>1, <1>2, PTL DEF TraceSpec

\* Recipes and edges of the silo come from what the game did, whatever files are
\* merged and however a run ended.
THEOREM LearnedWasSeen == TraceSpec => []LearnedIsSeen
<1>1. TraceIInv => LearnedIsSeen
  BY DEF TraceIInv
<1> QED BY <1>1, TracesHold, PTL

-----------------------------------------------------------------------------
(* The agents beside each other                                            *)

\* Which agent runs is chosen once: its steps are steps of its own specification,
\* and the other agent's state never changes.
THEOREM AgentsApart == AgentsSpec => Spec /\ TraceSpec
<1>1. AgentsInit => Init /\ TraceInit
  BY DEF AgentsInit
<1>2. [AgentsNext]_agentsVars => [Next]_vars /\ [TraceNext]_traceVars
  <2> SUFFICES ASSUME [AgentsNext]_agentsVars
               PROVE  [Next]_vars /\ [TraceNext]_traceVars
    OBVIOUS
  <2>1. CASE AgentsNext
    BY <2>1 DEF AgentsNext
  <2>2. CASE UNCHANGED agentsVars
    BY <2>2 DEF agentsVars
  <2> QED BY <2>1, <2>2
<1> QED BY <1>1, <1>2, PTL DEF AgentsSpec, Spec, TraceSpec

\* Together: what the agents' runs are checked for holds in every game they can play.
THEOREM AgentsAreRight ==
  AgentsSpec => [](/\ SupportIsAccounted /\ KeptCreditsDiffer
                   /\ OnlyFreshEvidencePenalizes /\ LearnedIsSeen)
BY AgentsApart, SupportIsExact, CreditsDiffer, FreshEvidence, LearnedWasSeen, PTL

=============================================================================
