----------------------------- MODULE SiloProofs -----------------------------
(***************************************************************************)
(* Theorems of SiloPromise: the representation of the slots, the slot count,*)
(* one slot per key under the SAT bridge, and that writes under different   *)
(* keys do not disturb each other.                                          *)
(***************************************************************************)
EXTENDS SiloPromise, FiniteSetTheorems, WellFoundedInduction, TLAPS

-----------------------------------------------------------------------------
(* Indices *)

\* A set of slots is finite, and has a least element unless it is empty.
LEMMA IndexSets ==
  ASSUME NEW S \in SUBSET Index
  PROVE  /\ IsFiniteSet(S)
         /\ S # {} => FirstOf(S) \in S
         /\ \A i \in S : FirstOf(S) <= i
         /\ FirstOf(S) = -1 <=> S = {}
<1>1. IsFiniteSet(Index)
  BY FS_Interval, SizeAssumption DEF Index
<1>2. IsFiniteSet(S)
  BY <1>1, FS_Subset
<1>3. S # {} => \E i \in S : \A j \in S : i <= j
  <2> SUFFICES ASSUME S # {} PROVE \E i \in S : \A j \in S : i <= j
    OBVIOUS
  <2> DEFINE R == {ss \in Nat \X Nat : ss[1] < ss[2]}
  <2>1. IsWellFoundedOn(R, Nat)
    BY NatLessThanWellFounded DEF OpToRel
  <2>2. S \subseteq Nat
    BY SizeAssumption DEF Index
  <2>3. PICK x \in S : \A y \in S : <<y, x>> \notin R
    BY <2>1, <2>2, WFMin
  <2>4. ASSUME NEW y \in S PROVE x <= y
    <3>1. x \in Nat /\ y \in Nat /\ <<y, x>> \notin R
      BY <2>2, <2>3
    <3>2. y < x => <<y, x>> \in R
      BY <3>1
    <3> QED BY <3>1, <3>2
  <2> QED BY <2>4
<1>4. S # {} => FirstOf(S) \in S /\ \A i \in S : FirstOf(S) <= i
  BY <1>3 DEF FirstOf, Least
<1>5. \A i \in S : i # -1
  BY SizeAssumption DEF Index
<1>6. FirstOf(S) = -1 <=> S = {}
  BY <1>4, <1>5 DEF FirstOf
<1> QED BY <1>2, <1>4, <1>6

\* What a call of silo_set does: it has no effect, writes one slot, or, without
\* memory for the content, empties it.  The slot is the one asked for or a free one.
LEMMA SiloSetCases ==
  ASSUME NEW s, NEW index \in SlotArgument, NEW key, NEW content,
         NEW r \in SiloSet(s, index, key, content)
  PROVE  \/ r.silo = s /\ r.ret = -1
         \/ \E i \in Index :
              /\ i = index \/ (index = -1 /\ i \notin Resolved(s))
              /\ \/ \E k \in {key, NULL} : r.silo = Written(s, i, k, content) /\ r.ret = i
                 \/ /\ "content" \in Failing
                    /\ r.silo = Emptied(s, i) /\ r.ret = -1
<1> DEFINE i == IF index < 0 THEN FreeSlot(s) ELSE index
<1>1. i \in Index => i = index \/ (index = -1 /\ i \notin Resolved(s))
  <2>1. Index \ Resolved(s) \in SUBSET Index
    OBVIOUS
  <2>2. FreeSlot(s) \in Index => FreeSlot(s) \in Index \ Resolved(s)
    BY <2>1, IndexSets, SizeAssumption DEF FreeSlot, Index
  <2>3. index \in SlotArgument => index < 0 <=> index = -1
    BY SizeAssumption DEF SlotArgument
  <2> QED BY <2>2, <2>3
<1>2. CASE i \notin Index
  BY <1>2 DEF SiloSet
<1>3. CASE i \in Index
  <2>1. CASE r \in {[silo |-> Written(s, i, IF lost THEN NULL ELSE key, content), ret |-> i] :
                       lost \in Fails("key")}
    <3>1. PICK lost \in Fails("key") :
            r = [silo |-> Written(s, i, IF lost THEN NULL ELSE key, content), ret |-> i]
      BY <2>1
    <3>2. \E k \in {key, NULL} : r.silo = Written(s, i, k, content) /\ r.ret = i
      BY <3>1
    <3> QED BY <1>1, <1>3, <3>2
  <2>2. CASE r \in {[silo |-> Emptied(s, i), ret |-> -1] : failed \in Fails("content") \ {FALSE}}
    <3>1. r = [silo |-> Emptied(s, i), ret |-> -1] /\ Fails("content") \ {FALSE} # {}
      BY <2>2
    <3>2. "content" \in Failing
      BY <3>1 DEF Fails
    <3> QED BY <1>1, <1>3, <3>1, <3>2
  <2> QED BY <1>3, <2>1, <2>2 DEF SiloSet
<1> QED BY <1>2, <1>3

-----------------------------------------------------------------------------
(* Steps *)

\* The representation invariant of the silo alone.
SiloOK(s) ==
  /\ s \in SiloType
  /\ \A i \in Index : s.slots[i].resolved <=> s.slots[i].content # NULL

\* A step writes the silo through one call of silo_set, and then touches no
\* promise but the one whose commit it is; or it leaves the silo alone.
Sets(index, key, content) == \E r \in SiloSet(silo, index, key, content) : silo' = r.silo

LEMMA SiloSteps ==
  ASSUME TypeOK, Next
  PROVE  \/ UNCHANGED silo
         \/ "commit" \in Writers /\ \E key \in Key \union {NULL}, content \in Content,
                                         index \in SlotArgument : Sets(index, key, content)
         \/ "bridge" \in Writers /\ \E key \in Key, content \in Content :
                                      Sets(Peek(silo, key), key, content)
         \/ "direct" \in Writers /\ \E i \in Index, key \in Key, content \in Content :
                                      Sets(i, key, content)
<1>1. CASE Retrieval
  BY <1>1 DEF Retrieval, Create, FromPeek, FromPeekSemantic, Bind, Become
<1>2. CASE Settlement
  <2>1. ASSUME NEW p \in Promise, NEW content \in Content, NEW index \in SlotArgument,
               "commit" \in Writers, ResolveCommit(p, content, index)
        PROVE  \E key \in Key \union {NULL} : Sets(index, key, content)
    <3>1. promises[p].memory_key \in Key \union {NULL}
      BY DEF TypeOK, PromiseRecord
    <3>2. Sets(index, promises[p].memory_key, content)
      BY <2>1 DEF ResolveCommit, Sets
    <3> QED BY <3>1, <3>2
  <2>2. ASSUME NEW p \in Promise, NEW pr, Settle(p, pr) PROVE UNCHANGED silo
    BY <2>2 DEF Settle
  <2> QED BY <1>2, <2>1, <2>2 DEF Settlement
<1>3. CASE Writing
  BY <1>3 DEF Writing, Bridge, SetAt, Sets
<1> QED BY <1>1, <1>2, <1>3 DEF Next

LEMMA WrittenOK ==
  ASSUME NEW s, SiloOK(s), NEW i \in Index, NEW k \in Key \union {NULL}, NEW c \in Content
  PROVE  /\ SiloOK(Written(s, i, k, c))
         /\ Resolved(Written(s, i, k, c)) = Resolved(s) \union {i}
         /\ \A j \in Index : Written(s, i, k, c).slots[j] =
                IF j = i THEN [key |-> k, content |-> c, resolved |-> TRUE] ELSE s.slots[j]
<1> DEFINE w == Written(s, i, k, c)
           new == [key |-> k, content |-> c, resolved |-> TRUE]
<1>1. s.slots \in [Index -> Slot] /\ s.slot_count \in Nat /\ s.tree \in [Node -> Int]
  BY DEF SiloOK, SiloType
<1>2. /\ w.slots = [s.slots EXCEPT ![i] = new]
      /\ w.slot_count = (IF s.slots[i].resolved THEN s.slot_count ELSE s.slot_count + 1)
      /\ w.tree = UpdateTree(s.tree, i, 1)
  BY DEF Written
<1>3. w.slots \in [Index -> Slot]
  <2>1. new \in Slot
    BY DEF Slot
  <2> QED BY <1>1, <1>2, <2>1
<1>4. \A j \in Index : w.slots[j] = IF j = i THEN new ELSE s.slots[j]
  BY <1>1, <1>2
<1>5. w.tree \in [Node -> Int]
  BY <1>1, <1>2 DEF UpdateTree
<1>6. w \in SiloType
  <2>1. w.slot_count \in Nat
    BY <1>1, <1>2
  <2>2. w = [slots |-> w.slots, slot_count |-> w.slot_count, tree |-> w.tree]
    BY DEF Written
  <2> QED BY <1>3, <1>5, <2>1, <2>2 DEF SiloType
<1>7. \A j \in Index : w.slots[j].resolved <=> w.slots[j].content # NULL
  BY <1>4, NullAssumption DEF SiloOK
<1>8. Resolved(w) = Resolved(s) \union {i}
  BY <1>4 DEF Resolved
<1> QED BY <1>4, <1>6, <1>7, <1>8 DEF SiloOK

LEMMA EmptiedOK ==
  ASSUME NEW s, SiloOK(s), NEW i \in Index
  PROVE  /\ SiloOK(Emptied(s, i))
         /\ Resolved(Emptied(s, i)) = Resolved(s) \ {i}
         /\ \A j \in Index : Emptied(s, i).slots[j] = IF j = i THEN EmptySlot ELSE s.slots[j]
<1> DEFINE w == Emptied(s, i)
<1>1. s.slots \in [Index -> Slot] /\ s.slot_count \in Nat /\ s.tree \in [Node -> Int]
  BY DEF SiloOK, SiloType
<1>2. s = [slots |-> s.slots, slot_count |-> s.slot_count, tree |-> s.tree]
  BY DEF SiloOK, SiloType
<1>3. w = [slots |-> [s.slots EXCEPT ![i] = EmptySlot], slot_count |-> s.slot_count, tree |-> s.tree]
  BY <1>2 DEF Emptied
<1>4. EmptySlot \in Slot
  BY DEF EmptySlot, Slot
<1>5. w \in SiloType
  BY <1>1, <1>3, <1>4 DEF SiloType
<1>6. \A j \in Index : w.slots[j] = IF j = i THEN EmptySlot ELSE s.slots[j]
  BY <1>1, <1>3
<1>7. \A j \in Index : w.slots[j].resolved <=> w.slots[j].content # NULL
  BY <1>6 DEF SiloOK, EmptySlot
<1>8. Resolved(w) = Resolved(s) \ {i}
  BY <1>6 DEF Resolved, EmptySlot
<1> QED BY <1>5, <1>6, <1>7, <1>8 DEF SiloOK

\* The cases of one call of silo_set by a step, with what it did.
LEMMA SetEffect ==
  ASSUME SiloOK(silo), NEW index \in SlotArgument,
         NEW key \in Key \union {NULL}, NEW content \in Content, Sets(index, key, content)
  PROVE  \/ silo' = silo
         \/ \E i \in Index :
              /\ i = index \/ (index = -1 /\ i \notin Resolved(silo))
              /\ \/ \E k \in {key, NULL} : silo' = Written(silo, i, k, content)
                 \/ "content" \in Failing /\ silo' = Emptied(silo, i)
<1>1. PICK r \in SiloSet(silo, index, key, content) : silo' = r.silo
  BY DEF Sets
<1>2. \/ r.silo = silo /\ r.ret = -1
      \/ \E i \in Index :
           /\ i = index \/ (index = -1 /\ i \notin Resolved(silo))
           /\ \/ \E k \in {key, NULL} : r.silo = Written(silo, i, k, content) /\ r.ret = i
              \/ "content" \in Failing /\ r.silo = Emptied(silo, i) /\ r.ret = -1
  <2>1. \A s, k, c : \A x \in SlotArgument : \A q \in SiloSet(s, x, k, c) :
          \/ q.silo = s /\ q.ret = -1
          \/ \E i \in Index :
               /\ i = x \/ (x = -1 /\ i \notin Resolved(s))
               /\ \/ \E l \in {k, NULL} : q.silo = Written(s, i, l, c) /\ q.ret = i
                  \/ "content" \in Failing /\ q.silo = Emptied(s, i) /\ q.ret = -1
    BY SiloSetCases
  <2>2. r \in SiloSet(silo, index, key, content)
    BY <1>1
  <2> QED BY <2>1, <2>2
<1> QED BY <1>1, <1>2

\* Peek answers with a resolved slot of the key, or with -1.
LEMMA PeekIndex ==
  ASSUME NEW s, NEW key
  PROVE  /\ Peek(s, key) \in HasKey(s, key) \union {-1}
         /\ \A i \in HasKey(s, key) : Peek(s, key) <= i
         /\ Peek(s, key) = -1 <=> HasKey(s, key) = {}
         /\ Peek(s, key) \in Index \union {-1}
         /\ Peek(s, key) \in SlotArgument
<1>1. HasKey(s, key) \in SUBSET Index
  BY DEF HasKey, Resolved
<1>2. Index \union {-1} \subseteq SlotArgument
  BY SizeAssumption DEF Index, SlotArgument
<1> QED BY <1>1, <1>2, IndexSets DEF Peek

-----------------------------------------------------------------------------
(* Theorems *)

LEMMA SiloKept ==
  ASSUME TypeOK, Next
  PROVE  SiloOK(silo')
<1>1. SiloOK(silo)
  BY DEF TypeOK, SiloOK
<1>2. ASSUME NEW index \in SlotArgument, NEW key \in Key \union {NULL},
             NEW content \in Content, Sets(index, key, content)
      PROVE  SiloOK(silo')
  <2>1. CASE silo' = silo
    BY <1>1, <2>1
  <2>2. ASSUME NEW i \in Index, NEW k \in {key, NULL}, silo' = Written(silo, i, k, content)
        PROVE  SiloOK(silo')
    BY <1>1, <2>2, WrittenOK
  <2>3. ASSUME NEW i \in Index, silo' = Emptied(silo, i)
        PROVE  SiloOK(silo')
    BY <1>1, <2>3, EmptiedOK
  <2>4. \/ silo' = silo
        \/ \E i \in Index : \/ \E k \in {key, NULL} : silo' = Written(silo, i, k, content)
                           \/ silo' = Emptied(silo, i)
    BY <1>1, <1>2, SetEffect
  <2> QED BY <2>1, <2>2, <2>3, <2>4
<1>3. Index \subseteq SlotArgument
  BY SizeAssumption DEF Index, SlotArgument
<1> QED BY <1>1, <1>2, <1>3, SiloSteps, PeekIndex

\* The variables keep their types, and every resolved slot has content, also after
\* a silo_set that ran out of memory.
THEOREM SiloTypeCorrect == Spec => []TypeOK
<1>1. Init => TypeOK
  <2> SUFFICES ASSUME Init PROVE TypeOK
    OBVIOUS
  <2>1. EmptySilo \in SiloType
    BY DEF EmptySilo, SiloType, EmptySlot, Slot
  <2>2. \A i \in Index : silo.slots[i] = EmptySlot
    BY DEF Init, EmptySilo
  <2>3. Unborn \in PromiseRecord
    BY DEF Unborn, PromiseRecord
  <2> QED BY <2>1, <2>2, <2>3 DEF Init, TypeOK, EmptySlot
<1>2. ASSUME TypeOK, Next PROVE TypeOK'
  <2>1. SiloOK(silo')
    BY <1>2, SiloKept
  <2>2. promises' \in [Promise -> PromiseRecord]
    <3>1. \A pr \in PromiseRecord, key \in Key \union {NULL} : Bound(pr, key) \in PromiseRecord
      BY DEF Bound, PromiseRecord
    <3>2. Pending \in PromiseRecord
      BY DEF Pending, Unborn, PromiseRecord
    <3>3. \A v \in Content \union {NULL} : ResolvedWith(v) \in PromiseRecord
      BY DEF ResolvedWith, Unborn, PromiseRecord
    <3>4. \A i \in Index : /\ silo.slots[i].content \in Content \union {NULL}
                          /\ silo.slots[i].key \in Key \union {NULL}
      BY <1>2 DEF TypeOK, SiloType, Slot
    <3>5. ASSUME NEW p \in Promise, NEW rs, Become(p, rs), rs \subseteq PromiseRecord
          PROVE  promises' \in [Promise -> PromiseRecord]
      BY <1>2, <3>5 DEF Become, TypeOK
    <3>6. CASE Retrieval
      <4>1. ASSUME NEW p \in Promise, Create(p) PROVE promises' \in [Promise -> PromiseRecord]
        BY <4>1, <3>2, <3>5 DEF Create
      <4>2. ASSUME NEW p \in Promise, NEW key \in Key, FromPeek(p, key)
            PROVE  promises' \in [Promise -> PromiseRecord]
        <5>1. Peek(silo, key) # -1 => Peek(silo, key) \in Index
          BY PeekIndex
        <5> QED BY <4>2, <5>1, <3>1, <3>2, <3>3, <3>4, <3>5 DEF FromPeek, BestEffort
      <4>3. ASSUME NEW p \in Promise, NEW query \in Content, FromPeekSemantic(p, query)
            PROVE  promises' \in [Promise -> PromiseRecord]
        <5>1. PeekSemantic(silo, query) # -1 => PeekSemantic(silo, query) \in Index
          <6> DEFINE S == {i \in Resolved(silo) :
                             /\ Similarity(query, silo.slots[i].content) >= MinSim
                             /\ \A j \in Resolved(silo) :
                                  Similarity(query, silo.slots[j].content)
                                    <= Similarity(query, silo.slots[i].content)}
          <6>1. S \in SUBSET Index
            BY DEF Resolved
          <6>2. PeekSemantic(silo, query) = FirstOf(S)
            BY DEF PeekSemantic
          <6> HIDE DEF S
          <6> QED BY <6>1, <6>2, IndexSets
        <5> QED BY <4>3, <5>1, <3>1, <3>2, <3>3, <3>4, <3>5 DEF FromPeekSemantic, BestEffort
      <4>4. ASSUME NEW p \in Promise, NEW key \in Key \union {NULL}, Bind(p, key)
            PROVE  promises' \in [Promise -> PromiseRecord]
        BY <1>2, <4>4, <3>1 DEF Bind, TypeOK
      <4> QED BY <3>6, <4>1, <4>2, <4>3, <4>4 DEF Retrieval
    <3>7. CASE Settlement
      <4>1. ASSUME NEW p \in Promise, NEW content \in Content, NEW index \in SlotArgument,
                   ResolveCommit(p, content, index)
            PROVE  promises' \in [Promise -> PromiseRecord]
        <5>1. promises' = promises \/
              promises' = [promises EXCEPT ![p].state = "COMMITTED", ![p].value = content]
          BY <4>1 DEF ResolveCommit
        <5>2. promises[p] \in PromiseRecord
          BY <1>2 DEF TypeOK
        <5>3. [promises[p] EXCEPT !.state = "COMMITTED", !.value = content] \in PromiseRecord
          BY <5>2 DEF PromiseRecord
        <5> QED BY <1>2, <5>1, <5>3 DEF TypeOK
      <4>2. ASSUME NEW p \in Promise, NEW pr \in PromiseRecord, Settle(p, pr)
            PROVE  promises' \in [Promise -> PromiseRecord]
        <5>1. promises[p] \in PromiseRecord
          BY <1>2 DEF TypeOK
        <5>2. [promises[p] EXCEPT !.state = pr.state, !.value = pr.value] \in PromiseRecord
          BY <5>1 DEF PromiseRecord
        <5> QED BY <1>2, <4>2, <5>2 DEF Settle, TypeOK
      <4>3. [Unborn EXCEPT !.state = "DROPPED"] \in PromiseRecord
        BY DEF Unborn, PromiseRecord
      <4> QED BY <3>7, <3>3, <4>1, <4>2, <4>3 DEF Settlement
    <3>8. CASE Writing
      BY <1>2, <3>8 DEF Writing, Bridge, SetAt, TypeOK
    <3> QED BY <1>2, <3>6, <3>7, <3>8 DEF Next
  <2> QED BY <2>1, <2>2 DEF SiloOK, TypeOK
<1>3. TypeOK /\ UNCHANGED vars => TypeOK'
  BY DEF vars, TypeOK
<1> QED BY <1>1, <1>2, <1>3, PTL DEF Spec

\* slot_count stays the number of resolved slots, however slots are chosen and
\* whoever writes them, in every step that empties no slot.
THEOREM SlotCountIsExact == Spec => SlotCountExact
<1> DEFINE Exact == CountsResolved(silo) /\ Resolved(silo) \subseteq Resolved(silo') => CountsResolved(silo')
<1>1. ASSUME TypeOK, Next PROVE Exact
  <2> SUFFICES ASSUME CountsResolved(silo), Resolved(silo) \subseteq Resolved(silo')
               PROVE  CountsResolved(silo')
    OBVIOUS
  <2>1. SiloOK(silo)
    BY <1>1 DEF TypeOK, SiloOK
  <2>2. ASSUME NEW i \in Index, NEW k \in Key \union {NULL}, NEW c \in Content,
               silo' = Written(silo, i, k, c)
        PROVE  CountsResolved(silo')
    <3>1. Resolved(silo') = Resolved(silo) \union {i}
      BY <2>1, <2>2, WrittenOK
    <3>2. IsFiniteSet(Resolved(silo))
      <4>1. Resolved(silo) \in SUBSET Index
        BY DEF Resolved
      <4> QED BY <4>1, IndexSets
    <3>3. silo'.slot_count = IF i \in Resolved(silo) THEN silo.slot_count ELSE silo.slot_count + 1
      BY <2>2 DEF Written, Resolved
    <3>4. CASE i \in Resolved(silo)
      <4>1. Resolved(silo') = Resolved(silo)
        BY <3>1, <3>4
      <4> QED BY <3>3, <3>4, <4>1 DEF CountsResolved
    <3>5. CASE i \notin Resolved(silo)
      <4>1. Cardinality(Resolved(silo) \union {i}) = Cardinality(Resolved(silo)) + 1
        BY <3>2, <3>5, FS_AddElement
      <4> QED BY <3>1, <3>3, <3>5, <4>1 DEF CountsResolved
    <3> QED BY <3>4, <3>5
  <2>3. ASSUME NEW i \in Index, silo' = Emptied(silo, i)
        PROVE  CountsResolved(silo')
    <3>1. Resolved(silo') = Resolved(silo) \ {i}
      BY <2>1, <2>3, EmptiedOK
    <3>2. Resolved(silo') = Resolved(silo)
      BY <3>1
    <3>3. silo'.slot_count = silo.slot_count
      BY <2>1, <2>3 DEF Emptied, SiloOK, SiloType
    <3> QED BY <3>2, <3>3 DEF CountsResolved
  <2>4. ASSUME NEW index \in SlotArgument, NEW key \in Key \union {NULL},
               NEW content \in Content, Sets(index, key, content)
        PROVE  CountsResolved(silo')
    <3>1. \/ silo' = silo
          \/ \E i \in Index : \/ \E k \in {key, NULL} : silo' = Written(silo, i, k, content)
                             \/ silo' = Emptied(silo, i)
      BY <2>1, <2>4, SetEffect
    <3>2. {key, NULL} \subseteq Key \union {NULL}
      OBVIOUS
    <3>3. CASE silo' = silo
      BY <3>3
    <3> QED BY <2>2, <2>3, <3>1, <3>2, <3>3
  <2>5. CASE UNCHANGED silo
    BY <2>5
  <2>6. Index \subseteq SlotArgument
    BY SizeAssumption DEF Index, SlotArgument
  <2> QED BY <1>1, <2>4, <2>5, <2>6, SiloSteps, PeekIndex
<1>2. TypeOK /\ [Next]_vars => [Exact]_vars
  BY <1>1
<1> QED BY <1>2, SiloTypeCorrect, PTL DEF Spec, SlotCountExact

\* The SAT bridge never gives a key a second slot, also when keys are lost and
\* slots emptied by failing allocations, and whoever else writes.
THEOREM BridgeKeepsOneSlot == Spec => OneSlotPerKey
<1> DEFINE Single == KeysUnique(silo) /\ ~KeysUnique(silo') => ~Bridging
<1>1. ASSUME TypeOK PROVE Single
  <2> SUFFICES ASSUME KeysUnique(silo), NEW key \in Key, NEW content \in Content, Bridge(key, content)
               PROVE  KeysUnique(silo')
    BY DEF Bridging
  <2>1. SiloOK(silo)
    BY <1>1 DEF TypeOK, SiloOK
  <2>2. Sets(Peek(silo, key), key, content)
    BY DEF Bridge, Sets
  <2>3. Peek(silo, key) \in SlotArgument
    BY PeekIndex
  <2>4. \/ silo' = silo
        \/ \E i \in Index :
             /\ i = Peek(silo, key) \/ (Peek(silo, key) = -1 /\ i \notin Resolved(silo))
             /\ \/ \E k \in {key, NULL} : silo' = Written(silo, i, k, content)
                \/ silo' = Emptied(silo, i)
    BY <2>1, <2>2, <2>3, SetEffect
  <2>5. CASE silo' = silo
    BY <2>5
  <2>6. ASSUME NEW i \in Index, NEW k \in {key, NULL}, silo' = Written(silo, i, k, content),
               i = Peek(silo, key) \/ Peek(silo, key) = -1
        PROVE  KeysUnique(silo')
    <3>1. /\ Resolved(silo') = Resolved(silo) \union {i}
          /\ \A j \in Index : silo'.slots[j] =
               IF j = i THEN [key |-> k, content |-> content, resolved |-> TRUE] ELSE silo.slots[j]
      BY <2>1, <2>6, WrittenOK
    <3>2. \A j \in Resolved(silo) : silo.slots[j].key = key => j = i
      <4> SUFFICES ASSUME NEW j \in Resolved(silo), silo.slots[j].key = key PROVE j = i
        OBVIOUS
      <4>1. j \in HasKey(silo, key)
        BY DEF HasKey
      <4>2. Peek(silo, key) \in HasKey(silo, key)
        BY <4>1, PeekIndex
      <4>3. Peek(silo, key) # -1
        BY <4>1, PeekIndex
      <4>4. i \in Resolved(silo) /\ silo.slots[i].key = key
        BY <2>6, <4>2, <4>3 DEF HasKey
      <4> QED BY <4>4, NullAssumption DEF KeysUnique
    <3>3. ASSUME NEW j \in Resolved(silo'), NEW l \in Resolved(silo'),
                 silo'.slots[j].key = silo'.slots[l].key, silo'.slots[j].key # NULL
          PROVE  j = l
      <4>1. j \in Index /\ l \in Index
        BY DEF Resolved
      <4>2. CASE j = i
        BY <3>1, <3>2, <3>3, <4>1, <4>2
      <4>3. CASE l = i
        BY <3>1, <3>2, <3>3, <4>1, <4>3
      <4>4. CASE j # i /\ l # i
        BY <3>1, <3>3, <4>1, <4>4 DEF KeysUnique
      <4> QED BY <4>2, <4>3, <4>4
    <3> QED BY <3>3 DEF KeysUnique
  <2>7. ASSUME NEW i \in Index, silo' = Emptied(silo, i)
        PROVE  KeysUnique(silo')
    <3>1. /\ Resolved(silo') = Resolved(silo) \ {i}
          /\ \A j \in Index : silo'.slots[j] = IF j = i THEN EmptySlot ELSE silo.slots[j]
      BY <2>1, <2>7, EmptiedOK
    <3> QED BY <3>1 DEF KeysUnique, Resolved
  <2> QED BY <2>4, <2>5, <2>6, <2>7
<1>2. TypeOK /\ [Next]_vars => [Single]_vars
  BY <1>1
<1> QED BY <1>2, SiloTypeCorrect, PTL DEF Spec, OneSlotPerKey

LEMMA AnswerKept ==
  ASSUME NEW k \in Key, HasKey(silo', k) = HasKey(silo, k),
         \A i \in HasKey(silo, k) : silo'.slots[i].content = silo.slots[i].content
  PROVE  Answer(k)' = Answer(k)
<1>1. Peek(silo', k) = Peek(silo, k)
  BY DEF Peek
<1>2. Peek(silo, k) # -1 => Peek(silo, k) \in HasKey(silo, k)
  BY PeekIndex
<1> QED BY <1>1, <1>2 DEF Answer

\* The bridge changes what peek answers for no key but its own, and a commit at most
\* that of its own key and of the key whose slot its caller named.
THEOREM WritersKeepApart == Spec => OtherKeysKept
<1> DEFINE Kept(j) == Answer(j)' # Answer(j) =>
             /\ \A key \in Key \ {j}, content \in Content : ~Bridge(key, content)
             /\ \A p \in Promise, content \in Content, index \in SlotArgument :
                  ResolveCommit(p, content, index) => j \in Touched(index, promises[p].memory_key)
<1>1. ASSUME TypeOK, NEW j \in Key PROVE Kept(j)
  <2>1. SiloOK(silo)
    BY <1>1 DEF TypeOK, SiloOK
  <2>2. ASSUME NEW key \in Key \union {NULL}, NEW content \in Content, NEW index \in SlotArgument,
               j \notin Touched(index, key), Sets(index, key, content)
        PROVE  Answer(j)' = Answer(j)
    <3>1. j # key /\ index \notin HasKey(silo, j)
      BY <2>2 DEF Touched, HasKey, Resolved
    <3>2. CASE silo' = silo
      BY <3>2 DEF Answer
    <3>3. ASSUME NEW i \in Index, i \notin HasKey(silo, j), i \notin HasKey(silo', j),
                 \A l \in Index \ {i} : silo'.slots[l] = silo.slots[l]
          PROVE  Answer(j)' = Answer(j)
      <4>1. HasKey(silo', j) = HasKey(silo, j)
        BY <3>3 DEF HasKey, Resolved
      <4>2. \A l \in HasKey(silo, j) : silo'.slots[l].content = silo.slots[l].content
        BY <3>3 DEF HasKey, Resolved
      <4> QED BY <4>1, <4>2, AnswerKept
    <3>4. \/ silo' = silo
          \/ \E i \in Index :
               /\ i = index \/ i \notin Resolved(silo)
               /\ \/ \E l \in {key, NULL} : silo' = Written(silo, i, l, content)
                  \/ silo' = Emptied(silo, i)
      BY <2>1, <2>2, SetEffect
    <3>5. ASSUME NEW i \in Index, i = index \/ i \notin Resolved(silo)
          PROVE  i \notin HasKey(silo, j)
      BY <3>1, <3>5 DEF HasKey
    <3>6. ASSUME NEW i \in Index, i = index \/ i \notin Resolved(silo),
                 NEW l \in {key, NULL}, silo' = Written(silo, i, l, content)
          PROVE  Answer(j)' = Answer(j)
      <4>1. l \in Key \union {NULL}
        OBVIOUS
      <4>2. \A n \in Index : silo'.slots[n] =
              IF n = i THEN [key |-> l, content |-> content, resolved |-> TRUE] ELSE silo.slots[n]
        BY <2>1, <3>6, <4>1, WrittenOK
      <4>3. i \notin HasKey(silo', j)
        BY <3>1, <4>2, NullAssumption DEF HasKey
      <4> QED BY <3>3, <3>5, <3>6, <4>2, <4>3
    <3>7. ASSUME NEW i \in Index, i = index \/ i \notin Resolved(silo), silo' = Emptied(silo, i)
          PROVE  Answer(j)' = Answer(j)
      <4>1. \A n \in Index : silo'.slots[n] = IF n = i THEN EmptySlot ELSE silo.slots[n]
        BY <2>1, <3>7, EmptiedOK
      <4>2. i \notin HasKey(silo', j)
        BY <4>1, NullAssumption DEF HasKey, EmptySlot
      <4> QED BY <3>3, <3>5, <3>7, <4>1, <4>2
    <3> QED BY <3>2, <3>4, <3>6, <3>7
  <2>3. ASSUME NEW key \in Key \ {j}, NEW content \in Content, Bridge(key, content)
        PROVE  Answer(j)' = Answer(j)
    <3>1. Peek(silo, key) \in HasKey(silo, key) \union {-1} /\ Peek(silo, key) \in SlotArgument
      BY PeekIndex
    <3>2. \A i \in {Peek(silo, key)} \intersect Resolved(silo) : silo.slots[i].key = key
      BY <3>1, SizeAssumption DEF HasKey, Resolved, Index
    <3>3. j \notin Touched(Peek(silo, key), key)
      BY <3>2 DEF Touched
    <3>4. Sets(Peek(silo, key), key, content)
      BY <2>3 DEF Bridge, Sets
    <3> QED BY <2>2, <3>1, <3>3, <3>4
  <2>4. ASSUME NEW p \in Promise, NEW content \in Content, NEW index \in SlotArgument,
               ResolveCommit(p, content, index), j \notin Touched(index, promises[p].memory_key)
        PROVE  Answer(j)' = Answer(j)
    <3>1. promises[p].memory_key \in Key \union {NULL}
      BY <1>1 DEF TypeOK, PromiseRecord
    <3>2. Sets(index, promises[p].memory_key, content)
      BY <2>4 DEF ResolveCommit, Sets
    <3> QED BY <2>2, <2>4, <3>1, <3>2
  <2> QED BY <2>3, <2>4
<1>2. TypeOK /\ [Next]_vars => [\A j \in Key : Kept(j)]_vars
  BY <1>1
<1> QED BY <1>2, SiloTypeCorrect, PTL DEF Spec, OtherKeysKept

\* A slot written under a key answers for it, or an earlier one goes on answering.
LEMMA WrittenAnswers ==
  ASSUME NEW i \in Index, NEW key, HasKey(silo', key) = HasKey(silo, key) \union {i},
         \A j \in Index \ {i} : silo'.slots[j] = silo.slots[j]
  PROVE  AnsweredOrShadowed(key, i)
<1> DEFINE j == Peek(silo', key)
<1>1. HasKey(silo, key) \subseteq Index
  BY DEF HasKey, Resolved
<1>2. j \in HasKey(silo', key) /\ j # -1 /\ \A l \in HasKey(silo', key) : j <= l
  BY PeekIndex
<1>3. Answer(key)' = silo'.slots[j].content
  BY <1>2 DEF Answer
<1>4. CASE j = i
  BY <1>3, <1>4 DEF AnsweredOrShadowed
<1>5. CASE j # i
  <2>1. j \in HasKey(silo, key) /\ j <= i
    BY <1>2, <1>5
  <2>2. Peek(silo, key) \in HasKey(silo, key) /\ Peek(silo, key) <= j /\ Peek(silo, key) # -1
    BY <2>1, PeekIndex
  <2>3. j <= Peek(silo, key)
    BY <1>2, <2>2
  <2> HIDE DEF j
  <2>4. j \in Int /\ i \in Int /\ Peek(silo, key) \in Int
    BY <1>1, <2>1, <2>2, SizeAssumption DEF Index
  <2>5. Peek(silo, key) = j /\ j < i
    BY <1>5, <2>1, <2>2, <2>3, <2>4
  <2>6. silo'.slots[j] = silo.slots[j]
    BY <1>1, <1>5, <2>1
  <2>7. Answer(key) = silo.slots[j].content
    BY <2>2, <2>5 DEF Answer
  <2> QED BY <1>3, <2>1, <2>5, <2>6, <2>7 DEF AnsweredOrShadowed
<1> QED BY <1>4, <1>5

\* A silo_set that reports success has written the slot asked for or a free one,
\* under the key unless that could not be copied.
LEMMA SucceededSet ==
  ASSUME NEW s, NEW key, NEW content, NEW index \in SlotArgument,
         NEW r \in SiloSet(s, index, key, content), r.ret # -1
  PROVE  \E i \in Index, k \in {key, NULL} :
           r.silo = Written(s, i, k, content) /\ (k = key \/ "key" \in Failing)
<1> DEFINE i == IF index < 0 THEN FreeSlot(s) ELSE index
<1>1. i \in Index /\ \E lost \in Fails("key") :
        r = [silo |-> Written(s, i, IF lost THEN NULL ELSE key, content), ret |-> i]
  <2>1. SiloSet(s, index, key, content) =
          IF i \notin Index THEN {[silo |-> s, ret |-> -1]}
          ELSE {[silo |-> Written(s, i, IF lost THEN NULL ELSE key, content), ret |-> i] :
                  lost \in Fails("key")}
               \union {[silo |-> Emptied(s, i), ret |-> -1] : failed \in Fails("content") \ {FALSE}}
    BY DEF SiloSet
  <2> HIDE DEF i
  <2>2. r # [silo |-> s, ret |-> -1] /\ r # [silo |-> Emptied(s, i), ret |-> -1]
    OBVIOUS
  <2>3. i \in Index
    BY <2>1, <2>2
  <2>4. r \in {[silo |-> Written(s, i, IF lost THEN NULL ELSE key, content), ret |-> i] :
                  lost \in Fails("key")}
    BY <2>1, <2>2, <2>3
  <2> QED BY <2>3, <2>4
<1>2. PICK lost \in Fails("key") :
        r = [silo |-> Written(s, i, IF lost THEN NULL ELSE key, content), ret |-> i]
  BY <1>1
<1>3. CASE lost
  <2>1. "key" \in Failing
    BY <1>3 DEF Fails
  <2> QED BY <1>1, <1>2, <1>3, <2>1
<1>4. CASE ~lost
  BY <1>1, <1>2, <1>4
<1> QED BY <1>3, <1>4

\* A promise becomes committed by its qpromise_resolve_commit alone.
LEMMA CommitStep ==
  ASSUME TypeOK, Next, NEW p \in Promise, CommitsNow(p)
  PROVE  \E content \in Content, index \in SlotArgument :
         \E r \in SiloSet(silo, index, promises[p].memory_key, content) :
           /\ silo' = r.silo /\ r.ret # -1
           /\ promises'[p].value = content /\ promises'[p].memory_key = promises[p].memory_key
<1>1. promises \in [Promise -> PromiseRecord] /\ promises[p].state = "PENDING"
      /\ promises'[p].state = "COMMITTED"
  BY DEF TypeOK, CommitsNow
<1>2. ASSUME NEW q \in Promise, NEW rs, Become(q, rs) PROVE FALSE
  <2>1. q # p /\ \E pr \in rs : promises' = [promises EXCEPT ![q] = pr]
    BY <1>1, <1>2 DEF Become
  <2> QED BY <1>1, <2>1
<1>3. ~Retrieval
  <2>1. ASSUME NEW q \in Promise, NEW key \in Key \union {NULL}, Bind(q, key) PROVE FALSE
    <3>1. promises' = [promises EXCEPT ![q] = Bound(promises[q], key)]
      BY <2>1 DEF Bind
    <3>2. promises[q] \in PromiseRecord
      BY <1>1
    <3>3. Bound(promises[q], key).state = promises[q].state
      BY <3>2 DEF Bound, PromiseRecord
    <3> QED BY <1>1, <3>1, <3>3
  <2> QED BY <1>2, <2>1 DEF Retrieval, Create, FromPeek, FromPeekSemantic
<1>4. ~Writing
  BY <1>1 DEF Writing, Bridge, SetAt
<1>5. ASSUME NEW q \in Promise, NEW pr, pr.state # "COMMITTED", Settle(q, pr) PROVE FALSE
  <2>1. promises' = [promises EXCEPT ![q].state = pr.state, ![q].value = pr.value]
    BY <1>5 DEF Settle
  <2>2. promises[q] \in PromiseRecord
    BY <1>1
  <2>3. [promises[q] EXCEPT !.state = pr.state, !.value = pr.value].state = pr.state
    BY <2>2 DEF PromiseRecord
  <2> QED BY <1>1, <1>5, <2>1, <2>2, <2>3
<1>6. PICK q \in Promise, content \in Content, index \in SlotArgument : ResolveCommit(q, content, index)
  <2>1. \A content : ResolvedWith(content).state = "RESOLVED"
    BY DEF ResolvedWith, Unborn
  <2>2. [Unborn EXCEPT !.state = "DROPPED"].state = "DROPPED"
    BY DEF Unborn
  <2> QED BY <1>3, <1>4, <1>5, <2>1, <2>2 DEF Next, Settlement
<1>7. PICK r \in SiloSet(silo, index, promises[q].memory_key, content),
           copied \in (IF CopyFails THEN BOOLEAN ELSE {TRUE}) :
        /\ silo' = r.silo
        /\ promises' = IF r.ret # -1 /\ copied
                       THEN [promises EXCEPT ![q].state = "COMMITTED", ![q].value = content]
                       ELSE promises
  BY <1>6 DEF ResolveCommit
<1>8. r.ret # -1 /\ promises' = [promises EXCEPT ![q].state = "COMMITTED", ![q].value = content]
  BY <1>1, <1>7
<1>9. q = p
  BY <1>1, <1>8
<1>10. promises'[p].value = content /\ promises'[p].memory_key = promises[p].memory_key
  BY <1>1, <1>8, <1>9 DEF PromiseRecord
<1> QED BY <1>7, <1>8, <1>9, <1>10

\* A promise is resolved by a commit only when its value is stored, in the slot its
\* caller named or a free one; peek answers it, unless an earlier slot of the key
\* answered before and goes on doing so, or the key could not be copied.
THEOREM CommitsAreStored == Spec => CommitIsStored
<1> DEFINE Stored(p) == CommitsNow(p) =>
      \E i \in Resolved(silo') :
        /\ silo'.slots[i].content = promises'[p].value
        /\ \/ /\ silo'.slots[i].key = promises[p].memory_key
              /\ promises[p].memory_key # NULL => AnsweredOrShadowed(promises[p].memory_key, i)
           \/ silo'.slots[i].key = NULL /\ "key" \in Failing
<1>1. ASSUME TypeOK, Next, NEW p \in Promise PROVE Stored(p)
  <2> DEFINE key == promises[p].memory_key
  <2> SUFFICES ASSUME CommitsNow(p)
               PROVE  \E i \in Resolved(silo') :
                        /\ silo'.slots[i].content = promises'[p].value
                        /\ \/ silo'.slots[i].key = key /\ (key # NULL => AnsweredOrShadowed(key, i))
                           \/ silo'.slots[i].key = NULL /\ "key" \in Failing
    OBVIOUS
  <2>1. SiloOK(silo) /\ key \in Key \union {NULL}
    BY <1>1 DEF TypeOK, SiloOK, PromiseRecord
  <2>2. PICK content \in Content, index \in SlotArgument : \E r \in SiloSet(silo, index, key, content) :
          /\ silo' = r.silo /\ r.ret # -1
          /\ promises'[p].value = content /\ promises'[p].memory_key = key
    BY <1>1, CommitStep
  <2>3. PICK i \in Index, k \in {key, NULL} :
          silo' = Written(silo, i, k, content) /\ (k = key \/ "key" \in Failing)
    BY <2>2, SucceededSet
  <2>4. /\ Resolved(silo') = Resolved(silo) \union {i}
        /\ \A j \in Index : silo'.slots[j] =
             IF j = i THEN [key |-> k, content |-> content, resolved |-> TRUE] ELSE silo.slots[j]
    BY <2>1, <2>3, WrittenOK
  <2>5. i \in Resolved(silo') /\ silo'.slots[i].content = promises'[p].value /\ silo'.slots[i].key = k
    BY <2>2, <2>4
  <2>6. CASE k # key
    BY <2>3, <2>5, <2>6
  <2>7. CASE k = key /\ key = NULL
    BY <2>5, <2>7
  <2>8. CASE k = key /\ key # NULL
    <3>1. HasKey(silo', key) = HasKey(silo, key) \union {i}
      BY <2>4, <2>8 DEF HasKey, Resolved
    <3>2. AnsweredOrShadowed(key, i)
      BY <2>4, <3>1, WrittenAnswers
    <3> QED BY <2>5, <2>8, <3>2
  <2> QED BY <2>6, <2>7, <2>8
<1>2. TypeOK /\ [Next]_vars => [\A p \in Promise : Stored(p)]_vars
  BY <1>1
<1> QED BY <1>2, SiloTypeCorrect, PTL DEF Spec, CommitIsStored

=============================================================================
