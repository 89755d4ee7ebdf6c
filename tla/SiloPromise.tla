----------------------------- MODULE SiloPromise ----------------------------
(***************************************************************************)
(* Promises bound to a memory silo: qpromise_from_peek, qpromise_bind_pmll  *)
(* and qpromise_resolve_commit of src/Q_promise_lib/qpromise.c over the     *)
(* silo of src/PMLL.c, with the SAT bridge as the silo's other writer.      *)
(*                                                                          *)
(* Of a promise only its outcome matters here: QPromise models what happens *)
(* to its continuations.  The hard part is that a commit is two steps, the  *)
(* silo and then the promise, each of which may run out of memory, and that *)
(* several promises may be pending on one key.                              *)
(***************************************************************************)
EXTENDS Silo

CONSTANTS
  Promise,
  Writers,  \* who writes: subset of {"bridge", "commit", "direct"}
  CopyFails, \* qpromise_resolve and bindings may run out of memory
  MaxCount  \* bound on slot_count, which grows without limit when sets fail

ASSUME WritersAssumption == Writers \subseteq {"bridge", "commit", "direct"}
ASSUME CopyFailsAssumption == CopyFails \in BOOLEAN
ASSUME MaxCountAssumption == MaxCount \in Nat

VARIABLES
  silo,
  promises  \* of every promise: state, value, bound (p->silo is set), memory_key

vars == <<silo, promises>>

\* The slot a caller may ask silo_set for: -1 leaves the choice to it, Size is
\* none of its slots.
SlotArgument == -1 .. Size

PromiseRecord ==
  \* COMMITTED: RESOLVED by qpromise_resolve_commit; DROPPED: rejected or cancelled
  [state : {"unborn", "PENDING", "RESOLVED", "COMMITTED", "DROPPED"},
   value : Content \union {NULL},
   bound : BOOLEAN,
   memory_key : Key \union {NULL}]

Unborn  == [state |-> "unborn", value |-> NULL, bound |-> FALSE, memory_key |-> NULL]
Pending == [Unborn EXCEPT !.state = "PENDING"]
ResolvedWith(v) == [Unborn EXCEPT !.state = "RESOLVED", !.value = v]

\* qpromise_bind_pmll
Bound(pr, key) == [pr EXCEPT !.bound = TRUE, !.memory_key = key]

\* A binding is best effort where the code ignores its failure.
BestEffort(pr, key) == {Bound(pr, key)} \union (IF CopyFails THEN {pr} ELSE {})

Become(p, records) ==
  /\ promises[p].state = "unborn"
  /\ \E pr \in records : promises' = [promises EXCEPT ![p] = pr]
  /\ UNCHANGED silo

\* qpromise_create
Create(p) == Become(p, {Pending})

\* qpromise_from_peek; without memory it returns NULL, a stuttering step.
FromPeek(p, key) ==
  LET i == Peek(silo, key)
  IN  Become(p, IF i # -1 THEN BestEffort(ResolvedWith(silo.slots[i].content), key)
                ELSE {Bound(Pending, key)})

\* qpromise_from_peek_semantic: a hit is bound to the key of the slot, a miss
\* to none.
FromPeekSemantic(p, query) ==
  LET i == PeekSemantic(silo, query)
  IN  Become(p, IF i # -1
                THEN BestEffort(ResolvedWith(silo.slots[i].content), silo.slots[i].key)
                ELSE {Bound(Pending, NULL)})

\* qpromise_bind_pmll, in any state of the promise
Bind(p, key) ==
  /\ promises[p].state # "unborn"
  /\ promises' = [promises EXCEPT ![p] = Bound(@, key)]
  /\ UNCHANGED silo

\* Seeded fault: the promise is resolved whether or not the silo took the value.
CommitRegardless(p, content, index) ==
  /\ promises[p].state = "PENDING" /\ promises[p].bound
  /\ \E r \in SiloSet(silo, index, promises[p].memory_key, content) : silo' = r.silo
  /\ promises' = [promises EXCEPT ![p].state = "COMMITTED", ![p].value = content]

\* qpromise_resolve_commit: silo_set, and if it succeeded qpromise_resolve,
\* which may fail to copy the value and leave the promise pending.  The caller's
\* index goes to silo_set as it is, and writes over whatever key holds the slot.
ResolveCommit(p, content, index) ==
  /\ promises[p].state = "PENDING" /\ promises[p].bound
  /\ \E r \in SiloSet(silo, index, promises[p].memory_key, content),
        copied \in (IF CopyFails THEN BOOLEAN ELSE {TRUE}) :
       /\ silo' = r.silo
       /\ promises' = IF r.ret # -1 /\ copied
                      THEN [promises EXCEPT ![p].state = "COMMITTED", ![p].value = content]
                      ELSE promises

\* qpromise_resolve, qpromise_reject, qpromise_cancel without a commit
Settle(p, pr) ==
  /\ promises[p].state = "PENDING"
  /\ promises' = [promises EXCEPT ![p].state = pr.state, ![p].value = pr.value]
  /\ UNCHANGED silo

\* Seeded fault: existing_idx is not reset before a peek that misses.
BridgeAtFirst(key, content) ==
  /\ \E r \in SiloSet(silo, IF Peek(silo, key) # -1 THEN Peek(silo, key) ELSE 0, key, content) :
       silo' = r.silo
  /\ UNCHANGED promises

\* Seeded fault: the bridge does not look for its key first.
BridgeBlindly(key, content) ==
  /\ \E r \in SiloSet(silo, -1, key, content) : silo' = r.silo
  /\ UNCHANGED promises

\* sat_bridge_literal, sat_bridge_clause, and each variable of
\* sat_bridge_assignment_meanings: update the slot of the key, or take a free one.
Bridge(key, content) ==
  /\ \E r \in SiloSet(silo, Peek(silo, key), key, content) : silo' = r.silo
  /\ UNCHANGED promises

\* silo_set with an index of the caller's choice
SetAt(index, key, content) ==
  /\ \E r \in SiloSet(silo, index, key, content) : silo' = r.silo
  /\ UNCHANGED promises

-----------------------------------------------------------------------------

Init ==
  /\ silo = EmptySilo
  /\ promises = [p \in Promise |-> Unborn]

Retrieval ==
  \E p \in Promise : \/ Create(p)
                     \/ \E key \in Key : FromPeek(p, key)
                     \/ \E query \in Content : FromPeekSemantic(p, query)
                     \/ \E key \in Key \union {NULL} : Bind(p, key)

Settlement ==
  \E p \in Promise :
    \/ \E content \in Content : Settle(p, ResolvedWith(content))
    \/ Settle(p, [Unborn EXCEPT !.state = "DROPPED"])
    \/ /\ "commit" \in Writers /\ silo.slot_count <= MaxCount
       /\ \E content \in Content, index \in SlotArgument : ResolveCommit(p, content, index)

Writing ==
  /\ silo.slot_count <= MaxCount
  /\ \E key \in Key, content \in Content :
       \/ "bridge" \in Writers /\ Bridge(key, content)
       \/ "direct" \in Writers /\ \E i \in Index : SetAt(i, key, content)

Next == Retrieval \/ Settlement \/ Writing

Spec == Init /\ [][Next]_vars

-----------------------------------------------------------------------------
(* Properties *)

Answer(key) ==
  IF Peek(silo, key) = -1 THEN NULL ELSE silo.slots[Peek(silo, key)].content

\* The variables have their types, and a slot is resolved exactly when it has
\* content, so that peek never answers with a NULL string: in particular after
\* a silo_set that ran out of memory half way.
TypeOK ==
  /\ silo \in SiloType
  /\ \A i \in Index : silo.slots[i].resolved <=> silo.slots[i].content # NULL
  /\ promises \in [Promise -> PromiseRecord]

Bridging == \E key \in Key, content \in Content : Bridge(key, content)

\* slot_count, the number of resolved slots as PMLL.h says, stays that number
\* in every step but one that loses the content of a slot.
SlotCountExact ==
  [][CountsResolved(silo) /\ Resolved(silo) \subseteq Resolved(silo')
       => CountsResolved(silo')]_vars

\* The bridge never gives a key its second slot, although keys and contents may
\* fail to be copied and slots be emptied and taken again by any writer.
OneSlotPerKey ==
  [][KeysUnique(silo) /\ ~KeysUnique(silo') => ~Bridging]_vars

\* The keys whose answer a silo_set under key at index may change: its own, and
\* the one that holds the slot, if the caller names one.
Touched(index, key) == {key} \union {silo.slots[i].key : i \in {index} \intersect Resolved(silo)}

\* The bridge changes no other answer than its own key's, and a commit that
\* leaves the slot to silo_set neither: the free slot they take is nobody's ("do
\* not clobber clauses", PMLL.c:310).  A commit at a slot the caller names
\* (qpromise.c:638) disturbs the key that held it, and no third one.
OtherKeysKept ==
  [][\A j \in Key : Answer(j)' # Answer(j) =>
       /\ \A key \in Key \ {j}, content \in Content : ~Bridge(key, content)
       /\ \A p \in Promise, content \in Content, index \in SlotArgument :
            ResolveCommit(p, content, index) => j \in Touched(index, promises[p].memory_key)]_vars

\* The promise p is resolved by a commit in this step.
CommitsNow(p) == promises[p].state = "PENDING" /\ promises'[p].state = "COMMITTED"

\* Peek answers key with the value in slot i from now on, or goes on with what a
\* slot before i answered already.
AnsweredOrShadowed(key, i) ==
  \/ Answer(key)' = silo'.slots[i].content
  \/ Answer(key)' = Answer(key) /\ \E j \in HasKey(silo, key) : j < i

\* A promise is resolved by a commit only when its value is stored under its key:
\* peek answers it, unless an earlier slot of the key had an answer, which then
\* stays (the commits of two promises on one key, or a commit tried again).  Only a
\* key that cannot be copied leaves the value in a slot without one.
CommitIsStored ==
  [][\A p \in Promise : CommitsNow(p) =>
       \E i \in Resolved(silo') :
         /\ silo'.slots[i].content = promises'[p].value
         /\ \/ /\ silo'.slots[i].key = promises[p].memory_key
               /\ promises[p].memory_key # NULL => AnsweredOrShadowed(promises[p].memory_key, i)
            \/ silo'.slots[i].key = NULL /\ "key" \in Failing]_vars

=============================================================================
