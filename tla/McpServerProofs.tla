--------------------------- MODULE McpServerProofs ---------------------------
(***************************************************************************)
(* Theorems of McpServer: the stores are sound, a miss was one, a set takes *)
(* effect, and the server implements SessionMemory, for every number of     *)
(* threads and sessions, whatever tools each thread is given.               *)
(***************************************************************************)
EXTENDS McpServer, FiniteSetTheorems, SequenceTheorems, WellFoundedInduction, TLAPS

-----------------------------------------------------------------------------
(* One store *)

SlotMap == UNION {[held -> Slot] : held \in SUBSET Key}

\* The objects a store may be; the keys held are a finite set, whatever Key is.
Store ==
  [silo_size  : Nat \ {0},
   slots      : SlotMap,
   next_index : Nat,
   access_seq : Nat]

Good(store) == store \in Store /\ IsFiniteSet(Held(store)) /\ StoreSound(store)

LEMMA StoreFacts ==
  ASSUME NEW store \in Store
  PROVE  /\ Held(store) \subseteq Key /\ store.slots \in [Held(store) -> Slot]
         /\ store.silo_size \in Nat \ {0}
         /\ store.next_index \in Nat /\ store.access_seq \in Nat
         /\ \A k \in Held(store) : /\ store.slots[k].value \in Value
                                   /\ store.slots[k].index \in Nat
                                   /\ store.slots[k].last_accessed \in Nat
         /\ StoreType(store)
<1>1. PICK held \in SUBSET Key : store.slots \in [held -> Slot]
  BY DEF Store, SlotMap
<1>2. Held(store) = held
  BY <1>1 DEF Held
<1> QED BY <1>1, <1>2 DEF Store, StoreType, Slot

LEMMA EmptyGood ==
  ASSUME NEW size \in Nat \ {0}
  PROVE  Good(EmptyStore(size)) /\ Held(EmptyStore(size)) = {}
<1> DEFINE none == [k \in {} |-> 0]
<1>1. none \in [{} -> Slot] /\ DOMAIN none = {}
  OBVIOUS
<1>2. none \in SlotMap
  BY <1>1 DEF SlotMap
<1> HIDE DEF none
<1>3. EmptyStore(size) = [silo_size |-> size, slots |-> none, next_index |-> 0, access_seq |-> 0]
  BY DEF EmptyStore, none
<1>4. EmptyStore(size) \in Store
  BY <1>2, <1>3 DEF Store
<1>5. Held(EmptyStore(size)) = {}
  BY <1>1, <1>3 DEF Held
<1> QED BY <1>3, <1>4, <1>5, FS_EmptySet DEF Good, StoreSound

\* A use of a key changes its time only, and no two keys get the same time.
LEMMA TouchedGood ==
  ASSUME NEW store, Good(store), NEW key \in Held(store), NEW value \in Value
  PROVE  LET after == Touched(store, key, value)
         IN  /\ Good(after) /\ Held(after) = Held(store)
             /\ after.slots[key].value = value
             /\ \A k \in Held(store) \ {key} : after.slots[k].value = store.slots[k].value
<1> DEFINE slot == [store.slots[key] EXCEPT !.value = value, !.last_accessed = store.access_seq + 1]
           slots == [store.slots EXCEPT ![key] = slot]
           after == [store EXCEPT !.access_seq = store.access_seq + 1, !.slots = slots]
<1>1. store \in Store /\ store.slots \in [Held(store) -> Slot] /\ Held(store) \in SUBSET Key
  BY StoreFacts DEF Good
<1>2. slot \in Slot /\ slot.value = value /\ slot.index = store.slots[key].index
      /\ slot.last_accessed = store.access_seq + 1
  <2>1. /\ store.slots[key] \in [value : Value, index : Nat, last_accessed : Nat]
        /\ store.access_seq + 1 \in Nat
    BY <1>1, StoreFacts DEF Slot
  <2> QED BY <2>1 DEF Slot
<1>3. slots \in [Held(store) -> Slot] /\ slots[key] = slot
      /\ \A k \in Held(store) \ {key} : slots[k] = store.slots[k]
  BY <1>1, <1>2
<1>4. Touched(store, key, value) = after
  BY <1>1 DEF Touched, Store
<1>8. slots \in SlotMap
  BY <1>1, <1>3 DEF SlotMap
<1> HIDE DEF slot, slots
<1>5. after \in Store /\ after.slots = slots /\ after.access_seq = store.access_seq + 1
      /\ after.next_index = store.next_index /\ after.silo_size = store.silo_size
  <2>1. store.access_seq + 1 \in Nat
    BY <1>1, StoreFacts
  <2> QED BY <1>1, <1>8, <2>1 DEF Store
<1>6. Held(after) = Held(store)
  BY <1>3, <1>5 DEF Held
<1>7. StoreSound(after)
  BY <1>1, <1>2, <1>3, <1>5, <1>6, StoreFacts DEF StoreSound, Good
<1> QED BY <1>2, <1>3, <1>4, <1>5, <1>6, <1>7 DEF Good

\* A key whose last use lies furthest back.
LEMMA LruHeld ==
  ASSUME NEW store \in Store, Held(store) # {}
  PROVE  Lru(store) \in Held(store)
<1> DEFINE time(k) == store.slots[k].last_accessed
           R == {ss \in Nat \X Nat : ss[1] < ss[2]}
           times == {time(k) : k \in Held(store)}
<1>1. IsWellFoundedOn(R, Nat)
  BY NatLessThanWellFounded DEF OpToRel
<1>2. times \subseteq Nat /\ times # {}
  BY StoreFacts
<1>3. PICK x \in times : \A y \in times : <<y, x>> \notin R
  BY <1>1, <1>2, WFMin
<1>4. PICK key \in Held(store) : time(key) = x
  BY <1>3
<1>5. \A k \in Held(store) : time(key) <= time(k)
  <2> TAKE k \in Held(store)
  <2>1. time(k) \in times /\ time(k) \in Nat /\ x \in Nat /\ <<time(k), x>> \notin R
    BY <1>2, <1>3
  <2>2. time(k) < x => <<time(k), x>> \in R
    BY <2>1
  <2> QED BY <1>4, <2>1, <2>2
<1> QED BY <1>4, <1>5 DEF Lru, IsLru

LEMMA InsertedGood ==
  ASSUME NEW store, Good(store), NEW key \in Key, key \notin Held(store), NEW value \in Value
  PROVE  LET after == Inserted(store, key, value)
         IN  Good(after) /\ key \in Held(after) /\ after.slots[key].value = value
<1> DEFINE room == Room(store)
           slot == [value |-> value, index |-> store.next_index,
                    last_accessed |-> store.access_seq + 1]
           slots == [k \in room \union {key} |-> IF k = key THEN slot ELSE store.slots[k]]
           after == [store EXCEPT !.slots = slots, !.next_index = store.next_index + 1,
                                  !.access_seq = store.access_seq + 1]
<1>1. store \in Store /\ store.slots \in [Held(store) -> Slot] /\ Held(store) \in SUBSET Key
      /\ store.silo_size \in Nat \ {0} /\ IsFiniteSet(Held(store)) /\ StoreSound(store)
  BY StoreFacts DEF Good
<1>2. /\ room \subseteq Held(store) /\ IsFiniteSet(room)
      /\ Cardinality(room) < store.silo_size
  <2>1. Cardinality(Held(store)) \in Nat /\ Cardinality(Held(store)) <= store.silo_size
    BY <1>1, FS_CardinalityType DEF StoreSound
  <2>2. CASE Cardinality(Held(store)) < store.silo_size
    BY <1>1, <2>2 DEF Room
  <2>3. CASE ~(Cardinality(Held(store)) < store.silo_size)
    <3>1. Held(store) # {}
      BY <1>1, <2>1, <2>3, FS_EmptySet
    <3>2. Lru(store) \in Held(store)
      BY <1>1, <3>1, LruHeld
    <3>3. room = Held(store) \ {Lru(store)}
      BY <2>3 DEF Room
    <3>4. IsFiniteSet(room) /\ Cardinality(room) = Cardinality(Held(store)) - 1
      BY <1>1, <3>2, <3>3, FS_RemoveElement
    <3> HIDE DEF room
    <3> QED BY <1>1, <2>1, <3>2, <3>3, <3>4
  <2> QED BY <2>2, <2>3
<1>3. slot \in Slot /\ slot.index = store.next_index /\ slot.last_accessed = store.access_seq + 1
  BY <1>1, StoreFacts DEF Slot
<1>4. Inserted(store, key, value) = after
  BY <1>1 DEF Inserted, Store
<1> HIDE DEF room, slot
<1>5. slots \in [room \union {key} -> Slot] /\ slots[key] = slot
      /\ \A k \in room : k # key /\ slots[k] = store.slots[k]
  BY <1>1, <1>2, <1>3
<1>6. room \union {key} \in SUBSET Key
  BY <1>1, <1>2
<1>7. slots \in SlotMap
  BY <1>5, <1>6 DEF SlotMap
<1> HIDE DEF slots
<1>8. after \in Store /\ after.slots = slots /\ after.access_seq = store.access_seq + 1
      /\ after.next_index = store.next_index + 1 /\ after.silo_size = store.silo_size
  <2>1. store.access_seq + 1 \in Nat /\ store.next_index + 1 \in Nat
    BY <1>1, StoreFacts
  <2> QED BY <1>1, <1>7, <2>1 DEF Store
<1>9. Held(after) = room \union {key}
  BY <1>5, <1>8 DEF Held
<1>10. IsFiniteSet(Held(after)) /\ Cardinality(Held(after)) <= after.silo_size
  <2>1. key \notin room /\ Cardinality(room) \in Nat
    BY <1>2, FS_CardinalityType
  <2>2. IsFiniteSet(room \union {key}) /\ Cardinality(room \union {key}) = Cardinality(room) + 1
    BY <1>2, <2>1, FS_AddElement
  <2> QED BY <1>1, <1>2, <1>8, <1>9, <2>1, <2>2
<1>11. StoreSound(after)
  <2>1. \A k \in room : /\ slots[k].index \in Nat /\ slots[k].index < store.next_index
                        /\ slots[k].last_accessed \in Nat
                        /\ slots[k].last_accessed <= store.access_seq
    BY <1>1, <1>2, <1>5, StoreFacts DEF StoreSound
  <2>2. \A k \in Held(after) : /\ after.slots[k].index < after.next_index
                               /\ after.slots[k].last_accessed <= after.access_seq
    BY <1>1, <1>3, <1>5, <1>8, <1>9, <2>1, StoreFacts
  <2>3. \A j, k \in room : \/ slots[j].index = slots[k].index
                           \/ slots[j].last_accessed = slots[k].last_accessed
                           => j = k
    BY <1>1, <1>2, <1>5 DEF StoreSound
  <2>4. \A k \in room : /\ slots[k].index # slots[key].index
                        /\ slots[k].last_accessed # slots[key].last_accessed
    BY <1>1, <1>3, <1>5, <2>1, StoreFacts
  <2> QED BY <1>8, <1>9, <1>10, <2>2, <2>3, <2>4 DEF StoreSound
<1> QED BY <1>3, <1>4, <1>5, <1>8, <1>9, <1>10, <1>11 DEF Good, slot

\* set keeps a store sound and makes it answer the value.
LEMMA StoredGood ==
  ASSUME NEW store, Good(store), NEW key \in Key, NEW value \in Value
  PROVE  LET after == Stored(store, key, value)
         IN  Good(after) /\ key \in Held(after) /\ after.slots[key].value = value
BY TouchedGood, InsertedGood DEF Stored

\* peek keeps a store sound, and what it answers.
LEMMA PeekedGood ==
  ASSUME NEW store, Good(store), NEW key
  PROVE  LET after == Peeked(store, key)
         IN  /\ Good(after) /\ Held(after) = Held(store)
             /\ \A k \in Held(store) : after.slots[k].value = store.slots[k].value
<1>1. CASE key \in Held(store)
  <2>1. store.slots[key].value \in Value
    BY <1>1, StoreFacts DEF Good
  <2> QED BY <1>1, <2>1, TouchedGood DEF Peeked
<1>2. CASE key \notin Held(store)
  BY <1>2 DEF Peeked
<1> QED BY <1>1, <1>2

-----------------------------------------------------------------------------
(* The server: types, and how far each call is *)

GoodStore == {store \in Store : Good(store)}

\* The stores that a session or a call refers to.
Referred == ({sessions[s] : s \in Session} \union {calls[t].store : t \in Thread}) \ {None}

Call ==
  [tool    : {"none", "init", "flush", "peek", "set", "context"},
   at      : {"idle", "note", "store", "registry", "label", "search", "done"},
   session : Session \union {None},
   key     : Key \union {None},
   value   : Value \union SiloSize \union {None},
   asked   : {"default", "exact", "semantic"},
   store   : StoreId \union {None},
   answer  : {"none", "miss", "long_term"}]

\* A call has a store exactly when it is about to work on it, and the locals
\* that its tool needs.
CallOK(c) ==
  /\ c.at = "store" => c.store \in StoreId /\ c.tool \in {"peek", "set", "context"}
  /\ c.at # "store" => c.store = None
  /\ c.at # "idle" => c.session \in Session
  /\ c.at = "idle" => c.tool = "none"
  /\ c.tool \in {"peek", "set", "context"} => c.key \in Key
  /\ c.tool = "set" => c.value \in Value
  /\ c.at = "note" => c.tool \in {"init", "flush"} /\ (c.tool = "init" => c.value \in SiloSize)
  /\ c.at \in {"label", "search"} => c.tool = "context"
  /\ c.answer = "miss" => c.at = "done"

CallsTyped ==
  /\ sessions \in [Session -> StoreId \union {None}]
  /\ stores \in [Referred -> GoodStore]
  /\ calls \in [Thread -> Call]
  /\ \A t \in Thread : CallOK(calls[t])

Typed ==
  /\ CallsTyped
  /\ active \in [Session -> SiloSize \union {None}]
  /\ promises \in [Key -> {"absent", "pending", "resolved"}]
  /\ longTerm \in [Session -> SUBSET Node]
  /\ overtaken \in [Thread -> BOOLEAN] /\ gap \in [Thread -> BOOLEAN]

\* What a step may do to the sessions: a session that is flushed or initialised
\* loses its store or gets a new and empty one, any other keeps its store or is
\* opened with a new and empty one; and it does so to one session.
Fresh(s) == sessions'[s] \in StoreId \ Referred /\ Held(stores'[sessions'[s]]) = {}

SessionMoves ==
  /\ \A s \in Session : Reopened(s) => sessions'[s] = None \/ Fresh(s)
  /\ \A s \in Session :
       ~Reopened(s) => sessions'[s] = sessions[s] \/ (sessions[s] = None /\ Fresh(s))
  /\ \A r, s \in Session : sessions'[r] # sessions[r] /\ sessions'[s] # sessions[s] => r = s

\* What a step may do to a call: besides the steps the properties are about, it
\* begins on the store of its session, or is neither a set nor a look up.
Begun(t) ==
  /\ calls[t].at = "idle" /\ calls'[t].at = "store" /\ calls'[t].answer = "none"
  /\ calls'[t].session \in Session /\ sessions'[calls'[t].session] = calls'[t].store

Elsewhere(t) == ~Writing(calls[t]) /\ ~Writing(calls'[t]) /\ calls'[t].tool # "context"

CallMoves ==
  \A t \in Thread : \/ calls'[t] = calls[t] \/ Begun(t) \/ Elsewhere(t)
                    \/ SetStores(t) \/ ContextStore(t) \/ ContextLabel(t) \/ ContextSearch(t)

LEMMA IdleOK == Idle \in Call /\ CallOK(Idle) /\ Idle.store = None /\ Idle.tool = "none"
                /\ Idle.at = "idle" /\ Idle.answer = "none"
BY DEF Idle, Call, CallOK

LEMMA GoodStoreFacts ==
  ASSUME NEW store \in GoodStore
  PROVE  Good(store)
BY DEF GoodStore

LEMMA GoodIsGoodStore ==
  ASSUME NEW store, Good(store)
  PROVE  store \in GoodStore
BY DEF GoodStore, Good

\* A store is referred to by a session or by a call.
LEMMA ReferredFacts ==
  /\ None \notin Referred
  /\ \A s \in Session : sessions[s] # None => sessions[s] \in Referred
  /\ \A t \in Thread : calls[t].store # None => calls[t].store \in Referred
BY DEF Referred

\* What is referred to after a step is taken over from the heap.
LEMMA HeapKept ==
  ASSUME NEW heap, Keep(heap), \A id \in Referred' : heap[id] \in GoodStore
  PROVE  /\ stores' \in [Referred' -> GoodStore]
         /\ \A id \in Referred' : stores'[id] = heap[id]
<1>1. stores' = [id \in Referred' |-> heap[id]]
  BY DEF Keep, Referred
<1> QED BY <1>1

\* get_store: the session's store, or a new empty one under a new identity.
LEMMA GetStoreFacts ==
  ASSUME CallsTyped, NEW s \in Session, NEW got \in GetStore(s)
  PROVE  /\ got.id \in StoreId
         /\ got.heap[got.id] \in GoodStore
         /\ \A id \in Referred : got.heap[id] \in GoodStore
         /\ \/ sessions[s] # None /\ got.id = sessions[s]
            \/ sessions[s] = None /\ got.id \notin Referred /\ Held(got.heap[got.id]) = {}
<1>1. DOMAIN stores = Referred /\ \A id \in Referred : stores[id] \in GoodStore
  BY DEF CallsTyped
<1>2. CASE sessions[s] # None
  <2>1. got = [id |-> sessions[s], heap |-> stores]
    BY <1>2 DEF GetStore
  <2>2. sessions[s] \in Referred /\ sessions[s] \in StoreId
    BY <1>2 DEF Referred, CallsTyped
  <2> QED BY <1>1, <1>2, <2>1, <2>2
<1>3. CASE sessions[s] = None
  <2>1. PICK id \in StoreId \ DOMAIN stores :
          got = [id |-> id, heap |-> With(stores, id, EmptyStore(DefaultSize))]
    BY <1>3 DEF GetStore
  <2>2. EmptyStore(DefaultSize) \in GoodStore /\ Held(EmptyStore(DefaultSize)) = {}
    BY EmptyGood, SizeAssumption, GoodIsGoodStore
  <2>3. got.heap = [i \in Referred \union {id} |-> IF i = id THEN EmptyStore(DefaultSize) ELSE stores[i]]
    BY <1>1, <2>1 DEF With
  <2> QED BY <1>1, <1>3, <2>1, <2>2, <2>3
<1> QED BY <1>2, <1>3

\* A step of one thread that is neither a flush nor an initialisation.
LEMMA NotReopened ==
  ASSUME CallsTyped, NEW t \in Thread, NEW c, calls' = [calls EXCEPT ![t] = c],
         c.tool \notin {"init", "flush"} \/ calls[t].at # "idle"
  PROVE  \A s : ~Reopened(s)
<1>1. calls'[t] = c /\ \A u \in Thread \ {t} : calls'[u] = calls[u]
  BY DEF CallsTyped
<1>2. \A u \in Thread : calls[u].at = "idle" => calls[u].tool = "none"
  BY DEF CallsTyped, CallOK
<1> QED BY <1>1, <1>2 DEF Reopened

\* A step that touches no session and no store.
LEMMA QuietStep ==
  ASSUME CallsTyped, NEW t \in Thread, NEW c \in Call, CallOK(c), Becomes(t, c),
         c.store = None, calls[t].store = None, calls[t].at # "idle",
         UNCHANGED <<sessions, stores>>
  PROVE  CallsTyped' /\ SessionMoves
<1>1. /\ calls' = [calls EXCEPT ![t] = c] /\ calls \in [Thread -> Call]
      /\ \A u \in Thread : CallOK(calls[u])
  BY DEF Becomes, CallsTyped
<1>2. calls' \in [Thread -> Call] /\ \A u \in Thread : CallOK(calls'[u])
  BY <1>1
<1>3. \A u \in Thread : calls'[u].store = calls[u].store
  BY <1>1
<1>4. Referred' = Referred
  BY <1>3 DEF Referred
<1>5. \A s \in Session : ~Reopened(s)
  BY <1>1, NotReopened
<1>6. SessionMoves
  <2>1. \A s \in Session : sessions'[s] = sessions[s]
    OBVIOUS
  <2> QED BY <1>5, <2>1 DEF SessionMoves
<1> QED BY <1>2, <1>4, <1>6 DEF CallsTyped

\* The heap has a good store for what is referred to, and for one identity more.
HeapOK(heap, id) ==
  /\ \A i \in Referred : heap[i] \in GoodStore
  /\ id # None => heap[id] \in GoodStore

Gets(s, id) == sessions' = [sessions EXCEPT ![s] = id]

\* A step that gives a session, and perhaps the call, a store of the heap.
LEMMA HeapStep ==
  ASSUME CallsTyped, NEW t \in Thread, NEW c \in Call, CallOK(c), Becomes(t, c),
         NEW s \in Session, NEW id \in StoreId \union {None},
         Gets(s, id), NEW heap, Keep(heap), HeapOK(heap, id),
         c.store \in {None, id, calls[t].store}
  PROVE  /\ CallsTyped'
         /\ \A i \in Referred' : stores'[i] = heap[i]
         /\ id # None => id \in Referred'
<1>1. /\ calls \in [Thread -> Call] /\ \A u \in Thread : CallOK(calls[u])
      /\ sessions \in [Session -> StoreId \union {None}]
  BY DEF CallsTyped
<1>2. calls' \in [Thread -> Call] /\ \A u \in Thread : CallOK(calls'[u])
  BY <1>1 DEF Becomes
<1>3. \A u \in Thread : calls'[u].store \in {None, id, calls[u].store, calls[t].store}
  BY <1>1 DEF Becomes
<1>4. sessions' \in [Session -> StoreId \union {None}] /\ sessions'[s] = id
      /\ \A r \in Session : sessions'[r] \in {id, sessions[r]}
  BY <1>1 DEF Gets
<1>5. ASSUME NEW i \in Referred' PROVE heap[i] \in GoodStore
  <2> USE DEF HeapOK
  <2>1. CASE \E r \in Session : i = sessions'[r]
    <3>1. PICK r \in Session : i = sessions'[r] /\ i # None
      BY <1>5, <2>1 DEF Referred
    <3>2. i = id \/ i = sessions[r]
      BY <1>4, <3>1
    <3> QED BY <3>1, <3>2, ReferredFacts
  <2>2. CASE \E u \in Thread : i = calls'[u].store
    <3>1. PICK u \in Thread : i = calls'[u].store /\ i # None
      BY <1>5, <2>2 DEF Referred
    <3>2. i = id \/ i = calls[u].store \/ i = calls[t].store
      BY <1>3, <3>1
    <3> QED BY <3>1, <3>2, ReferredFacts
  <2> QED BY <1>5, <2>1, <2>2 DEF Referred
<1>6. stores' \in [Referred' -> GoodStore] /\ \A i \in Referred' : stores'[i] = heap[i]
  BY <1>5, HeapKept
<1>7. id # None => id \in Referred'
  BY <1>4 DEF Referred
<1> QED BY <1>2, <1>4, <1>6, <1>7 DEF CallsTyped

-----------------------------------------------------------------------------
(* The steps *)

LEMMA InitToolMoves ==
  ASSUME CallsTyped, NEW t \in Thread, NEW s \in Session, NEW size \in SiloSize, InitTool(t, s, size)
  PROVE  CallsTyped' /\ SessionMoves /\ CallMoves
<1> DEFINE c == [Idle EXCEPT !.tool = "init", !.at = "note", !.session = s, !.value = size]
<1>1. c \in Call /\ c.store = None /\ c.tool = "init" /\ c.session = s /\ CallOK(c)
  BY DEF Idle, Call, CallOK
<1>2. calls[t].at = "idle" /\ calls' = [calls EXCEPT ![t] = c] /\ ResetStore(s, size)
  BY DEF InitTool, Starts, Becomes
<1> HIDE DEF c
<1>3. /\ DOMAIN stores = Referred /\ \A id \in Referred : stores[id] \in GoodStore
      /\ calls \in [Thread -> Call] /\ sessions \in [Session -> StoreId \union {None}]
  BY DEF CallsTyped
<1>4. PICK id \in StoreId \ Referred :
        /\ sessions' = [sessions EXCEPT ![s] = id]
        /\ Keep(With(stores, id, EmptyStore(size)))
  BY <1>2, <1>3 DEF ResetStore
<1> DEFINE heap == With(stores, id, EmptyStore(size))
<1>5. heap[id] = EmptyStore(size) /\ \A i \in Referred : heap[i] = stores[i]
  BY <1>3, <1>4 DEF With
<1>6. size \in Nat \ {0} /\ id # None
  BY SizeAssumption, ServerNoneAssumption, <1>4
<1>7. heap[id] \in GoodStore /\ Held(heap[id]) = {}
  BY <1>5, <1>6, EmptyGood, GoodIsGoodStore
<1>8. Keep(heap)
  BY <1>4
<1> HIDE DEF heap
<1>9. CallsTyped' /\ Held(stores'[id]) = {}
  <2>1. /\ HeapOK(heap, id)
        /\ id \in StoreId \union {None} /\ c.store \in {None, id, calls[t].store}
    BY <1>1, <1>3, <1>4, <1>5, <1>7 DEF HeapOK
  <2>3. Becomes(t, c) /\ Gets(s, id)
    BY <1>2, <1>4 DEF Becomes, Gets
  <2>4. CallsTyped' /\ stores'[id] = heap[id]
    BY <1>1, <1>6, <1>8, <2>1, <2>3, HeapStep
  <2> QED BY <1>7, <2>4
<1>10. sessions'[s] = id /\ \A r \in Session \ {s} : sessions'[r] = sessions[r]
  BY <1>3, <1>4
<1>11. calls'[t] = c /\ \A u \in Thread \ {t} : calls'[u] = calls[u]
  BY <1>2, <1>3
<1>12. Reopened(s)
  BY <1>1, <1>2, <1>11 DEF Reopened
<1>13. \A r \in Session \ {s} : ~Reopened(r)
  <2>1. \A u \in Thread : calls[u].at = "idle" => calls[u].tool = "none"
    BY DEF CallsTyped, CallOK
  <2> QED BY <1>1, <1>11, <2>1 DEF Reopened
<1>14. SessionMoves
  BY <1>4, <1>9, <1>10, <1>12, <1>13 DEF SessionMoves, Fresh
<1>15. CallMoves
  <2>1. calls[t].tool = "none"
    BY <1>2 DEF CallsTyped, CallOK
  <2>2. Elsewhere(t)
    BY <1>1, <1>11, <2>1 DEF Elsewhere, Writing
  <2> QED BY <1>11, <2>2 DEF CallMoves
<1> QED BY <1>9, <1>14, <1>15

LEMMA FlushToolMoves ==
  ASSUME CallsTyped, NEW t \in Thread, NEW s \in Session, FlushTool(t, s)
  PROVE  CallsTyped' /\ SessionMoves /\ CallMoves
<1> DEFINE c == [Idle EXCEPT !.tool = "flush", !.at = "note", !.session = s]
<1>1. c \in Call /\ c.store = None /\ c.tool = "flush" /\ c.session = s /\ CallOK(c)
  BY DEF Idle, Call, CallOK
<1>2. /\ calls[t].at = "idle" /\ calls' = [calls EXCEPT ![t] = c]
      /\ sessions' = [sessions EXCEPT ![s] = None] /\ Keep(stores)
  BY DEF FlushTool, Starts, Becomes, DropStore
<1> HIDE DEF c
<1>3. /\ \A id \in Referred : stores[id] \in GoodStore
      /\ calls \in [Thread -> Call] /\ sessions \in [Session -> StoreId \union {None}]
  BY DEF CallsTyped
<1>4. CallsTyped'
  <2>1. HeapOK(stores, None)
    BY <1>3 DEF HeapOK
  <2>2. Becomes(t, c) /\ Gets(s, None)
    BY <1>2 DEF Becomes, Gets
  <2> QED BY <1>1, <1>2, <2>1, <2>2, HeapStep
<1>5. sessions'[s] = None /\ \A r \in Session \ {s} : sessions'[r] = sessions[r]
  BY <1>2, <1>3
<1>6. calls'[t] = c /\ \A u \in Thread \ {t} : calls'[u] = calls[u]
  BY <1>2, <1>3
<1>7. Reopened(s)
  BY <1>1, <1>2, <1>6 DEF Reopened
<1>8. \A r \in Session \ {s} : ~Reopened(r)
  <2>1. \A u \in Thread : calls[u].at = "idle" => calls[u].tool = "none"
    BY DEF CallsTyped, CallOK
  <2> QED BY <1>1, <1>6, <2>1 DEF Reopened
<1>9. SessionMoves
  BY <1>5, <1>7, <1>8 DEF SessionMoves
<1>10. CallMoves
  <2>1. calls[t].tool = "none"
    BY <1>2 DEF CallsTyped, CallOK
  <2>2. Elsewhere(t)
    BY <1>1, <1>6, <2>1 DEF Elsewhere, Writing
  <2> QED BY <1>6, <2>2 DEF CallMoves
<1> QED BY <1>4, <1>9, <1>10

\* get_store gives a session that was not open a store, and no other session.
LEMMA GetStoreMoves ==
  ASSUME CallsTyped, NEW t \in Thread, NEW c \in Call, CallOK(c), Becomes(t, c),
         NEW s \in Session, NEW got \in GetStore(s), Gets(s, got.id),
         Keep(got.heap), c.store \in {got.id, calls[t].store},
         c.tool \notin {"init", "flush"}
  PROVE  CallsTyped' /\ SessionMoves /\ sessions'[s] = got.id
<1>1. /\ got.id \in StoreId /\ got.id # None
      /\ got.heap[got.id] \in GoodStore
      /\ \A id \in Referred : got.heap[id] \in GoodStore
      /\ \/ sessions[s] # None /\ got.id = sessions[s]
         \/ sessions[s] = None /\ got.id \notin Referred /\ Held(got.heap[got.id]) = {}
  BY GetStoreFacts, ServerNoneAssumption
<1>2. /\ CallsTyped' /\ got.id \in Referred'
      /\ \A i \in Referred' : stores'[i] = got.heap[i]
  <2> DEFINE id == got.id
             heap == got.heap
  <2>1. /\ HeapOK(heap, id)
        /\ id \in StoreId \union {None} /\ c.store \in {None, id, calls[t].store}
        /\ Gets(s, id) /\ Keep(heap)
    BY <1>1 DEF HeapOK
  <2> HIDE DEF id, heap
  <2>2. CallsTyped' /\ (\A i \in Referred' : stores'[i] = heap[i]) /\ (id # None => id \in Referred')
    BY <2>1, HeapStep
  <2> QED BY <1>1, <2>2 DEF id, heap
<1>3. \A r \in Session : ~Reopened(r)
  BY NotReopened DEF Becomes
<1>4. sessions \in [Session -> StoreId \union {None}]
  BY DEF CallsTyped
<1>5. sessions'[s] = got.id /\ \A r \in Session \ {s} : sessions'[r] = sessions[r]
  BY <1>4 DEF Gets
<1>6. sessions[s] = None => Fresh(s)
  BY <1>1, <1>2, <1>5 DEF Fresh
<1>7. SessionMoves
  BY <1>1, <1>3, <1>5, <1>6 DEF SessionMoves
<1> QED BY <1>2, <1>5, <1>7

LEMMA TakesStoreMoves ==
  ASSUME CallsTyped, NEW t \in Thread, NEW tool \in {"peek", "set", "context"}, NEW s \in Session,
         NEW key \in Key, NEW value \in Value \union {None}, tool = "set" => value \in Value,
         NEW asked \in {"default", "exact", "semantic"}, TakesStore(t, tool, s, key, value, asked)
  PROVE  CallsTyped' /\ SessionMoves /\ CallMoves
<1>1. PICK got \in GetStore(s) :
        /\ calls[t].at = "idle" /\ Gets(s, got.id) /\ Keep(got.heap)
        /\ Becomes(t, [Idle EXCEPT !.tool = tool, !.at = "store", !.session = s, !.key = key,
                                   !.value = value, !.asked = asked, !.store = got.id])
  BY DEF TakesStore, Starts, Gets
<1> DEFINE c == [Idle EXCEPT !.tool = tool, !.at = "store", !.session = s, !.key = key,
                             !.value = value, !.asked = asked, !.store = got.id]
<1>2. got.id \in StoreId
  BY GetStoreFacts
<1>3. /\ c \in Call /\ c.store = got.id /\ c.tool = tool /\ c.at = "store" /\ c.session = s
      /\ c.key = key /\ c.value = value /\ c.answer = "none"
  BY <1>2 DEF Idle, Call
<1>4. Becomes(t, c)
  BY <1>1
<1> HIDE DEF c
<1>5. CallOK(c)
  BY <1>2, <1>3 DEF CallOK
<1>6. CallsTyped' /\ SessionMoves /\ sessions'[s] = got.id
  <2>1. c.store \in {got.id, calls[t].store} /\ c.tool \notin {"init", "flush"}
    BY <1>3
  <2> QED BY <1>1, <1>3, <1>4, <1>5, <2>1, GetStoreMoves
<1>7. calls'[t] = c /\ \A u \in Thread \ {t} : calls'[u] = calls[u]
  BY <1>4 DEF CallsTyped, Becomes
<1>8. Begun(t)
  BY <1>1, <1>3, <1>6, <1>7 DEF Begun
<1> QED BY <1>6, <1>7, <1>8 DEF CallMoves

LEMMA StatusToolMoves ==
  ASSUME CallsTyped, NEW t \in Thread, NEW s \in Session, StatusTool(t, s)
  PROVE  CallsTyped' /\ SessionMoves /\ CallMoves
<1>1. /\ calls[t].at = "idle" /\ calls' = calls /\ calls \in [Thread -> Call]
      /\ calls[t] \in Call /\ CallOK(calls[t])
  BY DEF StatusTool, Starts, CallsTyped
<1>2. PICK got \in GetStore(s) : Gets(s, got.id) /\ Keep(got.heap)
  BY DEF StatusTool, Gets
<1>3. Becomes(t, calls[t]) /\ calls[t].tool \notin {"init", "flush"}
  BY <1>1 DEF CallOK, Becomes
<1>4. CallsTyped' /\ SessionMoves
  BY <1>1, <1>2, <1>3, GetStoreMoves
<1> QED BY <1>1, <1>4 DEF CallMoves

\* A step of a call that works on the store it was given.
LEMMA StoreStep ==
  ASSUME CallsTyped, NEW t \in Thread, NEW c \in Call, CallOK(c), Becomes(t, c),
         calls[t].at = "store", c.store \in {None, calls[t].store}, sessions' = sessions,
         NEW heap, Keep(heap), \A i \in Referred : heap[i] \in GoodStore
  PROVE  CallsTyped' /\ SessionMoves /\ \A i \in Referred' : stores'[i] = heap[i]
<1>1. calls[t] \in Call /\ CallOK(calls[t]) /\ sessions \in [Session -> StoreId \union {None}]
  BY DEF CallsTyped
<1>2. PICK s \in Session : TRUE
  BY <1>1 DEF CallOK
<1>3. Gets(s, sessions[s]) /\ sessions[s] \in StoreId \union {None}
  BY <1>1 DEF Gets
<1>4. HeapOK(heap, sessions[s])
  BY ReferredFacts DEF HeapOK
<1>5. c.store \in {None, sessions[s], calls[t].store}
  OBVIOUS
<1>6. CallsTyped' /\ \A i \in Referred' : stores'[i] = heap[i]
  BY <1>3, <1>4, <1>5, HeapStep
<1>7. \A r \in Session : ~Reopened(r)
  BY NotReopened DEF Becomes
<1>8. SessionMoves
  BY <1>7 DEF SessionMoves
<1> QED BY <1>6, <1>8

LEMMA SetStoresMoves ==
  ASSUME CallsTyped, NEW t \in Thread, SetStores(t)
  PROVE  CallsTyped' /\ SessionMoves /\ CallMoves
<1> DEFINE c == calls[t]
           store == Stored(stores[c.store], c.key, c.value)
           heap == [stores EXCEPT ![c.store] = store]
<1>1. /\ c.tool = "set" /\ c.at = "store" /\ Becomes(t, Idle) /\ sessions' = sessions
      /\ Keep(heap)
  BY DEF SetStores, At
<1>2. /\ c \in Call /\ CallOK(c) /\ stores \in [Referred -> GoodStore]
      /\ c.store \in Referred /\ c.key \in Key /\ c.value \in Value
  BY <1>1, ReferredFacts, ServerNoneAssumption DEF CallsTyped, CallOK
<1>3. store \in GoodStore
  BY <1>2, GoodStoreFacts, GoodIsGoodStore, StoredGood
<1> HIDE DEF store
<1>4. \A i \in Referred : heap[i] \in GoodStore
  BY <1>2, <1>3
<1> HIDE DEF heap, c
<1>5. CallsTyped' /\ SessionMoves
  BY <1>1, <1>4, IdleOK, StoreStep DEF c
<1>6. \A u \in Thread \ {t} : calls'[u] = calls[u]
  BY <1>1 DEF Becomes, CallsTyped
<1> QED BY <1>5, <1>6 DEF CallMoves

\* The lookup: the store stays sound, and the call goes on or is over.
LEMMA LooksMoves ==
  ASSUME CallsTyped, NEW t \in Thread, NEW tool \in {"peek", "context"},
         NEW next \in {"registry", "label"}, LooksInStore(t, tool, next),
         next = "label" => tool = "context"
  PROVE  /\ CallsTyped' /\ SessionMoves
         /\ \A u \in Thread \ {t} : calls'[u] = calls[u]
         /\ calls'[t].tool \in {tool, "none"}
         /\ Held(stores[calls[t].store]) = Held(Peeked(stores[calls[t].store], calls[t].key))
         /\ calls[t].store \in Referred
         /\ calls[t].store \in Referred' =>
              Held(stores'[calls[t].store]) = Held(stores[calls[t].store])
<1> DEFINE c == calls[t]
           d == IF c.key \in Held(stores[c.store]) THEN Idle ELSE [c EXCEPT !.at = next, !.store = None]
           store == Peeked(stores[c.store], c.key)
           heap == [stores EXCEPT ![c.store] = store]
<1>1. /\ c.tool = tool /\ c.at = "store" /\ Becomes(t, d) /\ sessions' = sessions
      /\ Keep(heap)
  BY DEF LooksInStore, At
<1>2. /\ c \in Call /\ CallOK(c) /\ stores \in [Referred -> GoodStore]
      /\ c.store \in Referred /\ c.key \in Key
  BY <1>1, ReferredFacts, ServerNoneAssumption DEF CallsTyped, CallOK
<1>3. store \in GoodStore /\ Held(store) = Held(stores[c.store])
  BY <1>2, GoodStoreFacts, GoodIsGoodStore, PeekedGood
<1>4. d \in Call /\ CallOK(d) /\ d.store = None /\ d.tool \in {tool, "none"}
  <2> DEFINE e == [c EXCEPT !.at = next, !.store = None]
  <2>1. e \in Call /\ CallOK(e) /\ e.store = None /\ e.tool = tool
    BY <1>1, <1>2 DEF Call, CallOK
  <2> HIDE DEF e
  <2> QED BY <2>1, IdleOK DEF e
<1> HIDE DEF store, d
<1>5. (\A i \in Referred : heap[i] \in GoodStore) /\ heap[c.store] = store
  BY <1>2, <1>3
<1> HIDE DEF heap
<1>6. CallsTyped' /\ SessionMoves /\ \A i \in Referred' : stores'[i] = heap[i]
  BY <1>1, <1>4, <1>5, StoreStep
<1>7. calls'[t] = d /\ \A u \in Thread \ {t} : calls'[u] = calls[u]
  BY <1>1 DEF Becomes, CallsTyped
<1> QED BY <1>2, <1>3, <1>4, <1>5, <1>6, <1>7 DEF store

LEMMA PeekStoreMoves ==
  ASSUME CallsTyped, NEW t \in Thread, PeekStore(t)
  PROVE  CallsTyped' /\ SessionMoves /\ CallMoves
<1>1. /\ CallsTyped' /\ SessionMoves /\ calls'[t].tool \in {"peek", "none"}
      /\ \A u \in Thread \ {t} : calls'[u] = calls[u]
  BY LooksMoves DEF PeekStore
<1>2. Elsewhere(t)
  BY <1>1 DEF PeekStore, LooksInStore, At, Elsewhere, Writing
<1> QED BY <1>1, <1>2 DEF CallMoves

LEMMA ContextStoreMoves ==
  ASSUME CallsTyped, NEW t \in Thread, ContextStore(t)
  PROVE  CallsTyped' /\ SessionMoves /\ CallMoves
<1>1. CallsTyped' /\ SessionMoves /\ \A u \in Thread \ {t} : calls'[u] = calls[u]
  BY LooksMoves DEF ContextStore
<1> QED BY <1>1 DEF CallMoves

LEMMA AnsweredOK ==
  ASSUME NEW c \in Call, CallOK(c), c.at # "idle", NEW kind \in {"miss", "long_term"}
  PROVE  /\ Answered(c, kind) \in Call /\ CallOK(Answered(c, kind))
         /\ Answered(c, kind).store = None /\ Answered(c, kind).tool = c.tool
         /\ Answered(c, kind).at = "done" /\ Answered(c, kind).answer = kind
BY DEF Answered, Call, CallOK

\* The steps that leave sessions and stores alone.
LEMMA QuietMoves ==
  ASSUME CallsTyped, NEW t \in Thread, UNCHANGED <<sessions, stores>>,
         \/ InitNotes(t) \/ FlushNotes(t) \/ PeekRegistry(t) \/ Returns(t)
         \/ ContextLabel(t) \/ ContextSearch(t)
  PROVE  CallsTyped' /\ SessionMoves /\ CallMoves
<1> DEFINE c == calls[t]
           search == [c EXCEPT !.at = "search"]
<1>1. c \in Call /\ CallOK(c)
  BY DEF CallsTyped
<1>2. c.at \in {"note", "registry", "label", "search", "done"}
  BY DEF InitNotes, FlushNotes, PeekRegistry, Returns, ContextLabel, ContextSearch, At
<1>3. PICK d : /\ Becomes(t, d)
               /\ \/ d = Idle
                  \/ \E kind \in {"miss", "long_term"} : d = Answered(c, kind)
                  \/ c.at = "label" /\ d = search
  <2>1. CASE InitNotes(t) \/ FlushNotes(t) \/ Returns(t)
    BY <2>1 DEF InitNotes, FlushNotes, Returns
  <2>2. CASE PeekRegistry(t)
    BY <2>2 DEF PeekRegistry
  <2>3. CASE ContextLabel(t)
    <3> DEFINE found == Labelled(c.session, c.key)
    <3>1. c.at = "label"
          /\ Becomes(t, IF found # {} THEN Answered(c, "long_term")
                        ELSE IF ExactOnly(c) THEN Answered(c, "miss") ELSE search)
      BY <2>3 DEF ContextLabel, At
    <3> HIDE DEF search, c, found
    <3> QED BY <3>1
  <2>4. CASE ContextSearch(t)
    BY <2>4 DEF ContextSearch
  <2> QED BY <2>1, <2>2, <2>3, <2>4
<1>4. d \in Call /\ CallOK(d) /\ d.store = None
  <2>1. CASE d = Idle
    BY <2>1, IdleOK
  <2>2. CASE \E kind \in {"miss", "long_term"} : d = Answered(c, kind)
    BY <1>1, <1>2, <2>2, AnsweredOK
  <2>3. CASE c.at = "label" /\ d = search
    BY <1>1, <2>3 DEF Call, CallOK
  <2> QED BY <1>3, <2>1, <2>2, <2>3
<1>5. c.store = None /\ c.at # "idle"
  BY <1>1, <1>2 DEF CallOK
<1>6. CallsTyped' /\ SessionMoves
  BY <1>3, <1>4, <1>5, QuietStep
<1>7. calls'[t] = d /\ \A u \in Thread \ {t} : calls'[u] = calls[u]
  BY <1>3 DEF Becomes, CallsTyped
<1>8. CASE ContextLabel(t) \/ ContextSearch(t)
  BY <1>6, <1>7, <1>8 DEF CallMoves
<1>9. CASE InitNotes(t) \/ FlushNotes(t) \/ PeekRegistry(t) \/ Returns(t)
  <2>1. ~Writing(c)
    BY <1>2 DEF Writing
  <2>2. calls'[t].tool \in {"none", "peek"}
    <3>1. CASE InitNotes(t) \/ FlushNotes(t) \/ Returns(t)
      BY <3>1, IdleOK DEF InitNotes, FlushNotes, Returns, Becomes, CallsTyped
    <3>2. CASE PeekRegistry(t)
      <4>1. c.tool = "peek" /\ (Becomes(t, Idle) \/ Becomes(t, Answered(c, "miss")))
        BY <3>2 DEF PeekRegistry, At
      <4> QED BY <1>1, <1>2, <4>1, IdleOK, AnsweredOK DEF Becomes, CallsTyped
    <3> QED BY <1>9, <3>1, <3>2
  <2>3. Elsewhere(t)
    BY <2>1, <2>2 DEF Elsewhere, Writing
  <2> QED BY <1>6, <1>7, <2>3 DEF CallMoves
<1> QED BY <1>8, <1>9

\* The steps on the graph and on the registry run no call.
LEMMA NoCallMoves ==
  ASSUME CallsTyped, UNCHANGED <<sessions, stores, calls>>
  PROVE  CallsTyped' /\ SessionMoves /\ CallMoves
<1>1. Referred' = Referred
  BY DEF Referred
<1>2. CallsTyped'
  BY <1>1 DEF CallsTyped
<1>3. \A u \in Thread : calls[u].at = "idle" => calls[u].tool = "none"
  BY DEF CallsTyped, CallOK
<1>4. \A s \in Session : ~Reopened(s)
  BY <1>3 DEF Reopened
<1> QED BY <1>2, <1>4 DEF SessionMoves, CallMoves

\* Every step, of whatever tool, is of these forms.
LEMMA StepMoves ==
  ASSUME CallsTyped, Step
  PROVE  CallsTyped' /\ SessionMoves /\ CallMoves
<1>1. ASSUME NEW t \in Thread, ShortTermTools(t)
      PROVE  CallsTyped' /\ SessionMoves /\ CallMoves
  <2>1. ASSUME NEW s \in Session, NEW size \in SiloSize, InitTool(t, s, size)
        PROVE  CallsTyped' /\ SessionMoves /\ CallMoves
    BY <2>1, InitToolMoves
  <2>2. ASSUME NEW s \in Session, FlushTool(t, s) \/ StatusTool(t, s)
        PROVE  CallsTyped' /\ SessionMoves /\ CallMoves
    BY <2>2, FlushToolMoves, StatusToolMoves
  <2>3. ASSUME NEW s \in Session, NEW key \in Key, TakesStore(t, "peek", s, key, None, "default")
        PROVE  CallsTyped' /\ SessionMoves /\ CallMoves
    BY <2>3, TakesStoreMoves
  <2>4. ASSUME NEW s \in Session, NEW key \in Key, NEW value \in Value,
               TakesStore(t, "set", s, key, value, "default")
        PROVE  CallsTyped' /\ SessionMoves /\ CallMoves
    BY <2>4, TakesStoreMoves
  <2>5. CASE InitNotes(t) \/ FlushNotes(t) \/ PeekRegistry(t)
    <3>1. UNCHANGED <<sessions, stores>>
      BY <2>5 DEF InitNotes, FlushNotes, PeekRegistry
    <3> QED BY <2>5, <3>1, QuietMoves
  <2>6. CASE SetStores(t) \/ PeekStore(t)
    BY <2>6, SetStoresMoves, PeekStoreMoves
  <2> QED BY <1>1, <2>1, <2>2, <2>3, <2>4, <2>5, <2>6 DEF ShortTermTools
<1>2. ASSUME NEW t \in Thread, LongTermTools(t)
      PROVE  CallsTyped' /\ SessionMoves /\ CallMoves
  <2>1. ASSUME NEW s \in Session, NEW node \in Node, UpsertTool(t, s, node) \/ PromoteTool(t, s, node)
        PROVE  CallsTyped' /\ SessionMoves /\ CallMoves
    <3>1. UNCHANGED <<sessions, stores, calls>>
      BY <2>1 DEF UpsertTool, PromoteTool
    <3> QED BY <3>1, NoCallMoves
  <2>2. ASSUME NEW s \in Session, PruneTool(t, s)
        PROVE  CallsTyped' /\ SessionMoves /\ CallMoves
    <3>1. UNCHANGED <<sessions, stores, calls>>
      BY <2>2 DEF PruneTool
    <3> QED BY <3>1, NoCallMoves
  <2>3. ASSUME NEW s \in Session, NEW key \in Key, NEW asked \in {"default", "exact", "semantic"},
               TakesStore(t, "context", s, key, None, asked)
        PROVE  CallsTyped' /\ SessionMoves /\ CallMoves
    BY <2>3, TakesStoreMoves
  <2>4. CASE ContextStore(t)
    BY <2>4, ContextStoreMoves
  <2>5. CASE ContextLabel(t) \/ ContextSearch(t)
    <3>1. UNCHANGED <<sessions, stores>>
      BY <2>5 DEF ContextLabel, ContextSearch
    <3> QED BY <2>5, <3>1, QuietMoves
  <2> QED BY <1>2, <2>1, <2>2, <2>3, <2>4, <2>5 DEF LongTermTools
<1>3. ASSUME NEW t \in Thread, Returns(t)
      PROVE  CallsTyped' /\ SessionMoves /\ CallMoves
  <2>1. UNCHANGED <<sessions, stores>>
    BY <1>3 DEF Returns
  <2> QED BY <1>3, <2>1, QuietMoves
<1>4. ASSUME NEW key \in Awaited, Register(key) \/ Resolve(key)
      PROVE  CallsTyped' /\ SessionMoves /\ CallMoves
  <2>1. UNCHANGED <<sessions, stores, calls>>
    BY <1>4 DEF Register, Resolve
  <2> QED BY <2>1, NoCallMoves
<1> QED BY <1>1, <1>2, <1>3, <1>4 DEF Step

\* What the steps do to the other components.
LEMMA OthersTyped ==
  ASSUME Typed, Step
  PROVE  /\ active' \in [Session -> SiloSize \union {None}]
         /\ promises' \in [Key -> {"absent", "pending", "resolved"}]
         /\ longTerm' \in [Session -> SUBSET Node]
<1> USE DEF Typed
<1>1. CASE UNCHANGED <<active, promises, longTerm>>
  BY <1>1
<1>2. ASSUME NEW t \in Thread, InitNotes(t) \/ FlushNotes(t)
      PROVE  /\ active' \in [Session -> SiloSize \union {None}]
             /\ UNCHANGED <<promises, longTerm>>
  <2>1. calls[t].at = "note" /\ CallOK(calls[t])
    BY <1>2 DEF InitNotes, FlushNotes, At, CallsTyped
  <2> QED BY <1>2, <2>1 DEF InitNotes, FlushNotes, At, CallOK
<1>3. ASSUME NEW t \in Thread, NEW s \in Session, NEW node \in Node,
             UpsertTool(t, s, node) \/ PromoteTool(t, s, node)
      PROVE  longTerm' \in [Session -> SUBSET Node] /\ UNCHANGED <<active, promises>>
  <2>1. longTerm' = [longTerm EXCEPT ![s] = Upserted(longTerm[s], node)]
        /\ UNCHANGED <<active, promises>>
    BY <1>3 DEF UpsertTool, PromoteTool
  <2>2. longTerm[s] \subseteq Node
    OBVIOUS
  <2>3. Upserted(longTerm[s], node) \subseteq Node
    BY <2>2 DEF Upserted
  <2> QED BY <2>1, <2>3
<1>4. ASSUME NEW t \in Thread, NEW s \in Session, PruneTool(t, s)
      PROVE  longTerm' \in [Session -> SUBSET Node] /\ UNCHANGED <<active, promises>>
  <2>1. PICK stale \in SUBSET longTerm[s] : longTerm' = [longTerm EXCEPT ![s] = @ \ stale]
    BY <1>4 DEF PruneTool
  <2>2. longTerm[s] \ stale \in SUBSET Node
    OBVIOUS
  <2> QED BY <1>4, <2>1, <2>2 DEF PruneTool
<1>5. ASSUME NEW key \in Awaited, Register(key) \/ Resolve(key)
      PROVE  /\ promises' \in [Key -> {"absent", "pending", "resolved"}]
             /\ UNCHANGED <<active, longTerm>>
  BY <1>5 DEF Register, Resolve
<1>6. ASSUME NEW t \in Thread, ShortTermTools(t)
      PROVE  UNCHANGED <<active, promises, longTerm>> \/ InitNotes(t) \/ FlushNotes(t)
  BY <1>6 DEF ShortTermTools, InitTool, FlushTool, StatusTool, TakesStore, SetStores, PeekStore,
              LooksInStore, PeekRegistry
<1>7. ASSUME NEW t \in Thread, LongTermTools(t)
      PROVE  \/ UNCHANGED <<active, promises, longTerm>>
             \/ \E s \in Session : \/ \E node \in Node : UpsertTool(t, s, node) \/ PromoteTool(t, s, node)
                                   \/ PruneTool(t, s)
  BY <1>7 DEF LongTermTools, TakesStore, ContextStore, LooksInStore, ContextLabel, ContextSearch
<1>8. ASSUME NEW t \in Thread, Returns(t)
      PROVE  UNCHANGED <<active, promises, longTerm>>
  BY <1>8 DEF Returns
<1> QED BY <1>1, <1>2, <1>3, <1>4, <1>5, <1>6, <1>7, <1>8 DEF Step

LEMMA TypedInit == Init => Typed
<1> SUFFICES ASSUME Init PROVE Typed
  OBVIOUS
<1>1. Referred = {}
  BY IdleOK DEF Init, Referred
<1>2. stores \in [Referred -> GoodStore]
  BY <1>1 DEF Init
<1> QED BY <1>2, IdleOK DEF Init, Typed, CallsTyped

LEMMA TypedNext == Typed /\ [Next]_vars => Typed'
<1> SUFFICES ASSUME Typed, [Next]_vars PROVE Typed'
  OBVIOUS
<1>1. CASE Next
  <2>1. CallsTyped'
    BY <1>1, StepMoves DEF Next, Typed
  <2>2. overtaken' \in [Thread -> BOOLEAN] /\ gap' \in [Thread -> BOOLEAN]
    <3>1. \A t \in Thread : overtaken[t] \in BOOLEAN /\ gap[t] \in BOOLEAN
      BY DEF Typed
    <3> QED BY <1>1, <3>1 DEF Next, Observed
  <2> QED BY <1>1, <2>1, <2>2, OthersTyped DEF Next, Typed
<1>2. CASE UNCHANGED vars
  <2>1. Referred' = Referred
    BY <1>2 DEF vars, Referred
  <2> QED BY <1>2, <2>1 DEF vars, Typed, CallsTyped
<1> QED BY <1>1, <1>2

\* TypeOK of the server: what the tools leave behind has its type, and no
\* session and no call refers to a store that is not there.
THEOREM TypesHold == Spec => []TypeOK
<1>1. Typed => TypeOK
  <2> SUFFICES ASSUME Typed PROVE TypeOK
    OBVIOUS
  <2>1. /\ DOMAIN stores = Referred /\ \A id \in Referred : stores[id] \in GoodStore
        /\ sessions \in [Session -> StoreId \union {None}]
        /\ \A t \in Thread : calls[t] \in Call
    BY DEF Typed, CallsTyped
  <2>2. \A t \in Thread : calls[t].store \in StoreId \union {None}
    BY <2>1 DEF Call
  <2>3. Referred \subseteq StoreId
    BY <2>1, <2>2 DEF Referred
  <2>4. \A id \in Referred : StoreType(stores[id])
    <3> TAKE id \in Referred
    <3>1. stores[id] \in Store
      BY <2>1 DEF GoodStore
    <3> QED BY <3>1, StoreFacts
  <2>5. sessions \in [Session -> DOMAIN stores \union {None}]
    <3>1. \A s \in Session : sessions[s] \in Referred \union {None}
      BY ReferredFacts
    <3> QED BY <2>1, <3>1
  <2>6. \A t \in Thread : calls[t].store \in DOMAIN stores \union {None}
    BY <2>1, ReferredFacts
  <2> QED BY <2>1, <2>3, <2>4, <2>5, <2>6 DEF Typed, TypeOK
<1> QED BY <1>1, TypedInit, TypedNext, PTL DEF Spec

\* StoresSound: whatever calls are in flight, no store a session or a call
\* refers to exceeds its silo_size, and no two of its entries were last used at
\* the same access, so that what the next insertion evicts is never ambiguous.
THEOREM StoresAreSound == Spec => []StoresSound
<1>1. Typed => StoresSound
  BY DEF Typed, CallsTyped, StoresSound, GoodStore, Good
<1> QED BY <1>1, TypedInit, TypedNext, PTL DEF Spec

-----------------------------------------------------------------------------
(* A set takes effect *)

\* No two sessions share a store.
Apart == \A r, s \in Session : sessions[r] = sessions[s] /\ sessions[r] # None => r = s

\* A set about to write has the store of its session, or, when it has been
\* overtaken, one that is no session's.
Current ==
  \A t \in Thread : Writing(calls[t]) =>
    /\ ~overtaken[t] => sessions[calls[t].session] = calls[t].store
    /\ overtaken[t] => \A s \in Session : sessions[s] # calls[t].store

Served == Typed /\ Apart /\ Current

LEMMA ServedInit == Init => Served
<1> SUFFICES ASSUME Init PROVE Served
  OBVIOUS
<1>1. \A t \in Thread : ~Writing(calls[t])
  BY IdleOK DEF Init, Writing
<1>2. Apart
  BY DEF Init, Apart
<1> QED BY <1>1, <1>2, TypedInit DEF Served, Current

LEMMA ServedNext == Served /\ [Next]_vars => Served'
<1> SUFFICES ASSUME Served, [Next]_vars PROVE Served'
  OBVIOUS
<1> USE DEF Served
<1>1. Typed'
  BY TypedNext
<1>2. CASE UNCHANGED vars
  BY <1>1, <1>2 DEF vars, Apart, Current, Writing
<1>3. CASE Next
  <2>1. SessionMoves /\ CallMoves /\ CallsTyped
    BY <1>3, StepMoves DEF Next, Typed
  <2>2. /\ \A s \in Session : sessions[s] # None => sessions[s] \in Referred
        /\ \A t \in Thread : calls[t].store # None => calls[t].store \in Referred
        /\ None \notin StoreId
    BY ReferredFacts, ServerNoneAssumption
  <2>3. \A s \in Session : \/ sessions'[s] \in {None, sessions[s]}
                           \/ sessions'[s] \in StoreId \ Referred
    BY <2>1 DEF SessionMoves, Fresh
  <2>4. Apart'
    <3> SUFFICES ASSUME NEW r \in Session, NEW s \in Session,
                        sessions'[r] = sessions'[s], sessions'[r] # None, r # s
                 PROVE  FALSE
      BY DEF Apart
    <3>1. sessions'[r] = sessions[r] \/ sessions'[s] = sessions[s]
      BY <2>1 DEF SessionMoves
    <3>2. sessions[r] # sessions[s] \/ sessions[r] = None
      BY DEF Apart
    <3> QED BY <2>2, <2>3, <3>1, <3>2
  <2>5. ASSUME NEW t \in Thread, Writing(calls'[t])
        PROVE  /\ ~overtaken'[t] => sessions'[calls'[t].session] = calls'[t].store
               /\ overtaken'[t] => \A s \in Session : sessions'[s] # calls'[t].store
    <3>1. overtaken'[t] <=> Writing(calls[t]) /\ (overtaken[t] \/ Reopened(calls[t].session))
      BY <1>3, <2>5 DEF Next, Observed
    <3>2. calls'[t] = calls[t] \/ Begun(t)
      <4>1. ~Elsewhere(t)
        BY <2>5 DEF Elsewhere
      <4>2. calls[t] \in Call /\ calls \in [Thread -> Call]
        BY <2>1 DEF CallsTyped
      <4>3. ~SetStores(t)
        BY <2>5, <4>2, IdleOK DEF SetStores, Becomes, Writing
      <4>4. ~ContextStore(t) /\ ~ContextLabel(t) /\ ~ContextSearch(t)
        <5>1. calls'[t].tool = "set"
          BY <2>5 DEF Writing
        <5>2. Idle.tool = "none"
          BY IdleOK
        <5>3. \A kind : Answered(calls[t], kind).tool = calls[t].tool
          BY <4>2 DEF Answered, Call
        <5>4. \A next : [calls[t] EXCEPT !.at = next, !.store = None].tool = calls[t].tool
          BY <4>2 DEF Call
        <5>5. [calls[t] EXCEPT !.at = "search"].tool = calls[t].tool
          BY <4>2 DEF Call
        <5>6. ASSUME ContextStore(t) PROVE FALSE
          BY <4>2, <5>1, <5>2, <5>4, <5>6 DEF ContextStore, LooksInStore, Becomes, At
        <5>7. ASSUME ContextLabel(t) PROVE FALSE
          BY <4>2, <5>1, <5>2, <5>3, <5>5, <5>7 DEF ContextLabel, Becomes, At
        <5>8. ASSUME ContextSearch(t) PROVE FALSE
          BY <4>2, <5>1, <5>2, <5>3, <5>8 DEF ContextSearch, Becomes, At
        <5> QED BY <5>6, <5>7, <5>8
      <4> QED BY <2>1, <4>1, <4>3, <4>4 DEF CallMoves
    <3>3. CASE Begun(t)
      BY <3>1, <3>3 DEF Begun, Writing
    <3>4. CASE calls'[t] = calls[t]
      <4> DEFINE s == calls[t].session
      <4>1. /\ Writing(calls[t]) /\ s \in Session /\ calls[t].store # None
            /\ calls[t].store \in Referred
        BY <2>1, <2>2, <2>5, <3>4 DEF CallsTyped, CallOK, Writing
      <4>2. CASE ~overtaken'[t]
        <5>1. ~Reopened(s) /\ ~overtaken[t]
          BY <3>1, <4>1, <4>2
        <5>2. sessions[s] = calls[t].store
          BY <4>1, <5>1 DEF Current
        <5> QED BY <2>1, <3>4, <4>1, <4>2, <5>1, <5>2 DEF SessionMoves
      <4>3. CASE overtaken[t]
        BY <2>3, <3>1, <3>4, <4>1, <4>3 DEF Current
      <4>4. CASE ~overtaken[t] /\ Reopened(s)
        <5>1. sessions[s] = calls[t].store /\ sessions'[s] # calls[t].store
          BY <2>1, <4>1, <4>4 DEF Current, SessionMoves, Fresh
        <5>2. \A r \in Session : sessions'[r] # calls[t].store
          BY <2>3, <4>1, <5>1 DEF Apart
        <5> QED BY <3>1, <3>4, <4>1, <4>4, <5>2
      <4> QED BY <3>1, <4>1, <4>2, <4>3, <4>4
    <3> QED BY <3>2, <3>3, <3>4
  <2>6. Current'
    BY <2>5 DEF Current, Writing
  <2> QED BY <1>1, <2>4, <2>6
<1> QED BY <1>2, <1>3

\* The write of a set: it changes what its store answers, and no other store.
LEMMA SetWrites ==
  ASSUME Served, NEW t \in Thread, SetStores(t)
  PROVE  /\ sessions' = sessions /\ calls[t].key \in Key
         /\ \A s \in Session : sessions[s] # None /\ sessions[s] # calls[t].store =>
              stores'[sessions[s]] = stores[sessions[s]]
         /\ \A s \in Session : sessions[s] = calls[t].store =>
              /\ sessions[s] # None
              /\ calls[t].key \in Held(stores'[sessions[s]])
              /\ stores'[sessions[s]].slots[calls[t].key].value = calls[t].value
<1> DEFINE c == calls[t]
           store == Stored(stores[c.store], c.key, c.value)
           heap == [stores EXCEPT ![c.store] = store]
<1>1. c.tool = "set" /\ c.at = "store" /\ sessions' = sessions /\ Keep(heap)
  BY DEF SetStores, At
<1>2. /\ stores \in [Referred -> GoodStore]
      /\ c.store \in Referred /\ c.store # None /\ c.key \in Key /\ c.value \in Value
  BY <1>1, ReferredFacts, ServerNoneAssumption DEF Served, Typed, CallsTyped, CallOK
<1>3. c.key \in Held(store) /\ store.slots[c.key].value = c.value
  BY <1>2, GoodStoreFacts, StoredGood
<1> HIDE DEF store
<1>4. heap[c.store] = store /\ \A i \in Referred : i # c.store => heap[i] = stores[i]
  BY <1>2
<1> HIDE DEF heap
<1>5. stores' = [i \in Referred' |-> heap[i]]
  BY <1>1 DEF Keep, Referred
<1>6. \A s \in Session : sessions[s] # None =>
        sessions[s] \in Referred /\ sessions[s] \in Referred'
  BY <1>1, ReferredFacts DEF Referred
<1> QED BY <1>1, <1>2, <1>3, <1>4, <1>5, <1>6

\* SetTakesEffect: the session answers what a set has stored, unless it was
\* flushed or initialised again while the set ran, and then the set is without
\* effect on every session.
THEOREM SetsTakeEffect == Spec => SetTakesEffect
<1> DEFINE Effect ==
      \A t \in Thread :
        Writing(calls[t]) /\ ~Writing(calls'[t]) =>
          IF overtaken[t]
          THEN \A s \in Session, k \in Key : Answer(s, k)' = Answer(s, k)
          ELSE \A s \in Session, k \in Key :
                 s = calls[t].session /\ k = calls[t].key => Answer(s, k)' = calls[t].value
<1>1. Served /\ [Next]_vars => [Effect]_vars
  <2> SUFFICES ASSUME Served, Next PROVE Effect
    OBVIOUS
  <2> SUFFICES ASSUME NEW t \in Thread, Writing(calls[t]), ~Writing(calls'[t])
               PROVE  IF overtaken[t]
                      THEN \A s \in Session, k \in Key : Answer(s, k)' = Answer(s, k)
                      ELSE \A s \in Session, k \in Key :
                             s = calls[t].session /\ k = calls[t].key => Answer(s, k)' = calls[t].value
    OBVIOUS
  <2>1. CallMoves
    BY StepMoves DEF Next, Served, Typed
  <2>2. SetStores(t)
    BY <2>1 DEF CallMoves, Begun, Elsewhere, Writing, ContextStore, LooksInStore, ContextLabel,
                ContextSearch, At
  <2>3. CASE overtaken[t]
    <3>1. \A s \in Session : sessions[s] # calls[t].store
      BY <2>3 DEF Served, Current
    <3>2. ASSUME NEW s \in Session, NEW k \in Key PROVE Answer(s, k)' = Answer(s, k)
      BY <2>2, <3>1, SetWrites DEF Answer, Remembered
    <3> QED BY <2>3, <3>2
  <2>4. CASE ~overtaken[t]
    <3>1. sessions[calls[t].session] = calls[t].store
      BY <2>4 DEF Served, Current
    <3>2. ASSUME NEW s \in Session, NEW k \in Key, s = calls[t].session, k = calls[t].key
          PROVE  Answer(s, k)' = calls[t].value
      BY <2>2, <3>1, <3>2, SetWrites DEF Answer, Remembered
    <3> QED BY <2>4, <3>2
  <2> QED BY <2>3, <2>4
<1> QED BY <1>1, ServedInit, ServedNext, PTL DEF Spec, SetTakesEffect

-----------------------------------------------------------------------------
(* A miss was one *)

\* Why a lookup may still end without an answer: until it has asked a tier, what
\* it looks for is in another one, or was missing at some moment.
Searched ==
  \A t \in Thread : calls[t].tool = "context" =>
    LET c == calls[t]
        labelled == Labelled(c.session, c.key) # {}
    IN  /\ c.at = "store" => gap[t] \/ labelled \/ sessions[c.session] = c.store
        /\ c.at = "label" => gap[t] \/ labelled
        /\ c.at = "search" => gap[t]
        /\ c.answer = "miss" => gap[t]

SearchInv == Served /\ Searched

LEMMA SearchNext == SearchInv /\ [Next]_vars => SearchInv'
<1> SUFFICES ASSUME SearchInv, [Next]_vars PROVE SearchInv'
  OBVIOUS
<1> USE DEF SearchInv
<1>1. Served'
  BY ServedNext
<1>2. CASE UNCHANGED vars
  BY <1>1, <1>2 DEF vars, Searched, Labelled
<1>3. CASE Next
  <2>1. SessionMoves /\ CallMoves /\ CallsTyped /\ CallsTyped'
    BY <1>3, StepMoves DEF Next, Served, Typed
  <2> SUFFICES ASSUME NEW t \in Thread, (calls[t].tool = "context")'
               PROVE  (LET c == calls[t]
                           labelled == Labelled(c.session, c.key) # {}
                       IN  /\ c.at = "store" => gap[t] \/ labelled \/ sessions[c.session] = c.store
                           /\ c.at = "label" => gap[t] \/ labelled
                           /\ c.at = "search" => gap[t]
                           /\ c.answer = "miss" => gap[t])'
    BY <1>1 DEF Searched
  <2> DEFINE c == calls[t]
             d == calls'[t]
             labelled == Labelled(c.session, c.key) # {}
             after == {n \in longTerm'[d.session] : n.label = d.key} # {}
             held == sessions'[d.session] # None /\ d.key \in Held(stores'[sessions'[d.session]])
  <2> SUFFICES /\ d.at = "store" => gap'[t] \/ after \/ sessions'[d.session] = d.store
               /\ d.at = "label" => gap'[t] \/ after
               /\ d.at = "search" => gap'[t]
               /\ d.answer = "miss" => gap'[t]
    BY DEF Labelled
  <2>2. /\ c \in Call /\ d \in Call /\ CallOK(c) /\ CallOK(d)
    BY <2>1 DEF CallsTyped
  <2>3. gap'[t] <=> \/ d.answer = "miss" /\ gap[t]
                    \/ d.at # "done" /\ (gap[t] \/ ~(after \/ held) \/ Pruned(d))
    BY <1>3 DEF Next, Observed, Looking, Known, Remembered, Labelled
  <2>4. /\ c.session = d.session /\ c.key = d.key /\ labelled /\ ~after => Pruned(d)
        /\ c.session = d.session /\ c.key = d.key /\ longTerm' = longTerm => (after <=> labelled)
    BY DEF Pruned, Labelled
  <2>13. c.tool = "context" =>
           /\ c.at = "store" => gap[t] \/ labelled \/ sessions[c.session] = c.store
           /\ c.at = "label" => gap[t] \/ labelled
           /\ c.at = "search" => gap[t]
           /\ c.answer = "miss" => gap[t]
    BY DEF Searched
  <2>14. labelled \in BOOLEAN /\ after \in BOOLEAN
    OBVIOUS
  <2> HIDE DEF after, labelled
  <2>5. gap[t] \in BOOLEAN /\ gap'[t] \in BOOLEAN
    BY <1>1 DEF Served, Typed
  <2>6. CASE d = c
    <3>1. c.answer = "miss" => c.at = "done"
      BY <2>2 DEF CallOK
    <3>2. CASE c.at = "store" /\ ~gap[t] /\ ~labelled
      <4> DEFINE s == c.session
      <4>1. sessions[s] = c.store /\ s \in Session /\ c.store # None /\ c.store \in StoreId
        BY <2>2, <2>6, <2>13, <3>2, ServerNoneAssumption DEF CallOK
      <4>2. \/ sessions'[s] = c.store
            \/ sessions'[s] = None
            \/ Held(stores'[sessions'[s]]) = {}
        BY <2>1, <4>1 DEF SessionMoves, Fresh
      <4> QED BY <2>3, <2>5, <2>6, <2>14, <3>1, <3>2, <4>1, <4>2
    <3>3. CASE gap[t]
      BY <2>2, <2>3, <2>5, <2>6, <3>1, <3>3 DEF CallOK
    <3>4. CASE labelled
      <4>1. c.at # "store" /\ c.at # "label" => gap[t] \/ (c.at # "search" /\ c.answer # "miss")
        BY <2>6, <2>13
      <4>2. c.at # "done" => gap'[t] \/ after
        BY <2>3, <2>4, <2>5, <2>6, <2>14, <3>4
      <4>3. c.at = "done" /\ c.answer = "miss" => gap'[t]
        BY <2>3, <2>5, <2>6, <2>13
      <4>4. gap[t] /\ c.at # "done" => gap'[t]
        BY <2>3, <2>5, <2>6
      <4> QED BY <2>6, <3>1, <4>1, <4>2, <4>3, <4>4
    <3>5. CASE ~gap[t] /\ ~labelled /\ c.at # "store"
      BY <2>6, <2>13, <3>5
    <3> QED BY <3>2, <3>3, <3>4, <3>5
  <2>7. CASE Begun(t)
    BY <2>7 DEF Begun
  <2>8. CASE Elsewhere(t)
    BY <2>8 DEF Elsewhere
  <2>9. CASE SetStores(t)
    <3>1. d = Idle
      BY <2>1, <2>9 DEF SetStores, Becomes, CallsTyped
    <3> QED BY <3>1, IdleOK
  <2>10. CASE ContextStore(t)
    <3>1. /\ c.tool = "context" /\ c.at = "store" /\ sessions' = sessions /\ longTerm' = longTerm
          /\ d = IF c.key \in Held(stores[c.store]) THEN Idle
                 ELSE [c EXCEPT !.at = "label", !.store = None]
      BY <2>1, <2>10 DEF ContextStore, LooksInStore, At, Becomes, CallsTyped
    <3>2. /\ c.key \notin Held(stores[c.store]) /\ d.at = "label"
          /\ d.session = c.session /\ d.key = c.key /\ d.answer = c.answer
      BY <2>2, <3>1, IdleOK DEF Call
    <3>3. c.answer # "miss"
      BY <2>2, <3>1 DEF CallOK
    <3>4. CASE gap[t] \/ labelled
      BY <2>3, <2>4, <2>5, <2>14, <3>2, <3>3, <3>4
    <3>5. CASE sessions[c.session] = c.store
      <4>1. c.store \in Referred'
        <5>1. c.session \in Session /\ c.store # None
          BY <2>2, <3>1, ServerNoneAssumption DEF CallOK
        <5>2. sessions'[c.session] = c.store
          BY <3>1, <3>5
        <5> QED BY <5>1, <5>2 DEF Referred
      <4>2. Held(stores'[c.store]) = Held(stores[c.store])
        BY <2>1, <2>10, <4>1, LooksMoves DEF ContextStore
      <4> QED BY <2>3, <2>5, <2>14, <3>1, <3>2, <3>3, <3>5, <4>2
    <3> QED BY <2>13, <3>1, <3>4, <3>5
  <2>11. CASE ContextLabel(t)
    <3>1. /\ c.tool = "context" /\ c.at = "label" /\ longTerm' = longTerm
          /\ d = IF labelled THEN Answered(c, "long_term")
                 ELSE IF ExactOnly(c) THEN Answered(c, "miss") ELSE [c EXCEPT !.at = "search"]
      BY <2>1, <2>11 DEF ContextLabel, At, Becomes, CallsTyped, labelled
    <3>2. CASE labelled
      <4>1. d = Answered(c, "long_term")
        BY <3>1, <3>2
      <4> QED BY <2>2, <3>1, <4>1, AnsweredOK
    <3>3. CASE ~labelled
      <4>1. gap[t] /\ c.answer # "miss"
        BY <2>2, <2>13, <3>1, <3>3 DEF CallOK
      <4>2. d = Answered(c, "miss") \/ d = [c EXCEPT !.at = "search"]
        BY <3>1, <3>3
      <4>3. \/ d.at = "done" /\ d.answer = "miss"
            \/ d.at = "search" /\ d.answer # "miss"
        BY <2>2, <3>1, <4>1, <4>2, AnsweredOK DEF Call
      <4> QED BY <2>3, <2>5, <4>1, <4>3
    <3> QED BY <3>2, <3>3
  <2>12. CASE ContextSearch(t)
    <3>1. /\ c.tool = "context" /\ c.at = "search"
          /\ (d = Answered(c, "long_term") \/ d = Answered(c, "miss"))
      BY <2>1, <2>12 DEF ContextSearch, At, Becomes, CallsTyped
    <3>2. gap[t]
      BY <2>13, <3>1
    <3>3. d.at = "done" /\ (d.answer = "long_term" \/ d.answer = "miss")
      BY <2>2, <3>1, AnsweredOK
    <3> QED BY <2>3, <2>5, <3>2, <3>3
  <2> QED BY <2>1, <2>6, <2>7, <2>8, <2>9, <2>10, <2>11, <2>12 DEF CallMoves
<1> QED BY <1>2, <1>3

\* MissIsReal: what resolve_memory_context reports as missing was in neither
\* tier at some moment of the call, or was being pruned.
THEOREM MissesAreReal == Spec => []MissIsReal
<1>1. Init => SearchInv
  <2> SUFFICES ASSUME Init PROVE SearchInv
    OBVIOUS
  <2>1. \A t \in Thread : calls[t].tool = "none"
    BY IdleOK DEF Init
  <2> QED BY <2>1, ServedInit DEF SearchInv, Searched
<1>2. SearchInv => MissIsReal
  BY DEF SearchInv, Searched, MissIsReal
<1> QED BY <1>1, <1>2, SearchNext, PTL DEF Spec

-----------------------------------------------------------------------------
(* The list of a store *)

Entry == [key : Key, value : Value]

\* L lists the n entries of a store, the one last used first.
Lists(L, n, store) ==
  /\ n \in Nat /\ L \in Seq(Entry) /\ Len(L) = n
  /\ \A i \in 1 .. n : L[i].key \in Held(store) /\ L[i].value = store.slots[L[i].key].value
  /\ \A k \in Held(store) : \E i \in 1 .. n : L[i].key = k
  /\ \A i, j \in 1 .. n :
       i < j => store.slots[L[j].key].last_accessed < store.slots[L[i].key].last_accessed

\* A function on 1 .. n is a list of length n.
LEMMA IsList ==
  ASSUME NEW S, NEW n \in Nat, NEW L \in [1 .. n -> S]
  PROVE  L \in Seq(S) /\ Len(L) = n
<1>1. L \in Seq(S)
  BY SeqDef
<1> QED BY <1>1, LenProperties

\* The place of a key in such a list is its rank.
LEMMA ListRank ==
  ASSUME NEW store, Good(store), NEW L, NEW n, Lists(L, n, store)
  PROVE  /\ Cardinality(Held(store)) = n
         /\ \A i \in 1 .. n : Rank(store, L[i].key) = i
         /\ \A i, j \in 1 .. n : L[i].key = L[j].key => i = j
<1> DEFINE time(k) == store.slots[k].last_accessed
           Keys(m) == {L[j].key : j \in 1 .. m}
<1>1. n \in Nat /\ \A k \in Held(store) : time(k) \in Nat
  BY StoreFacts DEF Lists, Good
<1>2. \A i \in 1 .. n : L[i].key \in Held(store) /\ time(L[i].key) \in Nat
  BY <1>1 DEF Lists
<1>3. \A i, j \in 1 .. n : i < j => time(L[j].key) < time(L[i].key)
  BY DEF Lists
<1> HIDE DEF time
<1>4. \A i, j \in 1 .. n : L[i].key = L[j].key => i = j
  <2> SUFFICES ASSUME NEW i \in 1 .. n, NEW j \in 1 .. n, L[i].key = L[j].key PROVE i = j
    OBVIOUS
  <2>1. i \in Nat /\ j \in Nat
    BY <1>1
  <2>2. i < j \/ j < i \/ i = j
    BY <2>1
  <2> QED BY <1>2, <1>3, <2>2
<1>5. ASSUME NEW m \in 0 .. n PROVE Cardinality(Keys(m)) = m
  <2> DEFINE f == [j \in 1 .. m |-> L[j].key]
  <2>1. m \in Nat /\ 1 .. m \subseteq 1 .. n
    BY <1>1
  <2>2. f \in Bijection(1 .. m, Keys(m))
    <3>1. f \in [1 .. m -> Keys(m)]
      OBVIOUS
    <3>2. \A i, j \in 1 .. m : f[i] = f[j] => i = j
      BY <1>4, <2>1
    <3>3. \A k \in Keys(m) : \E j \in 1 .. m : f[j] = k
      OBVIOUS
    <3> HIDE DEF f, Keys
    <3> QED BY <3>1, <3>2, <3>3, Zenon DEF Bijection, Injection, Surjection, IsInjective
  <2>3. ExistsBijection(1 .. m, Keys(m))
    BY <2>2 DEF ExistsBijection
  <2> HIDE DEF Keys, f
  <2> QED BY <2>1, <2>3, FS_CountingElements
<1>6. Held(store) = Keys(n)
  BY DEF Lists
<1>7. ASSUME NEW i \in 1 .. n PROVE Rank(store, L[i].key) = i
  <2> DEFINE U == {k \in Held(store) : time(k) >= time(L[i].key)}
  <2>1. \A j \in 1 .. n : time(L[j].key) >= time(L[i].key) <=> j <= i
    <3> TAKE j \in 1 .. n
    <3>1. i \in Nat /\ j \in Nat /\ time(L[i].key) \in Nat /\ time(L[j].key) \in Nat
      BY <1>1, <1>2
    <3>2. j < i \/ j = i \/ i < j
      BY <3>1
    <3>3. j < i => time(L[i].key) < time(L[j].key)
      BY <1>3
    <3>4. i < j => time(L[j].key) < time(L[i].key)
      BY <1>3
    <3>5. j = i => time(L[i].key) = time(L[j].key)
      OBVIOUS
    <3> QED BY <3>1, <3>2, <3>3, <3>4, <3>5
  <2>2. i \in 0 .. n /\ \A j : j \in 1 .. i <=> j \in 1 .. n /\ j <= i
    BY <1>1
  <2>3. U = Keys(i)
    BY <1>6, <2>1, <2>2
  <2>4. Rank(store, L[i].key) = Cardinality(U)
    BY DEF Rank, time
  <2> QED BY <1>5, <2>2, <2>3, <2>4
<1>8. n \in 0 .. n
  BY <1>1
<1> QED BY <1>4, <1>5, <1>6, <1>7, <1>8

\* There is one such list, and it is Entries.
LEMMA ListIsEntries ==
  ASSUME NEW store, Good(store), NEW L, NEW n, Lists(L, n, store)
  PROVE  Entries(store) = L
<1> DEFINE key(i) == CHOOSE k \in Held(store) : Rank(store, k) = i
<1>1. /\ Cardinality(Held(store)) = n
      /\ \A i \in 1 .. n : Rank(store, L[i].key) = i
  BY ListRank
<1>2. /\ n \in Nat /\ L \in Seq(Entry) /\ Len(L) = n
      /\ \A i \in 1 .. n : L[i].key \in Held(store) /\ L[i].value = store.slots[L[i].key].value
      /\ \A k \in Held(store) : \E i \in 1 .. n : L[i].key = k
  BY DEF Lists
<1>3. ASSUME NEW i \in 1 .. n PROVE key(i) = L[i].key
  <2>1. L[i].key \in Held(store) /\ Rank(store, L[i].key) = i
    BY <1>1, <1>2
  <2>2. \A k \in Held(store) : Rank(store, k) = i => k = L[i].key
    BY <1>1, <1>2
  <2> QED BY <2>1, <2>2
<1>4. \A i \in 1 .. n : L[i] \in Entry
  BY <1>2, ElementOfSeq
<1>5. \A i \in 1 .. n : L[i] = [key |-> L[i].key, value |-> L[i].value]
  BY <1>4 DEF Entry
<1>6. L = [i \in 1 .. n |-> L[i]]
  BY <1>2, LenProperties
<1>7. Entries(store) = [i \in 1 .. n |-> [key |-> key(i), value |-> store.slots[key(i)].value]]
  BY <1>1 DEF Entries
<1> HIDE DEF key
<1>8. \A i \in 1 .. n : [key |-> key(i), value |-> store.slots[key(i)].value] = L[i]
  BY <1>2, <1>3, <1>5
<1> QED BY <1>6, <1>7, <1>8, Zenon

\* The list is Entries.
LEMMA EntriesList ==
  ASSUME NEW store, Good(store)
  PROVE  Lists(Entries(store), Cardinality(Held(store)), store)
<1> DEFINE H == Held(store)
           n == Cardinality(H)
           time(k) == store.slots[k].last_accessed
           R(k) == Rank(store, k)
           U(k) == {j \in H : time(j) >= time(k)}
           key(i) == CHOOSE k \in H : R(k) = i
<1>1. /\ H \subseteq Key /\ IsFiniteSet(H) /\ n \in Nat
      /\ \A k \in H : time(k) \in Nat /\ store.slots[k].value \in Value
      /\ \A j, k \in H : time(j) = time(k) => j = k
  BY StoreFacts, FS_CardinalityType DEF Good, StoreSound
<1>2. \A k : R(k) = Cardinality(U(k))
  BY DEF Rank
<1> HIDE DEF time, R
<1>3. \A k \in H : IsFiniteSet(U(k)) /\ k \in U(k) /\ U(k) \subseteq H
  <2> TAKE k \in H
  <2>1. U(k) \in SUBSET H /\ k \in U(k)
    BY <1>1
  <2> QED BY <1>1, <2>1, FS_Subset
<1>4. \A k \in H : R(k) \in 1 .. n
  <2> TAKE k \in H
  <2>1. Cardinality(U(k)) \in Nat /\ Cardinality(U(k)) <= n /\ Cardinality(U(k)) # 0
    <3> HIDE DEF U, H
    <3> QED BY <1>1, <1>3, FS_Subset, FS_CardinalityType, FS_EmptySet DEF H
  <2> HIDE DEF U, n
  <2> QED BY <1>1, <1>2, <2>1
<1>5. \A j, k \in H : time(k) < time(j) => R(j) < R(k)
  <2> SUFFICES ASSUME NEW j \in H, NEW k \in H, time(k) < time(j) PROVE R(j) < R(k)
    OBVIOUS
  <2>1. U(j) \in SUBSET U(k) /\ k \notin U(j) /\ k \in U(k)
    BY <1>1
  <2>2. IsFiniteSet(U(k)) /\ IsFiniteSet(U(j))
    BY <1>3
  <2> HIDE DEF U, n, H
  <2>3. Cardinality(U(j)) <= Cardinality(U(k)) /\ Cardinality(U(k)) # Cardinality(U(j))
    BY <2>1, <2>2, FS_Subset
  <2>4. Cardinality(U(j)) \in Nat /\ Cardinality(U(k)) \in Nat
    BY <2>2, FS_CardinalityType
  <2> QED BY <1>2, <2>3, <2>4
<1> HIDE DEF n, U
<1>6. \A j, k \in H : R(j) = R(k) => j = k
  <2> SUFFICES ASSUME NEW j \in H, NEW k \in H, R(j) = R(k) PROVE j = k
    OBVIOUS
  <2>1. R(j) \in Nat /\ time(j) \in Nat /\ time(k) \in Nat
    BY <1>1, <1>4
  <2>2. ~(time(j) < time(k)) /\ ~(time(k) < time(j))
    BY <1>5, <2>1
  <2>3. time(j) = time(k)
    BY <2>1, <2>2
  <2> QED BY <1>1, <2>3
<1>7. \A i \in 1 .. n : \E k \in H : R(k) = i
  <2> DEFINE r == [k \in H |-> R(k)]
  <2>1. r \in Injection(H, 1 .. n)
    <3>1. r \in [H -> 1 .. n]
      BY <1>4
    <3>2. \A j, k \in H : r[j] = r[k] => j = k
      BY <1>6
    <3> HIDE DEF r
    <3> QED BY <3>1, <3>2, Zenon DEF Injection, IsInjective
  <2>2. IsFiniteSet(1 .. n) /\ Cardinality(1 .. n) = n
    <3>1. 1 \in Int /\ n \in Int
      BY <1>1
    <3>2. IsFiniteSet(1 .. n) /\ Cardinality(1 .. n) = IF 1 > n THEN 0 ELSE n - 1 + 1
      BY <3>1, FS_Interval
    <3> QED BY <1>1, <3>2
  <2>3. r \in Surjection(H, 1 .. n)
    <3> HIDE DEF r, H
    <3>1. Cardinality(H) = n
      BY DEF n
    <3> QED BY <2>1, <2>2, <3>1, FS_Injection
  <2> QED BY <2>3 DEF Surjection
<1>8. \A i \in 1 .. n : key(i) \in H /\ R(key(i)) = i
  BY <1>7
<1>9. Entries(store) = [i \in 1 .. n |-> [key |-> key(i), value |-> store.slots[key(i)].value]]
  BY DEF Entries, n, R
<1> DEFINE L == [i \in 1 .. n |-> [key |-> key(i), value |-> store.slots[key(i)].value]]
<1> HIDE DEF key
<1>10. \A i \in 1 .. n : L[i].key = key(i) /\ L[i].value = store.slots[key(i)].value
  OBVIOUS
<1>11. L \in Seq(Entry) /\ Len(L) = n
  <2>1. L \in [1 .. n -> Entry]
    BY <1>1, <1>8 DEF Entry
  <2> HIDE DEF L
  <2>2. L \in Seq(Entry)
    <3>1. n \in Nat
      BY <1>1
    <3> QED BY <2>1, <3>1, SeqDef
  <2> QED BY <1>1, <2>1, <2>2, LenProperties
<1> HIDE DEF L
<1>12. \A k \in H : \E i \in 1 .. n : L[i].key = k
  <2> TAKE k \in H
  <2>1. R(k) \in 1 .. n /\ key(R(k)) \in H /\ R(key(R(k))) = R(k)
    BY <1>4, <1>8
  <2>2. key(R(k)) = k
    BY <1>6, <2>1
  <2> QED BY <1>10, <2>1, <2>2
<1>13. \A i, j \in 1 .. n : i < j => time(L[j].key) < time(L[i].key)
  <2> SUFFICES ASSUME NEW i \in 1 .. n, NEW j \in 1 .. n, i < j PROVE time(key(j)) < time(key(i))
    BY <1>10
  <2>1. key(i) \in H /\ key(j) \in H /\ R(key(i)) = i /\ R(key(j)) = j /\ i \in Int /\ j \in Int
    BY <1>1, <1>8
  <2>2. time(key(i)) \in Nat /\ time(key(j)) \in Nat
    BY <1>1, <2>1
  <2>3. ~(time(key(i)) < time(key(j)))
    <3>1. time(key(i)) < time(key(j)) => R(key(j)) < R(key(i))
      BY <1>5, <2>1
    <3> QED BY <2>1, <3>1
  <2>4. time(key(i)) # time(key(j))
    <3>1. key(i) # key(j)
      BY <2>1
    <3> QED BY <1>1, <2>1, <3>1
  <2> QED BY <2>2, <2>3, <2>4
<1>14. Entries(store) = L /\ n \in Nat
  BY <1>1, <1>9 DEF L
<1>15. \A i \in 1 .. n : L[i].key \in H /\ L[i].value = store.slots[L[i].key].value
  BY <1>8, <1>10
<1>16. Lists(L, n, store)
  BY <1>11, <1>12, <1>13, <1>14, <1>15 DEF Lists, time
<1> QED BY <1>14, <1>16 DEF n

\* The times of the last use, after a use and after an insertion.
LEMMA TouchedTimes ==
  ASSUME NEW store, Good(store), NEW key \in Held(store), NEW value \in Value
  PROVE  LET after == Touched(store, key, value)
         IN  /\ after.silo_size = store.silo_size
             /\ after.slots[key].last_accessed = store.access_seq + 1
             /\ \A k \in Held(store) \ {key} : after.slots[k].last_accessed = store.slots[k].last_accessed
<1> DEFINE slot == [store.slots[key] EXCEPT !.value = value, !.last_accessed = store.access_seq + 1]
           slots == [store.slots EXCEPT ![key] = slot]
           after == [store EXCEPT !.access_seq = store.access_seq + 1, !.slots = slots]
<1>1. store \in Store /\ store.slots \in [Held(store) -> Slot]
  BY StoreFacts DEF Good
<1>2. slot.last_accessed = store.access_seq + 1
  <2>1. store.slots[key] \in [value : Value, index : Nat, last_accessed : Nat]
    BY <1>1 DEF Slot
  <2> QED BY <2>1
<1>3. slots[key] = slot /\ \A k \in Held(store) \ {key} : slots[k] = store.slots[k]
  BY <1>1
<1>4. Touched(store, key, value) = after
  BY <1>1 DEF Touched, Store
<1> HIDE DEF slot, slots
<1>5. after.slots = slots /\ after.silo_size = store.silo_size
  BY <1>1 DEF Store
<1> HIDE DEF after
<1> QED BY <1>2, <1>3, <1>4, <1>5

\* Without room the entry of Lru is gone, and the others are as they were.
LEMMA InsertedTimes ==
  ASSUME NEW store, Good(store), NEW key \in Key, key \notin Held(store), NEW value \in Value
  PROVE  LET after == Inserted(store, key, value)
         IN  /\ after.silo_size = store.silo_size /\ Held(after) = Room(store) \union {key}
             /\ after.slots[key].value = value
             /\ after.slots[key].last_accessed = store.access_seq + 1
             /\ Room(store) \subseteq Held(store)
             /\ \A k \in Room(store) : after.slots[k] = store.slots[k]
<1> DEFINE room == Room(store)
           slot == [value |-> value, index |-> store.next_index,
                    last_accessed |-> store.access_seq + 1]
           slots == [k \in room \union {key} |-> IF k = key THEN slot ELSE store.slots[k]]
           after == [store EXCEPT !.slots = slots, !.next_index = store.next_index + 1,
                                  !.access_seq = store.access_seq + 1]
<1>1. store \in Store
  BY DEF Good
<1>2. room \subseteq Held(store)
  BY DEF Room
<1>3. Inserted(store, key, value) = after
  BY <1>1 DEF Inserted, Store
<1>4. slot.value = value /\ slot.last_accessed = store.access_seq + 1
  OBVIOUS
<1> HIDE DEF room, slot
<1>5. DOMAIN slots = room \union {key} /\ slots[key] = slot
      /\ \A k \in room : slots[k] = store.slots[k]
  BY <1>2
<1> HIDE DEF slots
<1>6. after.slots = slots /\ after.silo_size = store.silo_size
  BY <1>1 DEF Store
<1> HIDE DEF after
<1> QED BY <1>2, <1>3, <1>4, <1>5, <1>6 DEF Held, room

\* A use of the p-th entry: it is the first, and the others keep their order.
LEMMA UsedList ==
  ASSUME NEW store, Good(store), NEW L, NEW n, Lists(L, n, store), NEW p \in 1 .. n,
         NEW key, key = L[p].key, NEW value \in Value,
         NEW M, M = [i \in 1 .. n |-> IF i = 1 THEN [key |-> key, value |-> value]
                                      ELSE IF i <= p THEN L[i - 1] ELSE L[i]]
  PROVE  Lists(M, n, Touched(store, key, value))
<1> DEFINE after == Touched(store, key, value)
           old(i) == IF i <= p THEN i - 1 ELSE i
           time(k) == store.slots[k].last_accessed
           later(k) == after.slots[k].last_accessed
<1>1. /\ n \in Nat /\ L \in Seq(Entry) /\ Len(L) = n
      /\ \A i \in 1 .. n : L[i].key \in Held(store) /\ L[i].value = store.slots[L[i].key].value
      /\ \A k \in Held(store) : \E i \in 1 .. n : L[i].key = k
      /\ \A i, j \in 1 .. n : i < j => time(L[j].key) < time(L[i].key)
      /\ \A i \in 1 .. n : L[i] \in Entry
  BY ElementOfSeq DEF Lists
<1>2. \A i, j \in 1 .. n : L[i].key = L[j].key => i = j
  BY ListRank
<1>3. key \in Held(store) /\ key \in Key
  BY <1>1, StoreFacts DEF Good
<1>4. /\ Held(after) = Held(store) /\ after.slots[key].value = value
      /\ later(key) = store.access_seq + 1
      /\ \A k \in Held(store) \ {key} : after.slots[k].value = store.slots[k].value
      /\ \A k \in Held(store) \ {key} : later(k) = time(k)
  BY <1>3, TouchedGood, TouchedTimes
<1>5. \A k \in Held(store) : time(k) \in Nat /\ time(k) < store.access_seq + 1 /\ store.access_seq \in Nat
  <2>1. \A k \in Held(store) : time(k) <= store.access_seq /\ time(k) \in Nat /\ store.access_seq \in Nat
    BY StoreFacts DEF Good, StoreSound
  <2> QED BY <2>1
<1> HIDE DEF after, time, later
<1>6. M[1] = [key |-> key, value |-> value] /\ M[1].key = key /\ M[1].value = value /\ 1 \in 1 .. n
  BY <1>1
<1>7. \A i \in 2 .. n : /\ i \in 1 .. n /\ old(i) \in 1 .. n /\ old(i) # p /\ M[i] = L[old(i)]
                        /\ L[old(i)].key # key
  <2> TAKE i \in 2 .. n
  <2>1. p \in Nat /\ 1 <= p /\ p <= n /\ i \in Nat /\ 2 <= i /\ i <= n
    BY <1>1
  <2>2. i \in 1 .. n /\ i # 1 /\ old(i) \in 1 .. n /\ old(i) # p
    BY <1>1, <2>1
  <2>3. M[i] = L[old(i)]
    BY <2>2
  <2> QED BY <1>2, <2>2, <2>3
<1>8. \A i, j \in 2 .. n : i < j => old(i) < old(j)
  <2> SUFFICES ASSUME NEW i \in 2 .. n, NEW j \in 2 .. n, i < j PROVE old(i) < old(j)
    OBVIOUS
  <2>1. i \in Int /\ j \in Int /\ p \in Int
    BY <1>1
  <2> QED BY <2>1
<1>9. \A i \in 1 .. n : i = 1 \/ i \in 2 .. n
  BY <1>1
<1>10. \A j \in 1 .. n : j # p => \E i \in 2 .. n : old(i) = j
  <2> TAKE j \in 1 .. n
  <2>1. j \in Nat /\ 1 <= j /\ j <= n /\ p \in Nat /\ p <= n /\ n \in Nat
    BY <1>1
  <2>2. CASE j < p
    <3>1. j + 1 \in 2 .. n /\ j + 1 <= p
      BY <2>1, <2>2
    <3>2. old(j + 1) = j
      BY <2>1, <3>1
    <3> QED BY <3>1, <3>2
  <2>3. CASE p < j
    <3>1. j \in 2 .. n /\ ~(j <= p)
      BY <2>1, <2>3
    <3> QED BY <3>1
  <2> QED BY <2>1, <2>2, <2>3
<1> HIDE DEF old
<1>11. \A i \in 1 .. n : M[i] \in Entry
  BY <1>1, <1>3, <1>6, <1>7, <1>9 DEF Entry
<1>12. M \in Seq(Entry) /\ Len(M) = n
  <2>1. M = [i \in 1 .. n |-> M[i]]
    OBVIOUS
  <2>2. M \in [1 .. n -> Entry]
    BY <1>11, <2>1
  <2> QED BY <1>1, <2>2, IsList
<1>13. \A i \in 1 .. n : M[i].key \in Held(after) /\ M[i].value = after.slots[M[i].key].value
  <2> TAKE i \in 1 .. n
  <2>1. CASE i = 1
    BY <1>3, <1>4, <1>6, <2>1
  <2>2. CASE i \in 2 .. n
    <3> DEFINE k == L[old(i)].key
    <3>1. M[i].key = k /\ M[i].value = store.slots[k].value /\ k \in Held(store) \ {key}
      BY <1>1, <1>7, <2>2
    <3> HIDE DEF k
    <3> QED BY <1>4, <3>1
  <2> QED BY <1>9, <2>1, <2>2
<1>14. \A k \in Held(after) : \E i \in 1 .. n : M[i].key = k
  <2> TAKE k \in Held(after)
  <2>1. PICK j \in 1 .. n : L[j].key = k
    BY <1>1, <1>4
  <2>2. CASE j = p
    BY <1>6, <2>1, <2>2
  <2>3. CASE j # p
    <3>1. PICK i \in 2 .. n : old(i) = j
      BY <1>10, <2>3
    <3>2. i \in 1 .. n /\ M[i] = L[j]
      BY <1>7, <3>1
    <3> QED BY <2>1, <3>2
  <2> QED BY <2>2, <2>3
<1>15. \A i, j \in 1 .. n : i < j => later(M[j].key) < later(M[i].key)
  <2> SUFFICES ASSUME NEW i \in 1 .. n, NEW j \in 1 .. n, i < j PROVE later(M[j].key) < later(M[i].key)
    OBVIOUS
  <2>1. j \in 2 .. n
    BY <1>1
  <2>2. M[j].key \in Held(store) /\ M[j].key # key /\ later(M[j].key) = time(M[j].key)
    BY <1>1, <1>4, <1>7, <2>1
  <2>3. CASE i = 1
    BY <1>4, <1>5, <1>6, <2>2, <2>3
  <2>4. CASE i \in 2 .. n
    <3>1. later(M[i].key) = time(M[i].key)
      BY <1>1, <1>4, <1>7, <2>4
    <3>2. old(i) < old(j) /\ old(i) \in 1 .. n /\ old(j) \in 1 .. n
      BY <1>7, <1>8, <2>1, <2>4
    <3> QED BY <1>1, <1>7, <2>1, <2>2, <2>4, <3>1, <3>2
  <2> QED BY <1>9, <2>3, <2>4
<1> QED BY <1>1, <1>12, <1>13, <1>14, <1>15 DEF Lists, after, later

\* The entry that is evicted is the last of a full list.
LEMMA LruIsLast ==
  ASSUME NEW store, Good(store), NEW L, NEW n, Lists(L, n, store), n # 0
  PROVE  Lru(store) = L[n].key
<1> DEFINE time(k) == store.slots[k].last_accessed
<1>1. /\ n \in Nat /\ n \in 1 .. n
      /\ \A i \in 1 .. n : L[i].key \in Held(store)
      /\ \A k \in Held(store) : \E i \in 1 .. n : L[i].key = k
      /\ \A i, j \in 1 .. n : i < j => time(L[j].key) < time(L[i].key)
  BY DEF Lists
<1>2. \A k \in Held(store) : time(k) \in Nat
  BY StoreFacts DEF Good
<1>3. \A j, k \in Held(store) : time(j) = time(k) => j = k
  BY DEF Good, StoreSound
<1>4. ASSUME NEW k \in Held(store) PROVE time(L[n].key) <= time(k)
  <2>1. PICK i \in 1 .. n : L[i].key = k
    BY <1>1
  <2>2. i < n \/ i = n
    BY <1>1
  <2>3. time(L[n].key) \in Nat /\ time(k) \in Nat
    BY <1>1, <1>2
  <2> HIDE DEF time
  <2> QED BY <1>1, <2>1, <2>2, <2>3
<1>5. IsLru(store, L[n].key)
  BY <1>4 DEF IsLru
<1>6. ASSUME NEW k \in Held(store), IsLru(store, k) PROVE k = L[n].key
  <2>1. time(k) <= time(L[n].key) /\ time(L[n].key) <= time(k)
    BY <1>1, <1>4, <1>6 DEF IsLru
  <2>2. time(L[n].key) \in Nat /\ time(k) \in Nat
    BY <1>1, <1>2
  <2>3. time(k) = time(L[n].key)
    <3> HIDE DEF time
    <3> QED BY <2>1, <2>2
  <2> QED BY <1>1, <1>3, <2>3
<1> QED BY <1>1, <1>5, <1>6 DEF Lru

\* An insertion: the new entry is the first, and what no longer fits is gone.
LEMMA InsertedList ==
  ASSUME NEW store, Good(store), NEW L, NEW n, Lists(L, n, store),
         NEW key \in Key, key \notin Held(store), NEW value \in Value,
         NEW m, m = (IF n < store.silo_size THEN n + 1 ELSE n),
         NEW M, M = [i \in 1 .. m |-> IF i = 1 THEN [key |-> key, value |-> value] ELSE L[i - 1]]
  PROVE  Lists(M, m, Inserted(store, key, value)) /\ m = (IF n + 1 < store.silo_size THEN n + 1 ELSE store.silo_size)
<1> DEFINE after == Inserted(store, key, value)
           time(k) == store.slots[k].last_accessed
           later(k) == after.slots[k].last_accessed
           room == Room(store)
<1>1. /\ n \in Nat /\ L \in Seq(Entry) /\ Len(L) = n
      /\ \A i \in 1 .. n : L[i].key \in Held(store) /\ L[i].value = store.slots[L[i].key].value
      /\ \A k \in Held(store) : \E i \in 1 .. n : L[i].key = k
      /\ \A i, j \in 1 .. n : i < j => time(L[j].key) < time(L[i].key)
      /\ \A i \in 1 .. n : L[i] \in Entry
  BY ElementOfSeq DEF Lists
<1>2. /\ Cardinality(Held(store)) = n
      /\ \A i, j \in 1 .. n : L[i].key = L[j].key => i = j
  BY ListRank
<1>3. store.silo_size \in Nat \ {0} /\ n <= store.silo_size
  BY <1>2, StoreFacts DEF Good, StoreSound
<1>4. m \in Nat \ {0} /\ m - 1 \in 0 .. n /\ m = (IF n + 1 < store.silo_size THEN n + 1 ELSE store.silo_size)
  BY <1>1, <1>3
<1>5. /\ Held(after) = room \union {key} /\ after.slots[key].value = value
      /\ later(key) = store.access_seq + 1
      /\ room \subseteq Held(store)
      /\ \A k \in room : after.slots[k].value = store.slots[k].value /\ later(k) = time(k)
  BY InsertedTimes
<1>6. \A k \in Held(store) : time(k) \in Nat /\ time(k) < store.access_seq + 1 /\ store.access_seq \in Nat
  <2>1. \A k \in Held(store) : time(k) <= store.access_seq /\ time(k) \in Nat /\ store.access_seq \in Nat
    BY StoreFacts DEF Good, StoreSound
  <2> QED BY <2>1
<1> HIDE DEF after, time, later
<1>7. \A i \in 1 .. n : L[i].key \in room <=> i <= m - 1
  <2> TAKE i \in 1 .. n
  <2>1. i \in Nat /\ 1 <= i /\ i <= n
    BY <1>1
  <2>2. CASE n < store.silo_size
    <3>1. room = Held(store)
      BY <1>2, <2>2 DEF Room
    <3> QED BY <1>1, <2>1, <2>2, <3>1
  <2>3. CASE ~(n < store.silo_size)
    <3>1. n # 0 /\ m = n
      BY <1>1, <2>1, <2>3
    <3>2. room = Held(store) \ {L[n].key}
      BY <1>2, <2>3, <3>1, LruIsLast DEF Room
    <3>3. i <= m - 1 <=> i # n
      BY <1>1, <2>1, <3>1
    <3>4. n \in 1 .. n
      BY <1>1, <3>1
    <3> QED BY <1>1, <1>2, <3>2, <3>3, <3>4
  <2> QED BY <2>2, <2>3
<1> HIDE DEF room
<1>8. M[1] = [key |-> key, value |-> value] /\ M[1].key = key /\ M[1].value = value /\ 1 \in 1 .. m
  BY <1>4
<1>9. \A i \in 2 .. m : /\ i \in 1 .. m /\ i - 1 \in 1 .. n /\ M[i] = L[i - 1]
                        /\ L[i - 1].key \in room
  <2> TAKE i \in 2 .. m
  <2>1. i \in 1 .. m /\ i # 1 /\ i - 1 \in 1 .. n /\ i - 1 <= m - 1
    BY <1>1, <1>4
  <2> QED BY <1>7, <2>1
<1>10. \A i \in 1 .. m : i = 1 \/ i \in 2 .. m
  BY <1>4
<1>11. \A i \in 1 .. m : M[i] \in Entry
  BY <1>1, <1>8, <1>9, <1>10 DEF Entry
<1>12. M \in Seq(Entry) /\ Len(M) = m
  <2>1. M = [i \in 1 .. m |-> M[i]]
    OBVIOUS
  <2>2. M \in [1 .. m -> Entry]
    BY <1>11, <2>1
  <2>3. m \in Nat
    BY <1>4
  <2> QED BY <2>2, <2>3, IsList
<1>13. \A i \in 1 .. m : M[i].key \in Held(after) /\ M[i].value = after.slots[M[i].key].value
  <2> TAKE i \in 1 .. m
  <2>1. CASE i = 1
    BY <1>5, <1>8, <2>1
  <2>2. CASE i \in 2 .. m
    <3> DEFINE k == L[i - 1].key
    <3>1. M[i].key = k /\ M[i].value = store.slots[k].value /\ k \in room
      BY <1>1, <1>9, <2>2
    <3> HIDE DEF k
    <3> QED BY <1>5, <3>1
  <2> QED BY <1>10, <2>1, <2>2
<1>14. \A k \in Held(after) : \E i \in 1 .. m : M[i].key = k
  <2> TAKE k \in Held(after)
  <2>1. CASE k = key
    BY <1>8, <2>1
  <2>2. CASE k \in room
    <3>1. PICK j \in 1 .. n : L[j].key = k
      BY <1>1, <1>5, <2>2
    <3>2. j + 1 \in 2 .. m /\ (j + 1) - 1 = j
      BY <1>1, <1>4, <1>7, <2>2, <3>1
    <3> QED BY <1>9, <3>1, <3>2
  <2> QED BY <1>5, <2>1, <2>2
<1>15. \A i, j \in 1 .. m : i < j => later(M[j].key) < later(M[i].key)
  <2> SUFFICES ASSUME NEW i \in 1 .. m, NEW j \in 1 .. m, i < j PROVE later(M[j].key) < later(M[i].key)
    OBVIOUS
  <2>1. j \in 2 .. m
    BY <1>4
  <2>2. M[j].key \in room /\ M[j].key \in Held(store) /\ later(M[j].key) = time(M[j].key)
    BY <1>1, <1>5, <1>9, <2>1
  <2>3. CASE i = 1
    BY <1>5, <1>6, <1>8, <2>2, <2>3
  <2>4. CASE i \in 2 .. m
    <3>1. later(M[i].key) = time(M[i].key)
      BY <1>1, <1>5, <1>9, <2>4
    <3>2. i - 1 < j - 1
      BY <1>4
    <3> QED BY <1>1, <1>9, <2>1, <2>2, <2>4, <3>1, <3>2
  <2> QED BY <1>10, <2>3, <2>4
<1>16. Lists(M, m, after)
  BY <1>4, <1>12, <1>13, <1>14, <1>15 DEF Lists, later
<1> QED BY <1>4, <1>16 DEF after

-----------------------------------------------------------------------------
(* The list of a session, as SessionMemory has it *)

\* What a session remembers, with another list
Relisted(m, M) == [m EXCEPT !.recent = M]

\* The record of a session in full, which the provers need to see an update of it.
LEMMA RelistedIs ==
  ASSUME NEW size, NEW L, NEW M, NEW m, m = [silo_size |-> size, recent |-> L]
  PROVE  /\ m.recent = L /\ m.silo_size = size
         /\ Relisted(m, M) = [silo_size |-> size, recent |-> M]
BY DEF Relisted

\* A list with an entry put in front and cut to the size.
LEMMA CutList ==
  ASSUME NEW size \in Nat \ {0}, NEW R \in Seq(Entry), NEW e \in Entry,
         NEW m \in Nat, m = (IF Len(R) + 1 < size THEN Len(R) + 1 ELSE size),
         NEW M, M = [i \in 1 .. m |-> IF i = 1 THEN e ELSE R[i - 1]]
  PROVE  LET longer == <<e>> \o R
         IN  SubSeq(longer, 1, IF Len(longer) < size THEN Len(longer) ELSE size) = M
<1> DEFINE longer == <<e>> \o R
           cut == SubSeq(longer, 1, m)
<1>1. Len(R) \in Nat /\ \A i \in 1 .. Len(R) : R[i] \in Entry
  BY LenProperties, ElementOfSeq
<1>2. <<e>> \in Seq(Entry) /\ Len(<<e>>) = 1 /\ <<e>>[1] = e
  OBVIOUS
<1>3. /\ longer \in Seq(Entry) /\ Len(longer) = Len(R) + 1
      /\ \A i \in 1 .. Len(R) + 1 : longer[i] = IF i <= 1 THEN <<e>>[i] ELSE R[i - 1]
  <2>1. /\ longer \in Seq(Entry) /\ Len(longer) = 1 + Len(R)
        /\ \A i \in 1 .. 1 + Len(R) : longer[i] = IF i <= 1 THEN <<e>>[i] ELSE R[i - 1]
    BY <1>2, ConcatProperties
  <2>2. 1 + Len(R) = Len(R) + 1
    BY <1>1
  <2> QED BY <2>1, <2>2
<1> HIDE DEF longer
<1>4. m >= 1 /\ m <= Len(R) + 1 /\ m = (IF Len(longer) < size THEN Len(longer) ELSE size)
  BY <1>1, <1>3
<1>5. \A i \in 1 .. m : /\ longer[i] \in Entry
                        /\ longer[i] = IF i = 1 THEN e ELSE R[i - 1]
  <2> TAKE i \in 1 .. m
  <2>1. i \in Nat /\ i \in 1 .. Len(R) + 1 /\ (i <= 1 <=> i = 1)
    BY <1>1, <1>4
  <2>2. i # 1 => i - 1 \in 1 .. Len(R)
    BY <1>1, <2>1
  <2> QED BY <1>1, <1>2, <1>3, <2>1, <2>2
<1>6. cut \in Seq(Entry) /\ Len(cut) = m /\ \A i \in 1 .. m : cut[i] = longer[i]
  <2>1. /\ SubSeq(longer, 1, m) \in Seq(Entry)
        /\ Len(SubSeq(longer, 1, m)) = IF 1 <= m THEN m - 1 + 1 ELSE 0
        /\ \A i \in 1 .. m - 1 + 1 : SubSeq(longer, 1, m)[i] = longer[1 + i - 1]
    <3>1. 1 \in Int /\ m \in Int
      OBVIOUS
    <3> QED BY <1>5, <3>1, SubSeqProperties
  <2>2. m - 1 + 1 = m /\ \A i \in 1 .. m : 1 + i - 1 = i
    OBVIOUS
  <2> QED BY <1>4, <2>1, <2>2
<1>7. M \in Seq(Entry) /\ Len(M) = m /\ \A i \in 1 .. m : M[i] = longer[i]
  <2>1. \A i \in 1 .. m : M[i] = longer[i] /\ M[i] \in Entry
    BY <1>5
  <2>2. M = [i \in 1 .. m |-> M[i]]
    OBVIOUS
  <2>3. M \in [1 .. m -> Entry]
    BY <2>1, <2>2
  <2>4. M \in Seq(Entry) /\ Len(M) = m
    BY <2>3, IsList
  <2> QED BY <2>1, <2>4
<1>8. cut = M
  <2> HIDE DEF cut
  <2>1. Len(cut) = Len(M) /\ \A i \in 1 .. Len(cut) : cut[i] = M[i]
    BY <1>6, <1>7
  <2> QED BY <1>6, <1>7, <2>1, SeqEqual
<1> QED BY <1>4, <1>8 DEF longer

\* A list without its p-th entry.
LEMMA RemovedList ==
  ASSUME NEW L \in Seq(Entry), NEW p \in 1 .. Len(L)
  PROVE  LET R == SubSeq(L, 1, p - 1) \o SubSeq(L, p + 1, Len(L))
         IN  /\ R \in Seq(Entry) /\ Len(R) = Len(L) - 1
             /\ \A i \in 1 .. Len(L) - 1 : R[i] = IF i < p THEN L[i] ELSE L[i + 1]
<1> DEFINE n == Len(L)
           A == SubSeq(L, 1, p - 1)
           B == SubSeq(L, p + 1, n)
           R == A \o B
<1>1. n \in Nat /\ (\A i \in 1 .. n : L[i] \in Entry) /\ p \in Nat /\ 1 <= p /\ p <= n
  BY LenProperties, ElementOfSeq
<1> HIDE DEF n
<1>2. /\ A \in Seq(Entry) /\ Len(A) = p - 1
      /\ \A i \in 1 .. p - 1 : A[i] = L[i]
  <2>1. \A i \in 1 .. p - 1 : L[i] \in Entry
    BY <1>1
  <2>2. /\ A \in Seq(Entry) /\ Len(A) = IF 1 <= p - 1 THEN p - 1 - 1 + 1 ELSE 0
        /\ \A i \in 1 .. p - 1 - 1 + 1 : A[i] = L[1 + i - 1]
    <3>1. 1 \in Int /\ p - 1 \in Int
      BY <1>1
    <3> QED BY <2>1, <3>1, SubSeqProperties
  <2>3. p - 1 - 1 + 1 = p - 1 /\ (~(1 <= p - 1) => p - 1 = 0) /\ \A i \in 1 .. p - 1 : 1 + i - 1 = i
    BY <1>1
  <2> HIDE DEF A
  <2> QED BY <2>2, <2>3
<1>3. /\ B \in Seq(Entry) /\ Len(B) = n - p
      /\ \A i \in 1 .. n - p : B[i] = L[p + i]
  <2>1. \A i \in p + 1 .. n : L[i] \in Entry
    BY <1>1
  <2>2. /\ B \in Seq(Entry) /\ Len(B) = IF p + 1 <= n THEN n - (p + 1) + 1 ELSE 0
        /\ \A i \in 1 .. n - (p + 1) + 1 : B[i] = L[p + 1 + i - 1]
    <3>1. p + 1 \in Int /\ n \in Int
      BY <1>1
    <3> QED BY <2>1, <3>1, SubSeqProperties
  <2>3. n - (p + 1) + 1 = n - p /\ (~(p + 1 <= n) => n - p = 0) /\ \A i \in 1 .. n - p : p + 1 + i - 1 = p + i
    BY <1>1
  <2> HIDE DEF B
  <2> QED BY <2>2, <2>3
<1> HIDE DEF A, B
<1>4. /\ R \in Seq(Entry) /\ Len(R) = Len(A) + Len(B)
      /\ \A i \in 1 .. Len(A) + Len(B) : R[i] = IF i <= Len(A) THEN A[i] ELSE B[i - Len(A)]
  BY <1>2, <1>3, ConcatProperties
<1> HIDE DEF R
<1>5. Len(A) + Len(B) = n - 1
  BY <1>1, <1>2, <1>3
<1>6. \A i \in 1 .. n - 1 : R[i] = IF i < p THEN L[i] ELSE L[i + 1]
  <2> TAKE i \in 1 .. n - 1
  <2>1. R[i] = IF i <= p - 1 THEN A[i] ELSE B[i - (p - 1)]
    BY <1>2, <1>4, <1>5
  <2>2. CASE i < p
    <3>1. i <= p - 1 /\ i \in 1 .. p - 1
      BY <1>1, <2>2
    <3> QED BY <1>2, <2>1, <2>2, <3>1
  <2>3. CASE ~(i < p)
    <3>1. ~(i <= p - 1) /\ i - (p - 1) \in 1 .. n - p /\ p + (i - (p - 1)) = i + 1
      BY <1>1, <2>3
    <3> QED BY <1>3, <2>1, <2>3, <3>1
  <2> QED BY <2>2, <2>3
<1> QED BY <1>4, <1>5, <1>6 DEF R, A, B, n

\* The p-th entry is used, and M is the list then; or a new one is put in front.
UsedAt(size, L, n, p, key, value, M) ==
  /\ size \in Nat \ {0} /\ L \in Seq(Entry) /\ n \in Nat /\ Len(L) = n /\ n <= size
  /\ p \in 1 .. n /\ key \in Key /\ key = L[p].key /\ value \in Value
  /\ \A i \in 1 .. n : L[i].key = key => i = p
  /\ M = [i \in 1 .. n |-> IF i = 1 THEN [key |-> key, value |-> value]
                           ELSE IF i <= p THEN L[i - 1] ELSE L[i]]

PutFirst(size, L, n, key, value, m, M) ==
  /\ size \in Nat \ {0} /\ L \in Seq(Entry) /\ n \in Nat /\ Len(L) = n
  /\ key \in Key /\ value \in Value /\ \A i \in 1 .. n : L[i].key # key
  /\ m \in Nat /\ m = (IF n + 1 < size THEN n + 1 ELSE size)
  /\ M = [i \in 1 .. m |-> IF i = 1 THEN [key |-> key, value |-> value] ELSE L[i - 1]]

\* InFront of an entry of the list moves it to the front.
LEMMA InFrontUsed ==
  ASSUME NEW size, NEW L, NEW n, NEW p, NEW key, NEW value, NEW M,
         UsedAt(size, L, n, p, key, value, M)
  PROVE  Memory!InFront([silo_size |-> size, recent |-> L], key, value) = [silo_size |-> size, recent |-> M]
<1> DEFINE m == [silo_size |-> size, recent |-> L]
           R == SubSeq(L, 1, p - 1) \o SubSeq(L, p + 1, Len(L))
           e == [key |-> key, value |-> value]
           at == {i \in DOMAIN L : L[i].key = key}
<1>0. /\ size \in Nat \ {0} /\ L \in Seq(Entry) /\ n \in Nat /\ Len(L) = n /\ n <= size
      /\ p \in 1 .. n /\ key \in Key /\ key = L[p].key /\ value \in Value
      /\ \A i \in 1 .. n : L[i].key = key => i = p
      /\ M = [i \in 1 .. n |-> IF i = 1 THEN [key |-> key, value |-> value]
                               ELSE IF i <= p THEN L[i - 1] ELSE L[i]]
  BY DEF UsedAt
<1>1. DOMAIN L = 1 .. n
  BY <1>0, LenProperties
<1>2. at = {p}
  BY <1>0, <1>1
<1>3. (CHOOSE i \in at : TRUE) = p /\ at # {}
  BY <1>2
<1>4. Memory!Without(L, key) = R
  <2> HIDE DEF at
  <2>1. Memory!Without(L, key) = IF at = {} THEN L ELSE Memory!RemoveAt(L, CHOOSE i \in at : TRUE)
    BY DEF Memory!Without, at
  <2>2. Memory!RemoveAt(L, p) = R
    BY DEF Memory!RemoveAt
  <2> QED BY <1>3, <2>1, <2>2
<1>5. /\ R \in Seq(Entry) /\ Len(R) = n - 1
      /\ \A i \in 1 .. n - 1 : R[i] = IF i < p THEN L[i] ELSE L[i + 1]
  BY <1>0, RemovedList
<1> HIDE DEF R, at
<1>6. n = (IF Len(R) + 1 < size THEN Len(R) + 1 ELSE size) /\ n >= 1
  BY <1>0, <1>5
<1>7. M = [i \in 1 .. n |-> IF i = 1 THEN e ELSE R[i - 1]]
  <2>1. ASSUME NEW i \in 1 .. n, i # 1 PROVE R[i - 1] = IF i <= p THEN L[i - 1] ELSE L[i]
    <3>1. i - 1 \in 1 .. n - 1 /\ (i - 1 < p <=> i <= p) /\ (i - 1) + 1 = i
      BY <1>0, <2>1
    <3> QED BY <1>5, <3>1
  <2> QED BY <1>0, <2>1
<1>8. e \in Entry
  BY <1>0 DEF Entry
<1> HIDE DEF e
<1>9. LET longer == <<e>> \o R
      IN  SubSeq(longer, 1, IF Len(longer) < size THEN Len(longer) ELSE size) = M
  BY <1>0, <1>5, <1>6, <1>7, <1>8, CutList
<1>10. m.recent = L /\ m.silo_size = size /\ Relisted(m, M) = [silo_size |-> size, recent |-> M]
  <2>1. m = [silo_size |-> size, recent |-> L]
    OBVIOUS
  <2> HIDE DEF m
  <2> QED BY <2>1, RelistedIs
<1> HIDE DEF m
<1>11. Memory!InFront(m, key, value) =
         LET longer == <<e>> \o R
         IN  Relisted(m, SubSeq(longer, 1, IF Len(longer) < size THEN Len(longer) ELSE size))
  BY <1>4, <1>10 DEF Memory!InFront, Relisted, e
<1> QED BY <1>9, <1>10, <1>11 DEF m

\* InFront of a new entry puts it there, and the last one falls off a full list.
LEMMA InFrontInserted ==
  ASSUME NEW size, NEW L, NEW n, NEW key, NEW value, NEW m, NEW M,
         PutFirst(size, L, n, key, value, m, M)
  PROVE  Memory!InFront([silo_size |-> size, recent |-> L], key, value) = [silo_size |-> size, recent |-> M]
<1> DEFINE mm == [silo_size |-> size, recent |-> L]
           e == [key |-> key, value |-> value]
           at == {i \in DOMAIN L : L[i].key = key}
<1>0. /\ size \in Nat \ {0} /\ L \in Seq(Entry) /\ n \in Nat /\ Len(L) = n
      /\ key \in Key /\ value \in Value /\ \A i \in 1 .. n : L[i].key # key
      /\ m \in Nat /\ m = (IF n + 1 < size THEN n + 1 ELSE size)
      /\ M = [i \in 1 .. m |-> IF i = 1 THEN [key |-> key, value |-> value] ELSE L[i - 1]]
  BY DEF PutFirst
<1>1. DOMAIN L = 1 .. n
  BY <1>0, LenProperties
<1>2. at = {}
  BY <1>0, <1>1
<1>3. Memory!Without(L, key) = L
  <2> HIDE DEF at
  <2>1. Memory!Without(L, key) = IF at = {} THEN L ELSE Memory!RemoveAt(L, CHOOSE i \in at : TRUE)
    BY DEF Memory!Without, at
  <2> QED BY <1>2, <2>1
<1>4. e \in Entry
  BY <1>0 DEF Entry
<1>5. LET longer == <<e>> \o L
      IN  SubSeq(longer, 1, IF Len(longer) < size THEN Len(longer) ELSE size) = M
  BY <1>0, <1>4, CutList
<1>6. mm.recent = L /\ mm.silo_size = size /\ Relisted(mm, M) = [silo_size |-> size, recent |-> M]
  <2>1. mm = [silo_size |-> size, recent |-> L]
    OBVIOUS
  <2> HIDE DEF mm, e, at
  <2>2. mm.recent = L /\ mm.silo_size = size
    BY <2>1
  <2>3. \A list : Relisted(mm, list) = [silo_size |-> size, recent |-> list]
    BY <2>1, RelistedIs
  <2> QED BY <2>2, <2>3
<1> HIDE DEF mm, e
<1>7. Memory!InFront(mm, key, value) =
         LET longer == <<e>> \o L
         IN  Relisted(mm, SubSeq(longer, 1, IF Len(longer) < size THEN Len(longer) ELSE size))
  BY <1>3, <1>6 DEF Memory!InFront, Relisted, e
<1> QED BY <1>5, <1>6, <1>7 DEF mm

\* A new store is an open session with an empty list.
LEMMA EmptyRemembers ==
  ASSUME NEW size \in Nat \ {0}
  PROVE  Remembers(EmptyStore(size)) = Memory!Open(size)
<1> DEFINE store == EmptyStore(size)
<1>1. Good(store) /\ Held(store) = {} /\ store.silo_size = size
  BY EmptyGood DEF EmptyStore
<1>2. << >> \in Seq(Entry) /\ Len(<< >>) = 0
  OBVIOUS
<1>3. 1 .. 0 = {}
  OBVIOUS
<1> HIDE DEF store
<1>4. Lists(<< >>, 0, store)
  BY <1>1, <1>2, <1>3 DEF Lists
<1>5. Entries(store) = << >>
  BY <1>1, <1>4, ListIsEntries
<1> QED BY <1>1, <1>5 DEF Remembers, Memory!Open, store

\* A use puts its entry in front.
LEMMA TouchedRemembers ==
  ASSUME NEW store, Good(store), NEW key \in Held(store), NEW value \in Value
  PROVE  Remembers(Touched(store, key, value)) = Memory!InFront(Remembers(store), key, value)
<1> DEFINE L == Entries(store)
           n == Cardinality(Held(store))
           after == Touched(store, key, value)
<1>1. Lists(L, n, store)
  BY EntriesList
<1>2. key \in Key /\ store.silo_size \in Nat \ {0} /\ n <= store.silo_size
  BY StoreFacts DEF Good, StoreSound
<1> HIDE DEF L, n
<1>3. /\ n \in Nat /\ L \in Seq(Entry) /\ Len(L) = n
      /\ \A i, j \in 1 .. n : L[i].key = L[j].key => i = j
  <2>1. \A i, j \in 1 .. n : L[i].key = L[j].key => i = j
    BY <1>1, ListRank
  <2> QED BY <1>1, <2>1 DEF Lists
<1>4. PICK p \in 1 .. n : L[p].key = key
  BY <1>1 DEF Lists
<1> DEFINE M == [i \in 1 .. n |-> IF i = 1 THEN [key |-> key, value |-> value]
                                  ELSE IF i <= p THEN L[i - 1] ELSE L[i]]
<1>5. Lists(M, n, after)
  BY <1>1, <1>4, UsedList
<1>6. Good(after) /\ after.silo_size = store.silo_size
  BY TouchedGood, TouchedTimes
<1> HIDE DEF after
<1>7. Entries(after) = M
  <2> HIDE DEF M
  <2> QED BY <1>5, <1>6, ListIsEntries
<1>8. Memory!InFront([silo_size |-> store.silo_size, recent |-> L], key, value)
        = [silo_size |-> store.silo_size, recent |-> M]
  <2>1. UsedAt(store.silo_size, L, n, p, key, value, M)
    BY <1>2, <1>3, <1>4 DEF UsedAt
  <2> HIDE DEF M
  <2> QED BY <2>1, InFrontUsed
<1> HIDE DEF M
<1> QED BY <1>6, <1>7, <1>8, Zenon DEF Remembers, L, after

\* An insertion evicts what falls off the end of the list.
LEMMA InsertedRemembers ==
  ASSUME NEW store, Good(store), NEW key \in Key, key \notin Held(store), NEW value \in Value
  PROVE  Remembers(Inserted(store, key, value)) = Memory!InFront(Remembers(store), key, value)
<1> DEFINE L == Entries(store)
           n == Cardinality(Held(store))
           after == Inserted(store, key, value)
           m == IF n < store.silo_size THEN n + 1 ELSE n
           M == [i \in 1 .. m |-> IF i = 1 THEN [key |-> key, value |-> value] ELSE L[i - 1]]
<1>1. Lists(L, n, store)
  BY EntriesList
<1>2. store.silo_size \in Nat \ {0}
  BY StoreFacts DEF Good
<1> HIDE DEF L, n
<1>3. n \in Nat /\ L \in Seq(Entry) /\ Len(L) = n /\ \A i \in 1 .. n : L[i].key \in Held(store)
  BY <1>1 DEF Lists
<1>4. Lists(M, m, after) /\ m = (IF n + 1 < store.silo_size THEN n + 1 ELSE store.silo_size)
  BY <1>1, InsertedList
<1>5. m \in Nat
  BY <1>3
<1>6. Good(after) /\ after.silo_size = store.silo_size
  BY InsertedGood, InsertedTimes
<1> HIDE DEF after, m
<1>7. Entries(after) = M
  <2> HIDE DEF M
  <2> QED BY <1>4, <1>6, ListIsEntries
<1>8. \A i \in 1 .. n : L[i].key # key
  BY <1>3
<1>9. Memory!InFront([silo_size |-> store.silo_size, recent |-> L], key, value)
        = [silo_size |-> store.silo_size, recent |-> M]
  <2>1. PutFirst(store.silo_size, L, n, key, value, m, M)
    BY <1>2, <1>3, <1>4, <1>5, <1>8 DEF PutFirst
  <2> HIDE DEF M
  <2> QED BY <2>1, InFrontInserted
<1> HIDE DEF M
<1> QED BY <1>6, <1>7, <1>9, Zenon DEF Remembers, L, after

\* A write, of a key held or not, is InFront.
LEMMA StoredRemembers ==
  ASSUME NEW store, Good(store), NEW key \in Key, NEW value \in Value
  PROVE  Remembers(Stored(store, key, value)) = Memory!InFront(Remembers(store), key, value)
BY TouchedRemembers, InsertedRemembers DEF Stored

\* A peek that finds its key is InFront of an entry of the list.
LEMMA PeekedRemembers ==
  ASSUME NEW store, Good(store), NEW key \in Held(store)
  PROVE  \E i \in DOMAIN Remembers(store).recent :
           Remembers(Peeked(store, key)) =
             Memory!InFront(Remembers(store), Remembers(store).recent[i].key, Remembers(store).recent[i].value)
<1> DEFINE L == Entries(store)
           n == Cardinality(Held(store))
<1>1. Lists(L, n, store) /\ Remembers(store).recent = L
  BY EntriesList DEF Remembers
<1> HIDE DEF L, n
<1>2. PICK i \in 1 .. n : L[i].key = key
  BY <1>1 DEF Lists
<1>3. DOMAIN L = 1 .. n /\ L[i].value = store.slots[key].value
  <2>1. L \in Seq(Entry) /\ Len(L) = n
    BY <1>1 DEF Lists
  <2> QED BY <1>1, <1>2, <2>1, LenProperties DEF Lists
<1>4. store.slots[key].value \in Value
  BY StoreFacts DEF Good
<1>5. Remembers(Peeked(store, key)) = Memory!InFront(Remembers(store), key, store.slots[key].value)
  BY <1>4, TouchedRemembers DEF Peeked
<1> QED BY <1>1, <1>2, <1>3, <1>5

-----------------------------------------------------------------------------
(* The server keeps what SessionMemory promises *)

\* The value that the refinement gives to the memory of SessionMemory
KeptFor(s) == IF sessions[s] = None THEN Nothing ELSE Remembers(stores[sessions[s]])
Kept == [s \in Session |-> KeptFor(s)]

\* What the heap is after a step, for the stores that are still referred to.
LEMMA HeapIs ==
  ASSUME NEW heap, Keep(heap)
  PROVE  /\ \A i \in Referred' : stores'[i] = heap[i]
         /\ \A s \in Session : sessions'[s] # None => sessions'[s] \in Referred'
BY DEF Keep, Referred

\* A step that leaves the stores of the sessions alone.
LEMMA KeptAlone ==
  ASSUME sessions' = sessions,
         \A s \in Session : sessions[s] # None => stores'[sessions[s]] = stores[sessions[s]]
  PROVE  UNCHANGED Kept
<1>1. \A s \in Session : KeptFor(s)' = KeptFor(s)
  BY DEF KeptFor
<1> QED BY <1>1 DEF Kept

\* A step that touches one session.
LEMMA KeptOfOne ==
  ASSUME NEW s \in Session, \A r \in Session \ {s} : sessions'[r] = sessions[r],
         \A r \in Session \ {s} : sessions[r] # None => stores'[sessions[r]] = stores[sessions[r]]
  PROVE  Kept' = [Kept EXCEPT ![s] = KeptFor(s)']
<1>1. \A r \in Session \ {s} : KeptFor(r)' = KeptFor(r)
  BY DEF KeptFor
<1>2. Kept' = [r \in Session |-> KeptFor(r)'] /\ Kept = [r \in Session |-> KeptFor(r)]
  BY DEF Kept
<1> HIDE DEF Kept
<1> QED BY <1>1, <1>2

\* A session gets a new store.
LEMMA KeptOpened ==
  ASSUME CallsTyped, NEW s \in Session, NEW id \in StoreId \ Referred, NEW size \in Nat \ {0},
         sessions' = [sessions EXCEPT ![s] = id], Keep(With(stores, id, EmptyStore(size)))
  PROVE  Memory!Start(s)
<1> DEFINE heap == With(stores, id, EmptyStore(size))
<1>1. DOMAIN stores = Referred /\ sessions \in [Session -> StoreId \union {None}]
  BY DEF CallsTyped
<1>2. heap[id] = EmptyStore(size) /\ \A i \in Referred : heap[i] = stores[i]
  BY <1>1 DEF With
<1> HIDE DEF heap
<1>3. /\ \A i \in Referred' : stores'[i] = heap[i]
      /\ \A r \in Session : sessions'[r] # None => sessions'[r] \in Referred'
  BY HeapIs DEF heap
<1>4. sessions'[s] = id /\ id # None /\ \A r \in Session \ {s} : sessions'[r] = sessions[r]
  BY <1>1, ServerNoneAssumption
<1>5. \A r \in Session \ {s} : sessions[r] # None => stores'[sessions[r]] = stores[sessions[r]]
  BY <1>2, <1>3, <1>4, ReferredFacts
<1>6. KeptFor(s)' = Memory!Open(size)
  BY <1>2, <1>3, <1>4, EmptyRemembers DEF KeptFor
<1>7. Kept' = [Kept EXCEPT ![s] = Memory!Open(size)]
  BY <1>4, <1>5, <1>6, KeptOfOne
<1>8. Kept'[s] = Memory!Open(size)
  BY <1>6 DEF Kept
<1>9. Memory!Open(size).silo_size = size /\ Memory!Open(size) # Nothing
  BY DEF Memory!Open, Nothing
<1>10. Kept'[s] # Nothing /\ Kept'[s].silo_size \in Nat \ {0} /\ Kept' = [Kept EXCEPT ![s] = Memory!Open(Kept'[s].silo_size)]
  BY <1>7, <1>8, <1>9
<1> QED BY <1>10 DEF Memory!Start, Memory!Becomes, Kept, KeptFor

\* init opens the session anew, also when it was open.
LEMMA InitStarts ==
  ASSUME CallsTyped, NEW t \in Thread, NEW s \in Session, NEW size \in SiloSize, InitTool(t, s, size)
  PROVE  Memory!Start(s)
<1>1. DOMAIN stores = Referred /\ size \in Nat \ {0}
  BY SizeAssumption DEF CallsTyped
<1>2. PICK id \in StoreId \ Referred :
        sessions' = [sessions EXCEPT ![s] = id] /\ Keep(With(stores, id, EmptyStore(size)))
  BY <1>1 DEF InitTool, ResetStore
<1> QED BY <1>1, <1>2, KeptOpened

\* get_store opens a session that was closed, and is not noticed by one that is open.
LEMMA GetStarts ==
  ASSUME CallsTyped, NEW s \in Session, NEW got \in GetStore(s),
         sessions' = [sessions EXCEPT ![s] = got.id], Keep(got.heap)
  PROVE  Memory!Start(s) \/ UNCHANGED Kept
<1>1. DOMAIN stores = Referred /\ sessions \in [Session -> StoreId \union {None}]
  BY DEF CallsTyped
<1>2. CASE sessions[s] # None
  <2>1. got.id = sessions[s] /\ got.heap = stores
    BY <1>2 DEF GetStore
  <2>2. sessions' = sessions
    BY <1>1, <2>1
  <2>3. \A r \in Session : sessions[r] # None => stores'[sessions[r]] = stores[sessions[r]]
    BY <2>1, <2>2, HeapIs
  <2> QED BY <2>2, <2>3, KeptAlone
<1>3. CASE sessions[s] = None
  <2>1. PICK id \in StoreId \ Referred :
          got = [id |-> id, heap |-> With(stores, id, EmptyStore(DefaultSize))]
    BY <1>1, <1>3 DEF GetStore
  <2>2. got.id = id /\ got.heap = With(stores, id, EmptyStore(DefaultSize))
    BY <2>1
  <2> QED BY <2>2, SizeAssumption, KeptOpened
<1> QED BY <1>2, <1>3

\* flush closes the session.
LEMMA FlushEnds ==
  ASSUME CallsTyped, NEW t \in Thread, NEW s \in Session, FlushTool(t, s)
  PROVE  Memory!End(s)
<1>1. sessions' = [sessions EXCEPT ![s] = None] /\ Keep(stores)
  BY DEF FlushTool, DropStore
<1>2. sessions'[s] = None /\ \A r \in Session \ {s} : sessions'[r] = sessions[r]
  BY <1>1 DEF CallsTyped
<1>3. \A r \in Session \ {s} : sessions[r] # None => stores'[sessions[r]] = stores[sessions[r]]
  BY <1>1, <1>2, HeapIs
<1>4. KeptFor(s)' = Nothing
  BY <1>2 DEF KeptFor
<1>5. Kept' = [Kept EXCEPT ![s] = Nothing]
  BY <1>2, <1>3, <1>4, KeptOfOne
<1> QED BY <1>5 DEF Memory!End, Memory!Becomes, Kept, KeptFor

\* The store of a call changes; so does the list of the one session that has it.
LEMMA KeptOfStore ==
  ASSUME Served, NEW id \in Referred, NEW store, sessions' = sessions,
         Keep([stores EXCEPT ![id] = store])
  PROVE  \/ UNCHANGED Kept
         \/ \E s \in Session : /\ sessions[s] = id /\ Kept[s] = Remembers(stores[id]) /\ Kept[s] # Nothing
                               /\ Kept' = [Kept EXCEPT ![s] = Remembers(store)]
<1>1. DOMAIN stores = Referred /\ id # None /\ Good(stores[id])
  BY GoodStoreFacts, ReferredFacts DEF Served, Typed, CallsTyped
<1> DEFINE heap == [stores EXCEPT ![id] = store]
<1>2. heap[id] = store /\ \A i \in Referred \ {id} : heap[i] = stores[i]
  BY <1>1
<1> HIDE DEF heap
<1>3. \A s \in Session : sessions[s] # None => sessions[s] \in Referred /\ stores'[sessions[s]] = heap[sessions[s]]
  BY HeapIs, ReferredFacts DEF heap
<1>4. CASE \A s \in Session : sessions[s] # id
  BY <1>2, <1>3, <1>4, KeptAlone
<1>5. ASSUME NEW s \in Session, sessions[s] = id
      PROVE  /\ Kept[s] = Remembers(stores[id]) /\ Kept[s] # Nothing
             /\ Kept' = [Kept EXCEPT ![s] = Remembers(store)]
  <2>1. Kept[s] = Remembers(stores[id])
    BY <1>1, <1>5 DEF Kept, KeptFor
  <2>2. Kept[s] # Nothing
    BY <1>1, <2>1, StoreFacts DEF Good, Remembers, Nothing
  <2>3. \A r \in Session \ {s} : sessions[r] # None => stores'[sessions[r]] = stores[sessions[r]]
    <3> TAKE r \in Session \ {s}
    <3>1. sessions[r] # None => sessions[r] # id
      BY <1>5 DEF Served, Apart
    <3> QED BY <1>2, <1>3, <3>1
  <2>4. KeptFor(s)' = Remembers(store)
    BY <1>1, <1>2, <1>3, <1>5 DEF KeptFor
  <2> QED BY <2>1, <2>2, <2>3, <2>4, KeptOfOne
<1> QED BY <1>4, <1>5

\* The second step of a set writes the list of the session that has its store, if any still does.
LEMMA SetWritesList ==
  ASSUME Served, NEW t \in Thread, SetStores(t)
  PROVE  Memory!Next \/ UNCHANGED Kept
<1> DEFINE c == calls[t]
           id == c.store
           store == Stored(stores[id], c.key, c.value)
<1>1. c.tool = "set" /\ c.at = "store" /\ sessions' = sessions /\ Keep([stores EXCEPT ![id] = store])
  BY DEF SetStores, At
<1>2. /\ id \in Referred /\ c.key \in Key /\ c.value \in Value /\ Good(stores[id])
  BY <1>1, ReferredFacts, ServerNoneAssumption, GoodStoreFacts DEF Served, Typed, CallsTyped, CallOK
<1>3. Remembers(store) = Memory!InFront(Remembers(stores[id]), c.key, c.value)
  BY <1>2, StoredRemembers
<1> HIDE DEF store, id
<1>4. CASE UNCHANGED Kept
  BY <1>4
<1>5. ASSUME NEW s \in Session, sessions[s] = id, Kept[s] = Remembers(stores[id]), Kept[s] # Nothing,
             Kept' = [Kept EXCEPT ![s] = Remembers(store)]
      PROVE  Memory!Write(s)
  <2> DEFINE key == c.key
             value == c.value
  <2>1. /\ key \in Key /\ value \in Value
        /\ Kept' = [Kept EXCEPT ![s] = Memory!InFront(Kept[s], key, value)]
    BY <1>2, <1>3, <1>5
  <2> HIDE DEF key, value
  <2> QED BY <1>5, <2>1 DEF Memory!Write, Memory!Becomes, Kept, KeptFor
<1> QED BY <1>1, <1>2, <1>4, <1>5, KeptOfStore DEF Memory!Next

\* A look in the store uses the entry that it finds, in the list of the session that has the store.
LEMMA LookUses ==
  ASSUME Served, NEW t \in Thread, NEW tool \in {"peek", "context"}, NEW next, LooksInStore(t, tool, next)
  PROVE  Memory!Next \/ UNCHANGED Kept
<1> DEFINE c == calls[t]
           id == c.store
           store == Peeked(stores[id], c.key)
<1>1. c.tool = tool /\ c.at = "store" /\ sessions' = sessions /\ Keep([stores EXCEPT ![id] = store])
  BY DEF LooksInStore, At
<1>2. id \in Referred /\ c.key \in Key /\ Good(stores[id])
  BY <1>1, ReferredFacts, ServerNoneAssumption, GoodStoreFacts DEF Served, Typed, CallsTyped, CallOK
<1>3. CASE c.key \in Held(stores[id])
  <2>1. \E i \in DOMAIN Remembers(stores[id]).recent :
          Remembers(store) = Memory!InFront(Remembers(stores[id]), Remembers(stores[id]).recent[i].key,
                                            Remembers(stores[id]).recent[i].value)
    BY <1>2, <1>3, PeekedRemembers
  <2> HIDE DEF store, id
  <2>2. ASSUME NEW s \in Session, sessions[s] = id, Kept[s] = Remembers(stores[id]), Kept[s] # Nothing,
               Kept' = [Kept EXCEPT ![s] = Remembers(store)]
        PROVE  Memory!Use(s)
    <3>1. \E i \in DOMAIN Kept[s].recent :
            Kept' = [Kept EXCEPT ![s] = Memory!InFront(Kept[s], Kept[s].recent[i].key, Kept[s].recent[i].value)]
      BY <2>1, <2>2
    <3> QED BY <2>2, <3>1 DEF Memory!Use, Memory!Becomes, Kept, KeptFor
  <2> QED BY <1>1, <1>2, <2>2, KeptOfStore DEF Memory!Next
<1>4. CASE c.key \notin Held(stores[id])
  <2>1. store = stores[id]
    BY <1>4 DEF Peeked
  <2>2. \A i \in Referred : [stores EXCEPT ![id] = store][i] = stores[i]
    BY <1>2, <2>1 DEF Served, Typed, CallsTyped
  <2>3. \A s \in Session : sessions[s] # None => stores'[sessions[s]] = stores[sessions[s]]
    BY <1>1, <2>2, HeapIs, ReferredFacts
  <2> QED BY <1>1, <2>3, KeptAlone
<1> QED BY <1>3, <1>4

\* Every step of the server is one of SessionMemory or changes no list.
LEMMA StepKeepsMemory ==
  ASSUME Served, Step
  PROVE  Memory!Next \/ UNCHANGED Kept
<1>1. CallsTyped
  BY DEF Served, Typed
<1>2. ASSUME UNCHANGED <<sessions, stores>> PROVE UNCHANGED Kept
  BY <1>2, KeptAlone
<1>3. ASSUME NEW t \in Thread, NEW s \in Session, NEW tool, NEW key, NEW value, NEW asked,
             TakesStore(t, tool, s, key, value, asked)
      PROVE  Memory!Start(s) \/ UNCHANGED Kept
  <2>1. PICK got \in GetStore(s) : sessions' = [sessions EXCEPT ![s] = got.id] /\ Keep(got.heap)
    BY <1>3 DEF TakesStore
  <2> QED BY <1>1, <2>1, GetStarts
<1>4. ASSUME NEW t \in Thread, ShortTermTools(t)
      PROVE  Memory!Next \/ UNCHANGED Kept
  <2>1. ASSUME NEW s \in Session, NEW size \in SiloSize, InitTool(t, s, size)
        PROVE  Memory!Start(s)
    BY <1>1, <2>1, InitStarts
  <2>2. ASSUME NEW s \in Session, FlushTool(t, s)
        PROVE  Memory!End(s)
    BY <1>1, <2>2, FlushEnds
  <2>3. ASSUME NEW s \in Session, StatusTool(t, s)
        PROVE  Memory!Start(s) \/ UNCHANGED Kept
    <3>1. PICK got \in GetStore(s) : sessions' = [sessions EXCEPT ![s] = got.id] /\ Keep(got.heap)
      BY <2>3 DEF StatusTool
    <3> QED BY <1>1, <3>1, GetStarts
  <2>4. CASE InitNotes(t) \/ FlushNotes(t) \/ PeekRegistry(t)
    BY <1>2, <2>4 DEF InitNotes, FlushNotes, PeekRegistry
  <2>5. CASE SetStores(t) \/ PeekStore(t)
    BY <2>5, SetWritesList, LookUses DEF PeekStore
  <2> QED BY <1>3, <1>4, <2>1, <2>2, <2>3, <2>4, <2>5 DEF ShortTermTools, Memory!Next
<1>5. ASSUME NEW t \in Thread, LongTermTools(t)
      PROVE  Memory!Next \/ UNCHANGED Kept
  <2>1. ASSUME NEW s \in Session, NEW node \in Node, UpsertTool(t, s, node) \/ PromoteTool(t, s, node)
        PROVE  UNCHANGED Kept
    BY <1>2, <2>1 DEF UpsertTool, PromoteTool
  <2>2. ASSUME NEW s \in Session, PruneTool(t, s)
        PROVE  UNCHANGED Kept
    BY <1>2, <2>2 DEF PruneTool
  <2>3. CASE ContextStore(t)
    BY <2>3, LookUses DEF ContextStore
  <2>4. CASE ContextLabel(t) \/ ContextSearch(t)
    BY <1>2, <2>4 DEF ContextLabel, ContextSearch
  <2> QED BY <1>3, <1>5, <2>1, <2>2, <2>3, <2>4 DEF LongTermTools, Memory!Next
<1>6. ASSUME NEW t \in Thread, Returns(t) PROVE UNCHANGED Kept
  BY <1>2, <1>6 DEF Returns
<1>7. ASSUME NEW key \in Awaited, Register(key) \/ Resolve(key) PROVE UNCHANGED Kept
  BY <1>2, <1>7 DEF Register, Resolve
<1> QED BY <1>4, <1>5, <1>6, <1>7 DEF Step

\* KeepsSessionMemory: whatever tools run in whichever threads, what a session
\* remembers is a list of at most silo_size entries in order of their last use,
\* and every step of the server opens or closes one session, uses or writes one
\* entry of one session as SessionMemory says, or changes no list.
THEOREM MemoryIsKept == Spec => KeepsSessionMemory
<1>1. Init => Memory!Init
  <2> SUFFICES ASSUME Init PROVE Memory!Init
    OBVIOUS
  <2>1. \A s \in Session : sessions[s] = None
    BY DEF Init
  <2>2. Kept = [s \in Session |-> Nothing]
    BY <2>1 DEF Kept, KeptFor
  <2> QED BY <2>2 DEF Memory!Init, Kept, KeptFor
<1>2. Served /\ [Next]_vars => Memory!Next \/ UNCHANGED Kept
  <2>1. ASSUME Served, Next PROVE Memory!Next \/ UNCHANGED Kept
    BY <2>1, StepKeepsMemory DEF Next
  <2>2. ASSUME UNCHANGED vars PROVE UNCHANGED Kept
    BY <2>2, KeptAlone DEF vars
  <2> QED BY <2>1, <2>2
<1>3. Spec => []Served
  BY ServedInit, ServedNext, PTL DEF Spec
<1>4. Served /\ [Next]_vars =>
        [Memory!Next]_([s \in Session |-> IF sessions[s] = None THEN Nothing
                                         ELSE Remembers(stores[sessions[s]])])
  BY <1>2 DEF Kept, KeptFor
<1> QED BY <1>1, <1>3, <1>4, PTL DEF Spec, KeepsSessionMemory, Memory!Spec

=============================================================================
