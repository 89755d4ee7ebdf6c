------------------------------- MODULE KVStore -------------------------------
(***************************************************************************)
(* PMMemoryStore of src/mcp/pmll_memory_mcp/kv_store.py as operators on its *)
(* state: a bounded map from keys to values with least-recently-used        *)
(* eviction.  Every method holds the lock of the store from end to end, so  *)
(* each is one step of the module that uses it.  The field resolved of a    *)
(* slot is TRUE from its birth and is left out; so is flush, which only the *)
(* tests call.                                                              *)
(***************************************************************************)
EXTENDS Integers, FiniteSets

CONSTANTS Key, Value

Slot == [value : Value, index : Nat, last_accessed : Nat]

\* slots is a map: a key is stored when it is in the domain.
EmptyStore(silo_size) ==
  [silo_size  |-> silo_size,
   slots      |-> [k \in {} |-> 0],
   next_index |-> 0,
   access_seq |-> 0]

Held(store) == DOMAIN store.slots

\* _touch: the access sequence grows with every use.
Touched(store, key, value) ==
  [store EXCEPT !.access_seq = @ + 1,
                !.slots[key].value = value,
                !.slots[key].last_accessed = store.access_seq + 1]

Peeked(store, key) ==
  IF key \in Held(store) THEN Touched(store, key, store.slots[key].value) ELSE store

IsLru(store, key) ==
  \A k \in Held(store) : store.slots[key].last_accessed <= store.slots[k].last_accessed

\* Seeded fault: the entry inserted first is evicted, however often it is used.
Oldest(store) ==
  CHOOSE key \in Held(store) :
    \A k \in Held(store) : store.slots[key].index <= store.slots[k].index

Lru(store) == CHOOSE key \in Held(store) : IsLru(store, key)

\* Seeded fault: the size is compared after the insertion would have grown it.
RoomLate(store) ==
  IF Cardinality(Held(store)) <= store.silo_size THEN Held(store)
  ELSE Held(store) \ {Lru(store)}

\* _evict_lru when the silo is full: the keys that stay.
Room(store) ==
  IF Cardinality(Held(store)) < store.silo_size THEN Held(store)
  ELSE Held(store) \ {Lru(store)}

Inserted(store, key, value) ==
  [store EXCEPT !.slots = [k \in Room(store) \union {key} |->
                             IF k = key THEN [value |-> value, index |-> store.next_index,
                                              last_accessed |-> store.access_seq + 1]
                             ELSE store.slots[k]],
                !.next_index = @ + 1,
                !.access_seq = @ + 1]

\* set
Stored(store, key, value) ==
  IF key \in Held(store) THEN Touched(store, key, value) ELSE Inserted(store, key, value)

-----------------------------------------------------------------------------
(* What a store should satisfy *)

StoreType(store) ==
  /\ store.silo_size \in Nat \ {0}
  /\ store.next_index \in Nat /\ store.access_seq \in Nat
  /\ Held(store) \subseteq Key
  /\ store.slots \in [Held(store) -> Slot]

\* The store never exceeds its size; the index it reported for a key names that
\* key only; and no two keys were used at the same time, so the victim of an
\* eviction is determined.
StoreSound(store) ==
  /\ Cardinality(Held(store)) <= store.silo_size
  /\ \A k \in Held(store) : /\ store.slots[k].index < store.next_index
                            /\ store.slots[k].last_accessed <= store.access_seq
  /\ \A j, k \in Held(store) :
       \/ store.slots[j].index = store.slots[k].index
       \/ store.slots[j].last_accessed = store.slots[k].last_accessed
       => j = k

=============================================================================
