-------------------------------- MODULE Silo --------------------------------
(***************************************************************************)
(* The memory silo of src/PMLL.c as operators on its state: silo_set with   *)
(* its allocation failures, update_silo with the propagation over the       *)
(* integer tree, and the two peeks.  The C functions run to completion and  *)
(* call nothing back, so each is one step of the modules that use it.       *)
(*                                                                          *)
(* A silo is a record [slots, slot_count, tree].  The embedding of a slot is *)
(* computed from its content by the call that stores the content, and is    *)
(* represented by it.                                                       *)
(***************************************************************************)
EXTENDS Integers, FiniteSets

CONSTANTS
  Size,          \* the size given to init_silo
  Key,
  Content,
  NULL,          \* the C NULL
  Failing,       \* allocations of silo_set that may fail
  Similarity(_, _), \* the cosine of a query and a content, on an integer scale
  MinSim         \* min_sim on that scale

ASSUME SizeAssumption == Size \in Nat \ {0}
ASSUME NullAssumption == NULL \notin Key \union Content
ASSUME SiloFailingAssumption == Failing \subseteq {"key", "content"}

Index == 0 .. Size - 1
Node  == 0 .. 2 * Size - 1

Slot == [key : Key \union {NULL}, content : Content \union {NULL}, resolved : BOOLEAN]

EmptySlot == [key |-> NULL, content |-> NULL, resolved |-> FALSE]

EmptySilo == [slots      |-> [i \in Index |-> EmptySlot],
              slot_count |-> 0,
              tree       |-> [n \in Node |-> 0]]

Resolved(s) == {i \in Index : s.slots[i].resolved}

-----------------------------------------------------------------------------
(* The integer tree *)

\* floor(log2 size), at least 1
MaxDepth ==
  IF Size = 1 THEN 1
  ELSE CHOOSE d \in 1 .. Size : 2^d <= Size /\ Size < 2^(d + 1)

Children(n) == (IF n = 0 THEN {1, 2} ELSE {2 * n, 2 * n + 1}) \intersect Node

\* The nodes propagate_forward reaches from n.
Below(n) ==
  LET level[d \in 0 .. MaxDepth] ==
        IF d = 0 THEN {n} ELSE UNION {Children(m) : m \in level[d - 1]}
  IN  UNION {level[d] : d \in 1 .. MaxDepth}

\* The nodes propagate_backward reaches: it stops below the root.
Above(n) == {n \div 2^d : d \in 1 .. MaxDepth - 1} \ {0}

UpdateTree(tree, n, value) ==
  [m \in Node |-> IF m \in {n} \union Below(n) \union Above(n) THEN value ELSE tree[m]]

-----------------------------------------------------------------------------
(* peek and peek_semantic: the index of the slot that answers, or -1 *)

Least(S) == CHOOSE i \in S : \A j \in S : i <= j

FirstOf(S) == IF S = {} THEN -1 ELSE Least(S)

HasKey(s, key) == {i \in Resolved(s) : s.slots[i].key = key}

Peek(s, key) == FirstOf(HasKey(s, key))

PeekSemantic(s, query) ==
  FirstOf({i \in Resolved(s) :
             /\ Similarity(query, s.slots[i].content) >= MinSim
             /\ \A j \in Resolved(s) :
                  Similarity(query, s.slots[j].content)
                    <= Similarity(query, s.slots[i].content)})

-----------------------------------------------------------------------------
(* silo_set *)

Fails(site) == IF site \in Failing THEN BOOLEAN ELSE {FALSE}

FreeSlot(s) == FirstOf(Index \ Resolved(s))

\* The key and the content the slot held are freed first; without memory for
\* the new content the slot is emptied, and slot_count stays.
Emptied(s, i) == [s EXCEPT !.slots[i] = EmptySlot]

Written(s, i, key, content) ==
  [slots      |-> [s.slots EXCEPT ![i] = [key |-> key, content |-> content, resolved |-> TRUE]],
   slot_count |-> IF s.slots[i].resolved THEN s.slot_count ELSE s.slot_count + 1,
   tree       |-> UpdateTree(s.tree, i, 1)]

\* What silo_set may do: the silo it leaves and the index it returns (-1 for
\* failure).  A key that cannot be copied is silently NULL.
SiloSet(s, index, key, content) ==
  LET i == IF index < 0 THEN FreeSlot(s) ELSE index
  IN  IF i \notin Index THEN {[silo |-> s, ret |-> -1]}
      ELSE {[silo |-> Written(s, i, IF lost THEN NULL ELSE key, content), ret |-> i] :
              lost \in Fails("key")}
           \union {[silo |-> Emptied(s, i), ret |-> -1] : failed \in Fails("content") \ {FALSE}}

-----------------------------------------------------------------------------
(* What a silo should satisfy *)

SiloType ==
  [slots      : [Index -> Slot],
   slot_count : Nat,
   tree       : [Node -> Int]]

\* PMLL.h: slot_count is the "number of resolved semantic slots".
CountsResolved(s) == s.slot_count = Cardinality(Resolved(s))

\* No two resolved slots share a key, so the first hit of peek is the only one.
KeysUnique(s) ==
  \A i, j \in Resolved(s) :
    s.slots[i].key = s.slots[j].key /\ s.slots[i].key # NULL => i = j

=============================================================================
