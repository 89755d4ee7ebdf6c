---------------------------- MODULE SessionMemory ----------------------------
(***************************************************************************)
(* What the short-term memory promises an agent, whatever calls are in      *)
(* flight: each session is closed, or open with a list of at most silo_size *)
(* entries in order of their last use.  A use moves an entry to the front,  *)
(* a write puts it there and what no longer fits falls off the end; nothing *)
(* else changes what a session remembers.                                   *)
(***************************************************************************)
EXTENDS Integers, SequencesExt

CONSTANTS Session, Key, Value, Closed

VARIABLE memory

Open(size) == [silo_size |-> size, recent |-> <<>>]

\* A list has one entry of a key at most.
Without(recent, key) ==
  LET places == {i \in DOMAIN recent : recent[i].key = key}
  IN  IF places = {} THEN recent ELSE RemoveAt(recent, CHOOSE i \in places : TRUE)

InFront(m, key, value) ==
  LET longer == <<[key |-> key, value |-> value]>> \o Without(m.recent, key)
  IN  [m EXCEPT !.recent = SubSeq(longer, 1, IF Len(longer) < m.silo_size THEN Len(longer)
                                             ELSE m.silo_size)]

Becomes(s, m) == memory' = [memory EXCEPT ![s] = m]

\* Any size will do; the size is read off the step, where TLC finds it.
Start(s) ==
  /\ memory'[s] # Closed /\ memory'[s].silo_size \in Nat \ {0}
  /\ Becomes(s, Open(memory'[s].silo_size))

End(s) == Becomes(s, Closed)

Use(s) ==
  /\ memory[s] # Closed
  /\ \E i \in DOMAIN memory[s].recent :
       Becomes(s, InFront(memory[s], memory[s].recent[i].key, memory[s].recent[i].value))

Write(s) ==
  /\ memory[s] # Closed
  /\ \E key \in Key, value \in Value : Becomes(s, InFront(memory[s], key, value))

Init == memory = [s \in Session |-> Closed]

Next == \E s \in Session : Start(s) \/ End(s) \/ Use(s) \/ Write(s)

Spec == Init /\ [][Next]_memory
=============================================================================
