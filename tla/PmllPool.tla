------------------------------ MODULE PmllPool ------------------------------
(***************************************************************************)
(* The memory pool server of src/Ppm-lib/pmll_mcp: the tools of             *)
(* pmll_mcp_server.py over the MemoryController of pmll_core.py.             *)
(*                                                                          *)
(* The tools run in worker threads.  A write is queued; memory_process, and *)
(* q_promise_write at its end, take the whole queue under the lock of the   *)
(* controller, let the lock go, and commit what they took under the lock    *)
(* again: writes, clears and other processes fit in between.                *)
(*                                                                          *)
(* _get_mc gives the controller no store directory, and nobody else makes   *)
(* one: the pool is in memory only.                                         *)
(*                                                                          *)
(* A write is known by its number: what it stores is told apart by nothing  *)
(* else.                                                                    *)
(***************************************************************************)
EXTENDS Integers, Sequences, FiniteSets, Functions

CONSTANTS
  Thread,
  Nothing,
  Pid,          \* the promise identifiers given to memory_write
  PoolSize,     \* pool_size
  ChainLength,  \* the chain length given to q_promise_write
  MaxWrites     \* bound on the writes queued

ASSUME PidAssumption == Pid \subseteq Int
ASSUME PoolSizeAssumption == PoolSize \in Nat \ {0}
ASSUME ChainAssumption == ChainLength \in Nat \ {0} /\ MaxWrites \in Nat
ASSUME PoolNoneAssumption == Nothing \notin Thread \union Int

VARIABLES
  mc,      \* _mc: the controller, named by the thread that made it, or Nothing
  queue,   \* of every controller, _promise_queue
  pool,    \* of every controller, _pool: the write in each slot, or Nothing
  calls,   \* of every thread, the tool it runs and how far it is
  writes,  \* history: the writes queued so far
  fate,    \* history: what became of each of them
  passed,  \* history: the threads whose batch another one has overtaken
  mixed    \* history: the slots last stored in from a batch that was overtaken

pool_vars    == <<mc, queue, pool, calls>>
history_vars == <<writes, fate, passed, mixed>>
poolVars     == <<pool_vars, history_vars>>

Slot == 0 .. PoolSize - 1

\* Promise: its pid and whether it has a time to live.  Time passes as it
\* likes, so a promise with one has expired whenever it is looked at, or not.
Promise == [pid : Int, ttl : BOOLEAN]

\* PythonBackend.phi
phi(pid) == pid % PoolSize

SlotOf(i) == phi(writes[i].pid)

NotRunning == [at |-> "idle", mc |-> Nothing, index |-> 0, batch |-> << >>]

-----------------------------------------------------------------------------
(* Every tool begins with _get_mc; which one it is shows afterwards *)

\* The first look at _mc, without _mc_lock.
GetMc(t) ==
  /\ calls[t].at = "idle"
  /\ calls' = [calls EXCEPT ![t].at = IF mc = Nothing THEN "create" ELSE "run", ![t].mc = mc]
  /\ UNCHANGED <<mc, queue, pool, history_vars>>

\* Fault for the mutants: _mc is not looked at again under the lock.
CreateMcAnyway(t) ==
  /\ calls[t].at = "create"
  /\ mc' = t
  /\ calls' = [calls EXCEPT ![t].at = "run", ![t].mc = mc']
  /\ UNCHANGED <<queue, pool, history_vars>>

\* Under _mc_lock: another thread may have made the controller meanwhile.
CreateMc(t) ==
  /\ calls[t].at = "create"
  /\ mc' = IF mc = Nothing THEN t ELSE mc
  /\ calls' = [calls EXCEPT ![t].at = "run", ![t].mc = mc']
  /\ UNCHANGED <<queue, pool, history_vars>>

-----------------------------------------------------------------------------
(* Writes *)

\* MemoryController.write
Queued(t, pid, ttl) ==
  /\ Len(writes) < MaxWrites
  /\ queue' = [queue EXCEPT ![calls[t].mc] = Append(@, Len(writes) + 1)]
  /\ writes' = Append(writes, [pid |-> pid, ttl |-> ttl])
  /\ fate' = Append(fate, "pending")
  /\ UNCHANGED <<mc, pool, passed, mixed>>

\* memory_write
MemoryWrite(t) ==
  /\ calls[t].at = "run"
  /\ \E pid \in Pid, ttl \in BOOLEAN : Queued(t, pid, ttl)
  /\ calls' = [calls EXCEPT ![t] = NotRunning]

\* A turn of the loop of q_promise_write: the promise of this index is made,
\* its value queued, its reference dropped.
ChainWrite(t) ==
  /\ calls[t].at \in {"run", "chain"} /\ calls[t].index < ChainLength
  /\ Queued(t, calls[t].index, TRUE)
  /\ calls' = [calls EXCEPT ![t].at = "chain", ![t].index = @ + 1]

\* The promise cannot be allocated: q_promise_write answers an error, what it
\* has queued stays queued.
ChainFails(t) ==
  /\ calls[t].at \in {"run", "chain"} /\ calls[t].index < ChainLength
  /\ calls' = [calls EXCEPT ![t] = NotRunning]
  /\ UNCHANGED <<mc, queue, pool, history_vars>>

-----------------------------------------------------------------------------
(* process_promises, of memory_process and at the end of q_promise_write *)

\* The first section: the queue is taken.
TakeQueue(t) ==
  /\ calls[t].at = "run" \/ (calls[t].at = "chain" /\ calls[t].index = ChainLength)
  /\ calls' = [calls EXCEPT ![t].at = "commit", ![t].batch = queue[calls[t].mc]]
  /\ queue' = [queue EXCEPT ![calls[t].mc] = << >>]
  /\ UNCHANGED <<mc, pool, history_vars>>

\* The places in a batch of the writes that are stored in slot s: not the late
\* ones.
StoredIn(batch, late, s) == {k \in DOMAIN batch : batch[k] \notin late /\ SlotOf(batch[k]) = s}

\* Fault for the mutants: the batch is worked off from its end.
FirstAt(batch, late, s, old) ==
  LET here == StoredIn(batch, late, s)
  IN  IF here = {} THEN old ELSE batch[CHOOSE k \in here : \A j \in here : k <= j]

\* What slot s holds after a batch has been stored, one after the other.
LastAt(batch, late, s, old) ==
  LET here == StoredIn(batch, late, s)
  IN  IF here = {} THEN old ELSE batch[CHOOSE k \in here : \A j \in here : j <= k]

Expirable(batch) == {i \in Range(batch) : writes[i].ttl}

\* The second section: all of the batch is committed, but what has expired.
CommitBatch(t) ==
  /\ calls[t].at = "commit"
  /\ \E batch \in {calls[t].batch} :
       \E late \in SUBSET Expirable(batch) :
         /\ pool' = [pool EXCEPT ![calls[t].mc] = [s \in Slot |-> LastAt(batch, late, s, @[s])]]
         /\ fate' = [i \in DOMAIN fate |->
                       IF i \notin Range(batch) THEN fate[i]
                       ELSE IF i \in late THEN "expired" ELSE "committed"]
         /\ mixed' = LET slots == {s \in Slot : StoredIn(batch, late, s) # {}}
                     IN  IF t \in passed THEN mixed \union slots ELSE mixed \ slots
  /\ passed' = ({u \in Thread : calls[u].at = "commit"} \union passed) \ {t}
  /\ calls' = [calls EXCEPT ![t] = NotRunning]
  /\ UNCHANGED <<mc, queue, writes>>

-----------------------------------------------------------------------------
(* The other tools *)

\* memory_clear: the pool and the queue
MemoryClear(t) ==
  /\ calls[t].at = "run"
  /\ pool' = [pool EXCEPT ![calls[t].mc] = [s \in Slot |-> Nothing]]
  /\ queue' = [queue EXCEPT ![calls[t].mc] = << >>]
  /\ fate' = [i \in DOMAIN fate |->
                IF fate[i] = "committed" \/ i \in Range(queue[calls[t].mc]) THEN "cleared"
                ELSE fate[i]]
  /\ calls' = [calls EXCEPT ![t] = NotRunning]
  /\ mixed' = {}
  /\ UNCHANGED <<mc, writes, passed>>

\* memory_read, memory_utilization, memory_snapshot: they may have made the
\* controller, and change nothing else.
MemoryRead(t) ==
  /\ calls[t].at = "run"
  /\ calls' = [calls EXCEPT ![t] = NotRunning]
  /\ UNCHANGED <<mc, queue, pool, history_vars>>

-----------------------------------------------------------------------------

PoolInit ==
  /\ mc = Nothing
  /\ queue = [t \in Thread |-> << >>]
  /\ pool = [t \in Thread |-> [s \in Slot |-> Nothing]]
  /\ calls = [t \in Thread |-> NotRunning]
  /\ writes = << >>
  /\ fate = << >>
  /\ passed = {} /\ mixed = {}

ToolStep(t) ==
  \/ GetMc(t) \/ CreateMc(t)
  \/ MemoryWrite(t) \/ ChainWrite(t) \/ ChainFails(t)
  \/ TakeQueue(t) \/ CommitBatch(t)
  \/ MemoryClear(t) \/ MemoryRead(t)

PoolNext == \E t \in Thread : ToolStep(t)

PoolSpec == PoolInit /\ [][PoolNext]_poolVars

-----------------------------------------------------------------------------
(* Properties *)

\* The variables have their types.
PoolTypeOK ==
  /\ mc \in Thread \union {Nothing}
  /\ writes \in Seq(Promise)
  /\ fate \in [1 .. Len(writes) -> {"pending", "committed", "expired", "cleared"}]
  /\ queue \in [Thread -> Seq(1 .. Len(writes))]
  /\ pool \in [Thread -> [Slot -> (1 .. Len(writes)) \union {Nothing}]]
  /\ calls \in [Thread -> [at : {"idle", "create", "run", "chain", "commit"}, mc : Thread \union {Nothing},
                           index : 0 .. ChainLength, batch : Seq(1 .. Len(writes))]]
  /\ passed \subseteq Thread /\ mixed \subseteq Slot

Injective(seq) == \A j, k \in DOMAIN seq : seq[j] = seq[k] => j = k

\* Where writes wait: the queue of the one controller, and the batch of a thread.
Places == Thread \union {Nothing}

Place(u) ==
  IF u # Nothing THEN calls[u].batch
  ELSE IF mc = Nothing THEN << >>
  ELSE queue[mc]

\* No write is lost and none is worked off twice, whichever threads take the
\* queue while others write: it waits in the queue of the one controller, or
\* one thread has it in its batch, until it is committed, has expired, or a
\* clear drops it.
WritesAccounted ==
  /\ {i \in DOMAIN fate : fate[i] = "pending"} = UNION {Range(Place(u)) : u \in Places}
  /\ \A u, v \in Places : u # v => Range(Place(u)) \intersect Range(Place(v)) = {}
  /\ \A u \in Places : Injective(Place(u))

\* The writes of slot s that were committed since the last clear.
Committed(s) ==
  {i \in DOMAIN fate : fate[i] = "committed" /\ SlotOf(i) = s}

\* A slot holds a write committed to it since the last clear, if there is one,
\* and the newest of them, unless the batch that stored it was overtaken: a
\* process call that takes the queue first may commit last.
NewestWins ==
  mc # Nothing =>
    \A s \in Slot :
      IF Committed(s) = {} THEN pool[mc][s] = Nothing
      ELSE /\ pool[mc][s] \in Committed(s)
           /\ s \notin mixed => \A i \in Committed(s) : i <= pool[mc][s]

=============================================================================
