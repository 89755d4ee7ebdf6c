------------------------------ MODULE McpServer ------------------------------
(***************************************************************************)
(* The tools of the MCP memory server, src/mcp/pmll_memory_mcp/server.py,   *)
(* with the session stores of kv_store.py, the guard of peek.py, the        *)
(* promise registry of q_promise_bridge.py and the tiers of                 *)
(* solution_engine.py.                                                      *)
(*                                                                          *)
(* The tools run in worker threads.  Each component has a lock of its own   *)
(* that a tool takes once per operation, so a tool is a sequence of atomic  *)
(* operations with other tools between them, and it works on the store it   *)
(* was given at its start even if the session has been flushed since.       *)
(***************************************************************************)
EXTENDS KVStore

CONSTANTS
  Thread, Session,
  StoreId,      \* identities of PMMemoryStore objects
  None,
  SiloSize,     \* the sizes given to init
  DefaultSize,  \* the size of a store made by get_store
  Structured,   \* keys with a prefix of STRUCTURED_KEY_PREFIXES
  Awaited,      \* keys for which the hosting code registers promises
  NodeType,
  Tools(_),     \* the tools a thread is given: any, in the code
  MaxSeq        \* bound on the access sequence of a store

ASSUME StructuredAssumption == Structured \subseteq Key /\ Awaited \subseteq Key
ASSUME SizeAssumption == SiloSize \subseteq Nat \ {0} /\ DefaultSize \in Nat \ {0}
ASSUME ServerNoneAssumption == None \notin StoreId \union Key \union Value \union Session
ASSUME MaxSeqAssumption == MaxSeq \in Nat

VARIABLES
  sessions,  \* _session_stores: the store of a session, or None
  stores,    \* the store objects that a session or a call refers to
  active,    \* _active_sessions: the size given at init, or None
  promises,  \* QPromiseRegistry._promises: the status of each id
  longTerm,  \* of every session, the nodes of the memory graph
  calls,     \* of every thread, the tool it runs, how far it is, its locals
  overtaken, \* history: the session was closed or reopened since the call began
  gap        \* history: what the call looks for was missing at some moment

vars == <<sessions, stores, active, promises, longTerm, calls, overtaken, gap>>

Node == [type : NodeType, label : Key]  \* what it says is not looked at

Idle == [tool |-> "none", at |-> "idle", session |-> None, key |-> None, value |-> None,
         asked |-> "default", store |-> None, answer |-> "none"]

\* Only answers that matter later are kept until the caller takes them.
Answered(call, kind) == [call EXCEPT !.at = "done", !.store = None, !.answer = kind]

-----------------------------------------------------------------------------
(* The session stores *)

\* Objects nobody refers to any more are collected.
Keep(heap) ==
  stores' = [id \in ({sessions'[s] : s \in Session}
                       \union {calls'[t].store : t \in Thread}) \ {None} |-> heap[id]]

With(heap, id, store) == [i \in DOMAIN heap \union {id} |-> IF i = id THEN store ELSE heap[i]]

\* get_store: the store of the session, made now if it has none, and all stores
\* with it.
GetStore(s) ==
  IF sessions[s] # None THEN {[id |-> sessions[s], heap |-> stores]}
  ELSE {[id |-> id, heap |-> With(stores, id, EmptyStore(DefaultSize))] : id \in StoreId \ DOMAIN stores}

\* Seeded fault: the store is emptied in place and stays the session's.
DropStoreInPlace(s) ==
  /\ sessions' = sessions
  /\ IF sessions[s] = None THEN Keep(stores)
     ELSE Keep(With(stores, sessions[s], EmptyStore(stores[sessions[s]].silo_size)))

\* drop_store
DropStore(s) ==
  /\ sessions' = [sessions EXCEPT ![s] = None]
  /\ Keep(stores)

\* reset_store
ResetStore(s, size) ==
  \E id \in StoreId \ DOMAIN stores :
    /\ sessions' = [sessions EXCEPT ![s] = id]
    /\ Keep(With(stores, id, EmptyStore(size)))

-----------------------------------------------------------------------------
(* The steps of the tools *)

Becomes(t, call) == calls' = [calls EXCEPT ![t] = call]

Starts(t, tool) == calls[t].at = "idle" /\ tool \in Tools(t)

At(t, tool, point) == calls[t].tool = tool /\ calls[t].at = point

\* init: the store is reset, then the session is noted as active.
InitTool(t, s, size) ==
  /\ Starts(t, "init")
  /\ Becomes(t, [Idle EXCEPT !.tool = "init", !.at = "note", !.session = s, !.value = size])
  /\ ResetStore(s, size)
  /\ UNCHANGED <<active, promises, longTerm>>

InitNotes(t) ==
  /\ At(t, "init", "note")
  /\ active' = [active EXCEPT ![calls[t].session] = calls[t].value]
  /\ Becomes(t, Idle)
  /\ UNCHANGED <<sessions, stores, promises, longTerm>>

\* flush: the store is dropped, then the session is forgotten.
FlushTool(t, s) ==
  /\ Starts(t, "flush")
  /\ Becomes(t, [Idle EXCEPT !.tool = "flush", !.at = "note", !.session = s])
  /\ DropStore(s)
  /\ UNCHANGED <<active, promises, longTerm>>

FlushNotes(t) ==
  /\ At(t, "flush", "note")
  /\ active' = [active EXCEPT ![calls[t].session] = None]
  /\ Becomes(t, Idle)
  /\ UNCHANGED <<sessions, stores, promises, longTerm>>

\* The first statement of peek, set and resolve_memory_context.
TakesStore(t, tool, s, key, value, asked) ==
  /\ Starts(t, tool)
  /\ \E got \in GetStore(s) :
       /\ sessions' = [sessions EXCEPT ![s] = got.id]
       /\ Becomes(t, [Idle EXCEPT !.tool = tool, !.at = "store", !.session = s, !.key = key,
                                  !.value = value, !.asked = asked, !.store = got.id])
       /\ Keep(got.heap)
  /\ UNCHANGED <<active, promises, longTerm>>

\* memory_status, whose get_store opens a session that was not open.
StatusTool(t, s) ==
  /\ Starts(t, "status")
  /\ calls' = calls
  /\ \E got \in GetStore(s) : sessions' = [sessions EXCEPT ![s] = got.id] /\ Keep(got.heap)
  /\ UNCHANGED <<active, promises, longTerm>>

SetStores(t) ==
  LET c == calls[t]
  IN  /\ At(t, "set", "store")
      /\ stores[c.store].access_seq < MaxSeq
      /\ sessions' = sessions
      /\ Becomes(t, Idle)
      /\ Keep([stores EXCEPT ![c.store] = Stored(@, c.key, c.value)])
      /\ UNCHANGED <<active, promises, longTerm>>

\* The lookup in the store that begins peek_context and resolve_context.
LooksInStore(t, tool, next) ==
  LET c == calls[t]
      store == stores[c.store]
  IN  /\ At(t, tool, "store")
      /\ store.access_seq < MaxSeq
      /\ sessions' = sessions
      /\ Becomes(t, IF c.key \in Held(store) THEN Idle ELSE [c EXCEPT !.at = next, !.store = None])
      /\ Keep([stores EXCEPT ![c.store] = Peeked(@, c.key)])
      /\ UNCHANGED <<active, promises, longTerm>>

PeekStore(t) == LooksInStore(t, "peek", "registry")

\* Pending, or a full miss: a resolved promise is a miss as well.
PeekRegistry(t) ==
  LET c == calls[t]
  IN  /\ At(t, "peek", "registry")
      /\ Becomes(t, IF promises[c.key] = "pending" THEN Idle ELSE Answered(c, "miss"))
      /\ UNCHANGED <<sessions, stores, active, promises, longTerm>>

-----------------------------------------------------------------------------
(* The solution engine *)

ContextStore(t) == LooksInStore(t, "context", "label")

\* exact_only, as the caller asked or as the key suggests.
ExactOnly(call) == \/ call.asked = "exact"
                   \/ call.asked = "default" /\ call.key \in Structured

Labelled(s, key) == {n \in longTerm[s] : n.label = key}

\* Seeded fault: an exact-only lookup gives up before the graph.
ContextLabelTooExact(t) ==
  LET c == calls[t]
      found == Labelled(c.session, c.key)
  IN  /\ At(t, "context", "label")
      /\ Becomes(t, IF ExactOnly(c) THEN Answered(c, "miss")
                    ELSE IF found # {} THEN Idle ELSE [c EXCEPT !.at = "search"])
      /\ UNCHANGED <<sessions, stores, active, promises, longTerm>>

\* find_node_by_label, then the decision whether to search at all.
ContextLabel(t) ==
  LET c == calls[t]
      found == Labelled(c.session, c.key)
  IN  /\ At(t, "context", "label")
      /\ Becomes(t, IF found # {} THEN Answered(c, "long_term")
                    ELSE IF ExactOnly(c) THEN Answered(c, "miss")
                    ELSE [c EXCEPT !.at = "search"])
      /\ UNCHANGED <<sessions, stores, active, promises, longTerm>>

\* search_graph and the threshold: some node, or none that is near enough.
ContextSearch(t) ==
  LET c == calls[t]
  IN  /\ At(t, "context", "search")
      /\ \/ longTerm[c.session] # {} /\ Becomes(t, Answered(c, "long_term"))
         \/ Becomes(t, Answered(c, "miss"))
      /\ UNCHANGED <<sessions, stores, active, promises, longTerm>>

\* upsert_node: one node for a type and a label.
Upserted(nodes, node) ==
  {n \in nodes : n.type # node.type \/ n.label # node.label} \union {node}

\* promote_memory_to_long_term: the caller gives key and value, the store is
\* not asked.
PromoteTool(t, s, node) ==
  /\ Starts(t, "promote")
  /\ longTerm' = [longTerm EXCEPT ![s] = Upserted(@, node)]
  /\ UNCHANGED <<sessions, stores, active, promises, calls>>

\* upsert_memory_node
UpsertTool(t, s, node) ==
  /\ Starts(t, "upsert")
  /\ longTerm' = [longTerm EXCEPT ![s] = Upserted(@, node)]
  /\ UNCHANGED <<sessions, stores, active, promises, calls>>

\* prune_memory_links: the nodes removed are old and without edges, here any.
PruneTool(t, s) ==
  /\ Starts(t, "prune")
  /\ \E stale \in SUBSET longTerm[s] : longTerm' = [longTerm EXCEPT ![s] = @ \ stale]
  /\ UNCHANGED <<sessions, stores, active, promises, calls>>

-----------------------------------------------------------------------------

\* The caller takes the answer; a call without an answer worth noting is over
\* with its last operation.
Returns(t) ==
  /\ calls[t].at = "done"
  /\ Becomes(t, Idle)
  /\ UNCHANGED <<sessions, stores, active, promises, longTerm>>

\* QPromiseRegistry.register, by the code that hosts the registry
Register(key) ==
  /\ promises' = [promises EXCEPT ![key] = "pending"]
  /\ UNCHANGED <<sessions, stores, active, longTerm, calls>>

\* QPromiseRegistry.resolve; the payload is not looked at.
Resolve(key) ==
  /\ promises[key] # "absent"
  /\ promises' = [promises EXCEPT ![key] = "resolved"]
  /\ UNCHANGED <<sessions, stores, active, longTerm, calls>>

Init ==
  /\ sessions = [s \in Session |-> None]
  /\ stores = [id \in {} |-> None]
  /\ active = [s \in Session |-> None]
  /\ promises = [key \in Key |-> "absent"]
  /\ longTerm = [s \in Session |-> {}]
  /\ calls = [t \in Thread |-> Idle]
  /\ overtaken = [t \in Thread |-> FALSE]
  /\ gap = [t \in Thread |-> FALSE]

ShortTermTools(t) ==
  \/ \E s \in Session : \/ \E size \in SiloSize : InitTool(t, s, size)
                        \/ FlushTool(t, s)
                        \/ StatusTool(t, s)
                        \/ \E key \in Key :
                             \/ TakesStore(t, "peek", s, key, None, "default")
                             \/ \E value \in Value : TakesStore(t, "set", s, key, value, "default")
  \/ InitNotes(t) \/ FlushNotes(t)
  \/ SetStores(t) \/ PeekStore(t) \/ PeekRegistry(t)

LongTermTools(t) ==
  \/ \E s \in Session : \/ \E node \in Node : UpsertTool(t, s, node) \/ PromoteTool(t, s, node)
                        \/ PruneTool(t, s)
                        \/ \E key \in Key, asked \in {"default", "exact", "semantic"} :
                             TakesStore(t, "context", s, key, None, asked)
  \/ ContextStore(t) \/ ContextLabel(t) \/ ContextSearch(t)

Step ==
  \/ \E t \in Thread : ShortTermTools(t) \/ LongTermTools(t) \/ Returns(t)
  \/ \E key \in Awaited : Register(key) \/ Resolve(key)

-----------------------------------------------------------------------------
(* What an observer of the calls notes *)

Remembered(s, key) == sessions[s] # None /\ key \in Held(stores[sessions[s]])

\* What the call looks for is in one of the tiers.
Known(call) == Remembered(call.session, call.key) \/ Labelled(call.session, call.key) # {}

Writing(call) == call.tool = "set" /\ call.at = "store"

Looking(call) == call.tool = "context" /\ call.at # "done"

\* The session is flushed or initialised in this step.
Reopened(s) ==
  \E t \in Thread : /\ calls[t].at = "idle"
                   /\ calls'[t].tool \in {"init", "flush"} /\ calls'[t].session = s

Pruned(call) ==
  \E n \in longTerm[call.session] : n.label = call.key /\ n \notin longTerm'[call.session]

Observed ==
  /\ overtaken' = [t \in Thread |->
       /\ Writing(calls[t]) /\ Writing(calls'[t])
       /\ overtaken[t] \/ Reopened(calls[t].session)]
  /\ gap' = [t \in Thread |->
       \/ calls'[t].answer = "miss" /\ gap[t]
       \/ Looking(calls'[t]) /\ (gap[t] \/ ~Known(calls[t])' \/ Pruned(calls'[t]))]

Next == Step /\ Observed

Spec == Init /\ [][Next]_vars

-----------------------------------------------------------------------------
(* Properties *)

TypeOK ==
  /\ sessions \in [Session -> DOMAIN stores \union {None}]
  /\ DOMAIN stores \subseteq StoreId
  /\ \A id \in DOMAIN stores : StoreType(stores[id])
  /\ active \in [Session -> SiloSize \union {None}]
  /\ promises \in [Key -> {"absent", "pending", "resolved"}]
  /\ longTerm \in [Session -> SUBSET Node]
  /\ \A t \in Thread : calls[t].store \in DOMAIN stores \union {None}

\* No store exceeds its size, and what orders its evictions is unambiguous, in
\* every store a session or a call still refers to.
StoresSound == \A id \in DOMAIN stores : StoreSound(stores[id])

\* The entries of a store, the one last used first.
Rank(store, key) ==
  Cardinality({k \in Held(store) : store.slots[k].last_accessed >= store.slots[key].last_accessed})

Entries(store) ==
  [i \in 1 .. Cardinality(Held(store)) |->
     LET key == CHOOSE k \in Held(store) : Rank(store, k) = i
     IN  [key |-> key, value |-> store.slots[key].value]]

\* What a session remembers: a list and room for it; without a store, no room.
Remembers(store) == [silo_size |-> store.silo_size, recent |-> Entries(store)]
Nothing == [silo_size |-> 0, recent |-> <<>>]

Memory ==
  INSTANCE SessionMemory WITH
    Closed <- Nothing,
    memory <- [s \in Session |->
                 IF sessions[s] = None THEN Nothing ELSE Remembers(stores[sessions[s]])]

\* Whatever calls are in flight, what a session remembers is a bounded list in
\* order of last use, which only init, flush, a use or a write of one of its
\* keys changes, one at a time.
KeepsSessionMemory == Memory!Spec

Answer(s, key) ==
  IF Remembered(s, key) THEN stores[sessions[s]].slots[key].value ELSE None

\* A set that was reported as stored is what the session answers from then on,
\* unless the session was flushed or initialised again while it ran: then it
\* changes no session, not even the one that has been opened since.
SetTakesEffect ==
  [][\A t \in Thread :
       Writing(calls[t]) /\ ~Writing(calls'[t]) =>
         IF overtaken[t]
         THEN \A s \in Session, k \in Key : Answer(s, k)' = Answer(s, k)
         ELSE \A s \in Session, k \in Key :
                s = calls[t].session /\ k = calls[t].key => Answer(s, k)' = calls[t].value]_vars

\* resolve_memory_context reports a miss only if at some moment of the call the
\* key was in neither tier, or its node was being pruned: moving an entry from
\* the short to the long term under the call does not hide it.
MissIsReal ==
  \A t \in Thread :
    calls[t].tool = "context" /\ calls[t].answer = "miss" => gap[t]

=============================================================================
