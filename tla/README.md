# PMLL: a verification development

This directory holds TLA+ models of the PMLL repository, the TLC runs that check
them on small instances, and proofs of their main theorems checked by TLAPS.

PMLL is a memory layer for agents. Three ideas run through the repository: a
**silo** that keeps resolved context (C, and as servers in Python and
TypeScript), a **Q-promise** that defers and routes the work that produces
context, and **anchors** that commit hashes of the memory to public ledgers.
Around them stand SAT solvers, a package manager command line and a web app.

## 1. The system

| component | state it keeps | operations | hard behaviour |
|---|---|---|---|
| Q-promise library (`Q_promise_lib/qpromise.c`) | promises with reference counts, lists of continuations, a global job list, `g_draining` | create, then / catch / finally, resolve / reject / cancel, ref / unref, drain | handlers call back into the library in the middle of a list; adoption of a returned promise; any allocation may fail |
| Promise to silo binding (`qpromise.c`) | the silo and index a promise is bound to | bind, from_peek, resolve_commit | two steps, silo then promise, of which the second may fail |
| Memory silo (`PMLL.c`) | slots (key, content, embedding), slot count, integer tree | set, peek by key or index, semantic peek | slot reuse, duplicate keys, partial failure of a set |
| SAT bridge and logic loop (`PMLL.c`) | clauses and an assignment beside the silo | bridge a literal or clause, propagate, search, refine | restoring the assignment on every way out; the search budget |
| Python bindings (`Q_promises.py`) | ctypes callbacks kept alive until fired | then, drain | a drain nested in a handler releases callbacks that still execute |
| MCP memory server (`mcp/pmll_memory_mcp`, twin in `mcp/src`) | a store per session with LRU eviction, a promise registry beside the sessions | init, peek, set, resolve, flush, status | tools run in worker threads and hold a store in two steps while another flushes the session |
| Context resolution (`solution_engine.py`) | none of its own | resolve a key in three tiers, promote an entry | which tier answers while the entry moves between them |
| Durable memory graph (`memory_graph.py`) | nodes and edges of a session in memory with four lookup indexes, and in SQLite | upsert, relate, interlink, search, prune, import, clear, batch | the cache runs ahead of the database; commits inside a batch; crash and reload; indexes maintained by hand; a lock taken once per row |
| SAT solvers (`SAT.py`, `SAT.pyx`) | clauses, watches, trail with reasons and levels | add_clause, solve again and again | learned clauses outlive backjumps, restarts and calls |
| SAT manifest (`three_sat.py`, `two_sat.py`, `xor_sat.py`, `tools/sat_proof`) | none between calls | decide, write a proof or a certificate, record | the proof is written while the search runs |
| Package manager project (`Ppm-lib/Ppm-cli.py`, `ppm_cli.py`) | `ledger.jsonl`, `state.json`, `lock.json`, snapshots | init, add, snapshot, rollback, attest, apply, publish | several files without a lock or an atomic write; crashes between them |
| Import resolver and signing (`Resolver-lib`) | cache, lock, matrix of inputs, signatures | resolve, download, sign, verify | cycles, broken downloads left in the cache |
| Memory pool server (`Ppm-lib/pmll_mcp`) | one controller made lazily, a queue of writes, slots | write, process, read, clear, chained write | the queue is taken and committed under two holds of the lock |
| Game agents (`lattice/scripts`) | claims and a tracker of GAME_OVERs; recipes, a world model and traces on disk | play a game over HTTP, learn, warm-start | lost replies are retried; blame is assigned first and taken back later; traces are read back after restarts |
| CDCL solver in C (`SAT.c`) | trail, levels, reasons, learnt clauses | propagate, decide, analyse, backjump | the algorithm of `SAT.py` on hand-managed memory |
| Anchors (`pmll-anchor`, `PmllAnchor.sol`, `lattice`) | owner, hash per key, time to live | init, store, get, bump | expiry and bumps, owner checks |

The handlers of the library run on the caller's thread, so nothing there is
concurrent: interleaving comes from callbacks. In the servers it comes from
worker threads, in the package manager from processes on one directory, in the
agents from the game server and from the process being killed. Components share
state by keys only: the silo by key or index, the session store by session id,
the registry by key, the project and the traces by file.

What makes each component correct:

- *Promises*: each settles once; every continuation runs exactly once, in
  order, only after its promise settled, and its child receives the outcome;
  counts are exact, so nothing is freed early or leaked.
- *Silo and binding*: a peek after a commit sees what was committed; the slot count
  is the number of resolved slots; a failed commit changes nothing.
- *Servers*: what a tool reported as stored is found by the next peek of the
  session, and a flushed session stays empty; the store never exceeds its limit.
- *Durable graph*: memory and database agree after every commit; a batch is all
  or nothing; after a crash the reload returns the last committed state.
- *Solvers*: SAT only with a satisfying assignment, UNSAT only when there is
  none, what is learned follows from the formula, the assignment is restored otherwise.
- *Package manager*: while commands run one by one and to their end, the ledger explains
  the lock; it always names its own lines; what a run locks leaves no requirement out, unless a wheel was
  cut short in an earlier run; what verifies was published.
- *Memory pool*: every queued write is worked off once; the newest one is what a slot holds.
- *Agents*: what was credited adds up, what is learned rests on what was seen, and games end.
- *Anchors*: only the owner writes, and an entry lives until its time to live.

`PROJECT.json` lists every component with its status, and under "hazards" the
places in the code where each of these could go wrong.

## 2. Modules

| module | models |
|---|---|
| `QPromise` | the promise library, `src/Q_promise_lib/qpromise.c` |
| `PromiseContract` | what `qpromise.h` promises of every promise (abstract) |
| `MCQPromise` | the symmetry set TLC uses |
| `QPromiseProofs` | lemmas about the reference-counted heap, the inductive invariants and the theorems |
| `Silo` | the memory silo of `src/PMLL.c`, as operators on its state |
| `SiloPromise` | promises bound to a silo, and the other writers of the silo; extends `Silo` |
| `MCSiloPromise` | a similarity of two contents and the symmetry |
| `SiloProofs` | the theorems about `SiloPromise` |
| `MemoryGraph` | the durable memory graph, `memory_graph.py` |
| `MCMemoryGraph` | one edge between two nodes, and two graphs to import |
| `MemoryGraphProofs` | the invariant and the theorems about `MemoryGraph` |
| `GraphIndex` | `_GraphStore` with its indexes, and interlinking row by row |
| `MCGraphIndex` | a graph to import with duplicate keys |
| `GraphIndexProofs` | the invariant and the theorems about `GraphIndex` |
| `KVStore` | the LRU store of a session, `kv_store.py`, as operators |
| `SessionMemory` | what an agent is promised of its short-term memory (abstract) |
| `McpServer`, `MCMcpServer` | the tools of `server.py` in worker threads, over `KVStore` |
| `McpServerProofs` | the invariants and the theorems about `McpServer` |
| `Literals`, `Cdcl` | the solver of `SAT.py` and `SAT.pyx` |
| `Dpll`, `TwoSat`, `XorSat`, `SatProof` | the manifest's procedures, proofs, certificates and checks |
| `PmlDpll` | propagation, search and refinement of `PMLL.c` |
| `Solvers`, `MCSolvers` | one of the solvers at a time, on small formulas |
| `SolverProofs` | the invariants and the theorems about `Cdcl`, `PmlDpll`, `SatProof` with `Dpll`, `TwoSat` and `XorSat`, and `Solvers` |
| `PpmFiles`, `PpmLedger` | the files of a project and the command lines on them |
| `PpmResolver`, `PpmSigning` | `Importresolver.py` and `Pep.py` |
| `PpmProject` | command lines, resolver and signer on one directory |
| `PmllPool` | the memory pool server, `Ppm-lib/pmll_mcp` |
| `PpmLib`, `MCPpm` | the project or the pool, on a small instance |
| `PpmLibProofs` | the invariants and the theorems about the ledger, the pool, the resolver and the signer |
| `SelfTalk` | the self-talk agent: claims, tracker, loop |
| `TraceMemory` | the in-memory agent and the merge-ascend agent, with their traces |
| `Agents`, `MCAgents` | one kind of agent at a time |
| `AgentProofs` | the invariants and the theorems about `SelfTalk`, `TraceMemory` and `Agents` |

### QPromise

State and code:

| TLA+ | C |
|---|---|
| `heap[p]` | `struct qpromise`: state, value or error (`payload`), `refcount`, `conts`, `following` |
| `jobs` | the list `g_job_head` to `g_job_tail` |
| `draining` | `g_draining` |
| `current`, `cursor` | the locals `p` of `qpromise_drain` and `c` of `qp_fire_conts` |
| `inHandler` | control is inside a handler that `qp_fire_conts` called |
| `held[p]` | the references the application owns (not in the library's state) |

Each API call is one action (`Create`, `Attach` for then / catch / finally,
`SettleCall` for resolve / reject / cancel, `RefCall`, `UnrefCall`). The drain
loop takes one step per continuation; a continuation whose handler belongs to the
application takes two, `CallHandler` and one of `ReturnResult`, `ReturnPromise`,
`ReturnFinally`, and between them the application may make any API call. That
is the interleaving the code has to survive. A nested `qpromise_drain` returns at
once because `g_draining` is set, so it is a stuttering step.

`Unref` models the whole cascade of `qp_destroy`: `Destroyed` is the least set
of objects that contains the one freed and every object all of whose references
come from freed objects. `Adopt` models `qp_adopt_follow` with its two appended
continuations. `Failing` names the allocations that may fail: the job of a
settlement, the continuations of an adoption, the copies of strings. Calls that run out of
memory before they change anything are stuttering steps.

Abstractions. Values and errors are model values; the library's own texts
("oom", "rejected") are one, `LibraryError`. The context pointer of a handler is
the application's. The flag `settling` is left out: it is set and cleared
within one call that calls no handler. Handlers that set an
error *and* return a promise are not modelled. The PMLL binding is in
`SiloPromise`.

The application respects the ownership rules of the header: it passes only promises it
owns a reference to, and gives away a reference of its own when a handler
returns a promise.

### PromiseContract

The abstract specification has, for each promise, an outcome and two counters,
the continuations attached and those that have run. A promise settles once, runs
a waiting continuation only after it settled, and is not freed while one waits.
One library call may move several promises (dropping a reference can free a
chain), so a step of the contract lets every promise make at most one move. `QPromise` implements
it (`KeepsContract`) with the number of fired continuations as `ran`;
together with fairness it implements `FulfilsContract`, which adds that waiting
continuations run.

### Silo and SiloPromise

| TLA+ | C |
|---|---|
| `silo.slots[i]` | `silo->slots[i]`: key, content, resolved |
| `silo.slot_count`, `silo.tree` | the fields of the same names |
| `promises[p]` | of a promise: state, value, whether it has a silo, `memory_key` |

`Silo` has no variables: `SiloSet` yields the possible results of `silo_set`, a
new silo and a return code, with the free slot it searches, the old entry
it releases first, the allocations that may fail (`Failing`) and the
propagation of `update_silo` over the integer tree. `Peek` and `PeekSemantic` are
the two lookups; similarity is a parameter, because embeddings are floating-point
functions of the content.

`SiloPromise` lets several writers act on one silo: `ResolveCommit`
(`qpromise_resolve_commit`, which hands the slot its caller names to `silo_set`, or -1 for any free one), `Bridge` (`sat_bridge_literal`, `sat_bridge_clause`,
`sat_bridge_assignment_meanings`, which look for their key first) and `SetAt`
(`silo_set` with the caller's index, as the tests use it). `Writers` chooses
among them. Promises are born by `Create`, `FromPeek` or `FromPeekSemantic`, bound
by `Bind`, and settled. Everything in C here runs to completion and calls
nothing back, so one call is one step; the interleaving is that of calls made by
the holders of different promises.

Of a promise only its outcome and binding are kept: continuations are the
subject of `QPromise`, and neither reads what the other leaves out.

### MemoryGraph

| TLA+ | Python |
|---|---|
| `stores[s]` | `_graph_stores[s]`, `Absent` until `_get_graph` loads it |
| `db.view`, `db.saved` | the rows the connection sees, and those committed |
| `depth` | `_batch_depth` |
| `acked`, `kept` | nothing in the code: what calls that returned have told the application, and its value when the outermost batch began |

A graph maps items to values. A node is identified by type and label, as
`upsert_node` does; an edge by its ends. Access times, counts, weights and
embeddings only decide which items a call picks, and those picks are choices of
the model: the hits of a search, the stale edges and old nodes of a prune.

Every call holds the module lock to its end and a batch holds it for the whole
block, so a call is one step, and steps inside a batch belong to its thread. A
step contains the statements and commits of the call in their order with every
point of failure: a statement that raises leaves the cache changed and the row
not; a commit that raises leaves its transaction open or loses it; `Prune` commits
twice; `Import` rolls the connection back; `RaiseBatch` drops the caches even if the
rollback fails. SQLite may answer a full disk, an input/output error or a lack of memory by rolling the whole
transaction back; in the model a statement that raises fails alone. `Restart` loses the open transaction; it also stands for
`configure_db` on the same file. A crash in the middle of a call is that call failing
followed by a restart, except when the crash falls between the commit and the
return of a call: there the application does not outlive the call, because it is
in the same process.

`InBatch` names the calls that commit on their own and that the application makes
inside batches; the code forbids none of them. The importer in `src/tools` uses
only `upsert_node` and `create_relation` inside its batch, which is `InBatch = {}`.

### GraphIndex

`graph` is the `_GraphStore` of one session: the two dictionaries, the four indexes,
and `indexed`, the sizes `_sync` compares. An identity stands for what
`_generate_id` returns. Each mutator maintains the indexes as the code
does, one by one; `OutsideChange` edits the dictionary of nodes behind their back, as
the comment on `_sync` allows for, by adding or removing one entry, so that the size gives it away; a replacement
that keeps the size is left out, because `_sync` cannot notice it and does not claim to. `job` holds the locals of one
`add_interlinked_context`, which takes the module's lock once per row: between
its rows any other call runs. Which items are similar, stale or old is a
choice. `MemoryGraph` has the rows on disk and no identities, `GraphIndex` the
identities and no disk; what they share, the keys of entries, is the same in both.

### KVStore, SessionMemory and McpServer

| TLA+ | Python |
|---|---|
| `sessions[s]`, `stores[id]` | `_session_stores`, the `PMMemoryStore` objects that a session or a running call refers to |
| `active[s]` | `_active_sessions` |
| `promises[key]` | the status in `QPromiseRegistry._promises` |
| `longTerm[s]` | nodes of the session's graph |
| `calls[t]` | the tool thread `t` runs, how far it is, the store it took |

Every object has a lock of its own that is taken once per operation. A tool is
the sequence of these operations and other tools run between them; a `set`
takes the store in one step and writes it in a later one. `peek_context` looks in
the store and then in the registry, `resolve_context` in the store, then for the
label, then for something similar. `overtaken` and `gap` are history for two
properties. `SessionMemory` is the abstract specification: each session is closed or
has a bounded list in order of last use. The sizes of stores are the effective ones: `max(1, int(silo_size))`
(`kv_store.py:41`) has been applied. `KeepsSessionMemory` maps the slots of
the session's store, sorted by `last_accessed`, to that list, and a session
without a store to an empty list of size 0 (`Nothing`).

### Cdcl, the manifest's solvers and PmlDpll

`Cdcl` follows `solve` step by step: one literal of the queue (`TakeLiteral`), one clause of its watch list
(`Visit`), one resolution of the analysis (`Resolve`), one backjump or flip, one decision or restart. The unit
clauses a call begins with are assigned in one step (`WithUnits`): nothing is propagated between them. The
assignment, the levels and the reasons are fields of the entries of `trail`; `head` is what the queue has left, `flipped`
is `_flipped`, and `resolvent` is `learned` together with the literals of the current level that are still counted.
The two builds differ where the code does (`config.build`). Which variable is decided and with which
phase is open, so every heuristic is covered; the order in which the watchers of a literal
are visited is open too. `calls` repeats `solve`, with clauses added in between.

`Dpll` is `three_sat.solve_3sat` together with its mirror `drup_dpll.py`, which writes a lemma at each
conflict; `TwoSat` the two depth-first searches; `XorSat` the elimination
with the history of each row; `SatProof` what the manifest's builder checks
before it records an instance: exhaustive search, witness, implication cycle, certificate,
and a DRUP check, which stands for the external `drat-trim`. `PmlDpll` is
`pml_propagate`, `pml_dpll` with its undo and its budget, `pml_refine` and the logic
loop. `complete` adds variables so that the budget of more than 21 is reached.

### The package manager

A command is a sequence of file operations (`Script`), each a step, and publishing takes
the wheels in turn (`InTurn`); opening a file for writing empties it (`Torn`, `TornLock`) until it is filled, and so does
`shutil.copy2` (`EmptyLock`, `EmptyState` and, into a snapshot, `EmptyLockOut`, `EmptyStateOut`). `Kill` stops a
command between any two. A hash is the number of its entry. `PpmResolver` has the
recursion of `_resolve_one` as a stack, the cache with whole and partial
contents, and the writing at the end. `Announced` is what a wheel requires as it is published, `Requires` what the
code reads from the file it has: of a part nothing, because `parse_requires_from_wheel` swallows the exception.
`run.broken` is history, the parts a run found in the cache when it began. `PpmSigning` signs and verifies. `Budgets`
bounds how many commands, overlaps, crashes, resolver runs and signings a behaviour
has. `PpmProject` lets all of them work on one directory.

`PmllPool` is the pool server: `_get_mc` with its double check, the queue taken under the
lock, the batch committed under it later. A write is its number; time
to live is a choice at the moment it is looked at. `StoredIn` are the writes of a batch for one slot that
have not expired, the last of which stays there. `writes`, `fate`, `passed` and `mixed` are
history. The server gives its controller no store directory, so there is no disk.

### The agents

| TLA+ (`SelfTalk`) | Python |
|---|---|
| `lethal`, `goals` | claims of the two kinds whose counts are carried over |
| `sinceReset`, `sinceLevel`, `events`, `periods` | `GameOverTracker` |
| `data`, `idle`, `steps`, `pc` | locals of `play_game` |
| `server`, `limited`, `deadly` | the game: an action limit, actions that kill, or both |

An action is one step: it is sent, its reply may be lost and the action be sent again, it may be
refused, and then the tracker and the claims learn from it. `Client.req` tries up to ten times; in the model
a reply is lost once per action. Which action is
chosen is open. `TraceMemory` keeps, per agent, the rows of its trace with the frame
signature, levels and action, and what `ingest_jsonl` makes of them at the next
start: recipes for one agent, recipes and edges of a world model for
the other. Frames stand for their hashes and are told apart from their signatures, which keep the colours of a frame
and drop their positions, so that several frames may share one (`Signature`): playing compares hashes, ingesting a trace
compares signatures, as the code does. The server may refuse a reset, raise a level, end a life or win.

## 3. Runs

| run | instance | shows |
|---|---|---|
| `promise_safety` | 3 promises, one value, one error, every kind, `cont` may fail | no lost wake-up, delivery after a drain, propagation of outcomes, refinement of the contract |
| `promise_oom` | 3 promises, up to 2 references each, every allocation may fail, rejections only from the library | exact reference counts; all memory freed once everything is released and no adoption's continuation is left |
| `promise_live` | 3 promises, then only, fair | adopting promises settle, every continuation runs |
| `silo` | 2 slots, 2 promises, 2 keys, 2 contents; commits, the bridge and direct writers; keys, contents and values may fail to be copied | one slot per key for the bridge; the bridge and commits change the answer only of their own key and of the key whose slot was named; a promise resolved by a commit has its value stored |
| `graph_failures` | 1 session, 2 nodes, 1 edge, 2 contents, 2 nested batches; statements, commits and rollbacks may fail | what was acknowledged is durable and is read; batches are atomic |
| `graph_mirror` | 2 sessions, nothing fails, every call allowed in a batch | caches equal rows; nothing uncommitted outside a batch |
| `graph_import` | records that cannot be bound | finding: a failing import deletes the graph |
| `graph_index` | 3 node and 2 edge identities, 2 labels, interlinking of 2 items, an import with duplicate keys | lookups answer as scans; edges keep their ends; nothing that adds makes a duplicate |
| `server` | 2 threads, 1 session, 3 keys, stores of size 1 and 2 | stores are sound; a session's memory is a bounded list by last use; a set takes effect; a miss was real |
| `solvers` | up to 4 variables, all three-clause sets of small shapes and chosen hard ones, 2 calls | right answers, implied lemmas, checkable proofs and certificates, restored assignments, every call returns |
| `ppm` | 2 command lines, 2 indexes, 3 packages; 2 worker threads, 3 writes, 2 slots | the ledger explains lock and chain of commands run one by one; nothing left out but what a part of an earlier run hides; what verifies was published; no write lost or doubled; the newest wins |
| `agents` | 2 action keys, a colour, limit 2, up to 2 runs, a lost reply; 3 frames of which two share a signature, 2 keys, 2 clicks of which one is a seed, 3 actions of 2 games | credit adds up and rests on this run; what traces teach was seen; games end |

*Bounds.* `Promise` is finite and an object freed is never reused, so the number
of promises bounds a history; `MaxHeld` bounds the references the application
takes, the only counter that could grow by itself. Three promises are enough for a promise, its child
and a promise the handler returns, hence for adoption, for cycles of adoption and
for a cascade of frees. Two references per promise let a handler drop one
and keep another. One value and one error tell apart what the outcomes can be.
Symmetry is used in the safety runs, where promises are interchangeable, and
never with liveness.

The silo run needs a full silo, a key with two slots and a slot emptied and taken again,
which two keys in two slots give; two contents distinguish an old
value from a new one. `MaxCount` (3) stops the writers once `slot_count`, which leaks
upward when sets fail, has passed the size of the silo. The graph runs need an edge
with two ends, an item to be changed twice and another to be left alone, and a batch within
a batch (`MaxDepth`, 2; in `graph_mirror`, with two sessions, 1); the imported graphs are one node, and one edge without its ends, which
`import_graph` accepts. `graph_index` needs two nodes of one key and two edges of
another, which only an import makes, and an identity left for a new node.

In `server` one thread stores and looks while the other opens, closes and
maintains, which gives every pair of tools of the hazards; a store of one slot evicts at the second key
and one of two slots orders its entries. `MaxSeq` (4) bounds the uses of a store; an entry can be
used, overtaken and used again within it. `MCSolvers` lists the formulas: each is there
for a conflict, a chain of units, a repeated literal, a tautology, an empty clause or a
refutation that needs flips. `Interval` 1 restarts at every conflict the solver allows; `MaxCalls` and
`MaxRefines` (2) let a call follow one that ran out of budget.

In `ppm` four commands in sequence make a snapshot, a change, a rollback and a command after
it; overlaps and kills are one each, with two resolvers for a cache left by a
killed one. Two pids share a slot and a negative one wraps. In
`agents` a budget of 5 actions with a limit of 2 gives periodic deaths, deaths that
kill, and an earlier credit that is taken back; the traces need a
game replayed after a level-up, which three actions in two games give (`MaxPlays`, `MaxActions`). One game
has keys only, the other a key and two clicks, one of them not a seed, so that a recipe can be learned that was not given;
two frames of one signature make a change that a trace does not show.

*Deadlock.* An application may hold nothing, have used all its
promises and have nothing to drain; that is the normal end. In the silo run all
promises may be settled and the silo be past `MaxCount`. Solvers have answered, budgets of
the package manager are spent and the agents have played. The graph and server runs check for
deadlock.

*Fairness.* `promise_live` assumes that the application drains again and again,
that its handlers return, and that the loop, plain code, runs. The library
promises nothing without the first two. No fairness is assumed of calls. With a
finite set of promises handlers cannot feed their own promise forever; an
application that does so starves the rest of the job list in the code as well, and the
liveness properties exclude it by that bound. `solvers` assumes that a loop that can
take a step takes one: nothing waits in it. `agents` assumes the same of the script
once it is started (`Play`): a request is answered, refused or given up after ten tries, so each step
ends; kills and starts are not assumed.

*Finding*, shown by `graph_import`: `import_graph` catches only `sqlite3.Error`. A
record that passes its validation and cannot be bound, such as an access count
beyond 64 bits, leaves the deletion of the old graph in the open transaction and the next
commit of any session makes it permanent (`memory_graph.py:883`, against its docstring at 845-847).

*Observations* made while modelling. The models contain them; the properties exclude them by their
premises or do not speak of them.

- `qp_enqueue_fire` returns silently when its job cannot be allocated
  (`qpromise.c:177-178`): the call returns 0 and no continuation of that promise
  runs, not even finally, of which `qpromise.h:53-54` says that it always runs. This is the premise
  `"job" \notin Failing` of `NoLostWakeup`.
- `qp_adopt_on_then` does not check its copy (`qpromise.c:410`): out of memory, the
  adopting promise is resolved with NULL rather than rejected. `DerivedOutcome` assumes that strings are copied.
- `qpromise_resolve_commit` does not look for its key (`qpromise.c:638`): the second commit
  of a key takes another slot and peek keeps answering the first, which `CommitIsStored` allows. A
  commit at an index of the caller's choice overwrites the key that holds the slot, which
  `OtherKeysKept` allows for that key alone.
- A `silo_set` of a resolved slot whose content cannot be allocated empties
  the slot and leaves `slot_count` (`PMLL.c:211`), which `PMLL.h:37` defines as
  the number of resolved slots; `SlotCountExact` is about the steps that empty no slot.
- `search_graph`, `retrieve_with_traversal`, `import_graph` and `clear_graph` commit whatever
  the batch depth (`memory_graph.py:595`, `744`, `882`, `910`), so a batch that
  raises afterwards is not rolled back as `batch` says (`memory_graph.py:135-139`); the rollback of a failing
  import inside a batch takes back the earlier writes of the batch. `InBatch` decides.
- Two equal items given to `add_interlinked_context` are one node, which is then linked to itself.
- `peek_context` may report a full miss although the key was in the store and its promise resolved
  between its two looks, against `peek.py:28-31`.
- `Ppm-cli.py` appends the line of the ledger before it writes the state: a
  crash between them, like two overlapping commands, forks the chain; an overlapping add is lost. Only `HashesNameLines`
  speaks of such behaviours: `ChainIsExplained` and `LockIsExplained` exclude them (`clean`). `add` on
  the lock of the resolver, whose packages are a list, raises. `--strict-hash` never fails, because a missing
  hash has been replaced by the digest of the download (`Importresolver.py:449`). A dependency on a package already
  resolved is not checked against its version. A part that an earlier run left in the cache is taken as it is
  (`Importresolver.py:353`), and the requirements of that wheel are lost without a word (191): `NothingLeftOut` exempts such
  wheels. Signing files by name
  vouches for what is in the cache, whole or not.
- In the pool server a process call answers 0 when another thread has taken the queue, a clear between taking and
  committing lets earlier writes reappear, and two batches may commit in the reverse order.
- A lost reply makes the game server play an action twice, so the tracker's counts run behind. The first RESET's
  NOT_PLAYED is not looked at. No property compares the tracker's counts with the server's. A run's file says support of at least 1
  where a claim needs 2.
- Both trace agents empty their own trace when they start, the in-memory agent before it reads it, so it never
  learns from its own earlier runs. `WorldModel.falsify` is never called. The first action after a RESET
  is attributed to the row before it, because the trace does not show resets. What is learned from a trace misses a change that
  kept the signature (`pmll_merge_ascend.py:116`), while the same action learned by playing counts as a change (295).

## 4. Proofs

`QPromiseProofs` proves for every finite set of promises and every choice of the
other constants:

| theorem | states |
|---|---|
| `TypeCorrect` | `Spec => []TypeOK` |
| `RefcountsAreExact` | `Spec => []RefcountsExact`, with any allocation failing |
| `SettlesAtMostOnce` | `Spec => SettlesOnce` |
| `HandlersRunAtMostOnce` | `Spec => HandlersRunOnce` |
| `NoWakeupIsLost` | `Spec => []NoLostWakeup` if allocations of jobs do not fail |
| `DrainsDeliver` | `Spec => []DrainedMeansDelivered` if allocations of jobs do not fail |
| `ContractIsKept` | `Spec => KeepsContract`, the refinement of `PromiseContract`, if allocations of jobs do not fail |
| `OutcomesAreDerived` | `Spec => DerivedOutcome` if strings can be copied |
| `ReleasedAreFreed` | `Spec => []ReleasedMeansFreed`, with any allocation failing |

The first four rest on `Invariance`, `Spec => []IInv`. `RefcountsExact` is not
inductive by itself. `IInv` strengthens it by

- `Exact(heap, Outside)`: the count of every promise is the number of references
  from the heap plus those from outside it (application, jobs, the loop); an object
  that is not alive has no continuations, follows nothing and is referred to by
  nothing. It is stated for an arbitrary function of outside references, which
  is what lets a call be proved as a chain of small heap operations with the
  outside references adjusted at each;
- `OneParent`: a promise is the child of at most one continuation that is not an
  adoption, and a promise pending in a waiting continuation is not its own parent;
- `NotYetFollowing`: a promise whose continuation waits to run follows nothing (so the
  release of an earlier `following` in `qp_adopt_follow` never has anything to
  release);
- `LoopInv`: what the drain loop knows between two continuations: the promise it is at
  is settled, the cursor is within or just after its list, and while a handler
  runs the continuation at the cursor has fired.

The heart are the lemmas about the heap: `Unref` of a referenced promise keeps `Exact`.
The freed set is closed under the rule that defines it, the intersection of
closed sets is closed, and so an object outside it still has a
reference from outside. These lemmas use cardinalities of finite sets only; no
recursion is involved because `Destroyed` is a least set and not a recursive walk.

The others need more of the loop. `PInv` (`PromiseInvariance`) adds to `IInv` that jobs and the loop
hold settled promises (`JobsSettled`), that a pending promise has no payload (`Payloads`), that continuations fire
in the order of attachment and adoptions are never *finally* (`Conts`), and that what the cursor has
passed has fired (`Passed`). On it, `StepMoves` lists what a step may do to one promise (`Moves`): it
is freed, born, settled, gets a continuation, has the one at the cursor fired, or nothing. That list is the refinement: each
entry is one move of `PromiseContract` or none, and the two conditions of the contract on freeing and firing
follow from `Woken`, the invariant of `NoWakeupIsLost`. `OutcomesAreDerived` follows the same moves
to the payload; it is about the promises the loop settles without the result of a handler (passing through and adoption), and
not about what handlers return. For `DrainsDeliver`, `StepFollows` lists what a step may do to
`following` (`Follows`), and the invariant adds that a continuation that fired has settled its child, linked it
to a promise, or is the one whose handler runs (`Handed`), that what a promise follows has a continuation for it
that has not fired (`Links`), and that the loop runs only in a drain (`RunsInDrain`). `ReleasedAreFreed` has to exclude garbage in
a cycle; as soon as a continuation of an adoption is left anywhere it says nothing. A parent is older than its child, which `Rooted` says without time: every set of promises has
a member on which no member holds a continuation. It is kept because only a newborn becomes a child; the rest is
counting with `Exact`.

`SiloProofs` proves, for every size of silo and all keys and contents:

| theorem | states |
|---|---|
| `SiloTypeCorrect` | `Spec => []TypeOK`, any allocation failing |
| `SlotCountIsExact` | `Spec => SlotCountExact`: in a step that empties no slot the count stays exact |
| `BridgeKeepsOneSlot` | `Spec => OneSlotPerKey`, any writer and any allocation failing |
| `WritersKeepApart` | `Spec => OtherKeysKept`, any writer, commits at any index |
| `CommitsAreStored` | `Spec => CommitIsStored`, commits at any index, any allocation failing |

`TypeOK` is inductive, because it contains that a slot is resolved exactly when
it has content. The lemmas `WrittenOK` and `EmptiedOK` give the set of resolved
slots after each of the two things `silo_set` does to a slot, and `SetEffect` the
three outcomes of a call; the count follows from the cardinality of that set. A commit that resolved its
promise has written one slot (`CommitStep`, `SucceededSet`), and `WrittenAnswers` says what peek answers
after that, by comparing the first slot of the key before and after.

`MemoryGraphProofs` proves, for all sessions, items, imports and depths:

| theorem | states |
|---|---|
| `GraphTypeCorrect` | `Spec => []TypeOK` |
| `AcknowledgedIsDurable` | `Spec => []AckedIsDurable` |
| `AcknowledgedIsRead` | `Spec => []AckedIsRead` |
| `CacheIsMirror` | `Spec => []CacheMirrorsRows` if no statement and no commit fails |

`AcknowledgedIsDurable` and `AcknowledgedIsRead` assume `InBatch = {}` and that imported records can be stored
(`"record" \notin Failing`), and nothing about the other failures; the findings
show that neither can be dropped. `GraphInv` is the conjunction of the two
properties: each needs the other, because a failing commit
falls back from the rows to the disk, a restart from the caches to the rows, and
a lookup writes the cache into the rows. `Outcome` describes the database after any of
the calls' commits, and one lemma per call shows that what it tells agrees with every
outcome.

`CacheIsMirror` allows any batches and restarts; `Failing = {}` is what the property is about, since
a statement that raises leaves the cache ahead of the row by design.

`GraphIndexProofs` proves, for all nodes, edges, keys and calls:

| theorem | states |
|---|---|
| `LookupsAreScans` | `Spec => []LookupsMatchScan` |
| `DuplicatesAreImported` | `Spec => NoNewDuplicates` |
| `EdgesKeepEnds` | `Spec => []EdgesHaveEnds` if the ends of imported edges are imported |

The invariant (`Sound`) is that the four indexes are exact whenever the sizes in `indexed` are those of the
dictionaries: what the code checks before a lookup (`_sync`) is then enough. A change behind its back is one
that the sizes give away. Every mutator is shown to keep the indexes exact one index at a time; the lemma
`RebuiltExact` covers `_rebuild_indexes`. `import_graph` does not look at the ends of the edges it is given, which is the
hypothesis of `EdgesKeepEnds`; that another call may prune a node between two rows of an interlinking is not excluded by it
but covered by the proof.

`McpServerProofs` proves, for any threads, sessions, keys and tools:

| theorem | states |
|---|---|
| `TypesHold` | `Spec => []TypeOK` |
| `StoresAreSound` | `Spec => []StoresSound` |
| `SetsTakeEffect` | `Spec => SetTakesEffect` |
| `MissesAreReal` | `Spec => []MissIsReal` |
| `MemoryIsKept` | `Spec => KeepsSessionMemory`: the server implements `SessionMemory` |

`Typed` says what every store in reach of a session or of a running call looks like: within its limit, with sequence numbers that are distinct
and below the next one. A set holds its store between two steps, so `Served` adds that no two sessions share
a store (`Apart`) and that a set about to write has the store of its session or, when it was overtaken, one that
belongs to no session (`Current`). `Searched` says of a lookup why it may still end empty-handed: until it has asked a tier, what it
looks for is in a later one, or was missing at some moment of the call (`gap`).

`MemoryIsKept` is the refinement step by step. The abstract list of a store is defined by ranks of `last_accessed`;
`Lists(L, n, store)` says the same without counting, as a list of all entries in decreasing order of last use, and
`EntriesList` and `ListIsEntries` show that there is exactly one such list and that it is `Entries(store)`. With that,
`TouchedRemembers` and `InsertedRemembers` compute the list after a use, a write and an eviction by exhibiting it
(`LruIsLast`: what is evicted is the last). A write or a look changes the list of one session at most because no two
sessions share a store (`Apart`), and none if its session was flushed or opened anew meanwhile; so `Served` is the
invariant under which every step maps to a step or a stutter.

`PpmLibProofs` proves, for any processes, packages, snapshots, indexes, requests, threads and slots:

| theorem | states |
|---|---|
| `HashesAreKept` | `Spec => []HashesNameLines` (of `PpmProject`) |
| `TheChainIsExplained` | `Spec => []ChainIsExplained` |
| `TheLockIsExplained` | `Spec => []LockIsExplained` |
| `NothingIsLeftOut` | `Spec => []NothingLeftOut` |
| `VerifiedArePublished` | `Spec => []VerifiedIsPublished` |
| `NoWriteIsLost` | `PoolSpec => []WritesAccounted` |
| `NewestIsKept` | `PoolSpec => []NewestWins` |

`HashesNameLines` speaks of files; between them the hash is in the hands of a command. `Known` says that it
names a line unless the line is the very next thing the command appends, in which case what it read does. That needs a fact about
every script: reading the state and appending the line are always neighbours (`Paired`). `ScriptPaired` derives it for the straight scripts from
their one pair and for publishing, whose script repeats, from the position within a round; `NextMove` and `Prefixed` keep it
while a command works off its list or is given the steps of `ensure_init`. Kills and overlaps need nothing else. A copy
empties its target first, and an emptied `state.json` names no line and needs none.

The chain and the lock are explained only while commands run one after the other and to their end (`clean`), so the
invariant `Orderly` (`CommandsAreOrderly`) speaks of those behaviours. Between two commands `Settled` holds: `state.json`
names the last line, the lock holds what replaying the lines gives, and a snapshot what the line that took it
continued. That is no invariant of the single step, for a command changes the lock, the ledger and the state in turn: for the one under
way `Tells` says which of these facts its next step finds, and `Wanted` what the lock must then hold: what the lines say, or, once
its effect on the lock is past and its line is not, what they will say. Which it is follows from the rest of its script, so
`Shaped` says of a script which step may follow which, and that an add or a rollback has one effect on the lock and then one line. `ScriptShaped` derives it for every
command, the loops of publishing included. The replay itself is a recursive function over the ledger. Two replays of one ledger
agree, and a line more leaves the replay of the lines before it as it was (`ReplayUnique`, `ReplayLonger`): the least line on which
they differ would follow lines on which they agree. `ElsewhereInOrder` covers what the resolver writes to the same lock: a list, which is no map of packages.

The resolver recurses, and the model has the stack of its calls. `ResolverInv` (`ResolverIsSound`) says that all calls but the
innermost one are following requirements, and (`Covered`) that every applying requirement of a resolved wheel is resolved, is what the
innermost call is about, or is one that some call still has before it. When the stack is empty only the first is left. That
is about what the code reads from the cached files; `PartsKnown` adds that a part in the cache was there when the run began
(`run.broken`) or is of the download about to be tried again, so that a wheel the run resolved is whole, and announces what was
published, unless an earlier run had left a part of it. Together they give `NothingLeftOut` with its exemption. For this the cached file of a resolved package must not change: a download opens a file only if it is not
cached, and after a failed attempt the file is no resolved package's (`Fetching`). `Published` needs only that what is chosen is listed
(`ChosenListed`): a hash is replaced by the digest of the download only where an index gives none. Three assumptions on the constants: requests and
metadata are lists of requirements, a file that is a wheel at one url is named as one everywhere (`WheelsAreNamed`; the code tells
wheels by the name of the file), and the number of retries is a natural one (`RetriesAssumption`).

A write of the pool is in one place: a queue or the batch of a
thread. `Books` adds what that needs: there is one controller, so that nothing waits
in the queue of another; a thread has a batch only while it commits; and a
place holds no write twice. That the controller is made under a second look is used in the step of `CreateMc`. For
`NewestIsKept`, `Newest` adds the order of the numbers: in every place (`InOrder`), the queue after every batch (`QueueLast`),
and a batch that nobody overtook after all that is committed (`BatchLater`). That the last write of a batch for a slot exists (`LastOf`)
uses that the numbers are well-founded.

`SolverProofs` proves, for any set of formulas, numbers of variables, options, budgets and calls:

| theorem | states |
|---|---|
| `SolversAnswerRight` | `CdclSpec => []AnswersRight` |
| `LearnedFollow` | `CdclSpec => []LearnedImplied` |
| `RefineIsRight` | `PmlSpec => RefineAnswers` |
| `SearchRunsOut` | under `PmlSpec`, every step of the search lowers a rank, in an order in which nothing falls for ever |
| `ProofsAreRight` | `ManifestSpec => []LemmasFollow` |
| `RecordsAreRight` | `ManifestSpec => []RecordChecks` |
| `EliminationIsSound` | `XorSpec => []EliminationSound` |
| `SolversApart` | `Spec => CdclSpec /\ ManifestSpec /\ XorSpec /\ PmlSpec` (of `Solvers`) |
| `SolversAreRight` | `Spec` implies the six properties |

The first two follow from `CdclInv` (`InvariantHolds`). For UNSAT it is enough that reasons are justified: an entry of the trail with a reason
is the one literal of a clause that the entries before it leave (`Justified`), so that who satisfies the clauses and
agrees with the decisions agrees with the whole trail (`Forced`, by a least entry that fails). A clause false at the
root then refutes every model. In the chronological search a model that agrees with the decisions below a flipped
one agrees with it (`Tried`); if all are flipped, none is left. What is learned is implied because the resolvent meets every
model at every step of the analysis (`Resolving`), and it asserts its first literal because exactly one of its literals is of
the current level, which is why the loop stops there.

For SAT the watches count. `Minding` says of every entry that has been propagated: if it makes a watch of a clause false, the
other watch is true, and was so no later than on the level of the entry. The level is what makes
it survive a backjump without looking at the clause, which is the point of watches. While a literal is being propagated it is
claimed only for the clauses visited already, and after a conflict only for the entries below the current level (`Done`),
since the rest of the list was not visited; `Learn` and `Flip` go back at least that far. Unit clauses have no watches: they
are assigned at the root, and every way back keeps the root (`Unwatched`). With all variables assigned
and nothing left to propagate every clause is then true, so the error of the last check is never raised. The only assumptions
are that the literals of the formulas are of its variables, which `add_clause` enforces.

For `RefineIsRight`, `PmlMeaning` says of every model that extends the entry: if it agrees with the trail below
an entry, it agrees with that entry, unless the entry is a branch whose other value is still to come (`Follows`); and a
value of a branch that is behind has no model. So a call that failed on both values, or whose propagation found a false clause,
leaves no model that agrees with the trail below it, and the outermost one none at all. `PmlTrail` keeps every variable on the trail
once, with the value it had on entry for all others, so that undoing restores the entry, also when the budget ends
in the middle. That a complete budget never ends needs a price: a frame that has tried nothing can spend
twice the price of the frame below its branch, and `PmlAfford` keeps the sum over the stack within the budget. The
stack is no deeper than there are variables, because every branch takes one (`Shallow`, an injection).

`SearchRunsOut` is the part of `SolveReturns` that does not need fairness. The rank of a state of the search is
five naturals in the order of the lexicon (`WFLexProductOrdering` of the library): the branches left in the budget, the calls that are open, where
the innermost one is (propagating, about to branch, branching, on its way out), twice the unassigned variables and one
if the sweep has assigned any, and the clauses left in the sweep (`RankFalls`). Twice, because a sweep that assigns a variable asks for another.

For `ProofsAreRight`, `DpllReasons` says of every entry of the trail that it is an open decision which was not flipped, or what a clause
or an earlier lemma leaves when the entries before it make the rest false. An entry that was flipped is the second: the lemma
emitted at that conflict is, apart from it, the negation of decisions below it (`FlippedStep`), which is why the lemmas may leave flipped
decisions out. So at the next conflict unit propagation from the negated lemma finds the n-th entry by its n-th round
(`ConflictIsFound`), and the rounds `RupLemma` allows are enough because no variable is twice on a trail (`TrailShort`). That a model meets every lemma follows
from the same reasons (`ConflictRefutes`), so UNSAT, whose last lemma is empty, leaves none.

For `RecordsAreRight`, `TwoIInv` is the invariant of the two searches of `solve_2sat`. Of dfs1, `Searched1` says that whatever is finished and
shares no component with the path leads only to such literals (`Black`); hence `Ordered`: if u reaches the k-th finished literal, a
literal of the component of u is finished at k or later. Of dfs2, `Grouped` says that what implies a literal already done has a component no later than
its own, and that a component is the literals its first one reaches both ways. `Gathers` is where the two meet: a predecessor
without a component reaches the root of the current one, so a literal of its component was finished no earlier; had it been finished
later it would have an earlier component, and so would the predecessor. That every clause has a true literal follows from the order of the
components (`ReadsRight`), a variable in one component with its negation refutes every model (`CycleRefutes`), and breadth-first search finds the cycle for the
certificate: each round finds a literal more or nothing is left to find (`SearchFinds`). Both solvers being right, they agree with each other and with brute
force (`RecordStep`).

For `EliminationIsSound` a row is a set of variables and a parity, and adding rows is the symmetric difference. `ParityOfDiff` (a set of what is in
one of two sets has as many members as both, up to an even number) gives `TotalSum`: the sum over what is in one of
two histories is the sum of their sums, so that a history always explains its row. `PlusMeets` keeps the solutions. `XorEchelon` says that
a pivot variable is in its own row only and that the rows below the pivots have no variable that was passed; when
the columns are over, what is left there is `0 = 0` or `0 = 1`.

`AgentProofs` proves, for all things, files, weights, limits, frames, actions and bounds:

| theorem | states |
|---|---|
| `SupportIsExact` | `Spec => []SupportIsAccounted` |
| `CreditsDiffer` | `Spec => []KeptCreditsDiffer` |
| `FreshEvidence` | `Spec => []OnlyFreshEvidencePenalizes` |
| `GameRunsOut` | under `Spec`, every step of the script lowers a rank, in an order in which nothing falls for ever |
| `LearnedWasSeen` | `TraceSpec => []LearnedIsSeen` |
| `AgentsApart`, `AgentsAreRight` | `AgentsSpec => Spec /\ TraceSpec`, and the four invariants of the run under `AgentsSpec` |

`Accounts` is the inductive invariant (`AccountsHold`). Beside the two properties it says that a process
begins without events and that a prior supports no claim more than once; the latter follows from
`ScaledBounds`, for which the rounding of `load_priors` is bounded: a count of at most one stays one
whatever the weight. The step that matters is the GAME_OVER: if it is periodic, the credit of the matching
events is taken from the claims (`RetractedBounds`) and from the events (`UncreditedCount`) by the same
cardinality; if not, no event matches, so the new one differs from all. `FreshEvidence` combines the bound of the priors with
`MinSupport >= 2` (`WeightAssumption`; `LETHAL_MIN_SUPPORT` is 2).

`GameRunsOut` is the part of `GameEnds` that does not need fairness. The rank is the stage of the script, the actions left in the
budget, and the steps to the next action: a reset is followed by an action or by the end, because its answer is neither a GAME_OVER nor
known frames for as long as `IdleLimit`. That needs `IdleLimit` to be positive (`LoopAssumption`; it is 40 in the code); nothing
is assumed of the budget, which is negative if the command line says so.

`TraceIInv` (`TracesHold`) is the invariant of the trace agents, for any assignment of signatures to frames
(`SignatureAssumption`). Its core is `RowIsSeen`: what a reader would learn
from any row of either file, which has signatures only, agrees with what was done (`Told`), or the row is one whose frame
before it the trace does not show. An edge may therefore claim no change where the frame changed within its signature, and
`Told` allows no other difference. That
holds of a new row only if the agent knows where the game is, which is `Attentive`: in the loop it counts no level
the server has not given and, once it has sent something after the last RESET, its last row has the frame and the
level of the game. A reply the client could not read leaves the row before it in place and is why the hypothesis
`state # "http400"` is needed. `RecipesFrom` and its relatives say that ingesting a file yields nothing but
actions of its rows and the seeds, in whatever order the files are read.

## 5. Only model-checked, and not modelled

Checked by TLC only, because it is out of reach of the proof system:

- liveness (`AdoptersSettle`, the progress part of `FulfilsContract`, `SolveReturns`, `GameEnds`): it does not reason about fairness
  and `ENABLED`. That the search of `PmlDpll` and a game cannot go on for ever is proved (`SearchRunsOut`, `GameRunsOut`); that
  they are never stuck before their end is checked. For the clause-learning search, whose restarts throw work away, both are
  checked.

Not modelled, although it has state:

- of the Python bindings, the life of ctypes callbacks across nested drains, which the interpreter decides;
- the TypeScript twins of the server and the graph, which run on one thread; the one await that
  matters, in `graphql`, has the shape of the `set` of `McpServer`;
- of the durable graph the traversals and searches, which read only, scores and decay, and a second process
  on the same file, about which the repository promises nothing;
- the store on disk of the pool server, which its server never attaches;
- `SAT.c`, the algorithm of `SAT.py` on hand-managed arrays;
- the anchors, contracts of four guarded calls each atomic on its ledger, and the game harness of the web app;
- the build store of `tools/build_memory`, written by one process.

Not modelled because they are pure data, input/output or user interface: embeddings, frame analysis and action scores
of the agents, the stubs of the command lines, the web app's views, numeric kernels and shims, generated
instances, documentation. Vendored: the upgradeable proxy.

## 6. Plan

Done, in this order: promises and their contract; silo and binding; durable graph; session stores
and server; graph indexes; solvers; package manager and pool; agents; the theorems of section 4.

Next, most important first:

1. A model of the arc harness with its undo history.
