----------------------------- MODULE MemoryGraph -----------------------------
(***************************************************************************)
(* The durable memory graph of src/mcp/pmll_memory_mcp/memory_graph.py: a   *)
(* write-through cache of nodes and edges per session over one SQLite       *)
(* connection, batches that defer its commits, and the failures of          *)
(* statements, commits and rollbacks.  The module lock is held by every     *)
(* call and by a batch from its beginning to its end, so a call is one step *)
(* and the calls inside a batch are those of its thread.                    *)
(*                                                                          *)
(* A graph maps items to values: a node is identified by its type and label *)
(* and has a content, an edge is linked or not.  Access times, counts,      *)
(* embeddings and weights only decide which items a call picks.             *)
(***************************************************************************)
EXTENDS Integers

CONSTANTS
  Session, Node, Content,
  Edge,        \* the pairs of nodes the application relates
  Linked,      \* the value of an edge that is there
  None,        \* the value of an item that is not there
  Absent,      \* the store of a session that is not loaded
  Unknown,     \* a value the application cannot know
  Imported,    \* the graphs given to import_graph
  Failing,     \* the operations that may raise: of SQLite, or storing a record
  InBatch,     \* the calls that commit on their own and are made inside batches
  MaxDepth     \* bound on nested batches

ASSUME EdgeAssumption == Edge \subseteq Node \X Node /\ Node \intersect Edge = {}
ASSUME ValueAssumption ==
  /\ None # Unknown /\ Linked \notin {None, Unknown}
  /\ Content \intersect {None, Unknown} = {}
ASSUME GraphFailingAssumption == Failing \subseteq {"statement", "commit", "rollback", "record"}
ASSUME InBatchAssumption == InBatch \subseteq {"search", "retrieve", "import", "clear"}
ASSUME MaxDepthAssumption == MaxDepth \in Nat

Item  == Node \union Edge
Value == Content \union {Linked, None}
Graph == [Item -> Value]

ASSUME ImportedAssumption == Imported \subseteq Graph
ASSUME AbsentAssumption == Absent \notin Graph

VARIABLES
  stores,   \* _graph_stores: the cache of each session
  db,       \* view: the rows the connection sees; saved: the committed rows
  depth,    \* _batch_depth
  acked,    \* what the calls that returned have told the application
  kept      \* inside a batch, acked as it was when the outermost one began

vars == <<stores, db, depth, acked, kept>>

EmptyGraph == [i \in Item |-> None]
NoGraphs   == [s \in Session |-> EmptyGraph]

Nodes(g) == {n \in Node : g[n] # None}
Edges(g) == {e \in Edge : g[e] # None}
Without(g, items) == [i \in Item |-> IF i \in items THEN None ELSE g[i]]

\* The nodes no edge of g ends in.
Isolated(g) == {n \in Nodes(g) : \A e \in Edges(g) : n \notin {e[1], e[2]}}

\* _get_graph: a session is loaded on its first use.
Cached(s) == IF stores[s] = Absent THEN db.view[s] ELSE stores[s]

-----------------------------------------------------------------------------
(* SQLite: each operation yields the database and whether it returned *)

Ran(d)    == [db |-> d, ok |-> TRUE]
Raised(d) == [db |-> d, ok |-> FALSE]

RaisedIf(operation, outcomes) == IF operation \in Failing THEN outcomes ELSE {}

Execute(d, s, rows) ==
  {Ran([d EXCEPT !.view[s] = rows])} \union RaisedIf("statement", {Raised(d)})

RolledBack(d) == [d EXCEPT !.view = d.saved]

\* A commit that fails leaves its transaction open or loses it.
Commit(d) ==
  {Ran([d EXCEPT !.saved = d.view])}
    \union RaisedIf("commit", {Raised(d), Raised(RolledBack(d))})

\* Seeded fault: the depth is compared before the outermost block is counted.
CommitInOutermost(d) == IF depth <= 1 THEN Commit(d) ELSE {Ran(d)}

\* _maybe_commit
MaybeCommit(d) == IF depth = 0 THEN Commit(d) ELSE {Ran(d)}

\* _persist_node, _persist_edge and the two deletions
Persist(d, s, rows) ==
  UNION {IF r.ok THEN MaybeCommit(r.db) ELSE {r} : r \in Execute(d, s, rows)}

Delete(d, s, items) ==
  IF items = {} THEN {Ran(d)} ELSE Persist(d, s, Without(d.view[s], items))

\* The rows of the items as the cache has them.
Rows(d, s, g, items) == [i \in Item |-> IF i \in items THEN g[i] ELSE d.view[s][i]]

\* The application learns the values of items in g, or that a call failed.
Told(a, s, items, g, ok) ==
  [a EXCEPT ![s] = [i \in Item |-> IF i \notin items THEN a[s][i]
                                   ELSE IF ok THEN g[i] ELSE Unknown]]

-----------------------------------------------------------------------------
(* Calls that commit per row *)

\* A call that reads, or returns early: it only loads the session.
Load(s) ==
  /\ stores' = [stores EXCEPT ![s] = Cached(s)]
  /\ UNCHANGED <<db, depth, acked, kept>>

\* upsert_node, create_relation: the cache first, then the row.  A call that
\* fails leaves the value unknown, unless it was to write the value again.
Put(s, i, value) ==
  LET g == [Cached(s) EXCEPT ![i] = value]
      doubtful == IF Cached(s)[i] = value THEN {} ELSE {i}
  IN  /\ stores' = [stores EXCEPT ![s] = g]
      /\ \E r \in Persist(db, s, Rows(db, s, g, {i})) :
           db' = r.db /\ acked' = Told(acked, s, IF r.ok THEN {i} ELSE doubtful, g, r.ok)
      /\ UNCHANGED <<depth, kept>>

Upsert(s, n, c) == Put(s, n, c)

Relate(s, e) == {e[1], e[2]} \subseteq Nodes(Cached(s)) /\ Put(s, e, Linked)

\* find_node_by_label: a hit is persisted with its new access time.
Find(s, n) == n \in Nodes(Cached(s)) /\ Put(s, n, Cached(s)[n])

\* prune_stale_links: the edges in one transaction, then the nodes in another.
\* Which edges have decayed and which nodes are old enough is a choice.
Prune(s, stale, old) ==
  LET g1 == Without(Cached(s), stale)
      g2 == Without(g1, old)
  IN  /\ stale \subseteq Edges(Cached(s)) /\ old \subseteq Isolated(g1)
      /\ \E r1 \in Delete(db, s, stale) :
           \/ /\ ~r1.ok
              /\ db' = r1.db
              /\ stores' = [stores EXCEPT ![s] = g1]
              /\ acked' = Told(acked, s, stale, g1, FALSE)
           \/ /\ r1.ok
              /\ stores' = [stores EXCEPT ![s] = g2]
              /\ \E r2 \in Delete(r1.db, s, old) :
                   /\ db' = r2.db
                   /\ acked' = Told(Told(acked, s, stale, g1, TRUE), s, old, g2, r2.ok)
      /\ UNCHANGED <<depth, kept>>

-----------------------------------------------------------------------------
(* Calls that commit on their own *)

CommitsItself(call) == depth = 0 \/ call \in InBatch

\* The hits are persisted one by one, then committed together.
Touch(s, hits) ==
  LET g == Cached(s)
      touched(items) == [db EXCEPT !.view[s] = Rows(db, s, g, items)]
  IN  /\ stores' = [stores EXCEPT ![s] = g]
      /\ \E r \in Commit(touched(hits))
                    \union RaisedIf("statement", {Raised(touched(some)) :
                                                   some \in (SUBSET hits) \ {hits}}) :
           db' = r.db /\ acked' = IF r.ok THEN Told(acked, s, hits, g, TRUE) ELSE acked
      /\ UNCHANGED <<depth, kept>>

\* search_graph: the similarity picks any nodes of a graph that has some.
Search(s, hits) ==
  /\ CommitsItself("search")
  /\ Nodes(Cached(s)) # {}
  /\ hits \subseteq Nodes(Cached(s))
  /\ Touch(s, hits)

\* Every hit is reached from start along edges between hits.
ReachedFrom(g, start, hits) ==
  \A part \in SUBSET hits :
    start \in part /\ part # hits =>
      \E e \in Edges(g) : \/ e[1] \in part /\ e[2] \in hits \ part
                          \/ e[2] \in part /\ e[1] \in hits \ part

\* retrieve_with_traversal
Retrieve(s, start, hits) ==
  /\ CommitsItself("retrieve")
  /\ start \in hits /\ hits \subseteq Nodes(Cached(s))
  /\ ReachedFrom(Cached(s), start, hits)
  /\ Touch(s, hits)

\* The rows of a session while import_graph replaces its graph with g.
HalfImported(s, g) ==
  {db.view[s], Without(db.view[s], Node)}
    \union {Without(g, Item \ items) :
              items \in SUBSET Node \union {Node \union es : es \in SUBSET Edge}}

\* Seeded fault: the rows are replaced and the cache is not.
ImportRows(s, g) ==
  LET loaded == [db EXCEPT !.view[s] = g]
  IN  /\ CommitsItself("import")
      /\ db' = [loaded EXCEPT !.saved = loaded.view]
      /\ acked' = Told(acked, s, Item, g, TRUE)
      /\ UNCHANGED <<stores, depth, kept>>

\* import_graph: the cache is replaced after the commit.  An error of SQLite
\* rolls the connection back; any other error of a record that passed the
\* validation, or of the rollback itself, leaves the transaction open.
Import(s, g) ==
  LET loaded == [db EXCEPT !.view[s] = g]
  IN  /\ CommitsItself("import")
      /\ \/ /\ db' = [loaded EXCEPT !.saved = loaded.view]
            /\ stores' = [stores EXCEPT ![s] = g]
            /\ acked' = Told(acked, s, Item, g, TRUE)
         \/ /\ Failing \intersect {"statement", "commit"} # {}
            /\ db' = RolledBack(db)
            /\ UNCHANGED <<stores, acked>>
         \/ /\ \E rows \in HalfImported(s, g) : db' = [db EXCEPT !.view[s] = rows]
            /\ acked' \in RaisedIf("record", {acked})
                          \union (IF Failing \intersect {"statement", "commit"} = {} THEN {}
                                  ELSE RaisedIf("rollback", {Told(acked, s, Item, g, FALSE)}))
            /\ UNCHANGED stores
      /\ UNCHANGED <<depth, kept>>

\* clear_graph: the cache is dropped, the nodes are deleted, then the edges.
Clear(s) ==
  LET cleared(items) == [db EXCEPT !.view[s] = Without(db.view[s], items)]
  IN  /\ CommitsItself("clear")
      /\ stores' = [stores EXCEPT ![s] = Absent]
      /\ \E r \in Commit(cleared(Item))
                    \union RaisedIf("statement", {Raised(db), Raised(cleared(Node))}) :
           db' = r.db /\ acked' = Told(acked, s, Item, EmptyGraph, r.ok)
      /\ UNCHANGED <<depth, kept>>

-----------------------------------------------------------------------------
(* Batches and restarts *)

BeginBatch ==
  /\ depth < MaxDepth
  /\ depth' = depth + 1
  /\ kept' = IF depth = 0 THEN acked ELSE kept
  /\ UNCHANGED <<stores, db, acked>>

\* What is known when the writes of a batch may or may not be lost.
Uncertain == [s \in Session |->
               [i \in Item |-> IF acked[s][i] = kept[s][i] THEN acked[s][i] ELSE Unknown]]

\* batch(): the block returns; the outermost one commits.
EndBatch ==
  /\ depth > 0
  /\ depth' = depth - 1
  /\ IF depth = 1
     THEN /\ \E r \in Commit(db) : db' = r.db /\ acked' = IF r.ok THEN acked ELSE Uncertain
          /\ kept' = NoGraphs
     ELSE UNCHANGED <<db, acked, kept>>
  /\ UNCHANGED stores

\* Seeded fault: a batch that raises keeps the caches.
RaiseBatchKeepsCaches ==
  /\ depth > 0
  /\ depth' = depth - 1
  /\ IF depth = 1 THEN db' = RolledBack(db) /\ acked' = kept /\ kept' = NoGraphs
     ELSE UNCHANGED <<db, acked, kept>>
  /\ UNCHANGED stores

\* batch(): the block raises; the outermost one rolls back, even if the
\* rollback fails it drops the caches.
RaiseBatch ==
  /\ depth > 0
  /\ depth' = depth - 1
  /\ IF depth = 1
     THEN /\ stores' = [s \in Session |-> Absent] /\ kept' = NoGraphs
          /\ \/ db' = RolledBack(db) /\ acked' = kept
             \/ "rollback" \in Failing /\ db' = db /\ acked' = Uncertain
     ELSE UNCHANGED <<stores, db, acked, kept>>

\* The process dies and starts again, or configure_db opens the same file: the
\* open transaction is lost.
Restart ==
  /\ stores' = [s \in Session |-> Absent]
  /\ db' = RolledBack(db)
  /\ depth' = 0
  /\ acked' = IF depth = 0 THEN acked ELSE kept
  /\ kept' = NoGraphs

\* reload_session_from_db
Reload(s) ==
  /\ stores' = [stores EXCEPT ![s] = db.view[s]]
  /\ UNCHANGED <<db, depth, acked, kept>>

-----------------------------------------------------------------------------

Init ==
  /\ stores = [s \in Session |-> Absent]
  /\ db = [view |-> NoGraphs, saved |-> NoGraphs]
  /\ depth = 0
  /\ acked = NoGraphs
  /\ kept = NoGraphs

Call(s) ==
  \/ Load(s) \/ Reload(s) \/ Clear(s)
  \/ \E n \in Node, c \in Content : Upsert(s, n, c)
  \/ \E n \in Node : Find(s, n)
  \/ \E e \in Edge : Relate(s, e)
  \/ \E stale \in SUBSET Edge, old \in SUBSET Node : Prune(s, stale, old)
  \/ \E hits \in SUBSET Node : Search(s, hits) \/ \E n \in Node : Retrieve(s, n, hits)
  \/ \E g \in Imported : Import(s, g)

Next == BeginBatch \/ EndBatch \/ RaiseBatch \/ Restart \/ \E s \in Session : Call(s)

Spec == Init /\ [][Next]_vars

-----------------------------------------------------------------------------
(* Properties *)

\* The variables have their types.
TypeOK ==
  /\ stores \in [Session -> Graph \union {Absent}]
  /\ db \in [view : [Session -> Graph], saved : [Session -> Graph]]
  /\ depth \in 0 .. MaxDepth
  /\ acked \in [Session -> [Item -> Value \union {Unknown}]]
  /\ kept \in [Session -> [Item -> Value \union {Unknown}]]

\* Nothing the application was told contradicts the graphs.
Agrees(told, graphs) ==
  \A s \in Session, i \in Item : told[s][i] \in {Unknown, graphs[s][i]}

\* What a call that returned outside a batch has stored or answered is on the
\* disk, through failing calls, failing commits and restarts; what a batch
\* does becomes durable when its outermost block returns, all of it and not
\* before, and a batch that raises leaves what was there.
AckedIsDurable == Agrees(IF depth = 0 THEN acked ELSE kept, db.saved)

\* The application reads what it has been told: the cache and the rows behind
\* it agree on everything acknowledged, although each may be ahead of the other
\* after a failure, and a session may be dropped and reloaded at any time.
AckedIsRead ==
  /\ \A s \in Session, i \in Item : acked[s][i] \in {Unknown, Cached(s)[i]}
  /\ Agrees(acked, db.view)

\* As long as the database does not fail, cache and rows are the same and
\* nothing stays uncommitted outside a batch.
CacheMirrorsRows ==
  /\ \A s \in Session : Cached(s) = db.view[s]
  /\ depth = 0 => db.view = db.saved
=============================================================================
