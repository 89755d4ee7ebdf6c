----------------------------- MODULE GraphIndex -----------------------------
(***************************************************************************)
(* The memory of one session in src/mcp/pmll_memory_mcp/memory_graph.py:    *)
(* class _GraphStore with its four lookup indexes, the calls that change it *)
(* and add_interlinked_context, which takes the lock of the module once per *)
(* row, so that other calls run between its rows.                           *)
(*                                                                          *)
(* MemoryGraph models the rows on disk; here only the dictionaries in       *)
(* memory matter.  Contents, times, weights and embeddings decide which     *)
(* items are similar, decayed or old, and these are choices of the model.   *)
(***************************************************************************)
EXTENDS Integers, Sequences, FiniteSets

CONSTANTS
  NodeId, EdgeId,  \* identities; _generate_id makes a new one for each entry
  NodeType, Label, Relation,
  None,
  Imported,        \* graphs given to import_graph: [nodes, edges]
  MaxItems,        \* items of an add_interlinked_context
  OutsideChanges   \* may code outside the module change the dictionaries?

NodeKey == NodeType \X Label
EdgeKey == NodeId \X NodeId \X Relation

\* MemoryNode and MemoryEdge, without what does not decide a lookup.
Nodes == [NodeId -> NodeKey \union {None}]
Edges == [EdgeId -> EdgeKey \union {None}]

ASSUME IndexNoneAssumption ==
  None \notin NodeId \union EdgeId \union NodeKey \union EdgeKey
ASSUME IdsFinite == IsFiniteSet(NodeId) /\ IsFiniteSet(EdgeId)
ASSUME ImportedAssumption ==
  \A graph \in Imported : graph.nodes \in Nodes /\ graph.edges \in Edges
ASSUME OutsideAssumption == OutsideChanges \in BOOLEAN /\ MaxItems \in Nat

VARIABLES
  graph,  \* the _GraphStore: its dictionaries, indexes, and _indexed
  job     \* the locals of the add_interlinked_context in progress

vars == <<graph, job>>

Ids(dict) == {id \in DOMAIN dict : dict[id] # None}

Sizes(nodes, edges) == <<Cardinality(Ids(nodes)), Cardinality(Ids(edges))>>

-----------------------------------------------------------------------------
(* _GraphStore *)

\* The entry an index keeps of several with the same key: the first one
\* inserted in the code, here any fixed one.
First(S) == IF S = {} THEN None ELSE CHOOSE id \in S : TRUE

Having(dict, key) == {id \in Ids(dict) : dict[id] = key}

Touching(edges, node) ==
  {id \in Ids(edges) : edges[id][1] = node \/ edges[id][2] = node}

LabelOf(key) == key[2]

\* rebuild_index
Rebuilt(nodes, edges) ==
  [nodes         |-> nodes,
   edges         |-> edges,
   by_type_label |-> [key \in NodeKey |-> First(Having(nodes, key))],
   by_label      |-> [label \in Label |-> {id \in Ids(nodes) : LabelOf(nodes[id]) = label}],
   by_edge_key   |-> [key \in EdgeKey |-> First(Having(edges, key))],
   adjacency     |-> [node \in NodeId |-> Touching(edges, node)],
   indexed       |-> Sizes(nodes, edges)]

\* _sync
Synced(g) ==
  IF g.indexed = Sizes(g.nodes, g.edges) THEN g ELSE Rebuilt(g.nodes, g.edges)

Counted(g) == [g EXCEPT !.indexed = Sizes(g.nodes, g.edges)]

\* add_node, _index_node
NodeAdded(g, id, key) ==
  Counted([g EXCEPT !.nodes[id] = key,
                    !.by_type_label[key] = IF @ = None THEN id ELSE @,
                    !.by_label[LabelOf(key)] = @ \union {id}])

\* add_edge, _index_edge
EdgeAdded(g, id, key) ==
  Counted([g EXCEPT !.edges[id] = key,
                    !.by_edge_key[key] = IF @ = None THEN id ELSE @,
                    !.adjacency = [node \in NodeId |->
                      IF node \in {key[1], key[2]} THEN @[node] \union {id} ELSE @[node]]])

\* Seeded fault: the key of a removed edge is forgotten although another edge
\* has it.
EdgeRemovedForgetting(g, id) ==
  LET key == g.edges[id]
  IN  Counted([g EXCEPT !.edges[id] = None,
                        !.by_edge_key[key] = IF @ = id THEN None ELSE @,
                        !.adjacency = [node \in NodeId |-> @[node] \ {id}]])

\* remove_edge of an edge that exists
EdgeRemoved(g, id) ==
  LET key == g.edges[id]
  IN  Counted([g EXCEPT !.edges[id] = None,
                        !.by_edge_key[key] = IF @ = id THEN First(Having(g.edges, key) \ {id}) ELSE @,
                        !.adjacency = [node \in NodeId |->
                          IF node \in {key[1], key[2]} THEN @[node] \ {id} ELSE @[node]]])

\* remove_node of a node that exists
NodeRemoved(g, id) ==
  LET key == g.nodes[id]
  IN  Counted([g EXCEPT !.nodes[id] = None,
                        !.by_label[LabelOf(key)] = @ \ {id},
                        !.by_type_label[key] = IF @ = id THEN First(Having(g.nodes, key) \ {id}) ELSE @,
                        !.adjacency[id] = {}])

\* Seeded fault: the sizes of the dictionaries are not looked at.
NodeLookupUnsynced(g, key) ==
  LET id == g.by_type_label[key]
  IN  IF id = None THEN None
      ELSE IF g.nodes[id] = key THEN id ELSE First(Having(g.nodes, key))

\* node_by_type_label: a stale entry makes the store rebuild its indexes.
NodeLookup(g, key) ==
  LET id == Synced(g).by_type_label[key]
  IN  IF id = None THEN None
      ELSE IF g.nodes[id] = key THEN id ELSE First(Having(g.nodes, key))

\* nodes_by_label
LabelLookup(g, label) == Synced(g).by_label[label] \intersect Ids(g.nodes)

\* edge_by_key
EdgeLookup(g, key) ==
  LET id == Synced(g).by_edge_key[key]
  IN  IF id # None /\ g.edges[id] # None THEN id ELSE None

\* edges_for_node
NodeEdges(g, node) == Synced(g).adjacency[node] \intersect Ids(g.edges)

-----------------------------------------------------------------------------
(* The calls *)

\* upsert_node: the graphs it may leave, with the node it returns.
Upserted(g, key) ==
  IF NodeLookup(g, key) # None THEN {[graph |-> Synced(g), node |-> NodeLookup(g, key)]}
  ELSE {[graph |-> NodeAdded(Synced(g), id, key), node |-> id] : id \in NodeId \ Ids(g.nodes)}

\* Seeded fault: the ends are not looked up again.
RelatedBlindly(g, key) ==
  IF EdgeLookup(g, key) # None THEN {Synced(g)}
  ELSE {EdgeAdded(Synced(g), id, key) : id \in EdgeId \ Ids(g.edges)}

\* create_relation: NULL, a changed edge or a new one.
Related(g, key) ==
  IF ~({key[1], key[2]} \subseteq Ids(g.nodes)) THEN {g}
  ELSE IF EdgeLookup(g, key) # None THEN {Synced(g)}
  ELSE {EdgeAdded(Synced(g), id, key) : id \in EdgeId \ Ids(g.edges)}

Upsert(key) ==
  /\ \E r \in Upserted(graph, key) : graph' = r.graph
  /\ UNCHANGED job

Relate(key) ==
  /\ graph' \in Related(graph, key)
  /\ UNCHANGED job

\* prune_stale_links, the loop over the decayed edges; the lock is held on.
PruneEdge(id) ==
  /\ id \in Ids(graph.edges)
  /\ graph' = EdgeRemoved(Synced(graph), id)
  /\ UNCHANGED job

\* Seeded fault: a node is old whether or not an edge still ends at it.
PruneNodeAnyway(id) ==
  /\ id \in Ids(graph.nodes)
  /\ graph' = NodeRemoved(Synced(graph), id)
  /\ UNCHANGED job

\* prune_stale_links, the loop over the orphans
PruneNode(id) ==
  /\ id \in Ids(graph.nodes)
  /\ NodeEdges(graph, id) = {}
  /\ graph' = NodeRemoved(Synced(graph), id)
  /\ UNCHANGED job

\* import_graph and clear_graph put a new store in place of the old one.
Replace(g) ==
  /\ graph' = Rebuilt(g.nodes, g.edges)
  /\ UNCHANGED job

\* Code outside the module adds or removes a node in the dictionary.  Only one
\* such change between two lookups is noticed for sure.
OutsideChange(id, key) ==
  /\ OutsideChanges /\ graph.indexed = Sizes(graph.nodes, graph.edges)
  /\ (graph.nodes[id] = None) # (key = None)
  /\ key = None => Touching(graph.edges, id) = {}
  /\ graph' = [graph EXCEPT !.nodes[id] = key]
  /\ UNCHANGED job

-----------------------------------------------------------------------------
(* add_interlinked_context: a row at a time *)

NoJob == [at |-> "idle", items |-> <<>>, created |-> <<>>, links |-> {}]

Created == {job.created[i] : i \in DOMAIN job.created}

InterlinkStart(items) ==
  /\ job.at = "idle"
  /\ job' = [NoJob EXCEPT !.at = "items", !.items = items]
  /\ UNCHANGED graph

InterlinkItem ==
  /\ job.at = "items" /\ job.items # <<>>
  /\ \E r \in Upserted(graph, Head(job.items)) :
       /\ graph' = r.graph
       /\ job' = [job EXCEPT !.items = Tail(@), !.created = Append(@, r.node)]

\* The rows that may be linked: each new one with those after it, itself if
\* two of the items were the same.
InterlinkPairs(auto_link) ==
  /\ job.at = "items" /\ job.items = <<>>
  /\ job' = IF ~auto_link THEN NoJob
            ELSE [job EXCEPT !.at = "links",
                             !.links = {<<job.created[p[1]], job.created[p[2]]>> :
                                          p \in {q \in (1..MaxItems) \X DOMAIN job.created : q[1] < q[2]}}]
  /\ UNCHANGED graph

InterlinkLink(pair, similar) ==
  /\ job.at \in {"links", "existing"} /\ pair \in job.links
  /\ IF similar THEN \E r \in Relation : graph' \in Related(graph, <<pair[1], pair[2], r>>)
     ELSE UNCHANGED graph
  /\ job' = [job EXCEPT !.links = @ \ {pair}]

\* Then each new one with the others of the graph, read now under one lock.
InterlinkExisting ==
  /\ job.at = "links" /\ job.links = {}
  /\ job' = [job EXCEPT !.at = "existing",
                        !.links = Created \X (Ids(graph.nodes) \ Created)]
  /\ UNCHANGED graph

InterlinkEnd ==
  /\ job.at = "existing" /\ job.links = {}
  /\ job' = NoJob
  /\ UNCHANGED graph

Nothing == [nodes |-> [id \in NodeId |-> None], edges |-> [id \in EdgeId |-> None]]

Init == graph = Rebuilt(Nothing.nodes, Nothing.edges) /\ job = NoJob

Adds ==
  \/ InterlinkItem
  \/ \E key \in NodeKey : Upsert(key)
  \/ \E key \in EdgeKey : Relate(key)
  \/ \E pair \in NodeId \X NodeId, similar \in BOOLEAN : InterlinkLink(pair, similar)

Next ==
  \/ Adds
  \/ \E id \in EdgeId : PruneEdge(id)
  \/ \E id \in NodeId : PruneNode(id) \/ \E key \in NodeKey \union {None} : OutsideChange(id, key)
  \/ \E g \in Imported \union {Nothing} : Replace(g)
  \/ \E items \in [1..MaxItems -> NodeKey] : InterlinkStart(items)
  \/ \E auto_link \in BOOLEAN : InterlinkPairs(auto_link)
  \/ InterlinkExisting \/ InterlinkEnd

Spec == Init /\ [][Next]_vars

-----------------------------------------------------------------------------
(* Properties *)

Graph ==
  [nodes : Nodes, edges : Edges,
   by_type_label : [NodeKey -> NodeId \union {None}],
   by_label : [Label -> SUBSET NodeId],
   by_edge_key : [EdgeKey -> EdgeId \union {None}],
   adjacency : [NodeId -> SUBSET EdgeId],
   indexed : Nat \X Nat]

TypeOK ==
  /\ graph \in Graph
  /\ job \in [at : {"idle", "items", "links", "existing"}, items : Seq(NodeKey),
              created : Seq(NodeId), links : SUBSET (NodeId \X NodeId)]

\* The answer is one of the entries, if there is one.
AnswersFrom(answer, S) == IF S = {} THEN answer = None ELSE answer \in S

\* Every lookup through an index finds what a scan of the dictionaries would:
\* after imports with duplicate keys, removals, and a change from outside that
\* the sizes give away.
LookupsMatchScan ==
  /\ \A key \in NodeKey : AnswersFrom(NodeLookup(graph, key), Having(graph.nodes, key))
  /\ \A label \in Label :
       LabelLookup(graph, label) = {id \in Ids(graph.nodes) : LabelOf(graph.nodes[id]) = label}
  /\ \A key \in EdgeKey : AnswersFrom(EdgeLookup(graph, key), Having(graph.edges, key))
  /\ \A node \in NodeId : NodeEdges(graph, node) = Touching(graph.edges, node)

\* Both ends of an edge are nodes, although add_interlinked_context works with
\* nodes that another call may prune or clear between its rows.
EdgesHaveEnds ==
  \A id \in Ids(graph.edges) : {graph.edges[id][1], graph.edges[id][2]} \subseteq Ids(graph.nodes)

Twice(dict) == {key \in {dict[id] : id \in Ids(dict)} : Cardinality(Having(dict, key)) > 1}

\* No call that adds makes a second node of a type and label, or a second edge
\* of a key: two callers that add the same thing get the same entry.
NoNewDuplicates ==
  [][~(Twice(graph.nodes)' \subseteq Twice(graph.nodes)
       /\ Twice(graph.edges)' \subseteq Twice(graph.edges)) => ~Adds]_vars

=============================================================================
