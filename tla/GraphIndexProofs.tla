-------------------------- MODULE GraphIndexProofs --------------------------
(***************************************************************************)
(* Theorems of GraphIndex: the indexes of a session's memory answer what a  *)
(* scan of its dictionaries would, for every number of nodes, edges, labels *)
(* and relations.                                                           *)
(***************************************************************************)
EXTENDS GraphIndex, FiniteSetTheorems, TLAPS

-----------------------------------------------------------------------------
(* Types *)

Job ==
  [at : {"idle", "items", "links", "existing"}, items : Seq(NodeKey),
   created : Seq(NodeId), links : SUBSET (NodeId \X NodeId)]

LEMMA FirstFacts ==
  ASSUME NEW S
  PROVE  /\ S = {} => First(S) = None
         /\ S # {} => First(S) \in S
BY DEF First

LEMMA IdsFacts ==
  ASSUME NEW nodes \in Nodes, NEW edges \in Edges
  PROVE  /\ Ids(nodes) = {id \in NodeId : nodes[id] \in NodeKey}
         /\ Ids(edges) = {id \in EdgeId : edges[id] \in EdgeKey}
         /\ IsFiniteSet(Ids(nodes)) /\ IsFiniteSet(Ids(edges))
         /\ Sizes(nodes, edges) \in Nat \X Nat
<1>1. /\ Ids(nodes) = {id \in NodeId : nodes[id] \in NodeKey}
      /\ Ids(edges) = {id \in EdgeId : edges[id] \in EdgeKey}
  <2>1. None \notin NodeKey /\ None \notin EdgeKey
    BY IndexNoneAssumption
  <2>2. DOMAIN nodes = NodeId /\ \A id \in NodeId : nodes[id] \in NodeKey \union {None}
    BY DEF Nodes
  <2>3. DOMAIN edges = EdgeId /\ \A id \in EdgeId : edges[id] \in EdgeKey \union {None}
    BY DEF Edges
  <2> QED BY <2>1, <2>2, <2>3 DEF Ids
<1>2. Ids(nodes) \subseteq NodeId /\ Ids(edges) \subseteq EdgeId
  BY <1>1
<1>3. IsFiniteSet(Ids(nodes)) /\ IsFiniteSet(Ids(edges))
  BY <1>2, IdsFinite, FS_Subset
<1>4. Cardinality(Ids(nodes)) \in Nat /\ Cardinality(Ids(edges)) \in Nat
  BY <1>3, FS_CardinalityType
<1> QED BY <1>1, <1>3, <1>4 DEF Sizes

LEMMA HavingFacts ==
  ASSUME NEW nodes \in Nodes, NEW edges \in Edges
  PROVE  /\ \A key : Having(nodes, key) \subseteq NodeId
         /\ \A key : Having(edges, key) \subseteq EdgeId
         /\ \A node : Touching(edges, node) \subseteq EdgeId
BY IdsFacts DEF Having, Touching

-----------------------------------------------------------------------------
(* The indexes *)

\* What the four indexes are for.
Exact(g) ==
  /\ \A key \in NodeKey : AnswersFrom(g.by_type_label[key], Having(g.nodes, key))
  /\ \A label \in Label : g.by_label[label] = {id \in Ids(g.nodes) : LabelOf(g.nodes[id]) = label}
  /\ \A key \in EdgeKey : AnswersFrom(g.by_edge_key[key], Having(g.edges, key))
  /\ \A node \in NodeId : g.adjacency[node] = Touching(g.edges, node)

Counts(g) == g.indexed = Sizes(g.nodes, g.edges)

\* The indexes may be wrong only when the sizes give it away.
Sound(g) == g \in Graph /\ (Counts(g) => Exact(g))

LEMMA RebuiltExact ==
  ASSUME NEW nodes \in Nodes, NEW edges \in Edges
  PROVE  LET g == Rebuilt(nodes, edges)
         IN  g \in Graph /\ Counts(g) /\ Exact(g) /\ g.nodes = nodes /\ g.edges = edges
<1> DEFINE labels == [label \in Label |-> {id \in Ids(nodes) : LabelOf(nodes[id]) = label}]
           keys == [key \in NodeKey |-> First(Having(nodes, key))]
           ends == [key \in EdgeKey |-> First(Having(edges, key))]
           near == [node \in NodeId |-> Touching(edges, node)]
           g == Rebuilt(nodes, edges)
<1>1. keys \in [NodeKey -> NodeId \union {None}] /\ ends \in [EdgeKey -> EdgeId \union {None}]
  BY FirstFacts, HavingFacts
<1>2. labels \in [Label -> SUBSET NodeId] /\ near \in [NodeId -> SUBSET EdgeId]
  BY HavingFacts, IdsFacts
<1>3. /\ \A key \in NodeKey : AnswersFrom(keys[key], Having(nodes, key))
      /\ \A key \in EdgeKey : AnswersFrom(ends[key], Having(edges, key))
  BY FirstFacts DEF AnswersFrom
<1>4. /\ \A label \in Label : labels[label] = {id \in Ids(nodes) : LabelOf(nodes[id]) = label}
      /\ \A node \in NodeId : near[node] = Touching(edges, node)
  OBVIOUS
<1>5. g = [nodes |-> nodes, edges |-> edges, by_type_label |-> keys, by_label |-> labels,
           by_edge_key |-> ends, adjacency |-> near, indexed |-> Sizes(nodes, edges)]
  BY DEF Rebuilt
<1> HIDE DEF labels, keys, ends, near, g
<1>6. /\ g.nodes = nodes /\ g.edges = edges /\ g.by_type_label = keys /\ g.by_label = labels
      /\ g.by_edge_key = ends /\ g.adjacency = near /\ g.indexed = Sizes(nodes, edges)
  BY <1>5
<1>7. g \in Graph
  <2>1. Sizes(nodes, edges) \in Nat \X Nat
    BY IdsFacts
  <2> QED BY <1>1, <1>2, <1>5, <2>1 DEF Graph
<1>8. Exact(g)
  BY <1>3, <1>4, <1>6 DEF Exact
<1> QED BY <1>6, <1>7, <1>8 DEF Counts, g

LEMMA SyncedExact ==
  ASSUME NEW g, Sound(g)
  PROVE  /\ Synced(g) \in Graph /\ Counts(Synced(g)) /\ Exact(Synced(g))
         /\ Synced(g).nodes = g.nodes /\ Synced(g).edges = g.edges
<1>1. CASE Counts(g)
  BY <1>1 DEF Sound, Synced, Counts
<1>2. CASE ~Counts(g)
  BY <1>2, RebuiltExact DEF Sound, Synced, Counts, Graph
<1> QED BY <1>1, <1>2

\* What the lookups answer, whether or not the indexes are up to date.
LEMMA LookupFacts ==
  ASSUME NEW g, Sound(g)
  PROVE  /\ \A key \in NodeKey : AnswersFrom(NodeLookup(g, key), Having(g.nodes, key))
         /\ \A label \in Label :
              LabelLookup(g, label) = {id \in Ids(g.nodes) : LabelOf(g.nodes[id]) = label}
         /\ \A key \in EdgeKey : AnswersFrom(EdgeLookup(g, key), Having(g.edges, key))
         /\ \A node \in NodeId : NodeEdges(g, node) = Touching(g.edges, node)
<1> DEFINE h == Synced(g)
<1>1. h \in Graph /\ Exact(h) /\ h.nodes = g.nodes /\ h.edges = g.edges
  BY SyncedExact
<1>2. g.nodes \in Nodes /\ g.edges \in Edges
  BY DEF Sound, Graph
<1> HIDE DEF h
<1>3. None \notin NodeId /\ None \notin EdgeId
  BY IndexNoneAssumption
<1>4. ASSUME NEW key \in NodeKey PROVE AnswersFrom(NodeLookup(g, key), Having(g.nodes, key))
  <2>1. AnswersFrom(h.by_type_label[key], Having(g.nodes, key))
    BY <1>1 DEF Exact
  <2>2. \A id \in Having(g.nodes, key) : g.nodes[id] = key /\ id # None
    BY <1>2, <1>3, HavingFacts DEF Having
  <2> QED BY <2>1, <2>2 DEF NodeLookup, AnswersFrom, h
<1>5. ASSUME NEW label \in Label
      PROVE  LabelLookup(g, label) = {id \in Ids(g.nodes) : LabelOf(g.nodes[id]) = label}
  BY <1>1 DEF LabelLookup, Exact, h
<1>6. ASSUME NEW key \in EdgeKey PROVE AnswersFrom(EdgeLookup(g, key), Having(g.edges, key))
  <2>1. AnswersFrom(h.by_edge_key[key], Having(g.edges, key))
    BY <1>1 DEF Exact
  <2>2. \A id \in Having(g.edges, key) : g.edges[id] # None /\ id # None
    BY <1>2, <1>3, HavingFacts DEF Having, Ids
  <2> QED BY <2>1, <2>2 DEF EdgeLookup, AnswersFrom, h
<1>7. ASSUME NEW node \in NodeId PROVE NodeEdges(g, node) = Touching(g.edges, node)
  BY <1>1 DEF NodeEdges, Exact, Touching, h
<1> QED BY <1>4, <1>5, <1>6, <1>7

-----------------------------------------------------------------------------
(* The operations of _GraphStore *)

LEMMA NodeAddedExact ==
  ASSUME NEW g \in Graph, Exact(g), NEW id \in NodeId, id \notin Ids(g.nodes), NEW key \in NodeKey
  PROVE  LET h == NodeAdded(g, id, key)
         IN  /\ h \in Graph /\ Counts(h) /\ Exact(h)
             /\ h.nodes = [g.nodes EXCEPT ![id] = key] /\ h.edges = g.edges
             /\ Ids(h.nodes) = Ids(g.nodes) \union {id}
             /\ Having(h.nodes, key) = Having(g.nodes, key) \union {id}
             /\ \A k \in NodeKey \ {key} : Having(h.nodes, k) = Having(g.nodes, k)
<1> DEFINE nodes == [g.nodes EXCEPT ![id] = key]
           keys == [g.by_type_label EXCEPT ![key] = IF @ = None THEN id ELSE @]
           labels == [g.by_label EXCEPT ![LabelOf(key)] = @ \union {id}]
           h == NodeAdded(g, id, key)
<1>1. /\ g.nodes \in Nodes /\ g.edges \in Edges /\ LabelOf(key) \in Label
      /\ g.by_type_label \in [NodeKey -> NodeId \union {None}]
      /\ g.by_label \in [Label -> SUBSET NodeId]
  BY DEF Graph, LabelOf, NodeKey
<1>2. nodes \in Nodes /\ keys \in [NodeKey -> NodeId \union {None}]
      /\ labels \in [Label -> SUBSET NodeId]
  BY <1>1 DEF Nodes
<1>3. h = [g EXCEPT !.nodes = nodes, !.by_type_label = keys, !.by_label = labels,
                    !.indexed = Sizes(nodes, g.edges)]
  BY DEF NodeAdded, Counted, Graph
<1>4. Sizes(nodes, g.edges) \in Nat \X Nat
  BY <1>1, <1>2, IdsFacts
<1>5. /\ nodes[id] = key /\ \A i \in NodeId \ {id} : nodes[i] = g.nodes[i]
      /\ keys[key] = IF g.by_type_label[key] = None THEN id ELSE g.by_type_label[key]
      /\ \A k \in NodeKey \ {key} : keys[k] = g.by_type_label[k]
      /\ labels[LabelOf(key)] = g.by_label[LabelOf(key)] \union {id}
      /\ \A l \in Label \ {LabelOf(key)} : labels[l] = g.by_label[l]
  BY <1>1 DEF Nodes
<1> HIDE DEF nodes, keys, labels, h
<1>6. /\ h \in Graph /\ h.nodes = nodes /\ h.edges = g.edges /\ h.by_type_label = keys
      /\ h.by_label = labels /\ h.by_edge_key = g.by_edge_key /\ h.adjacency = g.adjacency
      /\ h.indexed = Sizes(nodes, g.edges)
  BY <1>2, <1>3, <1>4 DEF Graph
<1>7. Ids(nodes) = Ids(g.nodes) \union {id}
  BY <1>1, <1>2, <1>5, IdsFacts
<1>8. /\ Having(nodes, key) = Having(g.nodes, key) \union {id}
      /\ \A k \in NodeKey \ {key} : Having(nodes, k) = Having(g.nodes, k)
  <2>1. \A i \in Ids(g.nodes) : i # id /\ i \in NodeId
    BY <1>1, IdsFacts
  <2> QED BY <1>5, <1>7, <2>1 DEF Having
<1>9. \A k \in NodeKey : AnswersFrom(keys[k], Having(nodes, k))
  <2>1. \A k \in NodeKey : AnswersFrom(g.by_type_label[k], Having(g.nodes, k))
    BY DEF Exact
  <2>2. None \notin Having(g.nodes, key)
    BY <1>1, HavingFacts, IndexNoneAssumption
  <2> QED BY <1>5, <1>8, <2>1, <2>2 DEF AnswersFrom
<1>10. \A l \in Label : labels[l] = {i \in Ids(nodes) : LabelOf(nodes[i]) = l}
  <2>1. \A i \in Ids(g.nodes) : i # id /\ nodes[i] = g.nodes[i]
    BY <1>1, <1>5, IdsFacts
  <2>2. \A l \in Label : g.by_label[l] = {i \in Ids(g.nodes) : LabelOf(g.nodes[i]) = l}
    BY DEF Exact
  <2> TAKE l \in Label
  <2>3. CASE l = LabelOf(key)
    BY <1>5, <1>7, <2>1, <2>2, <2>3
  <2>4. CASE l # LabelOf(key)
    BY <1>5, <1>7, <2>1, <2>2, <2>4
  <2> QED BY <2>3, <2>4
<1>11. Exact(h)
  BY <1>6, <1>9, <1>10 DEF Exact
<1> QED BY <1>6, <1>7, <1>8, <1>11 DEF Counts, h, nodes

LEMMA EdgeAddedExact ==
  ASSUME NEW g \in Graph, Exact(g), NEW id \in EdgeId, id \notin Ids(g.edges), NEW key \in EdgeKey
  PROVE  LET h == EdgeAdded(g, id, key)
         IN  /\ h \in Graph /\ Counts(h) /\ Exact(h)
             /\ h.edges = [g.edges EXCEPT ![id] = key] /\ h.nodes = g.nodes
             /\ Ids(h.edges) = Ids(g.edges) \union {id}
             /\ Having(h.edges, key) = Having(g.edges, key) \union {id}
             /\ \A k \in EdgeKey \ {key} : Having(h.edges, k) = Having(g.edges, k)
<1> DEFINE edges == [g.edges EXCEPT ![id] = key]
           keys == [g.by_edge_key EXCEPT ![key] = IF @ = None THEN id ELSE @]
           near == [node \in NodeId |->
                      IF node \in {key[1], key[2]} THEN g.adjacency[node] \union {id}
                      ELSE g.adjacency[node]]
           h == EdgeAdded(g, id, key)
<1>1. /\ g.nodes \in Nodes /\ g.edges \in Edges
      /\ g.by_edge_key \in [EdgeKey -> EdgeId \union {None}]
      /\ g.adjacency \in [NodeId -> SUBSET EdgeId]
  BY DEF Graph
<1>2. edges \in Edges /\ keys \in [EdgeKey -> EdgeId \union {None}]
      /\ near \in [NodeId -> SUBSET EdgeId]
  BY <1>1 DEF Edges
<1>3. h = [g EXCEPT !.edges = edges, !.by_edge_key = keys, !.adjacency = near,
                    !.indexed = Sizes(g.nodes, edges)]
  BY DEF EdgeAdded, Counted, Graph
<1>4. Sizes(g.nodes, edges) \in Nat \X Nat
  BY <1>1, <1>2, IdsFacts
<1>5. /\ edges[id] = key /\ \A i \in EdgeId \ {id} : edges[i] = g.edges[i]
      /\ keys[key] = IF g.by_edge_key[key] = None THEN id ELSE g.by_edge_key[key]
      /\ \A k \in EdgeKey \ {key} : keys[k] = g.by_edge_key[k]
      /\ \A node \in NodeId :
           near[node] = IF node \in {key[1], key[2]} THEN g.adjacency[node] \union {id}
                        ELSE g.adjacency[node]
  BY <1>1 DEF Edges
<1> HIDE DEF edges, keys, near, h
<1>6. /\ h \in Graph /\ h.edges = edges /\ h.nodes = g.nodes /\ h.by_edge_key = keys
      /\ h.adjacency = near /\ h.by_type_label = g.by_type_label /\ h.by_label = g.by_label
      /\ h.indexed = Sizes(g.nodes, edges)
  BY <1>2, <1>3, <1>4 DEF Graph
<1>7. Ids(edges) = Ids(g.edges) \union {id}
  BY <1>1, <1>2, <1>5, IdsFacts
<1>8. \A i \in Ids(g.edges) : i # id /\ i \in EdgeId /\ edges[i] = g.edges[i]
  BY <1>1, <1>5, IdsFacts
<1>9. /\ Having(edges, key) = Having(g.edges, key) \union {id}
      /\ \A k \in EdgeKey \ {key} : Having(edges, k) = Having(g.edges, k)
  BY <1>5, <1>7, <1>8 DEF Having
<1>10. \A k \in EdgeKey : AnswersFrom(keys[k], Having(edges, k))
  <2>1. \A k \in EdgeKey : AnswersFrom(g.by_edge_key[k], Having(g.edges, k))
    BY DEF Exact
  <2>2. None \notin Having(g.edges, key)
    BY <1>1, HavingFacts, IndexNoneAssumption
  <2> QED BY <1>5, <1>9, <2>1, <2>2 DEF AnswersFrom
<1>11. \A node \in NodeId : near[node] = Touching(edges, node)
  <2> TAKE node \in NodeId
  <2>1. g.adjacency[node] = Touching(g.edges, node)
    BY DEF Exact
  <2>2. Touching(edges, node) = Touching(g.edges, node) \union
                                  (IF node \in {key[1], key[2]} THEN {id} ELSE {})
    BY <1>5, <1>7, <1>8 DEF Touching
  <2> QED BY <1>5, <2>1, <2>2
<1>12. Exact(h)
  BY <1>6, <1>10, <1>11 DEF Exact
<1> QED BY <1>6, <1>7, <1>9, <1>12 DEF Counts, h, edges

LEMMA EdgeRemovedExact ==
  ASSUME NEW g \in Graph, Exact(g), NEW id \in Ids(g.edges)
  PROVE  LET h == EdgeRemoved(g, id)
         IN  /\ h \in Graph /\ Counts(h) /\ Exact(h) /\ h.nodes = g.nodes
             /\ Ids(h.edges) = Ids(g.edges) \ {id}
             /\ \A i \in Ids(h.edges) : h.edges[i] = g.edges[i]
<1> DEFINE key == g.edges[id]
           edges == [g.edges EXCEPT ![id] = None]
           next == First(Having(g.edges, key) \ {id})
           keys == [g.by_edge_key EXCEPT ![key] = IF @ = id THEN next ELSE @]
           near == [node \in NodeId |->
                      IF node \in {key[1], key[2]} THEN g.adjacency[node] \ {id}
                      ELSE g.adjacency[node]]
           h == EdgeRemoved(g, id)
<1>1. /\ g.nodes \in Nodes /\ g.edges \in Edges
      /\ g.by_edge_key \in [EdgeKey -> EdgeId \union {None}]
      /\ g.adjacency \in [NodeId -> SUBSET EdgeId]
  BY DEF Graph
<1>2. id \in EdgeId /\ key \in EdgeKey
  BY <1>1, IdsFacts
<1>3. next \in EdgeId \union {None}
  BY <1>1, FirstFacts, HavingFacts
<1>4. h = [g EXCEPT !.edges = edges, !.by_edge_key = keys, !.adjacency = near,
                    !.indexed = Sizes(g.nodes, edges)]
  BY DEF EdgeRemoved, Counted, Graph
<1>5. AnswersFrom(next, Having(g.edges, key) \ {id})
  BY FirstFacts DEF AnswersFrom
<1> HIDE DEF next
<1>6. edges \in Edges /\ keys \in [EdgeKey -> EdgeId \union {None}]
      /\ near \in [NodeId -> SUBSET EdgeId]
  BY <1>1, <1>2, <1>3 DEF Edges
<1>7. Sizes(g.nodes, edges) \in Nat \X Nat
  BY <1>1, <1>6, IdsFacts
<1>8. /\ edges[id] = None /\ \A i \in EdgeId \ {id} : edges[i] = g.edges[i]
      /\ keys[key] = IF g.by_edge_key[key] = id THEN next ELSE g.by_edge_key[key]
      /\ \A k \in EdgeKey \ {key} : keys[k] = g.by_edge_key[k]
      /\ \A node \in NodeId :
           near[node] = IF node \in {key[1], key[2]} THEN g.adjacency[node] \ {id}
                        ELSE g.adjacency[node]
  BY <1>1, <1>2 DEF Edges
<1> HIDE DEF edges, keys, near, h
<1>9. /\ h \in Graph /\ h.edges = edges /\ h.nodes = g.nodes /\ h.by_edge_key = keys
      /\ h.adjacency = near /\ h.by_type_label = g.by_type_label /\ h.by_label = g.by_label
      /\ h.indexed = Sizes(g.nodes, edges)
  BY <1>4, <1>6, <1>7 DEF Graph
<1>10. Ids(edges) = Ids(g.edges) \ {id} /\ \A i \in Ids(edges) : edges[i] = g.edges[i]
  BY <1>1, <1>6, <1>8, IdsFacts, IndexNoneAssumption
<1>11. /\ Having(edges, key) = Having(g.edges, key) \ {id}
       /\ \A k \in EdgeKey \ {key} : Having(edges, k) = Having(g.edges, k)
  BY <1>10 DEF Having
<1>12. \A k \in EdgeKey : AnswersFrom(keys[k], Having(edges, k))
  <2>1. \A k \in EdgeKey : AnswersFrom(g.by_edge_key[k], Having(g.edges, k))
    BY DEF Exact
  <2>2. id \in Having(g.edges, key)
    BY DEF Having
  <2> HIDE DEF key
  <2> QED BY <1>2, <1>5, <1>8, <1>11, <2>1, <2>2 DEF AnswersFrom
<1>13. \A node \in NodeId : near[node] = Touching(edges, node)
  <2> TAKE node \in NodeId
  <2>1. g.adjacency[node] = Touching(g.edges, node)
    BY DEF Exact
  <2>2. Touching(edges, node) = Touching(g.edges, node) \ {id}
    BY <1>10 DEF Touching
  <2>3. node \notin {key[1], key[2]} => id \notin Touching(g.edges, node)
    BY DEF Touching
  <2> HIDE DEF key
  <2> QED BY <1>8, <2>1, <2>2, <2>3
<1>14. Exact(h)
  BY <1>9, <1>12, <1>13 DEF Exact
<1> QED BY <1>9, <1>10, <1>14 DEF Counts, h

\* A node is removed only when no edge ends at it: its adjacency is dropped.
LEMMA NodeRemovedExact ==
  ASSUME NEW g \in Graph, Exact(g), NEW id \in Ids(g.nodes), Touching(g.edges, id) = {}
  PROVE  LET h == NodeRemoved(g, id)
         IN  /\ h \in Graph /\ Counts(h) /\ Exact(h) /\ h.edges = g.edges
             /\ Ids(h.nodes) = Ids(g.nodes) \ {id}
<1> DEFINE key == g.nodes[id]
           nodes == [g.nodes EXCEPT ![id] = None]
           next == First(Having(g.nodes, key) \ {id})
           keys == [g.by_type_label EXCEPT ![key] = IF @ = id THEN next ELSE @]
           labels == [g.by_label EXCEPT ![LabelOf(key)] = @ \ {id}]
           near == [g.adjacency EXCEPT ![id] = {}]
           h == NodeRemoved(g, id)
<1>1. /\ g.nodes \in Nodes /\ g.edges \in Edges
      /\ g.by_type_label \in [NodeKey -> NodeId \union {None}]
      /\ g.by_label \in [Label -> SUBSET NodeId]
      /\ g.adjacency \in [NodeId -> SUBSET EdgeId]
  BY DEF Graph
<1>2. id \in NodeId /\ key \in NodeKey /\ LabelOf(key) \in Label
  BY <1>1, IdsFacts DEF LabelOf, NodeKey
<1>3. next \in NodeId \union {None}
  BY <1>1, FirstFacts, HavingFacts
<1>4. h = [g EXCEPT !.nodes = nodes, !.by_type_label = keys, !.by_label = labels,
                    !.adjacency = near, !.indexed = Sizes(nodes, g.edges)]
  BY DEF NodeRemoved, Counted, Graph
<1>5. AnswersFrom(next, Having(g.nodes, key) \ {id})
  BY FirstFacts DEF AnswersFrom
<1> HIDE DEF next
<1>6. nodes \in Nodes /\ keys \in [NodeKey -> NodeId \union {None}]
      /\ labels \in [Label -> SUBSET NodeId] /\ near \in [NodeId -> SUBSET EdgeId]
  BY <1>1, <1>2, <1>3 DEF Nodes
<1>7. Sizes(nodes, g.edges) \in Nat \X Nat
  BY <1>1, <1>6, IdsFacts
<1>8. /\ nodes[id] = None /\ \A i \in NodeId \ {id} : nodes[i] = g.nodes[i]
      /\ keys[key] = IF g.by_type_label[key] = id THEN next ELSE g.by_type_label[key]
      /\ \A k \in NodeKey \ {key} : keys[k] = g.by_type_label[k]
      /\ labels[LabelOf(key)] = g.by_label[LabelOf(key)] \ {id}
      /\ \A l \in Label \ {LabelOf(key)} : labels[l] = g.by_label[l]
      /\ near[id] = {} /\ \A node \in NodeId \ {id} : near[node] = g.adjacency[node]
  BY <1>1, <1>2 DEF Nodes
<1> HIDE DEF nodes, keys, labels, near, h
<1>9. /\ h \in Graph /\ h.nodes = nodes /\ h.edges = g.edges /\ h.by_type_label = keys
      /\ h.by_label = labels /\ h.adjacency = near /\ h.by_edge_key = g.by_edge_key
      /\ h.indexed = Sizes(nodes, g.edges)
  BY <1>4, <1>6, <1>7 DEF Graph
<1>10. Ids(nodes) = Ids(g.nodes) \ {id} /\ \A i \in Ids(nodes) : nodes[i] = g.nodes[i]
  BY <1>1, <1>6, <1>8, IdsFacts, IndexNoneAssumption
<1>11. /\ Having(nodes, key) = Having(g.nodes, key) \ {id}
       /\ \A k \in NodeKey \ {key} : Having(nodes, k) = Having(g.nodes, k)
  BY <1>10 DEF Having
<1>12. \A k \in NodeKey : AnswersFrom(keys[k], Having(nodes, k))
  <2>1. \A k \in NodeKey : AnswersFrom(g.by_type_label[k], Having(g.nodes, k))
    BY DEF Exact
  <2>2. id \in Having(g.nodes, key)
    BY DEF Having
  <2> HIDE DEF key
  <2> QED BY <1>2, <1>5, <1>8, <1>11, <2>1, <2>2 DEF AnswersFrom
<1>13. \A l \in Label : labels[l] = {i \in Ids(nodes) : LabelOf(nodes[i]) = l}
  <2> TAKE l \in Label
  <2>1. g.by_label[l] = {i \in Ids(g.nodes) : LabelOf(g.nodes[i]) = l}
    BY DEF Exact
  <2>2. CASE l = LabelOf(key)
    BY <1>8, <1>10, <2>1, <2>2
  <2>3. CASE l # LabelOf(key)
    BY <1>8, <1>10, <2>1, <2>3
  <2> QED BY <2>2, <2>3
<1>14. \A node \in NodeId : near[node] = Touching(g.edges, node)
  BY <1>8 DEF Exact
<1>15. Exact(h)
  BY <1>9, <1>12, <1>13, <1>14 DEF Exact
<1> QED BY <1>9, <1>10, <1>15 DEF Counts, h

-----------------------------------------------------------------------------
(* The calls *)

LEMMA UpsertedFacts ==
  ASSUME NEW g, Sound(g), NEW key \in NodeKey, NEW r \in Upserted(g, key)
  PROVE  /\ Sound(r.graph) /\ r.node \in NodeId
         /\ r.graph.edges = g.edges /\ Ids(g.nodes) \subseteq Ids(r.graph.nodes)
         /\ Twice(r.graph.nodes) \subseteq Twice(g.nodes)
<1> DEFINE h == Synced(g)
<1>1. h \in Graph /\ Counts(h) /\ Exact(h) /\ h.nodes = g.nodes /\ h.edges = g.edges
  BY SyncedExact
<1>2. AnswersFrom(NodeLookup(g, key), Having(g.nodes, key))
  BY LookupFacts
<1>3. g.nodes \in Nodes /\ g.edges \in Edges
  BY DEF Sound, Graph
<1> HIDE DEF h
<1>4. CASE NodeLookup(g, key) # None
  <2>1. r = [graph |-> h, node |-> NodeLookup(g, key)]
    BY <1>4 DEF Upserted, h
  <2>2. NodeLookup(g, key) \in NodeId
    BY <1>2, <1>3, <1>4, HavingFacts DEF AnswersFrom
  <2> QED BY <1>1, <2>1, <2>2 DEF Sound
<1>5. CASE NodeLookup(g, key) = None
  <2>1. PICK id \in NodeId \ Ids(g.nodes) : r = [graph |-> NodeAdded(h, id, key), node |-> id]
    BY <1>5 DEF Upserted, h
  <2>2. Having(g.nodes, key) = {}
    BY <1>2, <1>3, <1>5, HavingFacts, IndexNoneAssumption DEF AnswersFrom
  <2> DEFINE n == NodeAdded(h, id, key)
  <2>3. /\ n \in Graph /\ Counts(n) /\ Exact(n) /\ n.edges = g.edges
        /\ n.nodes = [g.nodes EXCEPT ![id] = key]
        /\ Ids(n.nodes) = Ids(g.nodes) \union {id}
        /\ Having(n.nodes, key) = {id}
        /\ \A k \in NodeKey \ {key} : Having(n.nodes, k) = Having(g.nodes, k)
    BY <1>1, <2>1, <2>2, NodeAddedExact
  <2> HIDE DEF n
  <2>4. Twice(n.nodes) \subseteq Twice(g.nodes)
    <3> SUFFICES ASSUME NEW k \in Twice(n.nodes) PROVE k \in Twice(g.nodes)
      OBVIOUS
    <3>1. PICK i \in Ids(n.nodes) : k = n.nodes[i] /\ Cardinality(Having(n.nodes, k)) > 1
      BY DEF Twice
    <3>2. k # key
      BY <2>3, <3>1, FS_Singleton
    <3>3. i \in Ids(g.nodes) /\ k = g.nodes[i] /\ k \in NodeKey
      BY <1>3, <2>1, <2>3, <3>1, <3>2, IdsFacts DEF Nodes
    <3>4. Cardinality(Having(g.nodes, k)) > 1
      BY <2>3, <3>1, <3>2, <3>3
    <3> QED BY <3>3, <3>4 DEF Twice
  <2> QED BY <2>1, <2>3, <2>4 DEF Sound, n
<1> QED BY <1>4, <1>5

LEMMA RelatedFacts ==
  ASSUME NEW g, Sound(g), NEW key \in EdgeKey, NEW h \in Related(g, key)
  PROVE  /\ Sound(h) /\ h.nodes = g.nodes
         /\ \A id \in Ids(h.edges) :
              \/ id \in Ids(g.edges) /\ h.edges[id] = g.edges[id]
              \/ {h.edges[id][1], h.edges[id][2]} \subseteq Ids(g.nodes)
         /\ Twice(h.edges) \subseteq Twice(g.edges)
<1> DEFINE s == Synced(g)
<1>1. s \in Graph /\ Counts(s) /\ Exact(s) /\ s.nodes = g.nodes /\ s.edges = g.edges
  BY SyncedExact
<1>2. AnswersFrom(EdgeLookup(g, key), Having(g.edges, key))
  BY LookupFacts
<1>3. g.nodes \in Nodes /\ g.edges \in Edges
  BY DEF Sound, Graph
<1> HIDE DEF s
<1>4. CASE h = g \/ h = s
  BY <1>1, <1>4 DEF Sound
<1>5. CASE h # g /\ h # s
  <2>1. /\ {key[1], key[2]} \subseteq Ids(g.nodes) /\ EdgeLookup(g, key) = None
        /\ \E id \in EdgeId \ Ids(g.edges) : h = EdgeAdded(s, id, key)
    BY <1>5 DEF Related, s
  <2>2. PICK id \in EdgeId \ Ids(g.edges) : h = EdgeAdded(s, id, key)
    BY <2>1
  <2>3. Having(g.edges, key) = {}
    BY <1>2, <1>3, <2>1, HavingFacts, IndexNoneAssumption DEF AnswersFrom
  <2>4. /\ h \in Graph /\ Counts(h) /\ Exact(h) /\ h.nodes = g.nodes
        /\ h.edges = [g.edges EXCEPT ![id] = key]
        /\ Ids(h.edges) = Ids(g.edges) \union {id}
        /\ Having(h.edges, key) = {id}
        /\ \A k \in EdgeKey \ {key} : Having(h.edges, k) = Having(g.edges, k)
    BY <1>1, <2>2, <2>3, EdgeAddedExact
  <2>5. /\ h.edges[id] = key
        /\ \A i \in Ids(g.edges) : h.edges[i] = g.edges[i] /\ g.edges[i] \in EdgeKey
    BY <1>3, <2>2, <2>4, IdsFacts DEF Edges
  <2>6. Twice(h.edges) \subseteq Twice(g.edges)
    <3> SUFFICES ASSUME NEW k \in Twice(h.edges) PROVE k \in Twice(g.edges)
      OBVIOUS
    <3>1. PICK i \in Ids(h.edges) : k = h.edges[i] /\ Cardinality(Having(h.edges, k)) > 1
      BY DEF Twice
    <3>2. k # key
      <4>1. Cardinality({id}) = 1
        BY FS_Singleton
      <4>2. ~(Cardinality(Having(h.edges, key)) > 1)
        BY <2>4, <4>1
      <4> QED BY <3>1, <4>2
    <3>3. i \in Ids(g.edges) /\ k = g.edges[i] /\ k \in EdgeKey
      BY <2>4, <2>5, <3>1, <3>2
    <3>4. Cardinality(Having(g.edges, k)) > 1
      BY <2>4, <3>1, <3>2, <3>3
    <3> QED BY <3>3, <3>4 DEF Twice
  <2> QED BY <2>1, <2>4, <2>5, <2>6 DEF Sound
<1> QED BY <1>4, <1>5

\* A change from outside alters the number of nodes, which the next lookup sees.
LEMMA OutsideSound ==
  ASSUME Sound(graph), NEW id \in NodeId, NEW key \in NodeKey \union {None}, OutsideChange(id, key)
  PROVE  /\ Sound(graph') /\ graph'.edges = graph.edges
         /\ graph'.nodes = [graph.nodes EXCEPT ![id] = key]
         /\ \/ Ids(graph'.nodes) = Ids(graph.nodes) \union {id}
            \/ Ids(graph'.nodes) = Ids(graph.nodes) \ {id} /\ Touching(graph.edges, id) = {}
<1> DEFINE nodes == [graph.nodes EXCEPT ![id] = key]
<1>1. /\ graph \in Graph /\ graph.nodes \in Nodes /\ graph.edges \in Edges
      /\ graph.indexed = Sizes(graph.nodes, graph.edges)
      /\ graph' = [graph EXCEPT !.nodes = nodes]
  BY DEF OutsideChange, Sound, Graph
<1>2. nodes \in Nodes /\ nodes[id] = key /\ \A i \in NodeId \ {id} : nodes[i] = graph.nodes[i]
  BY <1>1 DEF Nodes
<1> HIDE DEF nodes
<1>3. /\ graph' \in Graph /\ graph'.nodes = nodes /\ graph'.edges = graph.edges
      /\ graph'.indexed = graph.indexed
  BY <1>1, <1>2 DEF Graph
<1>4. IsFiniteSet(Ids(graph.nodes))
  BY <1>1, IdsFacts
<1>5. CASE key # None
  <2>1. id \notin Ids(graph.nodes) /\ Ids(nodes) = Ids(graph.nodes) \union {id}
    <3>1. key \in NodeKey /\ graph.nodes[id] = None /\ None \notin NodeKey
      BY <1>5, IndexNoneAssumption DEF OutsideChange
    <3> QED BY <1>1, <1>2, <3>1, IdsFacts
  <2>2. Cardinality(Ids(nodes)) = Cardinality(Ids(graph.nodes)) + 1
    BY <1>4, <2>1, FS_AddElement
  <2>3. ~Counts(graph')
    <3>1. Cardinality(Ids(graph.nodes)) \in Nat
      BY <1>4, FS_CardinalityType
    <3> QED BY <1>1, <1>3, <2>2, <3>1 DEF Counts, Sizes
  <2> QED BY <1>3, <2>1, <2>3 DEF Sound, nodes
<1>6. CASE key = None
  <2>1. id \in Ids(graph.nodes) /\ Ids(nodes) = Ids(graph.nodes) \ {id}
    <3>1. graph.nodes[id] # None /\ None \notin NodeKey
      BY <1>6, IndexNoneAssumption DEF OutsideChange
    <3>2. graph.nodes[id] \in NodeKey
      BY <1>1, <3>1 DEF Nodes
    <3> QED BY <1>1, <1>2, <1>6, <3>1, <3>2, IdsFacts
  <2>2. Cardinality(Ids(nodes)) = Cardinality(Ids(graph.nodes)) - 1
    BY <1>4, <2>1, FS_RemoveElement
  <2>3. ~Counts(graph')
    <3>1. Cardinality(Ids(graph.nodes)) \in Nat
      BY <1>4, FS_CardinalityType
    <3> QED BY <1>1, <1>3, <2>2, <3>1 DEF Counts, Sizes
  <2> QED BY <1>3, <1>6, <2>1, <2>3 DEF Sound, OutsideChange, nodes
<1> QED BY <1>5, <1>6

-----------------------------------------------------------------------------
(* The invariant *)

IndexInv == Sound(graph) /\ job \in Job

LEMMA JobFacts ==
  ASSUME job \in Job, job.items # <<>>
  PROVE  Head(job.items) \in NodeKey /\ Tail(job.items) \in Seq(NodeKey)
BY DEF Job

\* The steps of add_interlinked_context that leave the graph alone.
LEMMA JobNext ==
  ASSUME job \in Job, graph \in Graph
  PROVE  /\ \A items \in [1..MaxItems -> NodeKey] : InterlinkStart(items) => job' \in Job
         /\ \A auto_link \in BOOLEAN : InterlinkPairs(auto_link) => job' \in Job
         /\ InterlinkExisting => job' \in Job
         /\ InterlinkEnd => job' \in Job
<1>1. NoJob \in Job
  BY DEF NoJob, Job
<1>2. ASSUME NEW items \in [1..MaxItems -> NodeKey], InterlinkStart(items) PROVE job' \in Job
  <2>1. items \in Seq(NodeKey)
    BY OutsideAssumption
  <2>2. job' = [at |-> "items", items |-> items, created |-> <<>>, links |-> {}]
    BY <1>2 DEF InterlinkStart, NoJob
  <2>3. <<>> \in Seq(NodeId) /\ {} \in SUBSET (NodeId \X NodeId)
    OBVIOUS
  <2> QED BY <2>1, <2>2, <2>3 DEF Job
<1>3. job.created \in Seq(NodeId) /\ \A i \in DOMAIN job.created : job.created[i] \in NodeId
  BY DEF Job
<1>4. ASSUME NEW auto_link \in BOOLEAN, InterlinkPairs(auto_link) PROVE job' \in Job
  <2> DEFINE pairs == {q \in (1..MaxItems) \X DOMAIN job.created : q[1] < q[2]}
             links == {<<job.created[p[1]], job.created[p[2]]>> : p \in pairs}
  <2>1. DOMAIN job.created = 1..Len(job.created) /\ Len(job.created) \in Nat
    BY <1>3
  <2>2. \A q \in pairs : q[1] \in DOMAIN job.created /\ q[2] \in DOMAIN job.created
    BY <2>1, OutsideAssumption
  <2>3. links \in SUBSET (NodeId \X NodeId)
    BY <1>3, <2>2
  <2>4. job' = NoJob \/ job' = [job EXCEPT !.at = "links", !.links = links]
    BY <1>4 DEF InterlinkPairs
  <2> HIDE DEF links
  <2> QED BY <1>1, <2>3, <2>4 DEF Job
<1>5. ASSUME InterlinkExisting PROVE job' \in Job
  <2> DEFINE links == Created \X (Ids(graph.nodes) \ Created)
  <2>1. links \in SUBSET (NodeId \X NodeId)
    <3>1. Created \subseteq NodeId
      BY <1>3 DEF Created
    <3>2. Ids(graph.nodes) \subseteq NodeId
      BY DEF Graph, Ids, Nodes
    <3> QED BY <3>1, <3>2
  <2>2. job' = [job EXCEPT !.at = "existing", !.links = links]
    BY <1>5 DEF InterlinkExisting
  <2> HIDE DEF links
  <2> QED BY <2>1, <2>2 DEF Job
<1>6. ASSUME InterlinkEnd PROVE job' \in Job
  BY <1>1, <1>6 DEF InterlinkEnd
<1> QED BY <1>2, <1>4, <1>5, <1>6

LEMMA NothingTyped == Nothing.nodes \in Nodes /\ Nothing.edges \in Edges
BY DEF Nothing, Nodes, Edges

LEMMA IndexInit == Init => IndexInv
<1> SUFFICES ASSUME Init PROVE IndexInv
  OBVIOUS
<1>1. Sound(graph)
  BY NothingTyped, RebuiltExact DEF Init, Sound
<1>2. job \in Job
  BY DEF Init, NoJob, Job
<1> QED BY <1>1, <1>2 DEF IndexInv

\* The calls that add leave a graph that is as sound, with no more duplicates,
\* and give an edge its ends.
LEMMA AddsFacts ==
  ASSUME IndexInv, Adds
  PROVE  /\ IndexInv'
         /\ \/ graph'.edges = graph.edges /\ Ids(graph.nodes) \subseteq Ids(graph'.nodes)
            \/ /\ graph'.nodes = graph.nodes
               /\ \A id \in Ids(graph'.edges) :
                    \/ id \in Ids(graph.edges) /\ graph'.edges[id] = graph.edges[id]
                    \/ {graph'.edges[id][1], graph'.edges[id][2]} \subseteq Ids(graph.nodes)
         /\ Twice(graph'.nodes) \subseteq Twice(graph.nodes)
         /\ Twice(graph'.edges) \subseteq Twice(graph.edges)
<1>1. Sound(graph) /\ job \in Job
  BY DEF IndexInv
<1>2. CASE InterlinkItem
  <2>1. PICK r \in Upserted(graph, Head(job.items)) :
          /\ graph' = r.graph
          /\ job' = [job EXCEPT !.items = Tail(@), !.created = Append(@, r.node)]
    BY <1>2 DEF InterlinkItem
  <2>2. Head(job.items) \in NodeKey /\ Tail(job.items) \in Seq(NodeKey)
    BY <1>1, <1>2, JobFacts DEF InterlinkItem
  <2>3. /\ Sound(r.graph) /\ r.node \in NodeId
        /\ r.graph.edges = graph.edges /\ Ids(graph.nodes) \subseteq Ids(r.graph.nodes)
        /\ Twice(r.graph.nodes) \subseteq Twice(graph.nodes)
    BY <1>1, <2>1, <2>2, UpsertedFacts
  <2>4. job' \in Job
    <3>1. Append(job.created, r.node) \in Seq(NodeId)
      BY <1>1, <2>3 DEF Job
    <3> QED BY <1>1, <2>1, <2>2, <3>1 DEF Job
  <2> QED BY <2>1, <2>3, <2>4 DEF IndexInv
<1>3. CASE \E key \in NodeKey : Upsert(key)
  <2>1. PICK key \in NodeKey : \E r \in Upserted(graph, key) : graph' = r.graph /\ job' = job
    BY <1>3 DEF Upsert
  <2>2. PICK r \in Upserted(graph, key) : graph' = r.graph /\ job' = job
    BY <2>1
  <2>3. /\ Sound(r.graph) /\ r.graph.edges = graph.edges
        /\ Ids(graph.nodes) \subseteq Ids(r.graph.nodes)
        /\ Twice(r.graph.nodes) \subseteq Twice(graph.nodes)
    BY <1>1, <2>1, <2>2, UpsertedFacts
  <2> QED BY <1>1, <2>2, <2>3 DEF IndexInv
<1>4. CASE \E key \in EdgeKey : graph' \in Related(graph, key) /\ job' \in Job
  <2>1. PICK key \in EdgeKey : graph' \in Related(graph, key) /\ job' \in Job
    BY <1>4
  <2> QED BY <1>1, <2>1, RelatedFacts DEF IndexInv
<1>5. CASE \E key \in EdgeKey : Relate(key)
  BY <1>1, <1>4, <1>5 DEF Relate
<1>6. CASE \E pair \in NodeId \X NodeId, similar \in BOOLEAN : InterlinkLink(pair, similar)
  <2>1. PICK pair \in NodeId \X NodeId, similar \in BOOLEAN : InterlinkLink(pair, similar)
    BY <1>6
  <2>2. job' \in Job
    BY <1>1, <2>1 DEF InterlinkLink, Job
  <2>3. CASE similar
    <3>1. PICK r \in Relation : graph' \in Related(graph, <<pair[1], pair[2], r>>)
      BY <2>1, <2>3 DEF InterlinkLink
    <3>2. <<pair[1], pair[2], r>> \in EdgeKey
      BY DEF EdgeKey
    <3> QED BY <1>4, <2>2, <3>1, <3>2
  <2>4. CASE ~similar
    BY <1>1, <2>1, <2>2, <2>4 DEF InterlinkLink, IndexInv
  <2> QED BY <2>3, <2>4
<1> QED BY <1>2, <1>3, <1>5, <1>6 DEF Adds
\* The steps besides those that add.
LEMMA IndexNext == IndexInv /\ [Next]_vars => IndexInv'
<1> SUFFICES ASSUME IndexInv, [Next]_vars PROVE IndexInv'
  OBVIOUS
<1> USE DEF IndexInv
<1>1. CASE UNCHANGED vars
  BY <1>1 DEF vars, Sound, Counts, Exact
<1>2. CASE Adds
  BY <1>2, AddsFacts
<1>3. ASSUME NEW id \in EdgeId, PruneEdge(id) PROVE IndexInv'
  BY <1>3, SyncedExact, EdgeRemovedExact DEF PruneEdge, Sound
<1>4. ASSUME NEW id \in NodeId, PruneNode(id) PROVE IndexInv'
  <2>1. Touching(graph.edges, id) = {}
    BY <1>4, LookupFacts DEF PruneNode
  <2> QED BY <1>4, <2>1, SyncedExact, NodeRemovedExact DEF PruneNode, Sound
<1>5. ASSUME NEW id \in NodeId, NEW key \in NodeKey \union {None}, OutsideChange(id, key)
      PROVE  IndexInv'
  BY <1>5, OutsideSound DEF OutsideChange
<1>6. ASSUME NEW g \in Imported \union {Nothing}, Replace(g) PROVE IndexInv'
  <2>1. g.nodes \in Nodes /\ g.edges \in Edges
    BY ImportedAssumption, NothingTyped
  <2> QED BY <1>6, <2>1, RebuiltExact DEF Replace, Sound
<1>7. CASE \/ \E items \in [1..MaxItems -> NodeKey] : InterlinkStart(items)
           \/ \E auto_link \in BOOLEAN : InterlinkPairs(auto_link)
           \/ InterlinkExisting \/ InterlinkEnd
  <2>1. graph' = graph
    BY <1>7 DEF InterlinkStart, InterlinkPairs, InterlinkExisting, InterlinkEnd
  <2>2. job' \in Job
    BY <1>7, JobNext DEF Sound
  <2> QED BY <2>1, <2>2 DEF Sound, Counts, Exact
<1> QED BY <1>1, <1>2, <1>3, <1>4, <1>5, <1>6, <1>7 DEF Next

\* LookupsMatchScan: every lookup of _GraphStore through an index finds what a
\* scan of its dictionaries would, after imports with duplicate keys, removals,
\* and a change from outside that the sizes give away.
THEOREM LookupsAreScans == Spec => []LookupsMatchScan
<1>1. IndexInv => LookupsMatchScan
  BY LookupFacts DEF IndexInv, LookupsMatchScan
<1> QED BY <1>1, IndexInit, IndexNext, PTL DEF Spec

\* NoNewDuplicates: two callers that add the same node or the same relation get
\* the same entry, even when imports have brought in duplicates.
THEOREM DuplicatesAreImported == Spec => NoNewDuplicates
<1> DEFINE Fewer == Twice(graph.nodes)' \subseteq Twice(graph.nodes)
                    /\ Twice(graph.edges)' \subseteq Twice(graph.edges)
<1>1. IndexInv /\ [Next]_vars => [~Fewer => ~Adds]_vars
  BY AddsFacts
<1> QED BY <1>1, IndexInit, IndexNext, PTL DEF Spec, NoNewDuplicates

-----------------------------------------------------------------------------
(* The ends of the edges *)

Ends(nodes, edges) == \A id \in Ids(edges) : {edges[id][1], edges[id][2]} \subseteq Ids(nodes)

EndsInv == IndexInv /\ EdgesHaveEnds

LEMMA EndsNext ==
  ASSUME \A g \in Imported : Ends(g.nodes, g.edges), EndsInv, [Next]_vars
  PROVE  EndsInv'
<1> USE DEF EndsInv
<1>1. IndexInv' /\ Sound(graph)
  BY IndexNext DEF IndexInv
<1>2. graph.nodes \in Nodes /\ graph.edges \in Edges
  BY <1>1 DEF Sound, Graph
<1>3. CASE Adds
  BY <1>1, <1>3, AddsFacts DEF EdgesHaveEnds
<1>4. ASSUME NEW id \in EdgeId, PruneEdge(id) PROVE EdgesHaveEnds'
  <2> DEFINE g == Synced(graph)
             h == EdgeRemoved(g, id)
  <2>1. g \in Graph /\ Exact(g) /\ g.nodes = graph.nodes /\ g.edges = graph.edges
    BY <1>1, SyncedExact
  <2>2. graph' = h /\ id \in Ids(g.edges)
    BY <1>4, <2>1 DEF PruneEdge
  <2> HIDE DEF g
  <2>3. /\ h.nodes = g.nodes /\ Ids(h.edges) = Ids(g.edges) \ {id}
        /\ \A i \in Ids(h.edges) : h.edges[i] = g.edges[i]
    BY <2>1, <2>2, EdgeRemovedExact
  <2> HIDE DEF h
  <2> QED BY <2>1, <2>2, <2>3 DEF EdgesHaveEnds
<1>5. ASSUME NEW id \in NodeId, Touching(graph.edges, id) = {}, graph'.edges = graph.edges,
             Ids(graph'.nodes) = Ids(graph.nodes) \ {id}
      PROVE  EdgesHaveEnds'
  BY <1>5 DEF EdgesHaveEnds, Touching
<1>6. ASSUME NEW id \in NodeId, PruneNode(id) PROVE EdgesHaveEnds'
  <2> DEFINE g == Synced(graph)
             h == NodeRemoved(g, id)
  <2>1. g \in Graph /\ Exact(g) /\ g.nodes = graph.nodes /\ g.edges = graph.edges
    BY <1>1, SyncedExact
  <2>2. graph' = h /\ id \in Ids(g.nodes) /\ Touching(g.edges, id) = {}
    BY <1>1, <1>6, <2>1, LookupFacts DEF PruneNode
  <2> HIDE DEF g
  <2>3. h.edges = g.edges /\ Ids(h.nodes) = Ids(g.nodes) \ {id}
    BY <2>1, <2>2, NodeRemovedExact
  <2> HIDE DEF h
  <2> QED BY <1>5, <2>1, <2>2, <2>3
<1>7. ASSUME NEW id \in NodeId, NEW key \in NodeKey \union {None}, OutsideChange(id, key)
      PROVE  EdgesHaveEnds'
  <2>1. /\ graph'.edges = graph.edges
        /\ \/ Ids(graph'.nodes) = Ids(graph.nodes) \union {id}
           \/ Ids(graph'.nodes) = Ids(graph.nodes) \ {id} /\ Touching(graph.edges, id) = {}
    BY <1>1, <1>7, OutsideSound
  <2>2. CASE Ids(graph'.nodes) = Ids(graph.nodes) \union {id}
    BY <2>1, <2>2 DEF EdgesHaveEnds
  <2> QED BY <1>5, <2>1, <2>2
<1>8. ASSUME NEW g \in Imported \union {Nothing}, Replace(g) PROVE EdgesHaveEnds'
  <2>1. Ends(g.nodes, g.edges)
    <3>1. Ids(Nothing.edges) = {}
      BY DEF Nothing, Ids
    <3> QED BY <3>1 DEF Ends
  <2>2. g.nodes \in Nodes /\ g.edges \in Edges
    BY ImportedAssumption, NothingTyped
  <2>3. graph'.nodes = g.nodes /\ graph'.edges = g.edges
    BY <1>8, <2>2, RebuiltExact DEF Replace
  <2> QED BY <2>1, <2>3 DEF Ends, EdgesHaveEnds
<1>9. CASE graph' = graph
  BY <1>1, <1>9 DEF EdgesHaveEnds
<1>10. CASE \/ \E items \in [1..MaxItems -> NodeKey] : InterlinkStart(items)
            \/ \E auto_link \in BOOLEAN : InterlinkPairs(auto_link)
            \/ InterlinkExisting \/ InterlinkEnd \/ UNCHANGED vars
  BY <1>9, <1>10 DEF InterlinkStart, InterlinkPairs, InterlinkExisting, InterlinkEnd, vars
<1> QED BY <1>1, <1>3, <1>4, <1>6, <1>7, <1>8, <1>10 DEF Next

\* EdgesHaveEnds: if what is imported has them (import_graph does not look, an
\* exported graph does), both ends of every edge are nodes, although
\* add_interlinked_context works with nodes that another call may prune or clear
\* between its rows.
THEOREM EdgesKeepEnds ==
  ASSUME \A g \in Imported : Ends(g.nodes, g.edges)
  PROVE  Spec => []EdgesHaveEnds
<1>1. Init => EndsInv
  <2> SUFFICES ASSUME Init PROVE EndsInv
    OBVIOUS
  <2>1. Ids(graph.edges) = {}
    <3>1. graph.edges = Nothing.edges
      BY NothingTyped, RebuiltExact DEF Init
    <3> QED BY <3>1 DEF Nothing, Ids
  <2> QED BY <2>1, IndexInit DEF EndsInv, EdgesHaveEnds
<1>2. EndsInv /\ [Next]_vars => EndsInv'
  BY EndsNext
<1>3. EndsInv => EdgesHaveEnds
  BY DEF EndsInv
<1> QED BY <1>1, <1>2, <1>3, PTL DEF Spec

=============================================================================
