-------------------------- MODULE MemoryGraphProofs --------------------------
(* What the memory graph promises, for every set of sessions, nodes and edges *)
(* and every depth of batches: the theorems about MemoryGraph.                *)
EXTENDS MemoryGraph, TLAPS

Graphs    == [Session -> Graph]
Database  == [view : Graphs, saved : Graphs]
Knowledge == [Session -> [Item -> Value \union {Unknown}]]

LEMMA GraphFacts ==
  /\ EmptyGraph \in Graph /\ NoGraphs \in Graphs /\ NoGraphs \in Knowledge
  /\ \A g \in Graph : \A items : Without(g, items) \in Graph
  /\ \A d \in Database, s \in Session, g \in Graph : \A items : Rows(d, s, g, items) \in Graph
  BY DEF EmptyGraph, NoGraphs, Graph, Graphs, Database, Knowledge, Value, Without, Rows

LEMMA ToldType ==
  ASSUME NEW a \in Knowledge, NEW s \in Session, NEW g \in Graph, NEW items, NEW ok
  PROVE  Told(a, s, items, g, ok) \in Knowledge
  BY DEF Graph, Knowledge, Told

LEMMA DatabaseFacts ==
  ASSUME NEW d \in Database, NEW s \in Session, NEW rows \in Graph
  PROVE  /\ d.view \in Graphs /\ d.saved \in Graphs
         /\ [d EXCEPT !.view[s] = rows] \in Database
         /\ [d EXCEPT !.view[s] = rows].view = [d.view EXCEPT ![s] = rows]
         /\ [d EXCEPT !.view[s] = rows].saved = d.saved
         /\ RolledBack(d) \in Database
         /\ RolledBack(d).view = d.saved /\ RolledBack(d).saved = d.saved
  BY DEF Database, Graphs, RolledBack

LEMMA CommitOutcome ==
  ASSUME NEW d \in Database, NEW r \in Commit(d)
  PROVE  /\ r.db \in Database /\ r.ok \in BOOLEAN
         /\ r.ok => r.db.view = d.view /\ r.db.saved = d.view
         /\ ~r.ok => /\ r.db.saved = d.saved
                     /\ r.db.view = d.view \/ r.db.view = d.saved
<1>1. \/ r = Ran([d EXCEPT !.saved = d.view])
      \/ r = Raised(d) \/ r = Raised(RolledBack(d))
  BY DEF Commit, RaisedIf
<1>2. CASE r = Ran([d EXCEPT !.saved = d.view])
  BY <1>2 DEF Ran, Database
<1>3. CASE r = Raised(d)
  BY <1>3 DEF Raised
<1>4. CASE r = Raised(RolledBack(d))
  BY <1>4 DEF Raised, RolledBack, Database
<1> QED BY <1>1, <1>2, <1>3, <1>4

\* The database after statements that make its rows w, committed outside a
\* batch: all is done, or the rows are the old or the new ones, or those on disk.
Outcome(d, w, r) ==
  /\ r.db \in Database /\ r.ok \in BOOLEAN
  /\ r.ok => r.db.view = w /\ r.db.saved = IF depth = 0 THEN w ELSE d.saved
  /\ ~r.ok => /\ r.db.saved = d.saved
              /\ \/ r.db.view = d.view \/ r.db.view = w
                 \/ depth = 0 /\ r.db.view = d.saved

LEMMA PersistOutcome ==
  ASSUME NEW d \in Database, NEW s \in Session, NEW rows \in Graph,
         NEW r \in Persist(d, s, rows)
  PROVE  Outcome(d, [d.view EXCEPT ![s] = rows], r)
<1> DEFINE e == [d EXCEPT !.view[s] = rows]
<1>1. e \in Database /\ e.view = [d.view EXCEPT ![s] = rows] /\ e.saved = d.saved
  BY DatabaseFacts
<1> HIDE DEF e
<1>2. PICK q \in Execute(d, s, rows) : r \in (IF q.ok THEN MaybeCommit(q.db) ELSE {q})
  BY DEF Persist
<1>3. q = Ran(e) \/ q = Raised(d)
  BY <1>2 DEF Execute, RaisedIf, e
<1>4. CASE q = Raised(d)
  <2>1. r = Raised(d)
    BY <1>2, <1>4 DEF Raised
  <2> QED BY <2>1 DEF Raised, Outcome
<1>5. CASE q = Ran(e)
  <2>1. r \in MaybeCommit(e)
    BY <1>2, <1>5 DEF Ran
  <2>2. CASE depth = 0
    <3>1. r \in Commit(e)
      BY <2>1, <2>2 DEF MaybeCommit
    <3> QED BY <1>1, <2>2, <3>1, CommitOutcome DEF Outcome
  <2>3. CASE depth # 0
    <3>1. r = Ran(e)
      BY <2>1, <2>3 DEF MaybeCommit
    <3> QED BY <1>1, <2>3, <3>1 DEF Outcome, Ran
  <2> QED BY <2>2, <2>3
<1> QED BY <1>3, <1>4, <1>5

LEMMA DeleteOutcome ==
  ASSUME NEW d \in Database, NEW s \in Session, NEW items, NEW r \in Delete(d, s, items)
  PROVE  /\ r.db \in Database /\ r.ok \in BOOLEAN
         /\ \/ items = {} /\ r = Ran(d)
            \/ Outcome(d, [d.view EXCEPT ![s] = Without(d.view[s], items)], r)
<1>1. Without(d.view[s], items) \in Graph
  BY GraphFacts, DatabaseFacts DEF Graphs, Database
<1>2. CASE items = {}
  <2>1. r = Ran(d)
    BY <1>2 DEF Delete
  <2>2. r.db = d /\ r.ok \in BOOLEAN
    BY <2>1 DEF Ran
  <2> QED BY <1>2, <2>1, <2>2
<1>3. CASE items # {}
  <2>1. r \in Persist(d, s, Without(d.view[s], items))
    BY <1>3 DEF Delete
  <2>2. Outcome(d, [d.view EXCEPT ![s] = Without(d.view[s], items)], r)
    BY <1>1, <2>1, PersistOutcome
  <2> QED BY <2>2 DEF Outcome
<1> QED BY <1>2, <1>3

-----------------------------------------------------------------------------
(* Types *)

LEMMA CachedType ==
  ASSUME TypeOK, NEW s \in Session
  PROVE  Cached(s) \in Graph
  BY DEF TypeOK, Cached

LEMMA TypeKept ==
  ASSUME TypeOK, [Next]_vars
  PROVE  TypeOK'
<1> USE DEF TypeOK
<1>t. /\ db \in Database /\ acked \in Knowledge /\ kept \in Knowledge
      /\ stores \in [Session -> Graph \union {Absent}]
  BY DEF Database, Graphs, Knowledge
<1>q. ASSUME db' \in Database, acked' \in Knowledge, kept' \in Knowledge,
             stores' \in [Session -> Graph \union {Absent}], depth' \in 0 .. MaxDepth
      PROVE  TypeOK'
  BY <1>q DEF Database, Graphs, Knowledge
<1> HIDE DEF TypeOK
<1>d. depth \in 0 .. MaxDepth /\ MaxDepth \in Nat
  BY MaxDepthAssumption DEF TypeOK
<1>0. CASE UNCHANGED vars
  BY <1>0 DEF vars, TypeOK
<1>1. CASE BeginBatch
  BY <1>1, <1>t, <1>d, <1>q, MaxDepthAssumption DEF BeginBatch
<1>u. Uncertain \in Knowledge
  BY <1>t DEF Uncertain, Knowledge
<1>2. CASE EndBatch
  <2>1. CASE depth = 1
    <3>1. PICK r \in Commit(db) : db' = r.db /\ acked' = IF r.ok THEN acked ELSE Uncertain
      BY <1>2, <2>1 DEF EndBatch
    <3>2. db' \in Database /\ acked' \in Knowledge
      BY <1>t, <1>u, <3>1, CommitOutcome
    <3> QED BY <1>2, <2>1, <3>2, <1>t, <1>d, <1>q, GraphFacts DEF EndBatch
  <2>2. CASE depth # 1
    BY <1>2, <2>2, <1>t, <1>d, <1>q DEF EndBatch
  <2> QED BY <2>1, <2>2
<1>r. RolledBack(db) \in Database /\ [s \in Session |-> Absent] \in [Session -> Graph \union {Absent}]
  BY <1>t DEF RolledBack, Database
<1>3. CASE RaiseBatch
  BY <1>3, <1>t, <1>u, <1>d, <1>q, <1>r, GraphFacts DEF RaiseBatch
<1>4. CASE Restart
  BY <1>4, <1>t, <1>d, <1>q, <1>r, GraphFacts, MaxDepthAssumption DEF Restart
<1>5. ASSUME NEW s \in Session, Call(s)
      PROVE  TypeOK'
  <2>c. Cached(s) \in Graph /\ db.view[s] \in Graph
    BY CachedType, <1>t DEF Database, Graphs
  <2>s. ASSUME NEW g \in Graph \union {Absent}, stores' = [stores EXCEPT ![s] = g]
        PROVE  stores' \in [Session -> Graph \union {Absent}]
    BY <1>t, <2>s
  <2>p. ASSUME NEW i \in Item, NEW value \in Value, Put(s, i, value)
        PROVE  TypeOK'
    <3> DEFINE g == [Cached(s) EXCEPT ![i] = value]
               doubtful == IF Cached(s)[i] = value THEN {} ELSE {i}
    <3>1. g \in Graph /\ Rows(db, s, g, {i}) \in Graph
      BY <1>t, <2>c, GraphFacts DEF Graph
    <3>2. PICK r \in Persist(db, s, Rows(db, s, g, {i})) :
            /\ db' = r.db
            /\ acked' = Told(acked, s, IF r.ok THEN {i} ELSE doubtful, g, r.ok)
      BY <2>p DEF Put
    <3>3. db' \in Database
      BY <1>t, <3>1, <3>2, PersistOutcome DEF Outcome
    <3>4. acked' \in Knowledge
      <4>1. \A items, ok : Told(acked, s, items, g, ok) \in Knowledge
        BY <1>t, <3>1, ToldType
      <4> QED BY <3>2, <4>1
    <3>5. stores' = [stores EXCEPT ![s] = g] /\ depth' = depth /\ kept' = kept
      BY <2>p DEF Put
    <3> HIDE DEF g
    <3> QED BY <1>t, <1>d, <1>q, <2>s, <3>1, <3>3, <3>4, <3>5
  <2>t. ASSUME NEW hits \in SUBSET Node, Touch(s, hits)
        PROVE  TypeOK'
    <3>1. \A items : [db EXCEPT !.view[s] = Rows(db, s, Cached(s), items)] \in Database
      BY <1>t, <2>c, GraphFacts, DatabaseFacts
    <3>2. PICK r : /\ r \in Commit([db EXCEPT !.view[s] = Rows(db, s, Cached(s), hits)])
                        \union RaisedIf("statement",
                             {Raised([db EXCEPT !.view[s] = Rows(db, s, Cached(s), some)]) :
                                some \in (SUBSET hits) \ {hits}})
                   /\ db' = r.db
                   /\ acked' = IF r.ok THEN Told(acked, s, hits, Cached(s), TRUE) ELSE acked
      BY <2>t DEF Touch
    <3>3. db' \in Database
      BY <3>1, <3>2, CommitOutcome DEF RaisedIf, Raised
    <3>4. acked' \in Knowledge
      BY <1>t, <2>c, <3>2, ToldType
    <3> QED BY <2>t, <1>t, <1>d, <1>q, <2>c, <2>s, <3>3, <3>4 DEF Touch
  <2>1. CASE Load(s)
    BY <2>1, <2>c, <2>s, <1>t, <1>d, <1>q DEF Load
  <2>2. CASE Reload(s)
    BY <2>2, <2>c, <2>s, <1>t, <1>d, <1>q DEF Reload
  <2>3. CASE Clear(s)
    <3>1. \A items : [db EXCEPT !.view[s] = Without(db.view[s], items)] \in Database
      BY <1>t, <2>c, GraphFacts, DatabaseFacts
    <3>2. PICK r : /\ r \in Commit([db EXCEPT !.view[s] = Without(db.view[s], Item)])
                        \union RaisedIf("statement",
                             {Raised(db),
                              Raised([db EXCEPT !.view[s] = Without(db.view[s], Node)])})
                   /\ db' = r.db
                   /\ acked' = Told(acked, s, Item, EmptyGraph, r.ok)
      BY <2>3 DEF Clear
    <3>3. db' \in Database
      BY <1>t, <3>1, <3>2, CommitOutcome DEF RaisedIf, Raised
    <3>4. acked' \in Knowledge
      BY <1>t, <3>2, GraphFacts, ToldType
    <3> QED BY <2>3, <1>t, <1>d, <1>q, <2>s, <3>3, <3>4 DEF Clear
  <2>4. CASE \E n \in Node, c \in Content : Upsert(s, n, c)
    BY <2>4, <2>p DEF Upsert, Item, Value
  <2>5. CASE \E n \in Node : Find(s, n)
    <3>1. PICK n \in Node : Put(s, n, Cached(s)[n])
      BY <2>5 DEF Find
    <3>2. n \in Item /\ Cached(s)[n] \in Value
      BY <2>c DEF Item, Graph
    <3> QED BY <2>p, <3>1, <3>2
  <2>6. CASE \E e \in Edge : Relate(s, e)
    BY <2>6, <2>p DEF Relate, Item, Value
  <2>7. CASE \E stale \in SUBSET Edge, old \in SUBSET Node : Prune(s, stale, old)
    <3>1. PICK stale \in SUBSET Edge, old \in SUBSET Node : Prune(s, stale, old)
      BY <2>7
    <3> DEFINE g1 == Without(Cached(s), stale)
               g2 == Without(g1, old)
    <3>2. g1 \in Graph /\ g2 \in Graph
      BY <2>c, GraphFacts
    <3>3. \A d \in Database : \A items : \A r \in Delete(d, s, items) : r.db \in Database
      BY DeleteOutcome
    <3>4. depth' = depth /\ kept' = kept
      BY <3>1 DEF Prune
    <3>5. PICK r1 \in Delete(db, s, stale) :
           \/ /\ ~r1.ok
              /\ db' = r1.db
              /\ stores' = [stores EXCEPT ![s] = g1]
              /\ acked' = Told(acked, s, stale, g1, FALSE)
           \/ /\ r1.ok
              /\ stores' = [stores EXCEPT ![s] = g2]
              /\ \E r2 \in Delete(r1.db, s, old) :
                   /\ db' = r2.db
                   /\ acked' = Told(Told(acked, s, stale, g1, TRUE), s, old, g2, r2.ok)
      BY <3>1 DEF Prune
    <3> HIDE DEF g1, g2
    <3>6. db' \in Database
      <4>1. r1.db \in Database
        BY <1>t, <3>3
      <4>2. \A r2 \in Delete(r1.db, s, old) : r2.db \in Database
        BY <3>3, <4>1
      <4> QED BY <3>5, <4>1, <4>2
    <3>7. acked' \in Knowledge
      <4>1. \A ok : Told(acked, s, stale, g1, ok) \in Knowledge
        BY <1>t, <3>2, ToldType
      <4>2. \A ok : Told(Told(acked, s, stale, g1, TRUE), s, old, g2, ok) \in Knowledge
        BY <3>2, <4>1, ToldType
      <4> QED BY <3>5, <4>1, <4>2
    <3>8. stores' \in [Session -> Graph \union {Absent}]
      BY <2>s, <3>2, <3>5
    <3> QED BY <1>t, <1>d, <1>q, <3>4, <3>6, <3>7, <3>8
  <2>8. CASE \E hits \in SUBSET Node : Search(s, hits) \/ \E n \in Node : Retrieve(s, n, hits)
    BY <2>8, <2>t DEF Search, Retrieve
  <2>9. CASE \E g \in Imported : Import(s, g)
    <3>1. PICK g \in Imported : Import(s, g)
      BY <2>9
    <3>2. g \in Graph
      BY ImportedAssumption
    <3>3. depth' = depth /\ kept' = kept
      BY <3>1 DEF Import
    <3>4. \A rows \in HalfImported(s, g) : [db EXCEPT !.view[s] = rows] \in Database
      <4>1. \A items : Without(g, items) \in Graph /\ Without(db.view[s], items) \in Graph
        BY <1>t, <2>c, <3>2, GraphFacts, DatabaseFacts DEF Graphs
      <4>2. db.view[s] \in Graph
        BY <1>t, <2>c, DatabaseFacts DEF Graphs
      <4>3. HalfImported(s, g) \subseteq Graph
        BY <4>1, <4>2 DEF HalfImported
      <4> QED BY <1>t, <4>3, DatabaseFacts
    <3>5. [[db EXCEPT !.view[s] = g] EXCEPT !.saved = [db EXCEPT !.view[s] = g].view] \in Database
      BY <1>t, <3>2, DatabaseFacts DEF Database
    <3>6. db' \in Database
      BY <1>r, <3>1, <3>4, <3>5 DEF Import
    <3>7. acked' \in Knowledge
      <4>1. /\ Told(acked, s, Item, g, TRUE) \in Knowledge
            /\ Told(acked, s, Item, g, FALSE) \in Knowledge
        BY <1>t, <3>2, ToldType
      <4>2. \/ acked' = acked \/ acked' = Told(acked, s, Item, g, TRUE)
            \/ acked' = Told(acked, s, Item, g, FALSE)
        BY <3>1 DEF Import, RaisedIf
      <4> QED BY <1>t, <4>1, <4>2
    <3>8. stores' \in [Session -> Graph \union {Absent}]
      BY <1>t, <2>s, <3>1, <3>2 DEF Import
    <3> QED BY <1>d, <1>t, <1>q, <3>3, <3>6, <3>7, <3>8
  <2> QED BY <1>5, <2>1, <2>2, <2>3, <2>4, <2>5, <2>6, <2>7, <2>8, <2>9 DEF Call
<1> QED BY <1>0, <1>1, <1>2, <1>3, <1>4, <1>5 DEF Next

\* The variables keep their types for every set of sessions, nodes, edges and
\* failing operations: rows, caches and what the application was told.
THEOREM GraphTypeCorrect == Spec => []TypeOK
<1>1. Init => TypeOK
  BY GraphFacts, MaxDepthAssumption DEF Init, TypeOK, Graphs, Knowledge
<1> QED BY <1>1, TypeKept, PTL DEF Spec
-----------------------------------------------------------------------------
(* What was acknowledged is read and is durable *)

\* Rows, caches and disk agree with what the application was told.
Settled == IF depth = 0 THEN acked ELSE kept

CachesKnown ==
  \A s \in Session, i \in Item : acked[s][i] \in {Unknown, Cached(s)[i]}

GraphInv ==
  /\ Agrees(acked, db.view)
  /\ CachesKnown
  /\ Agrees(Settled, db.saved)

\* A call that makes the rows of the connection w keeps the agreement, if what
\* it tells agrees with w, and with the old rows when it fails.
LEMMA OutcomeAgrees ==
  ASSUME NEW d \in Database, NEW w \in Graphs, NEW r, Outcome(d, w, r), NEW a,
         Agrees(IF depth = 0 THEN a ELSE kept, d.saved) \/ (r.ok /\ depth = 0),
         Agrees(a, w), r.ok \/ Agrees(a, d.view)
  PROVE  /\ Agrees(a, r.db.view)
         /\ Agrees(IF depth = 0 THEN a ELSE kept, r.db.saved)
<1>1. CASE r.ok
  BY <1>1 DEF Outcome
<1>2. CASE ~r.ok
  BY <1>2 DEF Outcome
<1> QED BY <1>1, <1>2 DEF Outcome

\* Telling the new values of items, or that they are unknown.
LEMMA ToldAgrees ==
  ASSUME NEW a \in Knowledge, NEW x \in Graphs, NEW y \in Graphs, NEW s \in Session,
         NEW items, NEW g, NEW ok \in BOOLEAN, Agrees(a, x),
         \A t \in Session, i \in Item : (t # s \/ i \notin items) => y[t][i] = x[t][i],
         ok => \A i \in Item : i \in items => y[s][i] = g[i]
  PROVE  Agrees(Told(a, s, items, g, ok), y)
<1> DEFINE b == Told(a, s, items, g, ok)
<1>1. \A t \in Session, i \in Item :
        b[t][i] = IF t = s /\ i \in items THEN (IF ok THEN g[i] ELSE Unknown) ELSE a[t][i]
  BY DEF Told, Knowledge
<1> HIDE DEF b
<1>2. SUFFICES ASSUME NEW t \in Session, NEW i \in Item
               PROVE  b[t][i] \in {Unknown, y[t][i]}
  BY DEF Agrees, b
<1>3. CASE t = s /\ i \in items
  BY <1>1, <1>3
<1>4. CASE t # s \/ i \notin items
  BY <1>1, <1>4 DEF Agrees
<1> QED BY <1>3, <1>4

\* The caches after a call that replaced the cache of s by g.
LEMMA CachesAgree ==
  ASSUME TypeOK, TypeOK', NEW s \in Session, NEW g \in Graph \union {Absent},
         stores' = [stores EXCEPT ![s] = g],
         Agrees(acked', db'.view),
         g = Absent \/ \A i \in Item : acked'[s][i] \in {Unknown, g[i]},
         \A t \in Session \ {s} : acked'[t] = acked[t],
         CachesKnown
  PROVE  CachesKnown'
<1>1. SUFFICES ASSUME NEW t \in Session, NEW i \in Item
               PROVE  acked'[t][i] \in {Unknown, Cached(t)'[i]}
  BY DEF CachesKnown
<1>2. CASE t = s
  BY <1>2 DEF Cached, TypeOK, Agrees
<1>3. CASE t # s
  <2>1. stores'[t] = stores[t] /\ acked'[t] = acked[t]
    BY <1>3 DEF TypeOK
  <2>2. acked[t][i] \in {Unknown, Cached(t)[i]}
    BY DEF CachesKnown
  <2> QED BY <2>1, <2>2 DEF Cached, Agrees
<1> QED BY <1>2, <1>3

\* The rows w differ from those of d in the items of s only, which are as in g.
Writes(d, w, s, items, g) ==
  /\ \A t \in Session, i \in Item : (t # s \/ i \notin items) => w[t][i] = d.view[t][i]
  /\ \A i \in Item : i \in items => w[s][i] = g[i]

\* The rows of d and those on its disk agree with what has been told.
Knows(a, d) ==
  Agrees(a, d.view) /\ Agrees(IF depth = 0 THEN a ELSE kept, d.saved)

LEMMA WriteAgrees ==
  ASSUME NEW d \in Database, NEW a \in Knowledge, NEW s \in Session, NEW items,
         NEW g \in Graph, NEW w \in Graphs, NEW r, Outcome(d, w, r),
         kept \in Knowledge,
         Knows(a, d), Writes(d, w, s, items, g)
  PROVE  Knows(Told(a, s, items, g, r.ok), r.db)
<1> DEFINE b == Told(a, s, items, g, r.ok)
<1>1. d.view \in Graphs /\ d.saved \in Graphs /\ r.ok \in BOOLEAN
  BY DEF Database, Outcome
<1>2. Agrees(b, w)
  BY <1>1, ToldAgrees DEF Knows, Writes
<1>3. r.ok \/ Agrees(b, d.view)
  BY <1>1, ToldAgrees DEF Knows
<1>4. (r.ok /\ depth = 0) \/ Agrees(IF depth = 0 THEN b ELSE kept, d.saved)
  BY <1>1, ToldAgrees DEF Knows
<1> HIDE DEF b
<1>5. /\ Agrees(b, r.db.view)
      /\ Agrees(IF depth = 0 THEN b ELSE kept, r.db.saved)
  BY <1>2, <1>3, <1>4, OutcomeAgrees
<1> QED BY <1>5 DEF b, Knows

\* What was told before the call holds also when the values written are the old ones.
LEMMA RewriteAgrees ==
  ASSUME NEW d \in Database, NEW a \in Knowledge, NEW w \in Graphs, NEW r, Outcome(d, w, r),
         Knows(a, d), Agrees(a, w)
  PROVE  Knows(a, r.db)
  BY OutcomeAgrees DEF Knows

LEMMA PutKeeps ==
  ASSUME TypeOK, TypeOK', GraphInv, NEW s \in Session, NEW i \in Item, NEW value \in Value,
         Put(s, i, value)
  PROVE  GraphInv'
<1> DEFINE g == [Cached(s) EXCEPT ![i] = value]
           rows == Rows(db, s, g, {i})
           w == [db.view EXCEPT ![s] = rows]
           doubtful == IF Cached(s)[i] = value THEN {} ELSE {i}
<1>t. /\ db \in Database /\ acked \in Knowledge /\ kept \in Knowledge
      /\ Cached(s) \in Graph /\ db.view \in Graphs
  BY CachedType DEF TypeOK, Database, Graphs, Knowledge
<1>1. g \in Graph /\ rows \in Graph /\ w \in Graphs
  BY <1>t, GraphFacts DEF Graph, Graphs
<1>2. PICK r \in Persist(db, s, rows) :
        /\ db' = r.db
        /\ acked' = Told(acked, s, IF r.ok THEN {i} ELSE doubtful, g, r.ok)
  BY DEF Put
<1>3. stores' = [stores EXCEPT ![s] = g] /\ depth' = depth /\ kept' = kept
  BY DEF Put
<1>4. Outcome(db, w, r)
  BY <1>t, <1>1, <1>2, PersistOutcome
<1>5. /\ \A t \in Session, j \in Item : (t # s \/ j \notin {i}) => w[t][j] = db.view[t][j]
      /\ \A j \in Item : j \in {i} => w[s][j] = g[j]
      /\ g[i] = value /\ \A j \in Item : j # i => g[j] = Cached(s)[j]
  <2>1. \A j \in Item : rows[j] = IF j \in {i} THEN g[j] ELSE db.view[s][j]
    BY DEF Rows
  <2>2. w[s] = rows /\ \A t \in Session : t # s => w[t] = db.view[t]
    BY <1>t DEF Graphs
  <2>3. g[i] = value /\ \A j \in Item : j # i => g[j] = Cached(s)[j]
    BY <1>t DEF Graph
  <2> HIDE DEF g, rows, w
  <2> QED BY <2>1, <2>2, <2>3
<1> HIDE DEF g, rows, w
<1>6. Knows(acked, db) /\ Agrees(acked, db.view) /\ CachesKnown
  BY DEF GraphInv, Settled, Knows
<1>7. CASE r.ok \/ Cached(s)[i] # value
  <2>1. acked' = Told(acked, s, {i}, g, r.ok)
    BY <1>2, <1>7
  <2>2. Knows(acked', db') /\ Agrees(acked', db'.view)
    <3> DEFINE one == {i}
    <3>1. Writes(db, w, s, one, g)
      BY <1>5 DEF Writes
    <3> HIDE DEF one
    <3>2. Knows(Told(acked, s, one, g, r.ok), r.db)
      BY <1>t, <1>1, <1>4, <1>6, <3>1, WriteAgrees
    <3> QED BY <1>2, <2>1, <3>2 DEF one, Knows
  <2>3. \A t \in Session, j \in Item :
          acked'[t][j] = IF t = s /\ j = i THEN (IF r.ok THEN value ELSE Unknown) ELSE acked[t][j]
    BY <1>t, <1>5, <2>1 DEF Told, Knowledge
  <2>4. \A j \in Item : acked'[s][j] \in {Unknown, g[j]}
    BY <1>5, <1>6, <2>3 DEF CachesKnown
  <2>5. \A t \in Session \ {s} : acked'[t] = acked[t]
    BY <1>t, <2>1 DEF Told, Knowledge
  <2>6. CachesKnown'
    BY <1>1, <1>3, <1>6, <2>2, <2>4, <2>5, CachesAgree
  <2> QED BY <1>3, <2>2, <2>6 DEF GraphInv, Settled, Knows
<1>8. CASE ~r.ok /\ Cached(s)[i] = value
  <2>1. acked' = acked
    BY <1>t, <1>2, <1>8 DEF Told, Knowledge
  <2>2. \A j \in Item : acked[s][j] \in {Unknown, g[j]}
    BY <1>5, <1>6, <1>8 DEF CachesKnown
  <2>3. Agrees(acked, w)
    BY <1>5, <1>6, <2>2 DEF Agrees
  <2>4. Knows(acked, db') /\ Agrees(acked, db'.view)
    <3>1. Knows(acked, r.db)
      BY <1>t, <1>1, <1>4, <1>6, <2>3, RewriteAgrees
    <3> QED BY <1>2, <3>1 DEF Knows
  <2>5. CachesKnown'
    BY <1>1, <1>3, <1>6, <2>1, <2>2, <2>4, CachesAgree
  <2> QED BY <1>3, <2>1, <2>4, <2>5 DEF GraphInv, Settled, Knows
<1> QED BY <1>7, <1>8

\* A commit of the rows w of d, outside a batch.
LEMMA CommitIsOutcome ==
  ASSUME NEW d \in Database, NEW s \in Session, NEW rows \in Graph, depth = 0,
         NEW r \in Commit([d EXCEPT !.view[s] = rows])
  PROVE  Outcome(d, [d.view EXCEPT ![s] = rows], r)
<1> DEFINE e == [d EXCEPT !.view[s] = rows]
<1>1. e \in Database /\ e.view = [d.view EXCEPT ![s] = rows] /\ e.saved = d.saved
  BY DatabaseFacts
<1> HIDE DEF e
<1>2. r \in Commit(e)
  BY DEF e
<1> QED BY <1>1, <1>2, CommitOutcome DEF Outcome

LEMMA TouchKeeps ==
  ASSUME TypeOK, TypeOK', GraphInv, depth = 0, NEW s \in Session, NEW hits \in SUBSET Node,
         Touch(s, hits)
  PROVE  GraphInv'
<1> DEFINE g == Cached(s)
           touched(items) == [db EXCEPT !.view[s] = Rows(db, s, g, items)]
           w(items) == [db.view EXCEPT ![s] = Rows(db, s, g, items)]
<1>t. /\ db \in Database /\ acked \in Knowledge /\ kept \in Knowledge
      /\ g \in Graph /\ db.view \in Graphs
  BY CachedType DEF TypeOK, Database, Graphs, Knowledge
<1>1. /\ Agrees(acked, db.view) /\ Agrees(acked, db.saved) /\ CachesKnown
  BY DEF GraphInv, Settled
<1>2. /\ stores' = [stores EXCEPT ![s] = g] /\ depth' = depth /\ kept' = kept
  BY DEF Touch
<1>3. PICK r : /\ \/ r \in Commit(touched(hits))
                  \/ \E some \in SUBSET hits : r = Raised(touched(some))
               /\ db' = r.db
               /\ acked' = IF r.ok THEN Told(acked, s, hits, g, TRUE) ELSE acked
  BY DEF Touch, RaisedIf
<1>4. ASSUME NEW items
      PROVE  /\ Rows(db, s, g, items) \in Graph /\ w(items) \in Graphs
             /\ Agrees(acked, w(items))
             /\ \A i \in Item : i \in items => w(items)[s][i] = g[i]
  <2>1. Rows(db, s, g, items) \in Graph
    BY <1>t, GraphFacts
  <2>2. \A i \in Item :
          Rows(db, s, g, items)[i] = IF i \in items THEN g[i] ELSE db.view[s][i]
    BY DEF Rows
  <2>3. \A i \in Item : acked[s][i] \in {Unknown, Rows(db, s, g, items)[i]}
    BY <1>1, <2>2 DEF CachesKnown, Agrees
  <2> QED BY <1>t, <1>1, <2>1, <2>2, <2>3 DEF Graphs, Agrees
<1>5. /\ r.ok \in BOOLEAN
      /\ r.ok => r.db.view = w(hits) /\ r.db.saved = w(hits)
      /\ ~r.ok => /\ r.db.saved = db.saved
                  /\ \/ r.db.view = db.saved \/ r.db.view = db.view
                     \/ \E some \in SUBSET hits : r.db.view = w(some)
  <2>1. CASE r \in Commit(touched(hits))
    <3>1. Outcome(db, w(hits), r)
      BY <1>t, <1>4, <2>1, CommitIsOutcome
    <3> QED BY <3>1 DEF Outcome
  <2>2. ASSUME NEW some \in SUBSET hits, r = Raised(touched(some))
        PROVE  <1>5!:
    <3>1. touched(some).view = w(some) /\ touched(some).saved = db.saved
      BY <1>t, <1>4, DatabaseFacts
    <3> HIDE DEF touched, w
    <3> QED BY <2>2, <3>1 DEF Raised
  <2> QED BY <1>3, <2>1, <2>2
<1>6. \A t \in Session, i \in Item :
        acked'[t][i] \in {acked[t][i]}
                           \union (IF t = s /\ i \in hits /\ r.ok THEN {g[i]} ELSE {})
  BY <1>t, <1>3 DEF Told, Knowledge
<1>7. Agrees(acked', w(hits))
  <2>1. Agrees(acked, w(hits)) /\ \A i \in Item : i \in hits => w(hits)[s][i] = g[i]
    BY <1>4
  <2> HIDE DEF w, g
  <2>2. ASSUME NEW t \in Session, NEW i \in Item
        PROVE  acked'[t][i] \in {Unknown, w(hits)[t][i]}
    <3>1. acked[t][i] \in {Unknown, w(hits)[t][i]}
      BY <2>1 DEF Agrees
    <3>2. t = s /\ i \in hits => w(hits)[t][i] = g[i]
      BY <2>1
    <3> QED BY <1>6, <3>1, <3>2
  <2> QED BY <2>2 DEF Agrees
<1>8. ~r.ok => acked' = acked
  BY <1>3
<1>9. Agrees(acked', db'.view) /\ Agrees(acked', db'.saved)
  <2> HIDE DEF w
  <2> QED BY <1>1, <1>3, <1>4, <1>5, <1>7, <1>8
<1>10. CachesKnown'
  <2>1. \A i \in Item : acked'[s][i] \in {Unknown, g[i]}
    BY <1>1, <1>6 DEF CachesKnown
  <2>2. \A t \in Session \ {s} : acked'[t] = acked[t]
    BY <1>t, <1>3 DEF Told, Knowledge
  <2> HIDE DEF g
  <2> QED BY <1>t, <1>1, <1>2, <1>9, <2>1, <2>2, CachesAgree
<1> QED BY <1>2, <1>9, <1>10 DEF GraphInv, Settled

LEMMA DeleteAgrees ==
  ASSUME NEW d \in Database, NEW a \in Knowledge, NEW s \in Session, NEW items,
         NEW g \in Graph, NEW r \in Delete(d, s, items), kept \in Knowledge,
         Knows(a, d), \A i \in Item : i \in items => g[i] = None
  PROVE  Knows(Told(a, s, items, g, r.ok), r.db)
<1> DEFINE w == [d.view EXCEPT ![s] = Without(d.view[s], items)]
<1>1. CASE items = {} /\ r = Ran(d)
  <2>1. Told(a, s, items, g, r.ok) = a
    BY <1>1 DEF Told, Knowledge
  <2>2. r.db = d
    BY <1>1 DEF Ran
  <2> QED BY <2>1, <2>2
<1>2. CASE Outcome(d, w, r)
  <2>1. d.view \in Graphs /\ w \in Graphs
    BY GraphFacts DEF Database, Graphs
  <2>2. Writes(d, w, s, items, g)
    BY <2>1 DEF Writes, Without, Graphs
  <2> HIDE DEF w
  <2> QED BY <1>2, <2>1, <2>2, WriteAgrees
<1> QED BY <1>1, <1>2, DeleteOutcome

LEMMA PruneKeeps ==
  ASSUME TypeOK, TypeOK', GraphInv, NEW s \in Session,
         NEW stale \in SUBSET Edge, NEW old \in SUBSET Node, Prune(s, stale, old)
  PROVE  GraphInv'
<1> DEFINE g1 == Without(Cached(s), stale)
           g2 == Without(g1, old)
           told == Told(acked, s, stale, g1, TRUE)
<1>t. /\ db \in Database /\ acked \in Knowledge /\ kept \in Knowledge
      /\ Cached(s) \in Graph /\ g1 \in Graph /\ g2 \in Graph /\ told \in Knowledge
  BY CachedType, GraphFacts, ToldType DEF TypeOK, Database, Graphs, Knowledge
<1>1. Knows(acked, db) /\ CachesKnown
  BY DEF GraphInv, Settled, Knows
<1>2. /\ \A i \in Item : g1[i] = IF i \in stale THEN None ELSE Cached(s)[i]
      /\ \A i \in Item : g2[i] = IF i \in old THEN None ELSE g1[i]
  BY DEF Without
<1>3. depth' = depth /\ kept' = kept
  BY DEF Prune
<1>4. PICK r1 \in Delete(db, s, stale) :
        \/ /\ ~r1.ok
           /\ db' = r1.db
           /\ stores' = [stores EXCEPT ![s] = g1]
           /\ acked' = Told(acked, s, stale, g1, FALSE)
        \/ /\ r1.ok
           /\ stores' = [stores EXCEPT ![s] = g2]
           /\ \E r2 \in Delete(r1.db, s, old) :
                /\ db' = r2.db
                /\ acked' = Told(told, s, old, g2, r2.ok)
  BY DEF Prune
<1> HIDE DEF g1, g2
<1>5. r1.db \in Database /\ r1.ok \in BOOLEAN
  BY <1>t, DeleteOutcome
<1>6. Knows(Told(acked, s, stale, g1, r1.ok), r1.db)
  BY <1>t, <1>1, <1>2, DeleteAgrees
<1>7. /\ \A i \in Item : told[s][i] = IF i \in stale THEN g1[i] ELSE acked[s][i]
      /\ \A t \in Session \ {s} : told[t] = acked[t]
  BY <1>t DEF Told, Knowledge
<1>8. \A i \in Item : told[s][i] \in {Unknown, g1[i]}
  BY <1>1, <1>2, <1>7 DEF CachesKnown
<1>9. CASE /\ ~r1.ok
           /\ db' = r1.db
           /\ stores' = [stores EXCEPT ![s] = g1]
           /\ acked' = Told(acked, s, stale, g1, FALSE)
  <2>1. Knows(acked', db')
    <3>1. r1.ok = FALSE
      BY <1>5, <1>9
    <3> QED BY <1>6, <1>9, <3>1
  <2>2. /\ \A i \in Item : acked'[s][i] = IF i \in stale THEN Unknown ELSE acked[s][i]
        /\ \A t \in Session \ {s} : acked'[t] = acked[t]
    BY <1>t, <1>9 DEF Told, Knowledge
  <2>3. \A i \in Item : acked'[s][i] \in {Unknown, g1[i]}
    BY <1>1, <1>2, <2>2 DEF CachesKnown
  <2>4. CachesKnown'
    BY <1>t, <1>1, <1>9, <2>1, <2>2, <2>3, CachesAgree DEF Knows
  <2> QED BY <1>3, <2>1, <2>4 DEF GraphInv, Settled, Knows
<1>10. ASSUME r1.ok, stores' = [stores EXCEPT ![s] = g2],
              NEW r2 \in Delete(r1.db, s, old), db' = r2.db,
              acked' = Told(told, s, old, g2, r2.ok)
       PROVE  GraphInv'
  <2>1. Knows(told, r1.db)
    <3>1. r1.ok = TRUE
      BY <1>5, <1>10
    <3> QED BY <1>6, <3>1
  <2>2. \A i \in Item : i \in old => g2[i] = None
    BY <1>2
  <2> HIDE DEF told
  <2>3. Knows(acked', db')
    <3>1. Knows(Told(told, s, old, g2, r2.ok), r2.db)
      BY <1>t, <1>5, <1>10, <2>1, <2>2, DeleteAgrees
    <3> QED BY <1>10, <3>1
  <2>4. /\ \A i \in Item : acked'[s][i] \in {Unknown, IF i \in old THEN g2[i] ELSE told[s][i]}
        /\ \A t \in Session \ {s} : acked'[t] = told[t]
    BY <1>t, <1>10 DEF Told, Knowledge
  <2>5. \A i \in Item : acked'[s][i] \in {Unknown, g2[i]}
    BY <1>2, <1>8, <2>4
  <2>6. \A t \in Session \ {s} : acked'[t] = acked[t]
    BY <1>7, <2>4
  <2>7. CachesKnown'
    BY <1>t, <1>1, <1>10, <2>3, <2>5, <2>6, CachesAgree DEF Knows
  <2> QED BY <1>3, <2>3, <2>7 DEF GraphInv, Settled, Knows
<1> QED BY <1>4, <1>9, <1>10

LEMMA ClearKeeps ==
  ASSUME TypeOK, TypeOK', GraphInv, depth = 0, NEW s \in Session, Clear(s)
  PROVE  GraphInv'
<1> DEFINE cleared(items) == [db EXCEPT !.view[s] = Without(db.view[s], items)]
           w(items) == [db.view EXCEPT ![s] = Without(db.view[s], items)]
<1>t. /\ db \in Database /\ acked \in Knowledge /\ kept \in Knowledge
      /\ db.view \in Graphs /\ db.saved \in Graphs /\ db.view[s] \in Graph
      /\ EmptyGraph \in Graph
  BY GraphFacts DEF TypeOK, Database, Graphs, Knowledge
<1>1. /\ Knows(acked, db) /\ CachesKnown
      /\ Agrees(acked, db.view) /\ Agrees(acked, db.saved)
  BY DEF GraphInv, Settled, Knows
<1>2. /\ stores' = [stores EXCEPT ![s] = Absent] /\ depth' = depth /\ kept' = kept
  BY DEF Clear
<1>3. PICK r : /\ \/ r \in Commit(cleared(Item))
                  \/ r = Raised(db) \/ r = Raised(cleared(Node))
               /\ db' = r.db
               /\ acked' = Told(acked, s, Item, EmptyGraph, r.ok)
  BY DEF Clear, RaisedIf
<1>4. ASSUME NEW items
      PROVE  /\ Without(db.view[s], items) \in Graph /\ w(items) \in Graphs
             /\ \A t \in Session : t # s => w(items)[t] = db.view[t]
             /\ cleared(items).view = w(items) /\ cleared(items).saved = db.saved
  <2>1. Without(db.view[s], items) \in Graph
    BY <1>t, GraphFacts
  <2> QED BY <1>t, <2>1, DatabaseFacts DEF Graphs
<1>5. ASSUME r \in Commit(cleared(Item))
      PROVE  Knows(acked', db')
  <2>1. Outcome(db, w(Item), r)
    BY <1>t, <1>4, <1>5, CommitIsOutcome
  <2>2. Writes(db, w(Item), s, Item, EmptyGraph)
    BY <1>t, <1>4 DEF Writes, Without, EmptyGraph, Graphs
  <2>3. w(Item) \in Graphs
    BY <1>4
  <2> HIDE DEF w
  <2>4. Knows(Told(acked, s, Item, EmptyGraph, r.ok), r.db)
    BY <1>t, <1>1, <2>1, <2>2, <2>3, WriteAgrees
  <2> QED BY <1>3, <2>4
<1>6. ASSUME NEW y \in Graphs, \A t \in Session : t # s => y[t] = db.view[t],
             r.ok = FALSE, r.db.view = y, r.db.saved = db.saved
      PROVE  Knows(acked', db')
  <2>1. \A x \in Graphs : Agrees(acked, x) =>
          \A z \in Graphs : (\A t \in Session : t # s => z[t] = x[t]) =>
             Agrees(Told(acked, s, Item, EmptyGraph, FALSE), z)
    BY <1>t, ToldAgrees
  <2>2. Agrees(acked', y) /\ Agrees(acked', db.saved)
    BY <1>t, <1>1, <1>3, <1>6, <2>1
  <2> QED BY <1>3, <1>6, <2>2 DEF Knows
<1>7. ASSUME r = Raised(db)
      PROVE  Knows(acked', db')
  <2>1. r.ok = FALSE /\ r.db = db
    BY <1>7 DEF Raised
  <2> QED BY <1>t, <1>6, <2>1
<1>8. ASSUME r = Raised(cleared(Node))
      PROVE  Knows(acked', db')
  <2>1. r.ok = FALSE /\ r.db = cleared(Node)
    BY <1>8 DEF Raised
  <2>2. /\ r.db.view = w(Node) /\ r.db.saved = db.saved /\ w(Node) \in Graphs
        /\ \A t \in Session : t # s => w(Node)[t] = db.view[t]
    BY <1>4, <2>1
  <2> HIDE DEF w
  <2> QED BY <1>6, <2>1, <2>2
<1>9. Knows(acked', db') /\ Agrees(acked', db'.view)
  BY <1>3, <1>5, <1>7, <1>8 DEF Knows
<1>10. \A t \in Session \ {s} : acked'[t] = acked[t]
  BY <1>t, <1>3 DEF Told, Knowledge
<1>11. CachesKnown'
  BY <1>1, <1>2, <1>9, <1>10, CachesAgree
<1> QED BY <1>2, <1>9, <1>11 DEF GraphInv, Settled, Knows

LEMMA ImportKeeps ==
  ASSUME TypeOK, TypeOK', GraphInv, depth = 0, "record" \notin Failing,
         NEW s \in Session, NEW g \in Graph, Import(s, g)
  PROVE  GraphInv'
<1>t. /\ db \in Database /\ acked \in Knowledge /\ kept \in Knowledge
      /\ db.view \in Graphs /\ db.saved \in Graphs /\ db.view[s] \in Graph
      /\ stores \in [Session -> Graph \union {Absent}]
  BY DEF TypeOK, Database, Graphs, Knowledge
<1>1. CachesKnown /\ Agrees(acked, db.view) /\ Agrees(acked, db.saved)
  BY DEF GraphInv, Settled
<1>2. depth' = depth /\ kept' = kept
  BY DEF Import
<1>3. \A ok \in BOOLEAN : \A y \in Graphs :
        /\ \A t \in Session : t # s => y[t] = db.view[t]
        /\ ok => y[s] = g
        => Agrees(Told(acked, s, Item, g, ok), y)
  BY <1>t, <1>1, ToldAgrees
<1>4. \A ok : \A t \in Session \ {s} : Told(acked, s, Item, g, ok)[t] = acked[t]
  BY <1>t DEF Told, Knowledge
<1>5. CASE /\ db' = [[db EXCEPT !.view[s] = g] EXCEPT !.saved = [db EXCEPT !.view[s] = g].view]
           /\ stores' = [stores EXCEPT ![s] = g]
           /\ acked' = Told(acked, s, Item, g, TRUE)
  <2> DEFINE w == [db.view EXCEPT ![s] = g]
  <2>1. db'.view = w /\ db'.saved = w
    BY <1>t, <1>5, DatabaseFacts DEF Database
  <2>2. w \in Graphs /\ w[s] = g /\ \A t \in Session : t # s => w[t] = db.view[t]
    BY <1>t DEF Graphs
  <2> HIDE DEF w
  <2>3. Agrees(acked', w)
    BY <1>3, <1>5, <2>2
  <2>4. \A i \in Item : acked'[s][i] \in {Unknown, g[i]}
    BY <2>2, <2>3 DEF Agrees
  <2>5. CachesKnown'
    BY <1>1, <1>4, <1>5, <2>1, <2>3, <2>4, CachesAgree
  <2> QED BY <1>2, <2>1, <2>3, <2>5 DEF GraphInv, Settled
<1>6. ASSUME Agrees(acked', db'.view), Agrees(acked', db'.saved), stores' = stores,
             \A i \in Item : acked'[s][i] \in {Unknown, acked[s][i]},
             \A t \in Session \ {s} : acked'[t] = acked[t]
      PROVE  GraphInv'
  <2>1. stores' = [stores EXCEPT ![s] = stores[s]] /\ stores[s] \in Graph \union {Absent}
    BY <1>t, <1>6
  <2>2. stores[s] = Absent \/ \A i \in Item : acked'[s][i] \in {Unknown, stores[s][i]}
    BY <1>1, <1>6 DEF CachesKnown, Cached
  <2>3. CachesKnown'
    BY <1>1, <1>6, <2>1, <2>2, CachesAgree
  <2> QED BY <1>2, <1>6, <2>3 DEF GraphInv, Settled
<1>7. CASE db' = RolledBack(db) /\ UNCHANGED <<stores, acked>>
  BY <1>t, <1>1, <1>6, <1>7 DEF RolledBack, Database
<1>8. CASE /\ \E rows \in HalfImported(s, g) : db' = [db EXCEPT !.view[s] = rows]
           /\ acked' = Told(acked, s, Item, g, FALSE)
           /\ UNCHANGED stores
  <2>1. PICK rows \in HalfImported(s, g) : db' = [db EXCEPT !.view[s] = rows]
    BY <1>8
  <2>2. rows \in Graph
    BY <1>t, GraphFacts DEF HalfImported
  <2>3. /\ db'.view = [db.view EXCEPT ![s] = rows] /\ db'.saved = db.saved
        /\ db'.view \in Graphs
    BY <1>t, <2>1, <2>2, DatabaseFacts
  <2>4. \A t \in Session : t # s => db'.view[t] = db.view[t]
    BY <1>t, <2>3 DEF Graphs
  <2>5. Agrees(acked', db'.view)
    BY <1>3, <1>8, <2>3, <2>4
  <2>6. \A i \in Item : acked'[s][i] = Unknown
    BY <1>t, <1>8 DEF Told, Knowledge
  <2>7. Agrees(acked', db'.saved)
    <3>1. \A t \in Session \ {s} : acked'[t] = acked[t]
      BY <1>4, <1>8
    <3>2. \A t \in Session, i \in Item : acked'[t][i] \in {Unknown, db.saved[t][i]}
      BY <1>1, <2>6, <3>1 DEF Agrees
    <3> QED BY <2>3, <3>2 DEF Agrees
  <2> QED BY <1>4, <1>6, <1>8, <2>5, <2>6, <2>7
<1> QED BY <1>5, <1>7, <1>8 DEF Import, RaisedIf

LEMMA BatchKeeps ==
  ASSUME TypeOK, TypeOK', GraphInv, BeginBatch \/ EndBatch \/ RaiseBatch \/ Restart
  PROVE  GraphInv'
<1>t. /\ db \in Database /\ acked \in Knowledge /\ kept \in Knowledge
      /\ db.view \in Graphs /\ db.saved \in Graphs /\ depth \in Nat
  BY MaxDepthAssumption DEF TypeOK, Database, Graphs, Knowledge
<1>1. CachesKnown /\ Agrees(acked, db.view) /\ Agrees(IF depth = 0 THEN acked ELSE kept, db.saved)
  BY DEF GraphInv, Settled
<1>b. RolledBack(db).view = db.saved /\ RolledBack(db).saved = db.saved
  BY <1>t DEF RolledBack, Database
<1>u. \A s \in Session, i \in Item :
        \/ Uncertain[s][i] = Unknown
        \/ Uncertain[s][i] = acked[s][i] /\ Uncertain[s][i] = kept[s][i]
  BY DEF Uncertain
<1>2. CASE BeginBatch
  <2>1. /\ CachesKnown' /\ Agrees(acked', db'.view)
    BY <1>1, <1>2 DEF BeginBatch, CachesKnown, Cached
  <2>2. depth' # 0 /\ Agrees(kept', db'.saved)
    BY <1>t, <1>1, <1>2 DEF BeginBatch
  <2> QED BY <2>1, <2>2 DEF GraphInv, Settled
<1>3. CASE depth > 1 /\ (EndBatch \/ RaiseBatch)
  <2>1. UNCHANGED <<stores, db, acked, kept>> /\ depth' # 0
    BY <1>t, <1>3 DEF EndBatch, RaiseBatch
  <2>2. CachesKnown'
    BY <1>1, <2>1 DEF CachesKnown, Cached
  <2> QED BY <1>1, <1>3, <2>1, <2>2 DEF GraphInv, Settled
<1>4. CASE depth = 1 /\ EndBatch
  <2>1. PICK r \in Commit(db) : db' = r.db /\ acked' = IF r.ok THEN acked ELSE Uncertain
    BY <1>4 DEF EndBatch
  <2>2. depth' = 0 /\ stores' = stores
    BY <1>4 DEF EndBatch
  <2>3. CASE r.ok
    <3>1. db'.view = db.view /\ db'.saved = db.view /\ acked' = acked
      BY <1>t, <2>1, <2>3, CommitOutcome
    <3>2. CachesKnown'
      BY <1>1, <2>2, <3>1 DEF CachesKnown, Cached
    <3> QED BY <1>1, <2>2, <3>1, <3>2 DEF GraphInv, Settled
  <2>4. CASE ~r.ok
    <3>1. /\ db'.saved = db.saved /\ acked' = Uncertain
          /\ db'.view = db.view \/ db'.view = db.saved
      BY <1>t, <2>1, <2>4, CommitOutcome
    <3>2. Agrees(Uncertain, db.view) /\ Agrees(Uncertain, db.saved)
      BY <1>1, <1>4, <1>u DEF Agrees
    <3>3. \A s \in Session, i \in Item : Uncertain[s][i] \in {Unknown, Cached(s)[i]}
      BY <1>1, <1>u DEF CachesKnown
    <3>4. CachesKnown'
      BY <2>2, <3>1, <3>2, <3>3 DEF CachesKnown, Cached, Agrees
    <3> QED BY <2>2, <3>1, <3>2, <3>4 DEF GraphInv, Settled
  <2> QED BY <2>3, <2>4
<1>5. ASSUME stores' = [s \in Session |-> Absent], Agrees(acked', db'.view),
             Agrees(acked', db'.saved), depth' = 0
      PROVE  GraphInv'
  <2>1. CachesKnown'
    BY <1>5 DEF CachesKnown, Cached, Agrees
  <2> QED BY <1>5, <2>1 DEF GraphInv, Settled
<1>6. CASE depth = 1 /\ RaiseBatch
  <2>1. /\ stores' = [s \in Session |-> Absent] /\ depth' = 0
        /\ \/ db' = RolledBack(db) /\ acked' = kept
           \/ db' = db /\ acked' = Uncertain
    BY <1>6 DEF RaiseBatch
  <2>2. Agrees(kept, db.saved)
    BY <1>1, <1>6
  <2>3. Agrees(Uncertain, db.view) /\ Agrees(Uncertain, db.saved)
    BY <1>1, <1>u, <2>2 DEF Agrees
  <2>4. Agrees(acked', db'.view) /\ Agrees(acked', db'.saved)
    BY <1>b, <2>1, <2>2, <2>3
  <2> QED BY <1>5, <2>1, <2>4
<1>7. CASE Restart
  <2>1. /\ stores' = [s \in Session |-> Absent] /\ depth' = 0
        /\ db' = RolledBack(db) /\ acked' = IF depth = 0 THEN acked ELSE kept
    BY <1>7 DEF Restart
  <2> QED BY <1>1, <1>b, <1>5, <2>1
<1>8. EndBatch \/ RaiseBatch => depth = 1 \/ depth > 1
  BY <1>t DEF EndBatch, RaiseBatch
<1> QED BY <1>2, <1>3, <1>4, <1>6, <1>7, <1>8

LEMMA GraphInvKept ==
  ASSUME InBatch = {}, "record" \notin Failing, TypeOK, TypeOK', GraphInv, [Next]_vars
  PROVE  GraphInv'
<1>0. CASE UNCHANGED vars
  BY <1>0 DEF vars, GraphInv, Settled, CachesKnown, Cached
<1>1. CASE BeginBatch \/ EndBatch \/ RaiseBatch \/ Restart
  BY <1>1, BatchKeeps
<1>2. ASSUME NEW s \in Session, Call(s)
      PROVE  GraphInv'
  <2>t. /\ Cached(s) \in Graph /\ db.view[s] \in Graph
    BY CachedType DEF TypeOK
  <2>c. ASSUME NEW call, CommitsItself(call)
        PROVE  depth = 0
    BY <2>c DEF CommitsItself
  <2>l. ASSUME NEW g \in Graph, stores' = [stores EXCEPT ![s] = g],
               UNCHANGED <<db, depth, acked, kept>>, g = Cached(s) \/ g = db.view[s]
        PROVE  GraphInv'
    <3>1. \A i \in Item : acked'[s][i] \in {Unknown, g[i]}
      BY <2>l DEF GraphInv, CachesKnown, Agrees
    <3>2. CachesKnown /\ Agrees(acked', db'.view)
      BY <2>l DEF GraphInv
    <3>3. CachesKnown'
      BY <2>l, <3>1, <3>2, CachesAgree
    <3> QED BY <2>l, <3>3 DEF GraphInv, Settled
  <2>1. CASE Load(s)
    BY <2>1, <2>t, <2>l DEF Load
  <2>2. CASE Reload(s)
    BY <2>2, <2>t, <2>l DEF Reload
  <2>3. CASE Clear(s)
    BY <2>3, <2>c, ClearKeeps DEF Clear
  <2>4. CASE \E n \in Node, c \in Content : Upsert(s, n, c)
    BY <2>4, PutKeeps DEF Upsert, Item, Value
  <2>5. CASE \E n \in Node : Find(s, n)
    <3>1. PICK n \in Node : Put(s, n, Cached(s)[n])
      BY <2>5 DEF Find
    <3>2. n \in Item /\ Cached(s)[n] \in Value
      BY <2>t DEF Item, Graph
    <3> QED BY <3>1, <3>2, PutKeeps
  <2>6. CASE \E e \in Edge : Relate(s, e)
    BY <2>6, PutKeeps DEF Relate, Item, Value
  <2>7. CASE \E stale \in SUBSET Edge, old \in SUBSET Node : Prune(s, stale, old)
    BY <2>7, PruneKeeps
  <2>8. CASE \E hits \in SUBSET Node : Search(s, hits) \/ \E n \in Node : Retrieve(s, n, hits)
    BY <2>8, <2>c, TouchKeeps DEF Search, Retrieve
  <2>9. CASE \E g \in Imported : Import(s, g)
    <3>1. PICK g \in Imported : Import(s, g)
      BY <2>9
    <3>2. g \in Graph /\ depth = 0
      BY <3>1, <2>c, ImportedAssumption DEF Import
    <3> QED BY <3>1, <3>2, ImportKeeps
  <2> QED BY <1>2, <2>1, <2>2, <2>3, <2>4, <2>5, <2>6, <2>7, <2>8, <2>9 DEF Call
<1> QED BY <1>0, <1>1, <1>2 DEF Next

THEOREM GraphInvariance ==
  ASSUME InBatch = {}, "record" \notin Failing
  PROVE  Spec => [](TypeOK /\ GraphInv)
<1>1. Init => TypeOK /\ GraphInv
  <2>1. Init => TypeOK
    BY GraphFacts, MaxDepthAssumption DEF Init, TypeOK, Graphs, Knowledge
  <2>2. Init => GraphInv
    BY DEF Init, GraphInv, Settled, CachesKnown, Cached, Agrees, NoGraphs
  <2> QED BY <2>1, <2>2
<1>2. TypeOK /\ GraphInv /\ [Next]_vars => (TypeOK /\ GraphInv)'
  BY TypeKept, GraphInvKept
<1> QED BY <1>1, <1>2, PTL DEF Spec

\* What a call stored or answered is durable, through failing calls, commits
\* and rollbacks and through restarts, and a batch is all or nothing, for any
\* sessions, items, imports and nesting, if the calls that commit on their own
\* stay out of batches and imported records can be stored.
THEOREM AcknowledgedIsDurable ==
  ASSUME InBatch = {}, "record" \notin Failing
  PROVE  Spec => []AckedIsDurable
<1>1. GraphInv => AckedIsDurable
  BY DEF GraphInv, Settled, AckedIsDurable
<1> QED BY <1>1, GraphInvariance, PTL

\* Under the same conditions cache and rows never contradict what was told.
THEOREM AcknowledgedIsRead ==
  ASSUME InBatch = {}, "record" \notin Failing
  PROVE  Spec => []AckedIsRead
<1>1. GraphInv => AckedIsRead
  BY DEF GraphInv, CachesKnown, AckedIsRead
<1> QED BY <1>1, GraphInvariance, PTL
-----------------------------------------------------------------------------
(* As long as the database does not fail, the cache mirrors the rows *)

\* A database that does not fail has one outcome for each operation.
LEMMA SureOutcome ==
  ASSUME Failing = {}, NEW d \in Database, NEW s \in Session, NEW rows \in Graph
  PROVE  /\ \A r \in Commit(d) : /\ r.ok /\ r.db \in Database
                                 /\ r.db.view = d.view /\ r.db.saved = d.view
         /\ \A r \in Persist(d, s, rows) :
              /\ r.ok /\ r.db \in Database
              /\ r.db.view = [d.view EXCEPT ![s] = rows]
              /\ depth = 0 => r.db.saved = r.db.view
<1>1. ASSUME NEW e \in Database, NEW r \in Commit(e)
      PROVE  r.ok /\ r.db \in Database /\ r.db.view = e.view /\ r.db.saved = e.view
  <2>1. r = Ran([e EXCEPT !.saved = e.view])
    BY <1>1 DEF Commit, RaisedIf
  <2> QED BY <2>1 DEF Ran, Database
<1>2. ASSUME NEW r \in Persist(d, s, rows)
      PROVE  /\ r.ok /\ r.db \in Database
             /\ r.db.view = [d.view EXCEPT ![s] = rows]
             /\ depth = 0 => r.db.saved = r.db.view
  <2> DEFINE e == [d EXCEPT !.view[s] = rows]
  <2>1. e \in Database /\ e.view = [d.view EXCEPT ![s] = rows]
    BY DatabaseFacts
  <2> HIDE DEF e
  <2>2. PICK q \in Execute(d, s, rows) : r \in (IF q.ok THEN MaybeCommit(q.db) ELSE {q})
    BY <1>2 DEF Persist
  <2>3. q = Ran(e)
    BY <2>2 DEF Execute, RaisedIf, e
  <2>4. r \in MaybeCommit(e)
    BY <2>2, <2>3 DEF Ran
  <2>5. CASE depth = 0
    <3>1. r \in Commit(e)
      BY <2>4, <2>5 DEF MaybeCommit
    <3> QED BY <1>1, <2>1, <3>1
  <2>6. CASE depth # 0
    <3>1. r = Ran(e)
      BY <2>4, <2>6 DEF MaybeCommit
    <3> QED BY <2>1, <2>6, <3>1 DEF Ran
  <2> QED BY <2>5, <2>6
<1> QED BY <1>1, <1>2

LEMMA SureDelete ==
  ASSUME Failing = {}, NEW d \in Database, NEW s \in Session, NEW items,
         depth = 0 => d.view = d.saved, NEW r \in Delete(d, s, items)
  PROVE  /\ r.ok /\ r.db \in Database
         /\ r.db.view = [d.view EXCEPT ![s] = Without(d.view[s], items)]
         /\ depth = 0 => r.db.view = r.db.saved
<1>1. d.view \in Graphs /\ d.view[s] \in Graph /\ Without(d.view[s], items) \in Graph
  BY GraphFacts DEF Graphs, Database
<1>2. CASE items = {}
  <2>1. r.ok /\ r.db = d
    BY <1>2 DEF Delete, Ran
  <2>2. Without(d.view[s], items) = d.view[s]
    BY <1>1, <1>2 DEF Without, Graph
  <2> QED BY <1>1, <2>1, <2>2 DEF Graphs
<1>3. CASE items # {}
  <2>1. r \in Persist(d, s, Without(d.view[s], items))
    BY <1>3 DEF Delete
  <2> QED BY <1>1, <2>1, SureOutcome
<1> QED BY <1>2, <1>3

\* A call that gives a session the same graph in the cache and in the rows.
LEMMA SameGraph ==
  ASSUME TypeOK, CacheMirrorsRows, NEW s \in Session, NEW g \in Graph,
         stores' = [stores EXCEPT ![s] = g] \/ (stores' = [stores EXCEPT ![s] = Absent]),
         db'.view = [db.view EXCEPT ![s] = g],
         depth' = depth, depth = 0 => db'.view = db'.saved
  PROVE  CacheMirrorsRows'
<1>1. /\ stores \in [Session -> Graph \union {Absent}] /\ db.view \in Graphs
      /\ \A t \in Session : Cached(t) = db.view[t]
  BY DEF TypeOK, Graphs, CacheMirrorsRows
<1>2. SUFFICES ASSUME NEW t \in Session
               PROVE  Cached(t)' = db'.view[t]
  BY DEF CacheMirrorsRows
<1>3. CASE t = s
  BY <1>1, <1>3, AbsentAssumption DEF Cached, Graphs
<1>4. CASE t # s
  BY <1>1, <1>4 DEF Cached, Graphs
<1> QED BY <1>3, <1>4

LEMMA MirrorKept ==
  ASSUME Failing = {}, TypeOK, CacheMirrorsRows, [Next]_vars
  PROVE  CacheMirrorsRows'
<1>t. /\ db \in Database /\ db.view \in Graphs /\ db.saved \in Graphs /\ depth \in Nat
      /\ depth = 0 => db.view = db.saved
  BY MaxDepthAssumption DEF TypeOK, Database, Graphs, CacheMirrorsRows
<1>0. CASE UNCHANGED vars
  BY <1>0 DEF vars, CacheMirrorsRows, Cached
<1>1. CASE BeginBatch
  BY <1>1, <1>t DEF BeginBatch, CacheMirrorsRows, Cached
<1>2. CASE EndBatch
  <2>1. CASE depth = 1
    <3>1. PICK r \in Commit(db) : db' = r.db
      BY <1>2, <2>1 DEF EndBatch
    <3>2. r = Ran([db EXCEPT !.saved = db.view])
      BY <3>1 DEF Commit, RaisedIf
    <3>3. db'.view = db.view /\ db'.saved = db.view
      BY <1>t, <3>1, <3>2 DEF Ran, Database
    <3> QED BY <1>2, <3>3 DEF EndBatch, CacheMirrorsRows, Cached
  <2>2. CASE depth # 1
    BY <1>2, <1>t, <2>2 DEF EndBatch, CacheMirrorsRows, Cached
  <2> QED BY <2>1, <2>2
<1>3. ASSUME stores' = [s \in Session |-> Absent], db' = RolledBack(db)
      PROVE  CacheMirrorsRows'
  BY <1>3, <1>t DEF CacheMirrorsRows, Cached, RolledBack, Database
<1>4. CASE RaiseBatch
  <2>1. CASE depth = 1
    BY <1>3, <1>4, <2>1 DEF RaiseBatch
  <2>2. CASE depth # 1
    BY <1>4, <1>t, <2>2 DEF RaiseBatch, CacheMirrorsRows, Cached
  <2> QED BY <2>1, <2>2
<1>5. CASE Restart
  BY <1>3, <1>5 DEF Restart
<1>6. ASSUME NEW s \in Session, Call(s)
      PROVE  CacheMirrorsRows'
  <2>c. /\ Cached(s) \in Graph /\ db.view[s] = Cached(s)
        /\ db.view = [db.view EXCEPT ![s] = Cached(s)]
    BY CachedType, <1>t DEF CacheMirrorsRows, Graphs
  <2>p. ASSUME NEW i \in Item, NEW value \in Value, Put(s, i, value)
        PROVE  CacheMirrorsRows'
    <3> DEFINE g == [Cached(s) EXCEPT ![i] = value]
    <3>1. g \in Graph /\ Rows(db, s, g, {i}) = g
      BY <2>c DEF Graph, Rows
    <3>2. /\ \E r \in Persist(db, s, Rows(db, s, g, {i})) : db' = r.db
          /\ stores' = [stores EXCEPT ![s] = g] /\ depth' = depth
      BY <2>p DEF Put
    <3> HIDE DEF g
    <3>3. db'.view = [db.view EXCEPT ![s] = g] /\ (depth = 0 => db'.view = db'.saved)
      BY <1>t, <3>1, <3>2, SureOutcome
    <3> QED BY <3>1, <3>2, <3>3, SameGraph
  <2>t. ASSUME NEW hits \in SUBSET Node, Touch(s, hits)
        PROVE  CacheMirrorsRows'
    <3> DEFINE e == [db EXCEPT !.view[s] = Rows(db, s, Cached(s), hits)]
    <3>1. Rows(db, s, Cached(s), hits) = Cached(s)
      BY <2>c DEF Graph, Rows
    <3>2. e \in Database /\ e.view = db.view
      BY <1>t, <2>c, <3>1, DatabaseFacts
    <3>3. \E r \in Commit(e) : db' = r.db
      BY <2>t DEF Touch, RaisedIf
    <3> HIDE DEF e
    <3>4. db'.view = db.view /\ db'.saved = db.view
      BY <3>2, <3>3, <2>c, SureOutcome
    <3>5. stores' = [stores EXCEPT ![s] = Cached(s)] /\ depth' = depth
      BY <2>t DEF Touch
    <3> QED BY <2>c, <3>4, <3>5, SameGraph
  <2>1. CASE Load(s)
    BY <1>t, <2>1, <2>c, SameGraph DEF Load
  <2>2. CASE Reload(s)
    BY <1>t, <2>2, <2>c, SameGraph DEF Reload
  <2>3. CASE Clear(s)
    <3> DEFINE g == Without(db.view[s], Item)
               e == [db EXCEPT !.view[s] = g]
    <3>1. g \in Graph
      BY <2>c, GraphFacts
    <3>2. e \in Database /\ e.view = [db.view EXCEPT ![s] = g]
      BY <1>t, <3>1, DatabaseFacts
    <3>3. /\ \E r \in Commit(e) : db' = r.db
          /\ stores' = [stores EXCEPT ![s] = Absent] /\ depth' = depth
      BY <2>3 DEF Clear, RaisedIf
    <3> HIDE DEF e, g
    <3>4. db'.view = e.view /\ db'.saved = e.view
      BY <3>1, <3>2, <3>3, SureOutcome
    <3> QED BY <3>1, <3>2, <3>3, <3>4, SameGraph
  <2>4. CASE \E n \in Node, c \in Content : Upsert(s, n, c)
    BY <2>4, <2>p DEF Upsert, Item, Value
  <2>5. CASE \E n \in Node : Find(s, n)
    <3>1. PICK n \in Node : Put(s, n, Cached(s)[n])
      BY <2>5 DEF Find
    <3>2. n \in Item /\ Cached(s)[n] \in Value
      BY <2>c DEF Item, Graph
    <3> QED BY <2>p, <3>1, <3>2
  <2>6. CASE \E e \in Edge : Relate(s, e)
    BY <2>6, <2>p DEF Relate, Item, Value
  <2>7. CASE \E stale \in SUBSET Edge, old \in SUBSET Node : Prune(s, stale, old)
    <3>1. PICK stale \in SUBSET Edge, old \in SUBSET Node : Prune(s, stale, old)
      BY <2>7
    <3> DEFINE g1 == Without(Cached(s), stale)
               g2 == Without(g1, old)
    <3>2. g1 \in Graph /\ g2 \in Graph
      BY <2>c, GraphFacts
    <3>3. PICK r1 \in Delete(db, s, stale) :
            \/ ~r1.ok
            \/ /\ stores' = [stores EXCEPT ![s] = g2]
               /\ \E r2 \in Delete(r1.db, s, old) : db' = r2.db
      BY <3>1 DEF Prune
    <3>4. /\ r1.ok /\ r1.db \in Database /\ r1.db.view = [db.view EXCEPT ![s] = g1]
          /\ depth = 0 => r1.db.view = r1.db.saved
      BY <1>t, <2>c, <3>3, SureDelete
    <3>5. r1.db.view[s] = g1
      BY <1>t, <3>4 DEF Graphs
    <3> DEFINE h == Without(r1.db.view[s], old)
    <3>6. h = g2
      BY <3>5
    <3>7. \A r2 \in Delete(r1.db, s, old) :
            /\ r2.db.view = [r1.db.view EXCEPT ![s] = h]
            /\ depth = 0 => r2.db.view = r2.db.saved
      BY <3>4, SureDelete
    <3>8. depth' = depth
      BY <3>1 DEF Prune
    <3> HIDE DEF g1, g2, h
    <3>9. db'.view = [db.view EXCEPT ![s] = g2] /\ (depth = 0 => db'.view = db'.saved)
      BY <1>t, <3>3, <3>4, <3>6, <3>7 DEF Graphs
    <3> QED BY <3>2, <3>3, <3>4, <3>8, <3>9, SameGraph
  <2>8. CASE \E hits \in SUBSET Node : Search(s, hits) \/ \E n \in Node : Retrieve(s, n, hits)
    BY <2>8, <2>t DEF Search, Retrieve
  <2>9. CASE \E g \in Imported : Import(s, g)
    <3>1. PICK g \in Imported : Import(s, g)
      BY <2>9
    <3>2. g \in Graph
      BY ImportedAssumption
    <3> DEFINE e == [db EXCEPT !.view[s] = g]
    <3>3. e \in Database /\ e.view = [db.view EXCEPT ![s] = g]
      BY <1>t, <3>2, DatabaseFacts
    <3>4. /\ db' = [e EXCEPT !.saved = e.view]
          /\ stores' = [stores EXCEPT ![s] = g] /\ depth' = depth
      BY <3>1 DEF Import, RaisedIf
    <3> HIDE DEF e
    <3>5. db'.view = e.view /\ db'.saved = e.view
      BY <3>3, <3>4 DEF Database
    <3> QED BY <3>2, <3>3, <3>4, <3>5, SameGraph
  <2> QED BY <1>6, <2>1, <2>2, <2>3, <2>4, <2>5, <2>6, <2>7, <2>8, <2>9 DEF Call
<1> QED BY <1>0, <1>1, <1>2, <1>4, <1>5, <1>6 DEF Next

\* As long as the database does not fail, the cache of every session is what
\* its rows are and nothing stays uncommitted outside a batch, for any nesting
\* of batches, the calls that commit inside them included, and any restarts.
THEOREM CacheIsMirror ==
  ASSUME Failing = {}
  PROVE  Spec => []CacheMirrorsRows
<1>1. Init => TypeOK /\ CacheMirrorsRows
  <2>1. Init => TypeOK
    BY GraphFacts, MaxDepthAssumption DEF Init, TypeOK, Graphs, Knowledge
  <2> QED BY <2>1 DEF Init, CacheMirrorsRows, Cached
<1>2. TypeOK /\ CacheMirrorsRows /\ [Next]_vars => (TypeOK /\ CacheMirrorsRows)'
  BY TypeKept, MirrorKept
<1> QED BY <1>1, <1>2, PTL DEF Spec
=============================================================================
