--------------------------- MODULE QPromiseProofs ---------------------------
(***************************************************************************)
(* Theorems about QPromise, for every finite set of promises, every set of  *)
(* payloads and every choice of the allocations that may fail: reference    *)
(* counts are exact, a promise settles once, a handler runs once, and what   *)
(* the application releases is freed.  When jobs can be allocated no         *)
(* continuation of a settled promise is forgotten, a drain delivers, and the *)
(* library implements PromiseContract; when texts can be copied, outcomes    *)
(* are passed on unchanged.                                                  *)
(*                                                                          *)
(* First the operators on the heap: what counting up and down, freeing,      *)
(* settling, attaching and following do to an object.  Then that each action *)
(* keeps the heap exact (IInv).  The rest says what a step does to one       *)
(* promise (Moves) and to what it follows (Follows), and derives the         *)
(* remaining properties from that.                                           *)
(***************************************************************************)
EXTENDS QPromise, FiniteSetTheorems, SequenceTheorems, TLAPS

-----------------------------------------------------------------------------
(* The operators on the heap                                                 *)

Heap == [Promise -> PromiseObject]
OutcomeRecord == [state : Settled, payload : Payload]

-----------------------------------------------------------------------------
(* Lemmas about the heap operators *)

\* The references a set of objects holds on q are finitely many.
LEMMA RefsFromFinite ==
  ASSUME NEW h \in Heap, NEW S \in SUBSET Promise, NEW q \in Promise
  PROVE  IsFiniteSet(ContRefs(h, S, q)) /\ IsFiniteSet(FollowRefs(h, S, q))
<1>1. IsFiniteSet(S)
  BY PromiseAssumption, FS_Subset
<1>2. IsFiniteSet(FollowRefs(h, S, q))
  BY <1>1, FS_Subset DEF FollowRefs
<1> DEFINE Places(p) == {p} \X DOMAIN h[p].conts
           Rows == {Places(p) : p \in S}
           f == [p \in S |-> Places(p)]
<1>3. ASSUME NEW p \in S PROVE IsFiniteSet(Places(p))
  <2>1. h[p].conts \in Seq(Continuation)
    BY DEF Heap, PromiseObject
  <2>2. DOMAIN h[p].conts = 1 .. Len(h[p].conts) /\ Len(h[p].conts) \in Nat
    BY <2>1
  <2>3. IsFiniteSet(DOMAIN h[p].conts)
    BY <2>2, FS_Interval
  <2> QED BY <2>3, FS_Singleton, FS_Product
<1>4. IsFiniteSet(Rows)
  <2> HIDE DEF Places
  <2>1. f \in Surjection(S, Rows)
    BY DEF Surjection
  <2> QED BY <1>1, <2>1, FS_Surjection
<1>5. IsFiniteSet(UNION Rows)
  <2>1. \A T \in Rows : IsFiniteSet(T)
    BY <1>3
  <2> HIDE DEF Rows
  <2> QED BY <2>1, <1>4, FS_UNION
<1>6. ContRefs(h, S, q) \subseteq UNION Rows
  BY DEF ContRefs
<1>7. IsFiniteSet(ContRefs(h, S, q))
  BY <1>5, <1>6, FS_Subset
<1> QED BY <1>2, <1>7

LEMMA RefsFromType ==
  ASSUME NEW h \in Heap, NEW S \in SUBSET Promise, NEW q \in Promise
  PROVE  RefsFrom(h, S, q) \in Nat
BY RefsFromFinite, FS_CardinalityType DEF RefsFrom

\* More objects hold more references, and disjoint sets hold the sum.
LEMMA RefsFromSplit ==
  ASSUME NEW h \in Heap, NEW T \in SUBSET Promise, NEW S \in SUBSET T,
         NEW q \in Promise
  PROVE  /\ RefsFrom(h, S, q) <= RefsFrom(h, T, q)
         /\ RefsFrom(h, T \ S, q) = RefsFrom(h, T, q) - RefsFrom(h, S, q)
<1> DEFINE C(X) == ContRefs(h, X, q)
           F(X) == FollowRefs(h, X, q)
<1>1. /\ IsFiniteSet(C(T)) /\ IsFiniteSet(F(T))
      /\ IsFiniteSet(C(S)) /\ IsFiniteSet(F(S))
      /\ S \in SUBSET Promise /\ T \ S \in SUBSET Promise
  BY RefsFromFinite
<1>2. C(S) \subseteq C(T) /\ F(S) \subseteq F(T)
  BY DEF ContRefs, FollowRefs
<1>3. C(T \ S) = C(T) \ C(S) /\ F(T \ S) = F(T) \ F(S)
  BY DEF ContRefs, FollowRefs
<1> HIDE DEF C, F
<1>4. C(T) \cap C(S) = C(S) /\ F(T) \cap F(S) = F(S)
  BY <1>2
<1>5. /\ Cardinality(C(S)) <= Cardinality(C(T))
      /\ Cardinality(C(T \ S)) = Cardinality(C(T)) - Cardinality(C(S))
  <2>1. Cardinality(C(T) \ C(S)) = Cardinality(C(T)) - Cardinality(C(T) \cap C(S))
    BY <1>1, FS_Difference
  <2>2. Cardinality(C(S)) <= Cardinality(C(T))
    BY <1>1, <1>2, FS_Subset
  <2> QED BY <1>3, <1>4, <2>1, <2>2
<1>6. /\ Cardinality(F(S)) <= Cardinality(F(T))
      /\ Cardinality(F(T \ S)) = Cardinality(F(T)) - Cardinality(F(S))
  <2>1. Cardinality(F(T) \ F(S)) = Cardinality(F(T)) - Cardinality(F(T) \cap F(S))
    BY <1>1, FS_Difference
  <2>2. Cardinality(F(S)) <= Cardinality(F(T))
    BY <1>1, <1>2, FS_Subset
  <2> QED BY <1>3, <1>4, <2>1, <2>2
<1>7. /\ Cardinality(C(S)) \in Nat /\ Cardinality(C(T)) \in Nat
      /\ Cardinality(F(S)) \in Nat /\ Cardinality(F(T)) \in Nat
  BY <1>1, FS_CardinalityType
<1> QED BY <1>5, <1>6, <1>7 DEF RefsFrom, C, F

\* What unref may do to another field than the counts: free the object.
Trimmed(h, g) ==
  \A q \in Promise :
    \/ g[q] = Blank("freed")
    \/ /\ g[q].state = h[q].state /\ g[q].payload = h[q].payload
       /\ g[q].conts = h[q].conts /\ g[q].following = h[q].following

LEMMA BlankType == ASSUME NEW s \in State PROVE Blank(s) \in PromiseObject
BY DEF Blank, PromiseObject, Payload

LEMMA RefEffect ==
  ASSUME NEW h \in Heap, NEW p \in Promise
  PROVE  /\ Ref(h, p) \in Heap
         /\ \A q \in Promise :
              /\ Ref(h, p)[q].state = h[q].state /\ Ref(h, p)[q].payload = h[q].payload
              /\ Ref(h, p)[q].conts = h[q].conts
              /\ Ref(h, p)[q].following = h[q].following
BY DEF Ref, Heap, PromiseObject

LEMMA UnrefEffect ==
  ASSUME NEW h \in Heap, NEW p \in Promise \union {None}
  PROVE  Unref(h, p) \in Heap /\ Trimmed(h, Unref(h, p))
<1>1. CASE p = None
  BY <1>1 DEF Unref, Trimmed
<1>2. CASE p # None /\ h[p].refcount > 1
  <2>1. Unref(h, p) = [h EXCEPT ![p].refcount = @ - 1]
    BY <1>2 DEF Unref
  <2> QED BY <1>2, <2>1 DEF Trimmed, Heap, PromiseObject
<1>3. CASE p # None /\ ~(h[p].refcount > 1)
  <2> DEFINE gone == Destroyed(h, p)
  <2>1. Unref(h, p) =
          [q \in Promise |-> IF q \in gone THEN Blank("freed")
                             ELSE [h[q] EXCEPT !.refcount = @ - RefsFrom(h, gone, q)]]
    BY <1>3 DEF Unref
  <2>2. gone \in SUBSET Promise
    BY DEF Destroyed
  <2>3. Blank("freed") \in PromiseObject
    BY BlankType DEF State
  <2> HIDE DEF gone
  <2>4. ASSUME NEW q \in Promise
        PROVE  /\ [h[q] EXCEPT !.refcount = @ - RefsFrom(h, gone, q)] \in PromiseObject
               /\ LET o == [h[q] EXCEPT !.refcount = @ - RefsFrom(h, gone, q)]
                  IN  /\ o.state = h[q].state /\ o.payload = h[q].payload
                      /\ o.conts = h[q].conts /\ o.following = h[q].following
    <3>1. RefsFrom(h, gone, q) \in Nat
      BY <2>2, RefsFromType
    <3>2. h[q] \in PromiseObject
      BY DEF Heap
    <3> QED BY <3>1, <3>2 DEF PromiseObject
  <2>5. Unref(h, p) \in Heap
    BY <2>1, <2>3, <2>4 DEF Heap
  <2>6. Trimmed(h, Unref(h, p))
    BY <2>1, <2>4 DEF Trimmed
  <2> QED BY <2>5, <2>6
<1> QED BY <1>1, <1>2, <1>3

-----------------------------------------------------------------------------
(* Exact reference counts, as a property of a heap and of the references ext  *)
(* that come from outside the heap                                            *)

Ext == [Promise -> Nat]
Plus(ext, p) == [ext EXCEPT ![p] = @ + 1]
Minus(ext, p) == [ext EXCEPT ![p] = @ - 1]

LEMMA PlusMinus ==
  ASSUME NEW ext \in Ext, NEW r \in Promise
  PROVE  /\ Plus(ext, r) \in Ext /\ Plus(ext, r)[r] > 0
         /\ Minus(Plus(ext, r), r) = ext
         /\ ext[r] > 0 => Minus(ext, r) \in Ext /\ Plus(Minus(ext, r), r) = ext
<1>1. /\ Plus(ext, r) \in [Promise -> Int]
      /\ \A q \in Promise : Plus(ext, r)[q] = IF q = r THEN ext[q] + 1 ELSE ext[q]
  BY DEF Plus, Ext
<1>2. /\ Minus(ext, r) \in [Promise -> Int]
      /\ \A q \in Promise : Minus(ext, r)[q] = IF q = r THEN ext[q] - 1 ELSE ext[q]
  BY DEF Minus, Ext
<1>3. \A q \in Promise : ext[q] \in Nat
  BY DEF Ext
<1>4. Minus(Plus(ext, r), r) = ext
  <2>1. \A q \in Promise : Minus(Plus(ext, r), r)[q] = ext[q]
    BY <1>1, <1>3 DEF Minus
  <2>2. Minus(Plus(ext, r), r) = [q \in Promise |-> Minus(Plus(ext, r), r)[q]]
    BY <1>1 DEF Minus
  <2>3. ext = [q \in Promise |-> ext[q]]
    BY DEF Ext
  <2> QED BY <2>1, <2>2, <2>3
<1>5. Plus(Minus(ext, r), r) = ext
  <2>1. \A q \in Promise : Plus(Minus(ext, r), r)[q] = ext[q]
    BY <1>2, <1>3 DEF Plus
  <2>2. Plus(Minus(ext, r), r) = [q \in Promise |-> Plus(Minus(ext, r), r)[q]]
    BY <1>2 DEF Plus
  <2>3. ext = [q \in Promise |-> ext[q]]
    BY DEF Ext
  <2> QED BY <2>1, <2>2, <2>3
<1>6. Plus(ext, r) \in Ext /\ Plus(ext, r)[r] > 0
  BY <1>1, <1>3 DEF Ext
<1>7. ext[r] > 0 => Minus(ext, r) \in Ext
  BY <1>2, <1>3 DEF Ext
<1> QED BY <1>4, <1>5, <1>6, <1>7

LEMMA PlusCommutes ==
  ASSUME NEW ext \in Ext, NEW p \in Promise, NEW r \in Promise
  PROVE  Plus(Plus(ext, r), p) = Plus(Plus(ext, p), r)
<1>1. \A q \in Promise : Plus(Plus(ext, r), p)[q] = Plus(Plus(ext, p), r)[q]
  BY DEF Plus, Ext
<1>2. Plus(Plus(ext, r), p) = [q \in Promise |-> Plus(Plus(ext, r), p)[q]]
  BY DEF Plus, Ext
<1>3. Plus(Plus(ext, p), r) = [q \in Promise |-> Plus(Plus(ext, p), r)[q]]
  BY DEF Plus, Ext
<1> QED BY <1>1, <1>2, <1>3

Counted(h, ext, p) == h[p].refcount = ext[p] + RefsFrom(h, Promise, p)

Sound(h, p) ==
  /\ h[p].state \in Live <=> h[p].refcount > 0
  /\ h[p].state \notin Live => h[p].conts = << >> /\ h[p].following = None

Exact(h, ext) == \A p \in Promise : Counted(h, ext, p) /\ Sound(h, p)

LEMMA RefExact ==
  ASSUME NEW h \in Heap, NEW ext \in Ext, Exact(h, ext),
         NEW p \in Promise, h[p].state \in Live
  PROVE  Exact(Ref(h, p), Plus(ext, p))
<1> DEFINE g == Ref(h, p)
<1>1. \A q \in Promise : g[q].conts = h[q].conts /\ g[q].following = h[q].following
                         /\ g[q].state = h[q].state
  BY RefEffect
<1>2. \A q \in Promise : g[q].refcount = IF q = p THEN h[q].refcount + 1 ELSE h[q].refcount
  BY DEF Ref, Heap, PromiseObject
<1> HIDE DEF g
<1>3. \A q \in Promise : RefsFrom(g, Promise, q) = RefsFrom(h, Promise, q)
  <2>1. TAKE q \in Promise
  <2>2. ContRefs(g, Promise, q) = ContRefs(h, Promise, q)
    BY <1>1 DEF ContRefs
  <2>3. FollowRefs(g, Promise, q) = FollowRefs(h, Promise, q)
    BY <1>1 DEF FollowRefs
  <2> QED BY <2>2, <2>3 DEF RefsFrom
<1>4. ASSUME NEW q \in Promise PROVE Counted(g, Plus(ext, p), q) /\ Sound(g, q)
  <2>1. RefsFrom(h, Promise, q) \in Nat /\ ext[q] \in Nat /\ h[q].refcount \in Int
    BY RefsFromType DEF Ext, Heap, PromiseObject
  <2>2. Plus(ext, p)[q] = IF q = p THEN ext[q] + 1 ELSE ext[q]
    BY DEF Plus, Ext
  <2>3. Counted(h, ext, q) /\ Sound(h, q)
    BY DEF Exact
  <2> QED BY <1>1, <1>2, <1>3, <2>1, <2>2, <2>3 DEF Counted, Sound
<1> QED BY <1>4 DEF Exact, g

\* An unref that frees nothing.
LEMMA UnrefCountsDown ==
  ASSUME NEW h \in Heap, NEW ext \in Ext, Exact(h, ext),
         NEW p \in Promise, ext[p] > 0, h[p].refcount > 1
  PROVE  Exact(Unref(h, p), Minus(ext, p))
<1> DEFINE g == Unref(h, p)
<1>1. g = [h EXCEPT ![p].refcount = @ - 1]
  BY NoneAssumption DEF Unref
<1>2. \A q \in Promise : /\ g[q].conts = h[q].conts /\ g[q].following = h[q].following
                         /\ g[q].state = h[q].state
                         /\ g[q].refcount = IF q = p THEN h[q].refcount - 1 ELSE h[q].refcount
  BY <1>1 DEF Heap, PromiseObject
<1> HIDE DEF g
<1>3. \A q \in Promise : RefsFrom(g, Promise, q) = RefsFrom(h, Promise, q)
  <2>1. TAKE q \in Promise
  <2>2. ContRefs(g, Promise, q) = ContRefs(h, Promise, q)
    BY <1>2 DEF ContRefs
  <2>3. FollowRefs(g, Promise, q) = FollowRefs(h, Promise, q)
    BY <1>2 DEF FollowRefs
  <2> QED BY <2>2, <2>3 DEF RefsFrom
<1>4. ASSUME NEW q \in Promise PROVE Counted(g, Minus(ext, p), q) /\ Sound(g, q)
  <2>1. RefsFrom(h, Promise, q) \in Nat /\ ext[q] \in Nat /\ h[q].refcount \in Int
    BY RefsFromType DEF Ext, Heap, PromiseObject
  <2>2. Minus(ext, p)[q] = IF q = p THEN ext[q] - 1 ELSE ext[q]
    BY DEF Minus, Ext
  <2>3. Counted(h, ext, q) /\ Sound(h, q)
    BY DEF Exact
  <2>4. Counted(g, Minus(ext, p), q)
    BY <1>2, <1>3, <2>1, <2>2, <2>3 DEF Counted
  <2>5. g[q].refcount > 0 <=> h[q].refcount > 0
    BY <1>2, <2>1
  <2>6. Sound(g, q)
    BY <1>2, <2>3, <2>5 DEF Sound
  <2> QED BY <2>4, <2>6
<1> QED BY <1>4 DEF Exact, g

\* An unref of the last reference: the objects it frees are referred to by
\* nothing outside them, and what they referred to is counted down exactly.
LEMMA UnrefDestroys ==
  ASSUME NEW h \in Heap, NEW ext \in Ext, Exact(h, ext),
         NEW p \in Promise, ext[p] > 0, ~(h[p].refcount > 1)
  PROVE  Exact(Unref(h, p), Minus(ext, p))
<1> DEFINE g == Unref(h, p)
           G == Destroyed(h, p)
           Refs(X, q) == RefsFrom(h, X, q)
           Closed(X) == /\ p \in X
                        /\ \A q \in Promise :
                             Refs(X, q) > 0 /\ h[q].refcount <= Refs(X, q) => q \in X
<1>1. /\ G = {q \in Promise : \A X \in SUBSET Promise : Closed(X) => q \in X}
      /\ G \in SUBSET Promise
  BY DEF Destroyed
<1>2. g = [q \in Promise |-> IF q \in G THEN Blank("freed")
                             ELSE [h[q] EXCEPT !.refcount = @ - Refs(G, q)]]
  BY NoneAssumption DEF Unref
<1>3. ASSUME NEW q \in Promise
      PROVE  /\ ext[q] \in Nat /\ h[q].refcount \in Int /\ Refs(Promise, q) \in Nat
             /\ Refs(G, q) \in Nat /\ Refs(G, q) <= Refs(Promise, q)
             /\ h[q].refcount = ext[q] + Refs(Promise, q)
  BY <1>1, RefsFromType, RefsFromSplit DEF Ext, Heap, PromiseObject, Exact, Counted
<1>4. \A X, Y \in SUBSET Promise : X \subseteq Y =>
        \A q \in Promise : Refs(X, q) <= Refs(Y, q) /\ Refs(X, q) \in Nat /\ Refs(Y, q) \in Nat
  BY RefsFromSplit, RefsFromType
<1> HIDE DEF g, G, Refs
<1>5. p \in G
  BY <1>1
<1>6. ext[p] = 1 /\ Refs(Promise, p) = 0 /\ Refs(G, p) = 0
  BY <1>3
<1>7. \A q \in Promise : Refs(G, q) > 0 /\ h[q].refcount <= Refs(G, q) => q \in G
  <2>1. SUFFICES ASSUME NEW q \in Promise, Refs(G, q) > 0, h[q].refcount <= Refs(G, q),
                        NEW X \in SUBSET Promise, Closed(X)
                 PROVE  q \in X
    BY <1>1
  <2>2. G \subseteq X
    BY <1>1, <2>1
  <2>3. Refs(G, q) <= Refs(X, q) /\ Refs(G, q) \in Nat /\ Refs(X, q) \in Nat
    BY <1>1, <1>4, <2>2
  <2> QED BY <1>3, <2>1, <2>3
<1>8. \A q \in G : q = p \/ (ext[q] = 0 /\ Refs(Promise, q) = Refs(G, q))
  <2> DEFINE X == {q \in G : q = p \/ (ext[q] = 0 /\ Refs(Promise, q) = Refs(G, q))}
  <2>1. X \in SUBSET Promise /\ X \subseteq G /\ p \in X
    BY <1>1, <1>5
  <2> HIDE DEF X
  <2>2. ASSUME NEW q \in Promise, Refs(X, q) > 0, h[q].refcount <= Refs(X, q)
        PROVE  q \in X
    <3>1. Refs(X, q) <= Refs(G, q) /\ Refs(X, q) \in Nat
      BY <1>1, <1>4, <2>1
    <3>2. q \in G
      BY <1>3, <1>7, <2>2, <3>1
    <3>3. ext[q] = 0 /\ Refs(Promise, q) = Refs(G, q)
      BY <1>3, <2>2, <3>1
    <3> QED BY <3>2, <3>3 DEF X
  <2>3. Closed(X)
    BY <2>1, <2>2
  <2>4. G \subseteq X
    BY <1>1, <2>1, <2>3
  <2> QED BY <2>4 DEF X
<1>9. \A q \in Promise : RefsFrom(g, Promise, q) = Refs(Promise, q) - Refs(G, q)
  <2>1. TAKE q \in Promise
  <2>2. \A x \in G : g[x].conts = << >> /\ g[x].following = None
    BY <1>1, <1>2 DEF Blank
  <2>3. \A x \in Promise \ G : g[x].conts = h[x].conts /\ g[x].following = h[x].following
    <3>1. TAKE x \in Promise \ G
    <3>2. h[x] \in PromiseObject /\ g[x] = [h[x] EXCEPT !.refcount = @ - Refs(G, x)]
      BY <1>2 DEF Heap
    <3> QED BY <3>2 DEF PromiseObject
  <2>4. ContRefs(g, Promise, q) = ContRefs(h, Promise \ G, q)
    <3>1. \A x \in G : DOMAIN g[x].conts = {}
      BY <2>2
    <3> QED BY <2>3, <3>1, <1>1 DEF ContRefs
  <2>5. FollowRefs(g, Promise, q) = FollowRefs(h, Promise \ G, q)
    BY <2>2, <2>3, <1>1, NoneAssumption DEF FollowRefs
  <2>6. RefsFrom(g, Promise, q) = RefsFrom(h, Promise \ G, q)
    BY <2>4, <2>5 DEF RefsFrom
  <2>7. RefsFrom(h, Promise \ G, q) = RefsFrom(h, Promise, q) - RefsFrom(h, G, q)
    <3>1. G \in SUBSET Promise /\ Promise \in SUBSET Promise
      BY <1>1
    <3> QED BY <3>1, RefsFromSplit
  <2> QED BY <2>6, <2>7 DEF Refs
<1>10. ASSUME NEW q \in Promise PROVE Counted(g, Minus(ext, p), q) /\ Sound(g, q)
  <2>1. Minus(ext, p)[q] = IF q = p THEN ext[q] - 1 ELSE ext[q]
    BY DEF Minus, Ext
  <2>2. CASE q \in G
    <3>1. g[q] = Blank("freed")
      BY <1>2, <2>2
    <3>2. Minus(ext, p)[q] = 0 /\ Refs(Promise, q) - Refs(G, q) = 0
      BY <1>3, <1>6, <1>8, <2>1, <2>2
    <3> QED BY <1>9, <3>1, <3>2 DEF Counted, Sound, Blank, Live, Settled
  <2>3. CASE q \notin G
    <3>1. q # p
      BY <1>5, <2>3
    <3>2. /\ g[q].refcount = h[q].refcount - Refs(G, q) /\ g[q].state = h[q].state
          /\ g[q].conts = h[q].conts /\ g[q].following = h[q].following
      <4>1. h[q] \in PromiseObject /\ g[q] = [h[q] EXCEPT !.refcount = @ - Refs(G, q)]
        BY <1>2, <2>3 DEF Heap
      <4> QED BY <4>1 DEF PromiseObject
    <3>3. Sound(h, q)
      BY DEF Exact
    <3>4. h[q].refcount > 0 => h[q].refcount - Refs(G, q) > 0
      BY <1>3, <1>7, <2>3
    <3>5. ~(h[q].refcount > 0) => h[q].refcount - Refs(G, q) <= 0
      BY <1>3
    <3> QED BY <1>3, <1>9, <2>1, <3>1, <3>2, <3>3, <3>4, <3>5 DEF Counted, Sound
  <2> QED BY <2>2, <2>3
<1> QED BY <1>10 DEF Exact, g

LEMMA UnrefExact ==
  ASSUME NEW h \in Heap, NEW ext \in Ext, Exact(h, ext), NEW p \in Promise, ext[p] > 0
  PROVE  Exact(Unref(h, p), Minus(ext, p))
BY UnrefCountsDown, UnrefDestroys

-----------------------------------------------------------------------------
(* The other changes of the heap                                             *)

\* The references of g are those of h, and so are the counts.
Congruent(h, g) ==
  \A q \in Promise :
    /\ g[q].refcount = h[q].refcount
    /\ g[q].following = h[q].following
    /\ DOMAIN g[q].conts = DOMAIN h[q].conts
    /\ \A i \in DOMAIN h[q].conts : g[q].conts[i].child = h[q].conts[i].child
    /\ g[q].state \in Live <=> h[q].state \in Live

LEMMA CongruentExact ==
  ASSUME NEW h \in Heap, NEW g \in Heap, NEW ext \in Ext, Exact(h, ext), Congruent(h, g)
  PROVE  Exact(g, ext)
<1>1. ASSUME NEW q \in Promise PROVE RefsFrom(g, Promise, q) = RefsFrom(h, Promise, q)
  <2>1. ContRefs(g, Promise, q) = ContRefs(h, Promise, q)
    <3>1. UNION {{p} \X DOMAIN g[p].conts : p \in Promise}
            = UNION {{p} \X DOMAIN h[p].conts : p \in Promise}
      BY DEF Congruent
    <3>2. \A x \in UNION {{p} \X DOMAIN h[p].conts : p \in Promise} :
             g[x[1]].conts[x[2]].child = h[x[1]].conts[x[2]].child
      BY DEF Congruent
    <3> QED BY <3>1, <3>2 DEF ContRefs
  <2>2. FollowRefs(g, Promise, q) = FollowRefs(h, Promise, q)
    BY DEF FollowRefs, Congruent
  <2> QED BY <2>1, <2>2 DEF RefsFrom
<1>2. ASSUME NEW q \in Promise PROVE Counted(g, ext, q) /\ Sound(g, q)
  <2>1. Counted(h, ext, q) /\ Sound(h, q)
    BY DEF Exact
  <2>2. Counted(g, ext, q)
    BY <1>1, <2>1 DEF Counted, Congruent
  <2>3. h[q].conts = << >> => g[q].conts = << >>
    <3>1. h[q].conts \in Seq(Continuation) /\ g[q].conts \in Seq(Continuation)
      BY DEF Heap, PromiseObject
    <3>2. 1 .. Len(g[q].conts) = 1 .. Len(h[q].conts)
      BY <3>1, LenProperties DEF Congruent
    <3>3. Len(g[q].conts) = Len(h[q].conts)
      BY <3>1, <3>2, LenProperties
    <3> QED BY <3>1, <3>3, EmptySeq
  <2> QED BY <2>1, <2>2, <2>3 DEF Sound, Congruent
<1> QED BY <1>2 DEF Exact

\* Dropping the adopted promise turns its reference into one from outside.
LEMMA UnfollowExact ==
  ASSUME NEW h \in Heap, NEW ext \in Ext, Exact(h, ext), NEW p \in Promise,
         h[p].following \in Promise
  PROVE  Exact([h EXCEPT ![p].following = None], Plus(ext, h[p].following))
<1> DEFINE r == h[p].following
           g == [h EXCEPT ![p].following = None]
<1>1. \A q \in Promise :
        /\ g[q].refcount = h[q].refcount /\ g[q].conts = h[q].conts
        /\ g[q].state = h[q].state
        /\ g[q].following = IF q = p THEN None ELSE h[q].following
  BY DEF Heap, PromiseObject
<1> HIDE DEF g
<1>2. ASSUME NEW q \in Promise
      PROVE  RefsFrom(g, Promise, q) =
               IF q = r THEN RefsFrom(h, Promise, q) - 1 ELSE RefsFrom(h, Promise, q)
  <2>1. ContRefs(g, Promise, q) = ContRefs(h, Promise, q)
    BY <1>1 DEF ContRefs
  <2>2. FollowRefs(g, Promise, q) =
          IF q = r THEN FollowRefs(h, Promise, q) \ {p} ELSE FollowRefs(h, Promise, q)
    BY <1>1, NoneAssumption DEF FollowRefs
  <2>3. q = r => p \in FollowRefs(h, Promise, q)
    BY DEF FollowRefs
  <2>4. /\ IsFiniteSet(ContRefs(h, Promise, q))
        /\ IsFiniteSet(FollowRefs(h, Promise, q))
    BY RefsFromFinite
  <2>5. Cardinality(FollowRefs(g, Promise, q)) =
          IF q = r THEN Cardinality(FollowRefs(h, Promise, q)) - 1
                   ELSE Cardinality(FollowRefs(h, Promise, q))
    BY <2>2, <2>3, <2>4, FS_RemoveElement
  <2>6. /\ Cardinality(ContRefs(h, Promise, q)) \in Nat
        /\ Cardinality(FollowRefs(h, Promise, q)) \in Nat
    BY <2>4, FS_CardinalityType
  <2> QED BY <2>1, <2>5, <2>6 DEF RefsFrom
<1>3. ASSUME NEW q \in Promise PROVE Counted(g, Plus(ext, r), q) /\ Sound(g, q)
  <2>1. RefsFrom(h, Promise, q) \in Nat /\ ext[q] \in Nat
    BY RefsFromType DEF Ext
  <2>2. Plus(ext, r)[q] = IF q = r THEN ext[q] + 1 ELSE ext[q]
    BY DEF Plus, Ext
  <2>3. Counted(h, ext, q) /\ Sound(h, q)
    BY DEF Exact
  <2>4. Counted(g, Plus(ext, r), q)
    BY <1>1, <1>2, <2>1, <2>2, <2>3 DEF Counted
  <2> QED BY <1>1, <2>3, <2>4 DEF Sound
<1> QED BY <1>3 DEF Exact, g

\* Following r turns a reference on r from outside into one of p.
LEMMA FollowExact ==
  ASSUME NEW h \in Heap, NEW ext \in Ext, Exact(h, ext), NEW p \in Promise,
         h[p].following = None, h[p].state \in Live,
         NEW r \in Promise, ext[r] > 0
  PROVE  Exact([h EXCEPT ![p].following = r], Minus(ext, r))
<1> DEFINE g == [h EXCEPT ![p].following = r]
<1>1. \A q \in Promise :
        /\ g[q].refcount = h[q].refcount /\ g[q].conts = h[q].conts
        /\ g[q].state = h[q].state
        /\ g[q].following = IF q = p THEN r ELSE h[q].following
  BY DEF Heap, PromiseObject
<1> HIDE DEF g
<1>2. ASSUME NEW q \in Promise
      PROVE  RefsFrom(g, Promise, q) =
               IF q = r THEN RefsFrom(h, Promise, q) + 1 ELSE RefsFrom(h, Promise, q)
  <2>1. ContRefs(g, Promise, q) = ContRefs(h, Promise, q)
    BY <1>1 DEF ContRefs
  <2>2. FollowRefs(g, Promise, q) =
          IF q = r THEN FollowRefs(h, Promise, q) \union {p} ELSE FollowRefs(h, Promise, q)
    BY <1>1, NoneAssumption DEF FollowRefs
  <2>3. p \notin FollowRefs(h, Promise, q)
    BY NoneAssumption DEF FollowRefs
  <2>4. /\ IsFiniteSet(ContRefs(h, Promise, q))
        /\ IsFiniteSet(FollowRefs(h, Promise, q))
    BY RefsFromFinite
  <2>5. Cardinality(FollowRefs(g, Promise, q)) =
          IF q = r THEN Cardinality(FollowRefs(h, Promise, q)) + 1
                   ELSE Cardinality(FollowRefs(h, Promise, q))
    BY <2>2, <2>3, <2>4, FS_AddElement
  <2>6. /\ Cardinality(ContRefs(h, Promise, q)) \in Nat
        /\ Cardinality(FollowRefs(h, Promise, q)) \in Nat
    BY <2>4, FS_CardinalityType
  <2> QED BY <2>1, <2>5, <2>6 DEF RefsFrom
<1>3. ASSUME NEW q \in Promise PROVE Counted(g, Minus(ext, r), q) /\ Sound(g, q)
  <2>1. RefsFrom(h, Promise, q) \in Nat /\ ext[q] \in Nat
    BY RefsFromType DEF Ext
  <2>2. Minus(ext, r)[q] = IF q = r THEN ext[q] - 1 ELSE ext[q]
    BY DEF Minus, Ext
  <2>3. Counted(h, ext, q) /\ Sound(h, q)
    BY DEF Exact
  <2>4. Counted(g, Minus(ext, r), q)
    BY <1>1, <1>2, <2>1, <2>2, <2>3 DEF Counted
  <2> QED BY <1>1, <2>3, <2>4 DEF Sound
<1> QED BY <1>3 DEF Exact, g

\* Appending a continuation turns a reference on its child from outside into
\* one of the promise it is appended to.
LEMMA AppendExact ==
  ASSUME NEW h \in Heap, NEW ext \in Ext, Exact(h, ext),
         NEW p \in Promise, h[p].state \in Live,
         NEW c \in Continuation, ext[c.child] > 0
  PROVE  /\ [h EXCEPT ![p].conts = Append(@, c)] \in Heap
         /\ Exact([h EXCEPT ![p].conts = Append(@, c)], Minus(ext, c.child))
<1> DEFINE g == [h EXCEPT ![p].conts = Append(@, c)]
           n == Len(h[p].conts) + 1
           r == c.child
<1>1. h[p].conts \in Seq(Continuation) /\ r \in Promise
  BY DEF Heap, PromiseObject, Continuation
<1>2. g \in Heap /\ g[p].conts = Append(h[p].conts, c)
  BY <1>1 DEF Heap, PromiseObject
<1>3. \A q \in Promise :
        /\ g[q].refcount = h[q].refcount /\ g[q].following = h[q].following
        /\ g[q].state = h[q].state
        /\ q # p => g[q].conts = h[q].conts
  BY DEF Heap, PromiseObject
<1>4. /\ DOMAIN g[p].conts = DOMAIN h[p].conts \union {n}
      /\ n \notin DOMAIN h[p].conts
      /\ \A i \in DOMAIN h[p].conts : g[p].conts[i] = h[p].conts[i]
      /\ g[p].conts[n] = c
  BY <1>1, <1>2
<1> HIDE DEF g, n
<1>5. ASSUME NEW q \in Promise
      PROVE  RefsFrom(g, Promise, q) =
               IF q = r THEN RefsFrom(h, Promise, q) + 1 ELSE RefsFrom(h, Promise, q)
  <2> DEFINE Places(k) == UNION {{x} \X DOMAIN k[x].conts : x \in Promise}
  <2>1. Places(g) = Places(h) \union {<<p, n>>} /\ <<p, n>> \notin Places(h)
    BY <1>3, <1>4
  <2>2. \A x \in Places(h) : g[x[1]].conts[x[2]].child = h[x[1]].conts[x[2]].child
    BY <1>3, <1>4
  <2>3. /\ ContRefs(g, Promise, q) =
             IF q = r THEN ContRefs(h, Promise, q) \union {<<p, n>>} ELSE ContRefs(h, Promise, q)
        /\ <<p, n>> \notin ContRefs(h, Promise, q)
    <3> HIDE DEF Places
    <3>1. /\ ContRefs(g, Promise, q) = {x \in Places(g) : g[x[1]].conts[x[2]].child = q}
          /\ ContRefs(h, Promise, q) = {x \in Places(h) : h[x[1]].conts[x[2]].child = q}
      BY DEF ContRefs, Places
    <3>2. g[<<p, n>>[1]].conts[<<p, n>>[2]].child = r
      BY <1>4
    <3> QED BY <2>1, <2>2, <3>1, <3>2
  <2>4. FollowRefs(g, Promise, q) = FollowRefs(h, Promise, q)
    BY <1>3 DEF FollowRefs
  <2>5. /\ IsFiniteSet(ContRefs(h, Promise, q))
        /\ IsFiniteSet(FollowRefs(h, Promise, q))
    BY RefsFromFinite
  <2>6. Cardinality(ContRefs(g, Promise, q)) =
          IF q = r THEN Cardinality(ContRefs(h, Promise, q)) + 1
                   ELSE Cardinality(ContRefs(h, Promise, q))
    BY <2>3, <2>5, FS_AddElement
  <2>7. /\ Cardinality(ContRefs(h, Promise, q)) \in Nat
        /\ Cardinality(FollowRefs(h, Promise, q)) \in Nat
    BY <2>5, FS_CardinalityType
  <2> QED BY <2>4, <2>6, <2>7 DEF RefsFrom
<1>6. ASSUME NEW q \in Promise PROVE Counted(g, Minus(ext, r), q) /\ Sound(g, q)
  <2>1. RefsFrom(h, Promise, q) \in Nat /\ ext[q] \in Nat
    BY RefsFromType DEF Ext
  <2>2. Minus(ext, r)[q] = IF q = r THEN ext[q] - 1 ELSE ext[q]
    BY DEF Minus, Ext
  <2>3. Counted(h, ext, q) /\ Sound(h, q)
    BY DEF Exact
  <2>4. Counted(g, Minus(ext, r), q)
    BY <1>3, <1>5, <2>1, <2>2, <2>3 DEF Counted
  <2> QED BY <1>3, <2>3, <2>4 DEF Sound
<1>7. Exact(g, Minus(ext, r))
  BY <1>6 DEF Exact
<1> QED BY <1>2, <1>7 DEF g

\* A promise is born with one reference, the caller's.
LEMMA BirthExact ==
  ASSUME NEW h \in Heap, NEW ext \in Ext, Exact(h, ext),
         NEW p \in Promise, h[p].state = "unborn",
         NEW s \in Live, NEW v \in Payload
  PROVE  /\ [h EXCEPT ![p] = NewPromise(s, v)] \in Heap
         /\ Exact([h EXCEPT ![p] = NewPromise(s, v)], Plus(ext, p))
<1> DEFINE g == [h EXCEPT ![p] = NewPromise(s, v)]
<1>1. /\ NewPromise(s, v) \in PromiseObject
      /\ NewPromise(s, v).conts = << >> /\ NewPromise(s, v).following = None
      /\ NewPromise(s, v).refcount = 1 /\ NewPromise(s, v).state = s
  BY DEF NewPromise, PromiseObject, State
<1>2. g \in Heap
  BY <1>1 DEF Heap
<1>3. h[p].conts = << >> /\ h[p].following = None /\ ~(h[p].refcount > 0)
  BY DEF Exact, Sound, Live, Settled
<1>4. \A q \in Promise :
        /\ g[q].conts = h[q].conts /\ g[q].following = h[q].following
        /\ q # p => g[q] = h[q]
  BY <1>1, <1>3 DEF Heap
<1>5. g[p].refcount = 1 /\ g[p].state = s
  BY <1>1 DEF Heap
<1> HIDE DEF g
<1>6. ASSUME NEW q \in Promise PROVE RefsFrom(g, Promise, q) = RefsFrom(h, Promise, q)
  <2>1. ContRefs(g, Promise, q) = ContRefs(h, Promise, q)
    BY <1>4 DEF ContRefs
  <2>2. FollowRefs(g, Promise, q) = FollowRefs(h, Promise, q)
    BY <1>4 DEF FollowRefs
  <2> QED BY <2>1, <2>2 DEF RefsFrom
<1>7. ASSUME NEW q \in Promise PROVE Counted(g, Plus(ext, p), q) /\ Sound(g, q)
  <2>1. RefsFrom(h, Promise, q) \in Nat /\ ext[q] \in Nat
    BY RefsFromType DEF Ext
  <2>2. Plus(ext, p)[q] = IF q = p THEN ext[q] + 1 ELSE ext[q]
    BY DEF Plus, Ext
  <2>3. Counted(h, ext, q) /\ Sound(h, q)
    BY DEF Exact
  <2>4. Counted(g, Plus(ext, p), q)
    BY <1>3, <1>4, <1>5, <1>6, <2>1, <2>2, <2>3 DEF Counted
  <2>5. Sound(g, q)
    BY <1>3, <1>4, <1>5, <2>3 DEF Sound
  <2> QED BY <2>4, <2>5
<1>8. Exact(g, Plus(ext, p))
  BY <1>7 DEF Exact
<1> QED BY <1>2, <1>8 DEF g

\* An object that is referred to is alive.
LEMMA ReferredLive ==
  ASSUME NEW h \in Heap, NEW ext \in Ext, Exact(h, ext), NEW q \in Promise,
         \/ ext[q] > 0
         \/ \E p \in Promise : \E i \in DOMAIN h[p].conts : h[p].conts[i].child = q
         \/ \E p \in Promise : h[p].following = q
  PROVE  h[q].state \in Live
<1>1. /\ IsFiniteSet(ContRefs(h, Promise, q))
      /\ IsFiniteSet(FollowRefs(h, Promise, q))
  BY RefsFromFinite
<1>2. /\ Cardinality(ContRefs(h, Promise, q)) \in Nat
      /\ Cardinality(FollowRefs(h, Promise, q)) \in Nat
      /\ Cardinality(ContRefs(h, Promise, q)) = 0 <=> ContRefs(h, Promise, q) = {}
      /\ Cardinality(FollowRefs(h, Promise, q)) = 0 <=> FollowRefs(h, Promise, q) = {}
  BY <1>1, FS_CardinalityType, FS_EmptySet
<1>3. ext[q] \in Nat /\ Counted(h, ext, q) /\ Sound(h, q)
  BY DEF Ext, Exact
<1>4. CASE ext[q] > 0
  BY <1>2, <1>3, <1>4 DEF Counted, Sound, RefsFrom
<1>5. ASSUME NEW p \in Promise, NEW i \in DOMAIN h[p].conts, h[p].conts[i].child = q
      PROVE  h[q].state \in Live
  <2>1. <<p, i>> \in ContRefs(h, Promise, q)
    BY <1>5 DEF ContRefs
  <2> QED BY <1>2, <1>3, <2>1 DEF Counted, Sound, RefsFrom
<1>6. ASSUME NEW p \in Promise, h[p].following = q
      PROVE  h[q].state \in Live
  <2>1. p \in FollowRefs(h, Promise, q)
    BY <1>6 DEF FollowRefs
  <2> QED BY <1>2, <1>3, <2>1 DEF Counted, Sound, RefsFrom
<1> QED BY <1>4, <1>5, <1>6

-----------------------------------------------------------------------------
(* Settling                                                                  *)

\* What Unref, and Settle before it, leave of an object: nothing, or all.
Gone(g, q) == g[q].state = "freed" /\ g[q].conts = << >> /\ g[q].following = None

LEMMA SettleEffect ==
  ASSUME NEW h \in Heap, NEW p \in Promise, NEW o \in OutcomeRecord
  PROVE  /\ Settle(h, p, o) \in Heap
         /\ \A q \in Promise :
              \/ Gone(Settle(h, p, o), q)
              \/ /\ Settle(h, p, o)[q].conts = h[q].conts
                 /\ Settle(h, p, o)[q].state = IF q = p THEN o.state ELSE h[q].state
                 /\ Settle(h, p, o)[q].payload = IF q = p THEN o.payload ELSE h[q].payload
<1> DEFINE g == [h EXCEPT ![p].state = o.state, ![p].payload = o.payload,
                          ![p].following = None]
<1>1. h[p] \in PromiseObject /\ o.state \in State /\ o.payload \in Payload
  BY DEF Heap, OutcomeRecord, State, Live
<1>2. g \in Heap
  BY <1>1 DEF Heap, PromiseObject
<1>3. \A q \in Promise :
        /\ g[q].conts = h[q].conts
        /\ g[q].state = IF q = p THEN o.state ELSE h[q].state
        /\ g[q].payload = IF q = p THEN o.payload ELSE h[q].payload
  BY <1>1 DEF Heap, PromiseObject
<1>4. h[p].following \in Promise \union {None}
  BY <1>1 DEF PromiseObject
<1> HIDE DEF g
<1>5. Unref(g, h[p].following) \in Heap /\ Trimmed(g, Unref(g, h[p].following))
  BY <1>2, <1>4, UnrefEffect
<1>6. Settle(h, p, o) = Unref(g, h[p].following)
  BY DEF Settle, g
<1> QED BY <1>3, <1>5, <1>6 DEF Trimmed, Gone, Blank

LEMMA SettleExact ==
  ASSUME NEW h \in Heap, NEW ext \in Ext, Exact(h, ext), NEW p \in Promise,
         h[p].state \in Live, NEW o \in OutcomeRecord
  PROVE  Exact(Settle(h, p, o), ext)
<1> DEFINE f == [h EXCEPT ![p].following = None]
           g == [h EXCEPT ![p].state = o.state, ![p].payload = o.payload,
                          ![p].following = None]
           r == h[p].following
<1>1. h[p] \in PromiseObject /\ o.state \in State /\ o.payload \in Payload
      /\ o.state \in Live /\ r \in Promise \union {None}
  BY DEF Heap, PromiseObject, OutcomeRecord, State, Live
<1>2. f \in Heap /\ g \in Heap
  BY <1>1 DEF Heap, PromiseObject
<1>3. Settle(h, p, o) = Unref(g, r)
  BY DEF Settle
<1>4. Congruent(f, g)
  BY <1>1 DEF Congruent, Heap, PromiseObject
<1>5. CASE r = None
  <2>1. Congruent(h, f)
    BY <1>1, <1>5 DEF Congruent, Heap, PromiseObject
  <2>2. Exact(g, ext)
    <3> HIDE DEF f, g
    <3> QED BY <1>2, <1>4, <2>1, CongruentExact
  <2> QED BY <1>3, <1>5, <2>2 DEF Unref
<1>6. CASE r \in Promise
  <2>1. Exact(f, Plus(ext, r))
    BY <1>6, UnfollowExact
  <2>2. /\ Plus(ext, r) \in Ext /\ Plus(ext, r)[r] > 0
        /\ Minus(Plus(ext, r), r) = ext
    BY <1>6, PlusMinus
  <2>3. Exact(g, Plus(ext, r))
    <3> HIDE DEF f, g
    <3> QED BY <1>2, <1>4, <2>1, <2>2, CongruentExact
  <2>4. Exact(Unref(g, r), Minus(Plus(ext, r), r))
    <3> HIDE DEF g, r
    <3> QED BY <1>2, <1>6, <2>2, <2>3, UnrefExact
  <2> QED BY <1>3, <2>2, <2>4
<1> QED BY <1>1, <1>5, <1>6

-----------------------------------------------------------------------------
(* The references of the job list                                            *)

JobCount(js, p) == Cardinality({i \in DOMAIN js : js[i] = p})

LEMMA JobCountType ==
  ASSUME NEW js \in Seq(Promise), NEW p \in Promise
  PROVE  JobCount(js, p) \in Nat /\ IsFiniteSet({i \in DOMAIN js : js[i] = p})
<1>1. IsFiniteSet(1 .. Len(js)) /\ DOMAIN js = 1 .. Len(js)
  BY FS_Interval, LenProperties
<1>2. {i \in DOMAIN js : js[i] = p} \in SUBSET (1 .. Len(js))
  BY <1>1
<1>3. IsFiniteSet({i \in DOMAIN js : js[i] = p})
  BY <1>1, <1>2, FS_Subset
<1> QED BY <1>3, FS_CardinalityType DEF JobCount

LEMMA JobCountAppend ==
  ASSUME NEW js \in Seq(Promise), NEW p \in Promise, NEW q \in Promise
  PROVE  JobCount(Append(js, p), q) = IF q = p THEN JobCount(js, q) + 1 ELSE JobCount(js, q)
<1> DEFINE at(s) == {i \in DOMAIN s : s[i] = q}
           n == Len(js) + 1
<1>1. at(Append(js, p)) = IF q = p THEN at(js) \union {n} ELSE at(js)
  OBVIOUS
<1>2. n \notin at(js)
  OBVIOUS
<1>3. IsFiniteSet(at(js))
  BY JobCountType
<1> HIDE DEF n, at
<1>4. Cardinality(at(Append(js, p))) =
        IF q = p THEN Cardinality(at(js)) + 1 ELSE Cardinality(at(js))
  BY <1>1, <1>2, <1>3, FS_AddElement
<1> QED BY <1>4 DEF JobCount, at

LEMMA JobCountTail ==
  ASSUME NEW js \in Seq(Promise), js # << >>, NEW q \in Promise
  PROVE  JobCount(js, q) =
           IF q = Head(js) THEN JobCount(Tail(js), q) + 1 ELSE JobCount(Tail(js), q)
<1> DEFINE old == {i \in DOMAIN js : js[i] = q}
           new == {i \in DOMAIN Tail(js) : Tail(js)[i] = q}
           f == [i \in new |-> i + 1]
<1>1. /\ Tail(js) \in Seq(Promise) /\ Len(Tail(js)) = Len(js) - 1
      /\ \A i \in 1 .. Len(Tail(js)) : Tail(js)[i] = js[i + 1]
      /\ Head(js) = js[1] /\ Len(js) \in Nat \ {0}
      /\ DOMAIN js = 1 .. Len(js) /\ DOMAIN Tail(js) = 1 .. Len(Tail(js))
  BY HeadTailProperties, EmptySeq, LenProperties
<1>2. IsFiniteSet(old) /\ IsFiniteSet(new)
  BY <1>1, JobCountType
<1>3. f \in Bijection(new, old \ {1})
  <2>1. f \in [new -> old \ {1}]
    BY <1>1
  <2>2. \A i, j \in new : f[i] = f[j] => i = j
    BY <1>1
  <2>3. \A k \in old \ {1} : \E i \in new : f[i] = k
    <3>1. TAKE k \in old \ {1}
    <3>2. k - 1 \in new
      BY <1>1
    <3> QED BY <3>2, <1>1
  <2> HIDE DEF f, new, old
  <2> QED BY <2>1, <2>2, <2>3 DEF Bijection, Injection, Surjection, IsInjective
<1>4. Cardinality(old \ {1}) = Cardinality(new)
  BY <1>2, <1>3, FS_Bijection DEF ExistsBijection
<1>5. Cardinality(old \ {1}) = IF 1 \in old THEN Cardinality(old) - 1 ELSE Cardinality(old)
  BY <1>2, FS_RemoveElement
<1>6. 1 \in old <=> q = Head(js)
  BY <1>1
<1>7. Cardinality(old) \in Nat
  BY <1>2, FS_CardinalityType
<1>8. JobCount(js, q) = Cardinality(old) /\ JobCount(Tail(js), q) = Cardinality(new)
  BY DEF JobCount
<1> HIDE DEF old, new, f
<1> QED BY <1>4, <1>5, <1>6, <1>7, <1>8

-----------------------------------------------------------------------------
(* Attaching and following                                                   *)

LEMMA AppendContExact ==
  ASSUME NEW h \in Heap, NEW ext \in Ext, Exact(h, ext),
         NEW p \in Promise, h[p].state \in Live, NEW k \in Kind, NEW a \in BOOLEAN,
         NEW x \in Promise, h[x].state \in Live
  PROVE  AppendCont(h, p, k, a, x) \in Heap /\ Exact(AppendCont(h, p, k, a, x), ext)
<1> DEFINE c == NewCont(k, a, x)
           g == Ref(h, x)
<1>1. c \in Continuation /\ c.child = x
  BY DEF NewCont, Continuation
<1>2. g \in Heap /\ Exact(g, Plus(ext, x)) /\ g[p].state \in Live
  BY RefEffect, RefExact
<1>3. /\ Plus(ext, x) \in Ext /\ Plus(ext, x)[x] > 0
      /\ Minus(Plus(ext, x), x) = ext
  BY PlusMinus
<1>4. AppendCont(h, p, k, a, x) = [g EXCEPT ![p].conts = Append(@, c)]
  <2>1. h[p] \in PromiseObject /\ h[x] \in PromiseObject
    BY DEF Heap
  <2> HIDE DEF c
  <2>2. AppendCont(h, p, k, a, x) = [[h EXCEPT ![p].conts = Append(@, c)]
                                       EXCEPT ![x].refcount = @ + 1]
    BY DEF AppendCont, Ref, c
  <2> QED BY <2>1, <2>2 DEF Ref, Heap, PromiseObject
<1> HIDE DEF c, g
<1>5. /\ [g EXCEPT ![p].conts = Append(@, c)] \in Heap
      /\ Exact([g EXCEPT ![p].conts = Append(@, c)], Minus(Plus(ext, x), c.child))
  <2> DEFINE e == Plus(ext, x)
  <2>1. e \in Ext /\ e[c.child] > 0 /\ Exact(g, e)
    BY <1>1, <1>2, <1>3
  <2> HIDE DEF e
  <2>2. /\ [g EXCEPT ![p].conts = Append(@, c)] \in Heap
        /\ Exact([g EXCEPT ![p].conts = Append(@, c)], Minus(e, c.child))
    BY <1>1, <1>2, <2>1, AppendExact
  <2> QED BY <2>2 DEF e
<1> QED BY <1>1, <1>3, <1>4, <1>5

LEMMA FollowingExact ==
  ASSUME NEW h \in Heap, NEW ext \in Ext, Exact(h, ext),
         NEW p \in Promise, h[p].state \in Live, h[p].following = None,
         NEW r \in Promise, h[r].state \in Live
  PROVE  Following(h, p, r) \in Heap /\ Exact(Following(h, p, r), ext)
<1> DEFINE g == Ref(h, r)
<1>1. /\ g \in Heap /\ Exact(g, Plus(ext, r)) /\ g[p].state \in Live
      /\ g[p].following = None
  BY RefEffect, RefExact
<1>2. /\ Plus(ext, r) \in Ext /\ Plus(ext, r)[r] > 0
      /\ Minus(Plus(ext, r), r) = ext
  BY PlusMinus
<1>3. Following(h, p, r) = [g EXCEPT ![p].following = r]
  <2>1. h[p] \in PromiseObject /\ h[r] \in PromiseObject
    BY DEF Heap
  <2>2. Following(h, p, r) = Ref([h EXCEPT ![p].following = r], r)
    BY DEF Following, Unref
  <2> QED BY <2>1, <2>2 DEF Ref, Heap, PromiseObject
<1>4. [g EXCEPT ![p].following = r] \in Heap
  BY <1>1 DEF Heap, PromiseObject
<1> DEFINE e == Plus(ext, r)
<1> HIDE DEF g, e
<1>5. Exact([g EXCEPT ![p].following = r], Minus(e, r))
  <2>1. g \in Heap /\ e \in Ext /\ Exact(g, e)
    BY <1>1, <1>2 DEF e
  <2>2. g[p].following = None /\ g[p].state \in Live /\ e[r] > 0
    BY <1>1, <1>2 DEF e
  <2> QED BY <2>1, <2>2, FollowExact
<1>6. Minus(e, r) = ext
  BY <1>2 DEF e
<1> QED BY <1>3, <1>4, <1>5, <1>6

-----------------------------------------------------------------------------
(* Outcomes                                                                  *)

LEMMA OutcomeTypes ==
  ASSUME NEW h \in Heap, NEW p \in Promise
  PROVE  /\ PassThrough(h, p) \subseteq OutcomeRecord
         /\ Adopted(h, p) \subseteq OutcomeRecord
         /\ AdoptedOnCatch(h, p) \subseteq OutcomeRecord
         /\ CopiedRejection(LibraryError) \subseteq OutcomeRecord
<1>1. /\ h[p].payload \in Payload /\ None \in Payload /\ LibraryError \in Payload
  BY DEF Heap, PromiseObject, Payload
<1>2. \A v \in Payload : Resolved(v) \in OutcomeRecord /\ Rejected(v) \in OutcomeRecord
  BY DEF Resolved, Rejected, OutcomeRecord, Settled
<1>3. Cancelled \in OutcomeRecord
  BY <1>1 DEF Cancelled, OutcomeRecord, Settled
<1>4. \A e \in Payload : CopiedRejection(e) \subseteq OutcomeRecord
  BY <1>1, <1>2 DEF CopiedRejection, RejectedUncopied
<1> QED BY <1>1, <1>2, <1>3, <1>4
        DEF PassThrough, Adopted, AdoptedOnCatch, RejectedUncopied

-----------------------------------------------------------------------------
(* How the heap may change                                                   *)

\* Nothing that happened is undone: an object is freed for good, or it keeps its
\* outcome once it has one, its continuations, and which of them have fired.
Evolved(h, g, q) ==
  \/ Gone(g, q)
  \/ /\ h[q].state # "freed"
     /\ h[q].state \in Settled =>
          g[q].state = h[q].state /\ g[q].payload = h[q].payload
     /\ DOMAIN h[q].conts \subseteq DOMAIN g[q].conts
     /\ \A i \in DOMAIN h[q].conts :
          LET c == h[q].conts[i]
              d == g[q].conts[i]
          IN  d.kind = c.kind /\ d.adopt = c.adopt /\ d.child = c.child
              /\ (c.fired => d.fired)

Evolves(h, g) == \A q \in Promise : Evolved(h, g, q)

\* No continuation and no adoption is new.
NoneNew(h, g) ==
  \A q \in Promise :
    /\ g[q].following \in {None, h[q].following}
    /\ \A i \in DOMAIN g[q].conts :
         LET c == h[q].conts[i]
             d == g[q].conts[i]
         IN  /\ i \in DOMAIN h[q].conts
             /\ d.kind = c.kind /\ d.adopt = c.adopt /\ d.child = c.child
             /\ (c.fired => d.fired)

LEMMA EvolvesTransitive ==
  ASSUME NEW h, NEW g, NEW k, Evolves(h, g), Evolves(g, k)
  PROVE  Evolves(h, k)
<1>1. ASSUME NEW q \in Promise PROVE Evolved(h, k, q)
  <2>1. Evolved(h, g, q) /\ Evolved(g, k, q)
    BY DEF Evolves
  <2> QED BY <2>1 DEF Evolved, Gone, Settled
<1> QED BY <1>1 DEF Evolves

LEMMA NoneNewTransitive ==
  ASSUME NEW h, NEW g, NEW k, NoneNew(h, g), NoneNew(g, k)
  PROVE  NoneNew(h, k)
BY DEF NoneNew

\* The fields apart from the counts, of all objects.
SameButCounts(h, g) ==
  \A q \in Promise :
    /\ g[q].state = h[q].state /\ g[q].payload = h[q].payload
    /\ g[q].conts = h[q].conts /\ g[q].following = h[q].following

LEMMA SameEvolves ==
  ASSUME NEW h \in Heap, NEW g \in Heap, NEW ext \in Ext, Exact(h, ext),
         SameButCounts(h, g)
  PROVE  Evolves(h, g) /\ NoneNew(h, g)
<1>1. ASSUME NEW q \in Promise PROVE Evolved(h, g, q)
  <2>1. h[q].state = "freed" => Gone(h, q)
    BY DEF Exact, Sound, Gone, Live, Settled
  <2> QED BY <2>1 DEF SameButCounts, Evolved, Gone
<1>2. NoneNew(h, g)
  BY DEF SameButCounts, NoneNew
<1> QED BY <1>1, <1>2 DEF Evolves

LEMMA UnrefEvolves ==
  ASSUME NEW h \in Heap, NEW ext \in Ext, Exact(h, ext), NEW p \in Promise \union {None}
  PROVE  Evolves(h, Unref(h, p)) /\ NoneNew(h, Unref(h, p))
<1> DEFINE g == Unref(h, p)
<1>1. Trimmed(h, g)
  BY UnrefEffect
<1> HIDE DEF g
<1>2. ASSUME NEW q \in Promise PROVE Evolved(h, g, q)
  <2>1. h[q].state = "freed" => Gone(h, q)
    BY DEF Exact, Sound, Gone, Live, Settled
  <2> QED BY <1>1, <2>1 DEF Trimmed, Evolved, Gone, Blank
<1>3. NoneNew(h, g)
  BY <1>1 DEF Trimmed, NoneNew, Blank
<1> QED BY <1>2, <1>3 DEF Evolves, g

LEMMA SettleEvolves ==
  ASSUME NEW h \in Heap, NEW ext \in Ext, Exact(h, ext), NEW p \in Promise,
         h[p].state = "PENDING", NEW o \in OutcomeRecord
  PROVE  Evolves(h, Settle(h, p, o)) /\ NoneNew(h, Settle(h, p, o))
<1> DEFINE g == Settle(h, p, o)
           f == [h EXCEPT ![p].state = o.state, ![p].payload = o.payload,
                          ![p].following = None]
<1>1. /\ f \in Heap
      /\ \A q \in Promise :
           /\ f[q].conts = h[q].conts
           /\ f[q].following \in {None, h[q].following}
  <2>1. h[p] \in PromiseObject /\ o.state \in State /\ o.payload \in Payload
    BY DEF Heap, OutcomeRecord, State, Live
  <2> QED BY <2>1 DEF Heap, PromiseObject
<1>2. h[p].following \in Promise \union {None}
  BY DEF Heap, PromiseObject
<1>3. g = Unref(f, h[p].following)
  BY DEF Settle
<1> HIDE DEF f
<1>4. Trimmed(f, g)
  BY <1>1, <1>2, <1>3, UnrefEffect
<1>5. \A q \in Promise :
        \/ Gone(g, q)
        \/ /\ g[q].conts = h[q].conts
           /\ g[q].state = IF q = p THEN o.state ELSE h[q].state
           /\ g[q].payload = IF q = p THEN o.payload ELSE h[q].payload
  BY SettleEffect
<1> HIDE DEF g
<1>6. ASSUME NEW q \in Promise PROVE Evolved(h, g, q)
  <2>1. h[q].state = "freed" => Gone(h, q)
    BY DEF Exact, Sound, Gone, Live, Settled
  <2>2. h[q].state = "freed" => Gone(g, q)
    <3>1. SUFFICES ASSUME h[q].state = "freed" PROVE Gone(g, q)
      OBVIOUS
    <3>2. h[q].following = None /\ h[q].conts = << >>
      BY <2>1, <3>1 DEF Gone
    <3>3. g[q].following = None
      BY <1>1, <1>4, <3>2 DEF Trimmed, Blank
    <3> QED BY <1>5, <3>1, <3>2, <3>3 DEF Gone
  <2> QED BY <1>5, <2>2 DEF Evolved, OutcomeRecord, Settled
<1>7. NoneNew(h, g)
  BY <1>1, <1>4 DEF Trimmed, NoneNew, Blank
<1> QED BY <1>6, <1>7 DEF Evolves, g

-----------------------------------------------------------------------------
(* A call that hands over a reference, and one that has one to rely on       *)

Given(ext, handed) == IF handed = None THEN ext ELSE Plus(ext, handed)

LEMMA UnrefGiven ==
  ASSUME NEW h \in Heap, NEW ext \in Ext, NEW handed \in Promise \union {None},
         Exact(h, Given(ext, handed))
  PROVE  /\ Given(ext, handed) \in Ext
         /\ Unref(h, handed) \in Heap /\ Exact(Unref(h, handed), ext)
         /\ Evolves(h, Unref(h, handed)) /\ NoneNew(h, Unref(h, handed))
<1>1. Given(ext, handed) \in Ext
  BY PlusMinus DEF Given
<1>2. Unref(h, handed) \in Heap
  BY UnrefEffect
<1>3. Evolves(h, Unref(h, handed)) /\ NoneNew(h, Unref(h, handed))
  BY <1>1, UnrefEvolves
<1>4. CASE handed = None
  BY <1>1, <1>2, <1>3, <1>4 DEF Given, Unref
<1>5. CASE handed \in Promise
  <2> DEFINE e == Plus(ext, handed)
  <2>1. e \in Ext /\ e[handed] > 0 /\ Minus(e, handed) = ext
    BY <1>5, PlusMinus
  <2>2. Exact(h, e)
    BY <1>5, NoneAssumption DEF Given
  <2> HIDE DEF e
  <2>3. Exact(Unref(h, handed), Minus(e, handed))
    BY <1>5, <2>1, <2>2, UnrefExact
  <2> QED BY <1>1, <1>2, <1>3, <2>1, <2>3
<1> QED BY <1>4, <1>5

\* A reference from outside leads to p, if need be through a continuation.
Anchored(h, ext, p) ==
  \/ ext[p] > 0
  \/ \E m \in Promise : ext[m] > 0 /\ \E i \in DOMAIN h[m].conts : h[m].conts[i].child = p

LEMMA AnchoredLive ==
  ASSUME NEW h \in Heap, NEW ext \in Ext, Exact(h, ext), NEW p \in Promise,
         Anchored(h, ext, p)
  PROVE  h[p].state \in Live
BY ReferredLive DEF Anchored

LEMMA AnchoredStays ==
  ASSUME NEW h \in Heap, NEW g \in Heap, NEW ext \in Ext, Exact(g, ext),
         Evolves(h, g), NEW p \in Promise, Anchored(h, ext, p)
  PROVE  Anchored(g, ext, p)
<1>1. CASE ext[p] > 0
  BY <1>1 DEF Anchored
<1>2. ASSUME NEW m \in Promise, ext[m] > 0,
             NEW i \in DOMAIN h[m].conts, h[m].conts[i].child = p
      PROVE  Anchored(g, ext, p)
  <2>1. g[m].state \in Live
    BY <1>2, ReferredLive
  <2>2. ~Gone(g, m)
    BY <2>1 DEF Gone, Live, Settled
  <2>3. i \in DOMAIN g[m].conts /\ g[m].conts[i].child = p
    BY <1>2, <2>2 DEF Evolves, Evolved
  <2> QED BY <1>2, <2>3 DEF Anchored
<1> QED BY <1>1, <1>2 DEF Anchored

LEMMA AnchoredGiven ==
  ASSUME NEW h \in Heap, NEW ext \in Ext, NEW handed \in Promise \union {None},
         NEW p \in Promise, Anchored(h, ext, p)
  PROVE  Anchored(h, Given(ext, handed), p)
<1>1. \A q \in Promise : Given(ext, handed)[q] >= ext[q] /\ ext[q] \in Nat
                         /\ Given(ext, handed)[q] \in Nat
  BY DEF Given, Plus, Ext
<1> QED BY <1>1 DEF Anchored

-----------------------------------------------------------------------------
(* The references of the job list and of the others                          *)

With(base, js) == [p \in Promise |-> base[p] + JobCount(js, p)]

LEMMA WithType ==
  ASSUME NEW base \in Ext, NEW js \in Seq(Promise)
  PROVE  With(base, js) \in Ext
<1>1. ASSUME NEW q \in Promise PROVE base[q] + JobCount(js, q) \in Nat
  <2>1. base[q] \in Nat /\ JobCount(js, q) \in Nat
    BY JobCountType DEF Ext
  <2> QED BY <2>1
<1> QED BY <1>1 DEF With, Ext

LEMMA WithAppend ==
  ASSUME NEW base \in Ext, NEW js \in Seq(Promise), NEW p \in Promise
  PROVE  With(base, Append(js, p)) = Plus(With(base, js), p)
<1>1. \A q \in Promise : JobCount(js, q) \in Nat /\ base[q] \in Nat
  BY JobCountType DEF Ext
<1>2. \A q \in Promise : With(base, Append(js, p))[q] = Plus(With(base, js), p)[q]
  <2>1. TAKE q \in Promise
  <2>2. JobCount(Append(js, p), q) = IF q = p THEN JobCount(js, q) + 1 ELSE JobCount(js, q)
    BY JobCountAppend
  <2>3. Plus(With(base, js), p)[q] =
          IF q = p THEN With(base, js)[q] + 1 ELSE With(base, js)[q]
    BY DEF Plus, With
  <2> QED BY <1>1, <2>2, <2>3 DEF With
<1>3. With(base, Append(js, p)) = [q \in Promise |-> With(base, Append(js, p))[q]]
  BY DEF With
<1>4. Plus(With(base, js), p) = [q \in Promise |-> Plus(With(base, js), p)[q]]
  BY DEF With, Plus
<1> QED BY <1>2, <1>3, <1>4

LEMMA WithPlus ==
  ASSUME NEW base \in Ext, NEW js \in Seq(Promise), NEW p \in Promise
  PROVE  With(Plus(base, p), js) = Plus(With(base, js), p)
<1>1. \A q \in Promise : JobCount(js, q) \in Nat /\ base[q] \in Nat
  BY JobCountType DEF Ext
<1>2. \A q \in Promise : With(Plus(base, p), js)[q] = Plus(With(base, js), p)[q]
  BY <1>1 DEF With, Plus, Ext
<1>3. With(Plus(base, p), js) = [q \in Promise |-> With(Plus(base, p), js)[q]]
  BY DEF With
<1>4. Plus(With(base, js), p) = [q \in Promise |-> Plus(With(base, js), p)[q]]
  BY DEF With, Plus
<1> QED BY <1>2, <1>3, <1>4

LEMMA WithTail ==
  ASSUME NEW base \in Ext, NEW js \in Seq(Promise), js # << >>
  PROVE  With(Plus(base, Head(js)), Tail(js)) = With(base, js)
<1>1. Tail(js) \in Seq(Promise) /\ Head(js) \in Promise
  BY HeadTailProperties
<1>2. \A q \in Promise : JobCount(Tail(js), q) \in Nat /\ base[q] \in Nat
  BY <1>1, JobCountType DEF Ext
<1>3. \A q \in Promise : With(Plus(base, Head(js)), Tail(js))[q] = With(base, js)[q]
  <2>1. TAKE q \in Promise
  <2>2. JobCount(js, q) =
          IF q = Head(js) THEN JobCount(Tail(js), q) + 1 ELSE JobCount(Tail(js), q)
    BY JobCountTail
  <2>3. Plus(base, Head(js))[q] = IF q = Head(js) THEN base[q] + 1 ELSE base[q]
    BY DEF Plus, Ext
  <2>4. JobCount(Tail(js), q) \in Nat /\ base[q] \in Nat
    BY <1>2
  <2> DEFINE e == Plus(base, Head(js))
             n == JobCount(Tail(js), q)
  <2>5. With(e, Tail(js))[q] = e[q] + n
    BY DEF With
  <2>6. With(base, js)[q] = base[q] + JobCount(js, q)
    BY DEF With
  <2> HIDE DEF e
  <2>7. e[q] = IF q = Head(js) THEN base[q] + 1 ELSE base[q]
    BY <2>3 DEF e
  <2> HIDE DEF n
  <2>8. JobCount(js, q) = IF q = Head(js) THEN n + 1 ELSE n
    BY <2>2 DEF n
  <2>9. n \in Nat
    BY <2>4 DEF n
  <2>10. With(e, Tail(js))[q] = With(base, js)[q]
    <3>1. base[q] \in Nat
      BY <2>4
    <3>2. CASE q = Head(js)
      <4>1. e[q] = base[q] + 1 /\ JobCount(js, q) = n + 1
        BY <2>7, <2>8, <3>2
      <4>2. (base[q] + 1) + n = base[q] + (n + 1)
        BY <2>9, <3>1
      <4> QED BY <2>5, <2>6, <4>1, <4>2
    <3>3. CASE q # Head(js)
      BY <2>5, <2>6, <2>7, <2>8, <3>3
    <3> QED BY <3>2, <3>3
  <2> QED BY <2>10 DEF e
<1> QED BY <1>3 DEF With

-----------------------------------------------------------------------------
(* SettleAndEnqueue                                                          *)

\* Only p changes its state, and if jobs can be allocated it gets one.
Enqueued(h, g, p, js, ks) ==
  /\ ks = js \/ ks = Append(js, p)
  /\ \A q \in Promise :
       \/ Gone(g, q)
       \/ g[q].state = h[q].state
       \/ q = p /\ ("job" \notin Failing => ks = Append(js, p))

LEMMA SettledExact ==
  ASSUME NEW h \in Heap, NEW base \in Ext, NEW js \in Seq(Promise),
         NEW handed \in Promise \union {None},
         Exact(h, Given(With(base, js), handed)),
         NEW p \in Promise, Anchored(h, With(base, js), p),
         h[p].state = "PENDING", NEW o \in OutcomeRecord
  PROVE  /\ Settle(h, p, o) \in Heap
         /\ Exact(Settle(h, p, o), Given(With(base, js), handed))
         /\ Evolves(h, Settle(h, p, o)) /\ NoneNew(h, Settle(h, p, o))
         /\ Settle(h, p, o)[p].state \in Live
         /\ \A q \in Promise :
              \/ Gone(Settle(h, p, o), q)
              \/ q = p
              \/ Settle(h, p, o)[q].state = h[q].state
<1> DEFINE ext == With(base, js)
           all == Given(ext, handed)
           g == Settle(h, p, o)
<1>1. ext \in Ext
  BY WithType
<1>2. all \in Ext
  BY <1>1, PlusMinus DEF Given
<1>3. Exact(h, all) /\ Anchored(h, ext, p)
  OBVIOUS
<1>4. h[p].state \in Live
  BY DEF Live
<1> HIDE DEF ext, all
<1>5. Exact(g, all) /\ g \in Heap
  BY <1>2, <1>3, <1>4, SettleExact, SettleEffect
<1>6. Evolves(h, g) /\ NoneNew(h, g)
  BY <1>2, <1>3, SettleEvolves
<1>7. Anchored(h, all, p)
  BY <1>1, <1>3, AnchoredGiven DEF all
<1> HIDE DEF g
<1>8. Anchored(g, all, p)
  BY <1>2, <1>5, <1>6, <1>7, AnchoredStays
<1>9. g[p].state \in Live
  BY <1>2, <1>5, <1>8, AnchoredLive
<1>10. \A q \in Promise : Gone(g, q) \/ q = p \/ g[q].state = h[q].state
  BY SettleEffect DEF g
<1> QED BY <1>5, <1>6, <1>9, <1>10 DEF ext, all, g

LEMMA SettleAndEnqueueExact ==
  ASSUME NEW h \in Heap, NEW base \in Ext, jobs \in Seq(Promise),
         NEW handed \in Promise \union {None},
         Exact(h, Given(With(base, jobs), handed)),
         NEW p \in Promise, Anchored(h, With(base, jobs), p),
         NEW o \in OutcomeRecord,
         SettleAndEnqueue(h, p, o, handed)
  PROVE  /\ heap' \in Heap /\ jobs' \in Seq(Promise)
         /\ Exact(heap', With(base, jobs'))
         /\ Evolves(h, heap') /\ NoneNew(h, heap')
         /\ Enqueued(h, heap', p, jobs, jobs')
<1> DEFINE ext == With(base, jobs)
           g == Settle(h, p, o)
<1>1. ext \in Ext
  BY WithType
<1>2. CASE h[p].state # "PENDING"
  <2>1. heap' = Unref(h, handed) /\ jobs' = jobs
    BY <1>2 DEF SettleAndEnqueue
  <2> HIDE DEF ext
  <2>2. /\ heap' \in Heap /\ Exact(heap', ext)
        /\ Evolves(h, heap') /\ NoneNew(h, heap')
    BY <1>1, <2>1, UnrefGiven DEF ext
  <2>3. Trimmed(h, heap')
    BY <2>1, UnrefEffect
  <2>4. Enqueued(h, heap', p, jobs, jobs')
    BY <2>1, <2>3 DEF Enqueued, Trimmed, Gone, Blank
  <2> QED BY <2>1, <2>2, <2>4 DEF ext
<1>3. CASE h[p].state = "PENDING"
  <2>1. /\ g \in Heap /\ Exact(g, Given(ext, handed))
        /\ Evolves(h, g) /\ NoneNew(h, g)
        /\ g[p].state \in Live
        /\ \A q \in Promise : Gone(g, q) \/ q = p \/ g[q].state = h[q].state
    BY <1>3, SettledExact
  <2>2. PICK queued \in Alloc("job") :
          IF queued
          THEN /\ heap' = Unref(Ref(g, p), handed)
               /\ jobs' = Append(jobs, p)
          ELSE /\ heap' = Unref(g, handed)
               /\ UNCHANGED jobs
    BY <1>3 DEF SettleAndEnqueue
  <2>3. "job" \notin Failing => queued
    BY <2>2 DEF Alloc
  <2> HIDE DEF g
  <2>4. CASE ~queued
    <3>1. heap' = Unref(g, handed) /\ jobs' = jobs
      BY <2>2, <2>4
    <3> HIDE DEF ext
    <3>2. /\ heap' \in Heap /\ Exact(heap', ext)
          /\ Evolves(g, heap') /\ NoneNew(g, heap')
      BY <1>1, <2>1, <3>1, UnrefGiven
    <3>3. Trimmed(g, heap')
      BY <2>1, <3>1, UnrefEffect
    <3>4. Enqueued(h, heap', p, jobs, jobs')
      BY <2>1, <2>3, <2>4, <3>1, <3>3 DEF Enqueued, Trimmed, Gone, Blank
    <3> QED BY <2>1, <3>1, <3>2, <3>4, EvolvesTransitive, NoneNewTransitive DEF ext
  <2>5. CASE queued
    <3> DEFINE f == Ref(g, p)
    <3>1. heap' = Unref(f, handed) /\ jobs' = Append(jobs, p) /\ jobs' \in Seq(Promise)
      BY <2>2, <2>5
    <3> DEFINE all == Given(ext, handed)
               next == With(base, jobs')
    <3>2. all \in Ext
      BY <1>1, PlusMinus DEF Given
    <3>3. f \in Heap /\ Exact(f, Plus(all, p)) /\ SameButCounts(g, f)
      <4> HIDE DEF all
      <4> QED BY <2>1, <3>2, RefExact, RefEffect DEF all, SameButCounts
    <3>4. next = Plus(ext, p) /\ next \in Ext
      BY <3>1, WithAppend, WithType
    <3>5. Plus(all, p) = Given(next, handed)
      <4> HIDE DEF ext, next
      <4>1. CASE handed = None
        BY <3>4, <4>1 DEF Given
      <4>2. CASE handed \in Promise
        <5>1. Plus(Plus(ext, handed), p) = Plus(Plus(ext, p), handed)
          BY <1>1, <4>2, PlusCommutes
        <5> QED BY <3>4, <4>2, <5>1, NoneAssumption DEF Given
      <4> QED BY <4>1, <4>2
    <3>6. Evolves(g, f) /\ NoneNew(g, f)
      <4> HIDE DEF f, all
      <4> QED BY <2>1, <3>2, <3>3, SameEvolves DEF all
    <3> HIDE DEF f, all, next, ext
    <3>7. /\ heap' \in Heap /\ Exact(heap', next)
          /\ Evolves(f, heap') /\ NoneNew(f, heap')
      BY <3>1, <3>3, <3>4, <3>5, UnrefGiven
    <3>8. Trimmed(f, heap')
      BY <3>1, <3>3, UnrefEffect
    <3>9. Enqueued(h, heap', p, jobs, jobs')
      BY <2>1, <3>1, <3>3, <3>8 DEF Enqueued, Trimmed, Gone, Blank, SameButCounts
    <3>10. Evolves(h, heap') /\ NoneNew(h, heap')
      BY <2>1, <3>6, <3>7, EvolvesTransitive, NoneNewTransitive
    <3> QED BY <3>1, <3>7, <3>9, <3>10 DEF next
  <2> QED BY <2>4, <2>5
<1> QED BY <1>2, <1>3

LEMMA BirthEvolves ==
  ASSUME NEW h \in Heap, NEW ext \in Ext, Exact(h, ext),
         NEW p \in Promise, h[p].state = "unborn", NEW s, NEW v
  PROVE  /\ Evolves(h, [h EXCEPT ![p] = NewPromise(s, v)])
         /\ NoneNew(h, [h EXCEPT ![p] = NewPromise(s, v)])
<1> DEFINE g == [h EXCEPT ![p] = NewPromise(s, v)]
<1>1. /\ g[p].conts = << >> /\ g[p].following = None
      /\ \A q \in Promise : q # p => g[q] = h[q]
  BY DEF NewPromise, Heap
<1>2. h[p].conts = << >>
  BY DEF Exact, Sound, Live, Settled
<1> HIDE DEF g
<1>3. ASSUME NEW q \in Promise PROVE Evolved(h, g, q)
  <2>1. h[q].state = "freed" => Gone(h, q)
    BY DEF Exact, Sound, Gone, Live, Settled
  <2> QED BY <1>1, <1>2, <2>1 DEF Evolved, Gone, Settled
<1>4. NoneNew(h, g)
  BY <1>1 DEF NoneNew
<1> QED BY <1>3, <1>4 DEF Evolves, g

\* AppendCont only appends the continuation, and Following only sets the field.
LEMMA AppendContEffect ==
  ASSUME NEW h \in Heap, NEW p \in Promise, NEW k \in Kind, NEW a \in BOOLEAN,
         NEW x \in Promise
  PROVE  /\ \A q \in Promise :
              /\ AppendCont(h, p, k, a, x)[q].state = h[q].state
              /\ AppendCont(h, p, k, a, x)[q].payload = h[q].payload
              /\ AppendCont(h, p, k, a, x)[q].following = h[q].following
              /\ q # p => AppendCont(h, p, k, a, x)[q].conts = h[q].conts
         /\ AppendCont(h, p, k, a, x)[p].conts = Append(h[p].conts, NewCont(k, a, x))
         /\ NewCont(k, a, x) \in Continuation
<1> DEFINE c == NewCont(k, a, x)
           f == [h EXCEPT ![p].conts = Append(@, c)]
<1>1. c \in Continuation
  BY DEF NewCont, Continuation
<1>2. h[p] \in PromiseObject /\ h[p].conts \in Seq(Continuation)
  BY DEF Heap, PromiseObject
<1>3. Append(h[p].conts, c) \in Seq(Continuation)
  BY <1>1, <1>2
<1>4. /\ f \in Heap /\ f[p].conts = Append(h[p].conts, c)
      /\ \A q \in Promise :
           /\ f[q].state = h[q].state /\ f[q].payload = h[q].payload
           /\ f[q].following = h[q].following
           /\ q # p => f[q].conts = h[q].conts
  BY <1>2, <1>3 DEF Heap, PromiseObject
<1>5. AppendCont(h, p, k, a, x) = Ref(f, x)
  BY DEF AppendCont
<1> HIDE DEF f, c
<1>6. \A q \in Promise :
        /\ Ref(f, x)[q].state = f[q].state /\ Ref(f, x)[q].payload = f[q].payload
        /\ Ref(f, x)[q].conts = f[q].conts
        /\ Ref(f, x)[q].following = f[q].following
  BY <1>4, RefEffect
<1> QED BY <1>1, <1>4, <1>5, <1>6 DEF c

LEMMA AppendedCont ==
  ASSUME NEW h \in Heap, NEW p \in Promise, NEW c \in Continuation
  PROVE  /\ h[p].conts \in Seq(Continuation)
         /\ Len(h[p].conts) \in Nat
         /\ DOMAIN h[p].conts = 1 .. Len(h[p].conts)
         /\ DOMAIN Append(h[p].conts, c) = 1 .. Len(h[p].conts) + 1
         /\ \A i \in DOMAIN h[p].conts : Append(h[p].conts, c)[i] = h[p].conts[i]
         /\ Append(h[p].conts, c)[Len(h[p].conts) + 1] = c
<1>1. h[p].conts \in Seq(Continuation)
  BY DEF Heap, PromiseObject
<1> QED BY <1>1

LEMMA AppendContEvolves ==
  ASSUME NEW h \in Heap, NEW ext \in Ext, Exact(h, ext),
         NEW p \in Promise, h[p].state \in Live, NEW k \in Kind, NEW a \in BOOLEAN,
         NEW x \in Promise
  PROVE  Evolves(h, AppendCont(h, p, k, a, x))
<1> DEFINE g == AppendCont(h, p, k, a, x)
           c == NewCont(k, a, x)
<1>1. /\ \A q \in Promise : /\ g[q].state = h[q].state /\ g[q].payload = h[q].payload
                            /\ g[q].following = h[q].following
                            /\ q # p => g[q].conts = h[q].conts
      /\ g[p].conts = Append(h[p].conts, c)
      /\ c \in Continuation
  BY AppendContEffect
<1> HIDE DEF g, c
<1>2. /\ DOMAIN h[p].conts \subseteq DOMAIN g[p].conts
      /\ \A i \in DOMAIN h[p].conts : g[p].conts[i] = h[p].conts[i]
  BY <1>1, AppendedCont
<1>3. ASSUME NEW q \in Promise PROVE Evolved(h, g, q)
  <2>1. h[q].state = "freed" => q # p /\ Gone(h, q)
    BY DEF Exact, Sound, Gone, Live, Settled
  <2> QED BY <1>1, <1>2, <2>1 DEF Evolved, Gone
<1> QED BY <1>3 DEF Evolves, g

LEMMA FollowingEffect ==
  ASSUME NEW h \in Heap, NEW p \in Promise, NEW r \in Promise, h[p].following = None
  PROVE  \A q \in Promise :
           /\ Following(h, p, r)[q].state = h[q].state
           /\ Following(h, p, r)[q].payload = h[q].payload
           /\ Following(h, p, r)[q].conts = h[q].conts
           /\ Following(h, p, r)[q].following = IF q = p THEN r ELSE h[q].following
<1> DEFINE f == [h EXCEPT ![p].following = r]
<1>1. /\ f \in Heap
      /\ \A q \in Promise :
           /\ f[q].state = h[q].state /\ f[q].payload = h[q].payload
           /\ f[q].conts = h[q].conts
           /\ f[q].following = IF q = p THEN r ELSE h[q].following
  BY DEF Heap, PromiseObject
<1>2. Following(h, p, r) = Ref(f, r)
  BY DEF Following, Unref
<1> HIDE DEF f
<1> QED BY <1>1, <1>2, RefEffect

LEMMA FollowingEvolves ==
  ASSUME NEW h \in Heap, NEW ext \in Ext, Exact(h, ext), NEW p \in Promise,
         h[p].state \in Live, NEW r \in Promise, h[p].following = None
  PROVE  Evolves(h, Following(h, p, r))
<1>1. ASSUME NEW q \in Promise PROVE Evolved(h, Following(h, p, r), q)
  <2>1. h[q].state = "freed" => q # p /\ Gone(h, q)
    BY DEF Exact, Sound, Gone, Live, Settled
  <2> QED BY <2>1, FollowingEffect DEF Evolved, Gone
<1> QED BY <1>1 DEF Evolves

LEMMA ContType ==
  ASSUME NEW h \in Heap, NEW q \in Promise, NEW i \in DOMAIN h[q].conts
  PROVE  h[q].conts[i] \in Continuation /\ h[q].conts[i].child \in Promise
<1>1. h[q].conts \in Seq(Continuation)
  BY DEF Heap, PromiseObject
<1>2. h[q].conts[i] \in Continuation
  BY <1>1
<1> QED BY <1>2 DEF Continuation

-----------------------------------------------------------------------------
(* The inductive invariant                                                   *)

\* The references held by the application and by the drain loop.
Base(hd, cur) == [p \in Promise |-> hd[p] + (IF cur = p THEN 1 ELSE 0)]

Outside == With(Base(held, current), jobs)

\* A promise is the child of at most one continuation of the application.
OneParent(h) ==
  \A p, q \in Promise : \A i \in DOMAIN h[p].conts, j \in DOMAIN h[q].conts :
    /\ ~h[p].conts[i].adopt /\ ~h[q].conts[j].adopt
    /\ h[p].conts[i].child = h[q].conts[j].child
    => p = q /\ i = j

\* A child follows no promise before the handler it waits for has returned.
NotYetFollowing(h, cur, k, running) ==
  \A p \in Promise : \A i \in DOMAIN h[p].conts :
    /\ ~h[p].conts[i].adopt
    /\ ~h[p].conts[i].fired \/ (running /\ cur = p /\ k = i)
    => h[h[p].conts[i].child].following = None

\* The drain loop stands at a continuation, or past the last one.
LoopInv(h, cur, k, running) ==
  /\ cur # None => k >= 1
  /\ running => /\ cur # None
                /\ k \in DOMAIN h[cur].conts
                /\ h[cur].conts[k].fired /\ ~h[cur].conts[k].adopt

IInv ==
  /\ TypeOK
  /\ Exact(heap, Outside)
  /\ OneParent(heap)
  /\ NotYetFollowing(heap, current, cursor, inHandler)
  /\ LoopInv(heap, current, cursor, inHandler)

LEMMA InvFacts ==
  ASSUME IInv
  PROVE  /\ heap \in Heap /\ jobs \in Seq(Promise) /\ held \in Ext
         /\ Base(held, current) \in Ext /\ Outside \in Ext
         /\ \A p \in Promise : Owned(p) => /\ Base(held, current)[p] > 0
                                           /\ Outside[p] > 0
                                           /\ heap[p].state \in Live
         /\ current # None => /\ current \in Promise
                              /\ Base(held, current)[current] > 0
                              /\ Outside[current] > 0
                              /\ heap[current].state \in Live
<1>1. heap \in Heap /\ jobs \in Seq(Promise) /\ held \in Ext /\ current \in Promise \union {None}
  BY DEF IInv, TypeOK, Heap, Ext
<1>2. \A p \in Promise : held[p] \in Nat
  BY <1>1 DEF Ext
<1>3. /\ Base(held, current) \in Ext
      /\ \A p \in Promise : held[p] > 0 \/ current = p => Base(held, current)[p] > 0
  BY <1>2 DEF Base, Ext
<1>4. Outside \in Ext
  BY <1>1, <1>3, WithType DEF Outside
<1>5. ASSUME NEW p \in Promise, Base(held, current)[p] > 0
      PROVE  Outside[p] > 0 /\ heap[p].state \in Live
  <2>1. JobCount(jobs, p) \in Nat /\ Base(held, current)[p] \in Nat
    BY <1>1, <1>3, JobCountType DEF Ext
  <2>2. Outside[p] = Base(held, current)[p] + JobCount(jobs, p)
    BY DEF Outside, With
  <2>3. Outside[p] > 0
    BY <1>5, <2>1, <2>2
  <2>4. Exact(heap, Outside)
    BY DEF IInv
  <2> QED BY <1>1, <1>4, <2>3, <2>4, ReferredLive
<1> QED BY <1>1, <1>3, <1>4, <1>5 DEF Owned

-----------------------------------------------------------------------------
(* Keeping the shape of the heap                                             *)

\* The promise of the job being run is alive.
LEMMA CurrentLive ==
  ASSUME NEW h \in Heap, NEW hd \in Ext, NEW cur \in Promise \union {None},
         NEW js \in Seq(Promise), Exact(h, With(Base(hd, cur), js)), cur # None
  PROVE  h[cur].state \in Live /\ ~Gone(h, cur)
<1>1. cur \in Promise /\ hd[cur] \in Nat
  BY DEF Ext
<1>2. Base(hd, cur) \in Ext /\ Base(hd, cur)[cur] > 0
  BY <1>1 DEF Base, Ext
<1>3. JobCount(js, cur) \in Nat
  BY <1>1, JobCountType
<1>4. With(Base(hd, cur), js) \in Ext /\ With(Base(hd, cur), js)[cur] > 0
  <2>1. With(Base(hd, cur), js)[cur] = Base(hd, cur)[cur] + JobCount(js, cur)
    BY <1>1 DEF With
  <2>2. Base(hd, cur)[cur] \in Nat
    BY <1>1, <1>2 DEF Ext
  <2> QED BY <1>2, <1>3, <2>1, <2>2, WithType
<1>5. h[cur].state \in Live
  BY <1>1, <1>4, ReferredLive
<1> QED BY <1>5 DEF Gone, Live, Settled

LEMMA OneParentKept ==
  ASSUME NEW h, NEW g, OneParent(h), NoneNew(h, g)
  PROVE  OneParent(g)
BY DEF OneParent, NoneNew

LEMMA NotYetFollowingKept ==
  ASSUME NEW h \in Heap, NEW g \in Heap, NEW cur, NEW k, NEW run \in BOOLEAN,
         NEW cur2, NEW k2, NEW run2 \in BOOLEAN,
         NotYetFollowing(h, cur, k, run), NoneNew(h, g),
         run2 => run /\ cur2 = cur /\ k2 = k
  PROVE  NotYetFollowing(g, cur2, k2, run2)
<1>1. SUFFICES ASSUME NEW p \in Promise, NEW i \in DOMAIN g[p].conts,
                      ~g[p].conts[i].adopt,
                      ~g[p].conts[i].fired \/ (run2 /\ cur2 = p /\ k2 = i)
               PROVE  g[g[p].conts[i].child].following = None
  BY DEF NotYetFollowing
<1>2. /\ i \in DOMAIN h[p].conts
      /\ ~h[p].conts[i].adopt
      /\ ~h[p].conts[i].fired \/ (run /\ cur = p /\ k = i)
      /\ h[p].conts[i].child = g[p].conts[i].child
  BY <1>1 DEF NoneNew
<1>3. g[p].conts[i].child \in Promise
  <2>1. g[p].conts \in Seq(Continuation)
    BY DEF Heap, PromiseObject
  <2>2. g[p].conts[i] \in Continuation
    BY <2>1
  <2> QED BY <2>2 DEF Continuation
<1>4. h[g[p].conts[i].child].following = None
  BY <1>2 DEF NotYetFollowing
<1> QED BY <1>3, <1>4 DEF NoneNew

LEMMA LoopInvKept ==
  ASSUME NEW h \in Heap, NEW g \in Heap, NEW cur \in Promise \union {None},
         NEW k \in Nat, NEW run \in BOOLEAN, NEW k2 \in Nat, NEW run2 \in BOOLEAN,
         LoopInv(h, cur, k, run), Evolves(h, g), cur # None => ~Gone(g, cur),
         k2 >= k, run2 => run /\ k2 = k
  PROVE  LoopInv(g, cur, k2, run2)
<1>1. cur # None => k2 >= 1
  BY DEF LoopInv
<1>2. ASSUME run2
      PROVE  /\ cur # None
             /\ k2 \in DOMAIN g[cur].conts
             /\ g[cur].conts[k2].fired /\ ~g[cur].conts[k2].adopt
  <2>1. cur \in Promise /\ k2 = k /\ k \in DOMAIN h[cur].conts
        /\ h[cur].conts[k].fired /\ ~h[cur].conts[k].adopt
    BY <1>2 DEF LoopInv
  <2>2. Evolved(h, g, cur) /\ ~Gone(g, cur)
    BY <2>1, NoneAssumption DEF Evolves
  <2> QED BY <2>1, <2>2, NoneAssumption DEF Evolved
<1> QED BY <1>1, <1>2 DEF LoopInv

\* A step after which the counts are exact, that undoes nothing, and does not
\* move to another job, keeps the invariant if it keeps the shape of the heap.
LEMMA PreservedWithShape ==
  ASSUME IInv,
         heap' \in Heap, jobs' \in Seq(Promise), held' \in Ext,
         draining' \in BOOLEAN, inHandler' \in BOOLEAN,
         current' = current, cursor' \in Nat, cursor' >= cursor,
         inHandler' => inHandler /\ cursor' = cursor,
         Exact(heap', With(Base(held', current'), jobs')),
         Evolves(heap, heap'), OneParent(heap'),
         NotYetFollowing(heap', current, cursor', inHandler')
  PROVE  IInv'
<1>1. /\ heap \in Heap /\ cursor \in Nat /\ inHandler \in BOOLEAN
      /\ current \in Promise \union {None}
      /\ LoopInv(heap, current, cursor, inHandler)
  BY DEF IInv, TypeOK, Heap
<1>2. TypeOK'
  BY <1>1 DEF TypeOK, Heap, Ext
<1>3. current # None => ~Gone(heap', current)
  BY <1>1, CurrentLive
<1>4. LoopInv(heap', current', cursor', inHandler')
  BY <1>1, <1>3, LoopInvKept
<1>5. Exact(heap', With(Base(held', current'), jobs'))
  OBVIOUS
<1> QED BY <1>2, <1>4, <1>5 DEF IInv, Outside

\* The shape is kept if no continuation is appended and no promise followed.
LEMMA ShapeKept ==
  ASSUME IInv, NEW h \in Heap, NoneNew(heap, h), cursor' \in Nat, inHandler' \in BOOLEAN,
         inHandler' => inHandler /\ cursor' = cursor
  PROVE  OneParent(h) /\ NotYetFollowing(h, current, cursor', inHandler')
<1>1. /\ heap \in Heap /\ inHandler \in BOOLEAN /\ OneParent(heap)
      /\ NotYetFollowing(heap, current, cursor, inHandler)
  BY DEF IInv, TypeOK, Heap
<1> QED BY <1>1, OneParentKept, NotYetFollowingKept

LEMMA Preserved ==
  ASSUME IInv,
         heap' \in Heap, jobs' \in Seq(Promise), held' \in Ext,
         draining' \in BOOLEAN, inHandler' \in BOOLEAN,
         current' = current, cursor' \in Nat, cursor' >= cursor,
         inHandler' => inHandler /\ cursor' = cursor,
         Exact(heap', With(Base(held', current'), jobs')),
         Evolves(heap, heap'), NoneNew(heap, heap')
  PROVE  IInv'
BY ShapeKept, PreservedWithShape

\* The references of the application and the loop after one is added to them.
LEMMA BaseChanges ==
  ASSUME NEW hd \in Ext, NEW cur \in Promise \union {None}, NEW p \in Promise
  PROVE  /\ Base(hd, cur) \in Ext
         /\ Base(Plus(hd, p), cur) = Plus(Base(hd, cur), p)
         /\ Base(hd, p) = Plus(Base(hd, None), p)
<1>1. \A q \in Promise : hd[q] \in Nat /\ None # q
  BY NoneAssumption DEF Ext
<1>2. Base(hd, cur) \in Ext /\ Base(hd, None) \in Ext
  BY <1>1 DEF Base, Ext
<1>3. Base(Plus(hd, p), cur) = Plus(Base(hd, cur), p)
  <2>1. \A q \in Promise : Base(Plus(hd, p), cur)[q] = Plus(Base(hd, cur), p)[q]
    BY <1>1 DEF Base, Plus, Ext
  <2>2. Base(Plus(hd, p), cur) = [q \in Promise |-> Base(Plus(hd, p), cur)[q]]
    BY DEF Base
  <2>3. Plus(Base(hd, cur), p) = [q \in Promise |-> Plus(Base(hd, cur), p)[q]]
    BY DEF Base, Plus
  <2> QED BY <2>1, <2>2, <2>3
<1>4. Base(hd, p) = Plus(Base(hd, None), p)
  <2>1. \A q \in Promise : Base(hd, p)[q] = Plus(Base(hd, None), p)[q]
    BY <1>1 DEF Base, Plus
  <2>2. Base(hd, p) = [q \in Promise |-> Base(hd, p)[q]]
    BY DEF Base
  <2>3. Plus(Base(hd, None), p) = [q \in Promise |-> Plus(Base(hd, None), p)[q]]
    BY DEF Base, Plus
  <2> QED BY <2>1, <2>2, <2>3
<1> QED BY <1>2, <1>3, <1>4

LEMMA OutsidePlus ==
  ASSUME NEW hd \in Ext, NEW cur \in Promise \union {None}, NEW p \in Promise,
         NEW js \in Seq(Promise)
  PROVE  With(Base(Plus(hd, p), cur), js) = Plus(With(Base(hd, cur), js), p)
<1>1. Base(hd, cur) \in Ext /\ Base(Plus(hd, p), cur) = Plus(Base(hd, cur), p)
  BY BaseChanges
<1>2. With(Plus(Base(hd, cur), p), js) = Plus(With(Base(hd, cur), js), p)
  BY <1>1, WithPlus
<1> QED BY <1>1, <1>2

-----------------------------------------------------------------------------
(* The actions keep the invariant, and undo nothing                          *)

Kept == IInv' /\ Evolves(heap, heap')

LEMMA KeptByStutter == ASSUME IInv, UNCHANGED vars PROVE Kept
<1>1. IInv'
  BY DEF vars, IInv, TypeOK, Outside
<1>2. Evolves(heap, heap')
  BY InvFacts, SameEvolves DEF vars, IInv, SameButCounts
<1> QED BY <1>1, <1>2 DEF Kept

\* The heap is left alone, and so are the references.
LEMMA KeptByLoop ==
  ASSUME IInv, UNCHANGED <<heap, jobs, held, current>>,
         draining' \in BOOLEAN, inHandler' = inHandler,
         cursor' \in Nat, cursor' >= cursor, inHandler => cursor' = cursor
  PROVE  Kept
<1>1. /\ heap \in Heap /\ jobs \in Seq(Promise) /\ held \in Ext
      /\ Outside \in Ext /\ Exact(heap, Outside) /\ inHandler \in BOOLEAN
  BY InvFacts DEF IInv, TypeOK
<1>2. Evolves(heap, heap') /\ NoneNew(heap, heap')
  BY <1>1, SameEvolves DEF SameButCounts
<1>3. Exact(heap', With(Base(held', current'), jobs'))
  BY <1>1 DEF Outside
<1>4. IInv'
  BY <1>1, <1>2, <1>3, Preserved
<1> QED BY <1>2, <1>4 DEF Kept

LEMMA BeginDrainKept == ASSUME IInv, BeginDrain PROVE Kept
BY KeptByLoop DEF BeginDrain, IInv, TypeOK

LEMMA EndDrainKept == ASSUME IInv, EndDrain PROVE Kept
<1>1. /\ UNCHANGED <<heap, jobs, held, current>> /\ cursor' = cursor
      /\ inHandler' = inHandler
  BY DEF EndDrain
<1>2. cursor \in Nat
  BY DEF IInv, TypeOK
<1>3. cursor' \in Nat /\ cursor' >= cursor
  BY <1>1, <1>2
<1>4. draining' \in BOOLEAN
  BY Zenon DEF EndDrain
<1> QED BY <1>1, <1>3, <1>4, KeptByLoop

LEMMA SkipFiredKept == ASSUME IInv, SkipFired PROVE Kept
BY KeptByLoop DEF SkipFired, AtContinuation, IInv, TypeOK

LEMMA CreateKept ==
  ASSUME IInv, NEW p \in Promise, NEW o \in [state : Live, payload : Payload], Create(p, o)
  PROVE  Kept
<1>1. /\ heap \in Heap /\ jobs \in Seq(Promise) /\ held \in Ext
      /\ Base(held, current) \in Ext /\ Outside \in Ext /\ Exact(heap, Outside)
      /\ current \in Promise \union {None} /\ cursor \in Nat
      /\ draining \in BOOLEAN /\ inHandler \in BOOLEAN
  BY InvFacts DEF IInv, TypeOK
<1>2. heap[p].state = "unborn"
  BY DEF Create
<1>3. held[p] = 0
  <2>1. held[p] \in Nat /\ heap[p].state \notin Live
    BY <1>1, <1>2 DEF Ext, Live, Settled
  <2>2. ~(held[p] > 0)
    BY <2>1, InvFacts DEF Owned
  <2> QED BY <2>1, <2>2
<1>4. held' = Plus(held, p) /\ held' \in Ext
  BY <1>1, <1>3 DEF Create, Plus, Ext
<1>5. heap' = [heap EXCEPT ![p] = NewPromise(o.state, o.payload)]
  BY DEF Create
<1>6. heap' \in Heap /\ Exact(heap', Plus(Outside, p))
  BY <1>1, <1>2, <1>5, BirthExact
<1>7. With(Base(held', current'), jobs') = Plus(Outside, p)
  <2>1. current' = current /\ jobs' = jobs
    BY DEF Create, drainVars
  <2> QED BY <1>1, <1>4, <2>1, OutsidePlus DEF Outside
<1>8. Evolves(heap, heap') /\ NoneNew(heap, heap')
  BY <1>1, <1>2, <1>5, BirthEvolves
<1>9. IInv'
  BY <1>1, <1>4, <1>6, <1>7, <1>8, Preserved DEF Create, drainVars
<1> QED BY <1>8, <1>9 DEF Kept

LEMMA RefCallKept == ASSUME IInv, NEW p \in Promise, RefCall(p) PROVE Kept
<1>1. /\ heap \in Heap /\ jobs \in Seq(Promise) /\ held \in Ext
      /\ Base(held, current) \in Ext /\ Outside \in Ext /\ Exact(heap, Outside)
      /\ current \in Promise \union {None} /\ cursor \in Nat
      /\ draining \in BOOLEAN /\ inHandler \in BOOLEAN
      /\ heap[p].state \in Live
  BY InvFacts DEF IInv, TypeOK, RefCall
<1>2. held' = Plus(held, p) /\ held' \in Ext
  BY <1>1 DEF RefCall, Plus, Ext
<1>3. heap' = Ref(heap, p)
  BY DEF RefCall
<1>4. heap' \in Heap /\ Exact(heap', Plus(Outside, p)) /\ SameButCounts(heap, heap')
  BY <1>1, <1>3, RefExact, RefEffect DEF SameButCounts
<1>5. With(Base(held', current'), jobs') = Plus(Outside, p)
  <2>1. current' = current /\ jobs' = jobs
    BY DEF RefCall, drainVars
  <2> QED BY <1>1, <1>2, <2>1, OutsidePlus DEF Outside
<1>6. Evolves(heap, heap') /\ NoneNew(heap, heap')
  BY <1>1, <1>4, SameEvolves
<1>7. IInv'
  BY <1>1, <1>2, <1>4, <1>5, <1>6, Preserved DEF RefCall, drainVars
<1> QED BY <1>6, <1>7 DEF Kept

LEMMA UnrefCallKept == ASSUME IInv, NEW p \in Promise, UnrefCall(p) PROVE Kept
<1>1. /\ heap \in Heap /\ jobs \in Seq(Promise) /\ held \in Ext
      /\ Outside \in Ext /\ Exact(heap, Outside)
      /\ current \in Promise \union {None} /\ cursor \in Nat
      /\ draining \in BOOLEAN /\ inHandler \in BOOLEAN /\ held[p] > 0
  BY InvFacts DEF IInv, TypeOK, UnrefCall, Owned
<1>2. held' \in Ext /\ held = Plus(held', p)
  BY <1>1, PlusMinus DEF UnrefCall, Minus
<1>3. heap' = Unref(heap, p)
  BY DEF UnrefCall
<1>4. Base(held', current) \in Ext
  BY <1>1, <1>2, BaseChanges
<1>5. Outside = Given(With(Base(held', current), jobs), p)
  BY <1>1, <1>2, OutsidePlus, NoneAssumption DEF Outside, Given
<1>6. With(Base(held', current), jobs) \in Ext
  BY <1>1, <1>4, WithType
<1>7. /\ heap' \in Heap /\ Exact(heap', With(Base(held', current), jobs))
      /\ Evolves(heap, heap') /\ NoneNew(heap, heap')
  BY <1>1, <1>3, <1>5, <1>6, UnrefGiven
<1>8. IInv'
  BY <1>1, <1>2, <1>7, Preserved DEF UnrefCall, drainVars
<1> QED BY <1>7, <1>8 DEF Kept

-----------------------------------------------------------------------------
(* The actions that settle a promise                                         *)

\* SettleAndEnqueue on a heap h that evolved from the present one.
LEMMA KeptBySettlingWithShape ==
  ASSUME IInv, NEW h \in Heap, NEW p \in Promise, NEW o \in OutcomeRecord,
         NEW handed \in Promise \union {None}, NEW hd \in Ext, held' = hd,
         Exact(h, Given(With(Base(hd, current), jobs), handed)),
         Evolves(heap, h), OneParent(h),
         NotYetFollowing(h, current, cursor', inHandler'),
         Anchored(h, With(Base(hd, current), jobs), p),
         SettleAndEnqueue(h, p, o, handed),
         draining' \in BOOLEAN, inHandler' \in BOOLEAN,
         current' = current, cursor' \in Nat, cursor' >= cursor,
         inHandler' => inHandler /\ cursor' = cursor
  PROVE  Kept /\ Enqueued(h, heap', p, jobs, jobs') /\ NoneNew(h, heap')
<1>1. jobs \in Seq(Promise) /\ current \in Promise \union {None}
  BY DEF IInv, TypeOK
<1>2. Base(hd, current) \in Ext
  BY <1>1, BaseChanges DEF Base, Ext
<1>3. /\ heap' \in Heap /\ jobs' \in Seq(Promise)
      /\ Exact(heap', With(Base(hd, current), jobs'))
      /\ Evolves(h, heap') /\ NoneNew(h, heap')
      /\ Enqueued(h, heap', p, jobs, jobs')
  BY <1>1, <1>2, SettleAndEnqueueExact
<1>4. Evolves(heap, heap')
  BY <1>3, EvolvesTransitive
<1>5. OneParent(heap') /\ NotYetFollowing(heap', current, cursor', inHandler')
  BY <1>3, OneParentKept, NotYetFollowingKept
<1>6. IInv'
  BY <1>3, <1>4, <1>5, PreservedWithShape
<1> QED BY <1>3, <1>4, <1>6 DEF Kept

LEMMA KeptBySettling ==
  ASSUME IInv, NEW h \in Heap, NEW p \in Promise, NEW o \in OutcomeRecord,
         NEW handed \in Promise \union {None}, NEW hd \in Ext, held' = hd,
         Exact(h, Given(With(Base(hd, current), jobs), handed)),
         Evolves(heap, h), NoneNew(heap, h),
         Anchored(h, With(Base(hd, current), jobs), p),
         SettleAndEnqueue(h, p, o, handed),
         draining' \in BOOLEAN, inHandler' \in BOOLEAN,
         current' = current, cursor' \in Nat, cursor' >= cursor,
         inHandler' => inHandler /\ cursor' = cursor
  PROVE  Kept /\ Enqueued(h, heap', p, jobs, jobs') /\ NoneNew(h, heap')
<1>1. OneParent(h) /\ NotYetFollowing(h, current, cursor', inHandler')
  BY ShapeKept
<1> QED BY <1>1, KeptBySettlingWithShape

LEMMA SettleCallKept ==
  ASSUME IInv, NEW p \in Promise, NEW o \in OutcomeRecord, SettleCall(p, o)
  PROVE  Kept /\ Enqueued(heap, heap', p, jobs, jobs') /\ NoneNew(heap, heap')
<1>1. /\ heap \in Heap /\ held \in Ext /\ cursor \in Nat
      /\ draining \in BOOLEAN /\ inHandler \in BOOLEAN
      /\ Outside \in Ext /\ Exact(heap, Outside) /\ Outside[p] > 0
  BY InvFacts DEF IInv, TypeOK, SettleCall
<1>2. /\ SettleAndEnqueue(heap, p, o, None)
      /\ held' = held /\ current' = current /\ cursor' = cursor
      /\ inHandler' = inHandler /\ draining' = draining
  BY DEF SettleCall, drainVars
<1>3. Exact(heap, Given(Outside, None)) /\ Anchored(heap, Outside, p)
  BY <1>1 DEF Given, Anchored
<1>4. Evolves(heap, heap) /\ NoneNew(heap, heap)
  BY <1>1, SameEvolves DEF SameButCounts
<1> QED BY <1>1, <1>2, <1>3, <1>4, KeptBySettling DEF Outside

-----------------------------------------------------------------------------
(* The continuation the loop stands at                                       *)

LEMMA CursorFacts ==
  ASSUME IInv, current # None, cursor \in DOMAIN heap[current].conts
  PROVE  /\ current \in Promise /\ Outside[current] > 0
         /\ heap[current].conts \in Seq(Continuation)
         /\ AtCursor \in Continuation
         /\ Anchored(heap, Outside, AtCursor.child)
         /\ heap[AtCursor.child].state \in Live
<1>1. /\ heap \in Heap /\ current \in Promise /\ Outside[current] > 0
      /\ Outside \in Ext /\ Exact(heap, Outside)
  BY InvFacts DEF IInv
<1>2. heap[current].conts \in Seq(Continuation)
  BY <1>1 DEF Heap, PromiseObject
<1>3. AtCursor \in Continuation
  BY <1>2 DEF AtCursor
<1>4. Anchored(heap, Outside, AtCursor.child)
  BY <1>1 DEF Anchored, AtCursor
<1>5. heap[AtCursor.child].state \in Live
  BY <1>1, <1>3, <1>4, AnchoredLive DEF Continuation
<1> QED BY <1>1, <1>2, <1>3, <1>4, <1>5

\* Marking it fired changes nothing else.
LEMMA MarkFiredFacts ==
  ASSUME IInv, current # None, cursor \in DOMAIN heap[current].conts
  PROVE  /\ MarkFired(heap) \in Heap /\ Exact(MarkFired(heap), Outside)
         /\ Evolves(heap, MarkFired(heap)) /\ NoneNew(heap, MarkFired(heap))
         /\ Anchored(MarkFired(heap), Outside, AtCursor.child)
         /\ \A q \in Promise : MarkFired(heap)[q].state = heap[q].state
         /\ MarkFired(heap)[current].conts[cursor].fired
         /\ cursor \in DOMAIN MarkFired(heap)[current].conts
<1> DEFINE g == MarkFired(heap)
           old == heap[current].conts
<1>1. /\ heap \in Heap /\ current \in Promise /\ Outside \in Ext
      /\ Exact(heap, Outside) /\ old \in Seq(Continuation)
      /\ AtCursor \in Continuation /\ AtCursor = old[cursor]
      /\ Anchored(heap, Outside, AtCursor.child)
  BY CursorFacts, InvFacts DEF IInv, AtCursor
<1> DEFINE new == [old EXCEPT ![cursor].fired = TRUE]
<1>2. g = [heap EXCEPT ![current].conts = new]
  BY DEF MarkFired
<1>3. /\ new \in Seq(Continuation) /\ DOMAIN new = DOMAIN old
      /\ new[cursor] = [AtCursor EXCEPT !.fired = TRUE]
      /\ \A i \in DOMAIN old : i # cursor => new[i] = old[i]
  <2>1. [AtCursor EXCEPT !.fired = TRUE] \in Continuation
    BY <1>1 DEF Continuation
  <2>2. new = [old EXCEPT ![cursor] = [AtCursor EXCEPT !.fired = TRUE]]
    BY <1>1
  <2> QED BY <1>1, <2>1, <2>2, ExceptSeq
<1>4. \A i \in DOMAIN old :
        /\ new[i].kind = old[i].kind /\ new[i].adopt = old[i].adopt
        /\ new[i].child = old[i].child /\ (old[i].fired => new[i].fired)
  BY <1>1, <1>3 DEF Continuation
<1>5. new[cursor].fired
  BY <1>1, <1>3 DEF Continuation
<1> HIDE DEF new
<1>6. /\ g \in Heap /\ g[current].conts = new
      /\ \A q \in Promise :
           /\ g[q].state = heap[q].state /\ g[q].payload = heap[q].payload
           /\ g[q].refcount = heap[q].refcount /\ g[q].following = heap[q].following
           /\ q # current => g[q].conts = heap[q].conts
  BY <1>1, <1>2, <1>3 DEF Heap, PromiseObject
<1> HIDE DEF g
<1>7. Congruent(heap, g)
  BY <1>3, <1>4, <1>6 DEF Congruent
<1>8. Exact(g, Outside)
  BY <1>1, <1>6, <1>7, CongruentExact
<1>9. NoneNew(heap, g)
  BY <1>3, <1>4, <1>6 DEF NoneNew
<1>10. ASSUME NEW q \in Promise PROVE Evolved(heap, g, q)
  <2>1. heap[q].state = "freed" => Gone(g, q)
    <3>1. heap[q].state = "freed" => g[q].state = "freed"
      BY <1>6
    <3> QED BY <1>8, <3>1 DEF Exact, Sound, Gone, Live, Settled
  <2> QED BY <1>3, <1>4, <1>6, <2>1 DEF Evolved
<1>11. Anchored(g, Outside, AtCursor.child)
  BY <1>1, <1>3, <1>4, <1>6 DEF Anchored
<1> QED BY <1>3, <1>5, <1>6, <1>8, <1>9, <1>10, <1>11 DEF Evolves, g

-----------------------------------------------------------------------------
(* The drain loop                                                            *)

LEMMA TakeJobKept == ASSUME IInv, TakeJob PROVE Kept
<1>1. /\ heap \in Heap /\ jobs \in Seq(Promise) /\ held \in Ext
      /\ Outside \in Ext /\ Exact(heap, Outside)
      /\ OneParent(heap) /\ NotYetFollowing(heap, current, cursor, inHandler)
      /\ LoopInv(heap, current, cursor, inHandler)
      /\ draining \in BOOLEAN /\ inHandler \in BOOLEAN
  BY InvFacts DEF IInv, TypeOK
<1>2. /\ current = None /\ jobs # << >> /\ current' = Head(jobs) /\ jobs' = Tail(jobs)
      /\ cursor' = 1 /\ heap' = heap /\ held' = held /\ draining' = draining
      /\ inHandler' = inHandler
  BY DEF TakeJob
<1>3. Head(jobs) \in Promise /\ Tail(jobs) \in Seq(Promise)
  BY <1>1, <1>2, HeadTailProperties
<1>4. Base(held, None) \in Ext /\ Base(held, Head(jobs)) = Plus(Base(held, None), Head(jobs))
  BY <1>1, <1>3, BaseChanges
<1>5. With(Base(held', current'), jobs') = Outside
  BY <1>1, <1>2, <1>4, WithTail DEF Outside
<1>6. ~inHandler
  BY <1>1, <1>2 DEF LoopInv
<1>7. TypeOK'
  BY <1>1, <1>2, <1>3 DEF TypeOK, Heap, Ext
<1>8. NotYetFollowing(heap', current', cursor', inHandler')
  BY <1>1, <1>2, <1>6 DEF NotYetFollowing
<1>9. LoopInv(heap', current', cursor', inHandler')
  BY <1>2, <1>6 DEF LoopInv
<1>10. Evolves(heap, heap')
  BY <1>1, <1>2, SameEvolves DEF SameButCounts
<1>11. Exact(heap', Outside') /\ OneParent(heap')
  BY <1>1, <1>2, <1>5 DEF Outside
<1> QED BY <1>7, <1>8, <1>9, <1>10, <1>11 DEF IInv, Kept

LEMMA FinishJobKept == ASSUME IInv, FinishJob PROVE Kept
<1>1. /\ heap \in Heap /\ jobs \in Seq(Promise) /\ held \in Ext
      /\ Outside \in Ext /\ Exact(heap, Outside)
      /\ OneParent(heap) /\ NotYetFollowing(heap, current, cursor, inHandler)
      /\ draining \in BOOLEAN /\ inHandler \in BOOLEAN /\ cursor \in Nat
      /\ current \in Promise
  BY InvFacts DEF IInv, TypeOK, FinishJob
<1>2. /\ ~inHandler /\ heap' = Unref(heap, current) /\ current' = None
      /\ jobs' = jobs /\ held' = held /\ draining' = draining /\ cursor' = cursor
      /\ inHandler' = inHandler
  BY DEF FinishJob
<1>3. Base(held, None) \in Ext /\ Base(held, current) = Plus(Base(held, None), current)
  BY <1>1, BaseChanges
<1>4. Outside = Given(With(Base(held, None), jobs), current)
  BY <1>1, <1>3, WithPlus, NoneAssumption DEF Outside, Given
<1>5. With(Base(held, None), jobs) \in Ext
  BY <1>1, <1>3, WithType
<1>6. /\ heap' \in Heap /\ Exact(heap', With(Base(held, None), jobs))
      /\ Evolves(heap, heap') /\ NoneNew(heap, heap')
  BY <1>1, <1>2, <1>4, <1>5, UnrefGiven
<1>7. TypeOK'
  BY <1>1, <1>2, <1>6 DEF TypeOK, Heap, Ext
<1>8. OneParent(heap')
  BY <1>1, <1>6, OneParentKept
<1>9. NotYetFollowing(heap', current', cursor', inHandler')
  BY <1>1, <1>2, <1>6, NotYetFollowingKept
<1>10. LoopInv(heap', current', cursor', inHandler')
  BY <1>2 DEF LoopInv
<1>11. Exact(heap', Outside')
  BY <1>2, <1>6 DEF Outside
<1> QED BY <1>6, <1>7, <1>8, <1>9, <1>10, <1>11 DEF IInv, Kept

LEMMA CallHandlerKept == ASSUME IInv, CallHandler PROVE Kept
<1>1. /\ heap \in Heap /\ jobs \in Seq(Promise) /\ held \in Ext
      /\ current # None /\ cursor \in DOMAIN heap[current].conts
      /\ OneParent(heap) /\ NotYetFollowing(heap, current, cursor, inHandler)
      /\ LoopInv(heap, current, cursor, inHandler)
      /\ draining \in BOOLEAN /\ cursor \in Nat
      /\ current \in Promise
  BY InvFacts DEF IInv, TypeOK, CallHandler, AtContinuation
<1>2. /\ ~AtCursor.fired /\ ~AtCursor.adopt
      /\ heap' = MarkFired(heap) /\ inHandler' = TRUE
      /\ jobs' = jobs /\ held' = held /\ draining' = draining /\ cursor' = cursor
      /\ current' = current
  BY DEF CallHandler
<1>3. /\ heap' \in Heap /\ Exact(heap', Outside)
      /\ Evolves(heap, heap') /\ NoneNew(heap, heap')
      /\ heap'[current].conts[cursor].fired
      /\ cursor \in DOMAIN heap'[current].conts
  BY <1>1, <1>2, MarkFiredFacts
<1>4. TypeOK'
  BY <1>1, <1>2, <1>3 DEF TypeOK, Heap, Ext
<1>5. OneParent(heap')
  BY <1>1, <1>3, OneParentKept
<1>6. NotYetFollowing(heap, current, cursor, TRUE)
  BY <1>1, <1>2 DEF NotYetFollowing, AtCursor
<1>7. NotYetFollowing(heap', current', cursor', inHandler')
  BY <1>1, <1>2, <1>3, <1>6, NotYetFollowingKept
<1>8. LoopInv(heap', current', cursor', inHandler')
  BY <1>1, <1>2, <1>3 DEF LoopInv, NoneNew, AtCursor
<1>9. Exact(heap', Outside')
  BY <1>2, <1>3 DEF Outside
<1> QED BY <1>3, <1>4, <1>5, <1>7, <1>8, <1>9 DEF IInv, Kept

LEMMA FireNextKept ==
  ASSUME IInv, FireNext
  PROVE  /\ Kept
         /\ Enqueued(MarkFired(heap), heap', AtCursor.child, jobs, jobs')
         /\ NoneNew(MarkFired(heap), heap')
<1>1. /\ heap \in Heap /\ held \in Ext
      /\ current # None /\ cursor \in DOMAIN heap[current].conts
      /\ draining \in BOOLEAN /\ cursor \in Nat
      /\ inHandler \in BOOLEAN /\ ~inHandler
      /\ current \in Promise
  BY InvFacts DEF IInv, TypeOK, FireNext, AtContinuation
<1>2. PICK o \in IF ~Calls(AtCursor.kind, heap[current].state)
                 THEN PassThrough(heap, current)
                 ELSE IF AtCursor.kind = "THEN" THEN Adopted(heap, current)
                 ELSE AdoptedOnCatch(heap, current) :
        SettleAndEnqueue(MarkFired(heap), AtCursor.child, o, None)
  BY DEF FireNext
<1>3. o \in OutcomeRecord
  BY <1>1, <1>2, OutcomeTypes
<1>4. /\ held' = held /\ draining' = draining /\ inHandler' = inHandler
      /\ current' = current /\ cursor' = cursor + 1
  BY DEF FireNext
<1>5. AtCursor.child \in Promise
  BY <1>1, CursorFacts DEF Continuation
<1>6. /\ MarkFired(heap) \in Heap /\ Exact(MarkFired(heap), Given(Outside, None))
      /\ Evolves(heap, MarkFired(heap)) /\ NoneNew(heap, MarkFired(heap))
      /\ Anchored(MarkFired(heap), Outside, AtCursor.child)
  BY <1>1, MarkFiredFacts DEF Given
<1>7. cursor' \in Nat /\ cursor' >= cursor /\ ~inHandler'
      /\ inHandler' \in BOOLEAN /\ draining' \in BOOLEAN
  BY <1>1, <1>4
<1> HIDE DEF Outside
<1>8. Outside = With(Base(held, current), jobs)
  BY DEF Outside
<1> QED BY <1>1, <1>2, <1>3, <1>4, <1>5, <1>6, <1>7, <1>8, KeptBySettling

-----------------------------------------------------------------------------
(* Attaching                                                                 *)

\* A continuation of the adoption adds no parent and awaits no handler.
LEMMA ShapeKeptByAdoptCont ==
  ASSUME NEW h \in Heap, NEW p \in Promise, NEW k \in Kind, NEW x \in Promise,
         NEW cur, NEW n, OneParent(h), NotYetFollowing(h, cur, n, FALSE)
  PROVE  /\ OneParent(AppendCont(h, p, k, TRUE, x))
         /\ NotYetFollowing(AppendCont(h, p, k, TRUE, x), cur, n, FALSE)
<1> DEFINE g == AppendCont(h, p, k, TRUE, x)
           c == NewCont(k, TRUE, x)
<1>1. /\ \A q \in Promise : /\ g[q].following = h[q].following
                            /\ q # p => g[q].conts = h[q].conts
      /\ g[p].conts = Append(h[p].conts, c)
      /\ c \in Continuation /\ c.adopt
  <2>1. c.adopt
    BY DEF NewCont
  <2>2. \A a \in BOOLEAN : \A q \in Promise :
          /\ AppendCont(h, p, k, a, x)[q].following = h[q].following
          /\ q # p => AppendCont(h, p, k, a, x)[q].conts = h[q].conts
    BY AppendContEffect
  <2>3. g[p].conts = Append(h[p].conts, c)
    BY AppendContEffect
  <2>4. c \in Continuation
    BY DEF NewCont, Continuation
  <2>5. \A q \in Promise : /\ g[q].following = h[q].following
                           /\ q # p => g[q].conts = h[q].conts
    BY <2>2
  <2> QED BY <2>1, <2>3, <2>4, <2>5
<1> HIDE DEF g, c
<1>2. \A q \in Promise : \A i \in DOMAIN g[q].conts :
        ~g[q].conts[i].adopt =>
          /\ i \in DOMAIN h[q].conts
          /\ g[q].conts[i] = h[q].conts[i]
          /\ h[q].conts[i].child \in Promise
  <2>1. TAKE q \in Promise
  <2>2. TAKE i \in DOMAIN g[q].conts
  <2>3. \A j \in DOMAIN h[q].conts : h[q].conts[j].child \in Promise
    BY ContType
  <2>4. CASE q # p
    BY <1>1, <2>3, <2>4
  <2>5. CASE q = p
    <3> DEFINE m == Len(h[p].conts) + 1
    <3>1. /\ DOMAIN g[p].conts = 1 .. m /\ DOMAIN h[p].conts = 1 .. Len(h[p].conts)
          /\ \A j \in DOMAIN h[p].conts : g[p].conts[j] = h[p].conts[j]
          /\ g[p].conts[m] = c /\ Len(h[p].conts) \in Nat
      BY <1>1, AppendedCont
    <3>2. i \in DOMAIN h[p].conts \/ i = m
      BY <2>5, <3>1
    <3> QED BY <1>1, <2>3, <2>5, <3>1, <3>2
  <2> QED BY <2>4, <2>5
<1>3. OneParent(g)
  BY <1>2 DEF OneParent
<1>4. NotYetFollowing(g, cur, n, FALSE)
  BY <1>1, <1>2 DEF NotYetFollowing
<1> QED BY <1>3, <1>4 DEF g

\* A continuation of the application has a child nothing refers to yet.
LEMMA ShapeKeptByAttach ==
  ASSUME NEW h \in Heap, NEW p \in Promise, NEW k \in Kind, NEW x \in Promise,
         NEW cur, NEW n \in Nat, NEW run \in BOOLEAN,
         OneParent(h), NotYetFollowing(h, cur, n, run),
         h[x].following = None,
         run => n \in DOMAIN h[cur].conts,
         \A q \in Promise : \A i \in DOMAIN h[q].conts : h[q].conts[i].child # x
  PROVE  /\ OneParent(AppendCont(h, p, k, FALSE, x))
         /\ NotYetFollowing(AppendCont(h, p, k, FALSE, x), cur, n, run)
<1> DEFINE g == AppendCont(h, p, k, FALSE, x)
           c == NewCont(k, FALSE, x)
           m == Len(h[p].conts) + 1
<1>1. /\ \A q \in Promise : /\ g[q].following = h[q].following
                            /\ q # p => g[q].conts = h[q].conts
      /\ g[p].conts = Append(h[p].conts, c)
      /\ c \in Continuation /\ c.child = x
  <2>1. c.child = x
    BY DEF NewCont
  <2>2. \A a \in BOOLEAN : \A q \in Promise :
          /\ AppendCont(h, p, k, a, x)[q].following = h[q].following
          /\ q # p => AppendCont(h, p, k, a, x)[q].conts = h[q].conts
    BY AppendContEffect
  <2>3. g[p].conts = Append(h[p].conts, c)
    BY AppendContEffect
  <2>4. c \in Continuation
    BY DEF NewCont, Continuation
  <2>5. \A q \in Promise : /\ g[q].following = h[q].following
                           /\ q # p => g[q].conts = h[q].conts
    BY <2>2
  <2> QED BY <2>1, <2>3, <2>4, <2>5
<1> HIDE DEF g, c
<1>2. \A q \in Promise : \A i \in DOMAIN g[q].conts :
        \/ /\ i \in DOMAIN h[q].conts
           /\ g[q].conts[i] = h[q].conts[i]
           /\ h[q].conts[i].child \in Promise \ {x}
        \/ q = p /\ i = m /\ g[q].conts[i].child = x
  <2>1. TAKE q \in Promise
  <2>2. TAKE i \in DOMAIN g[q].conts
  <2>3. \A j \in DOMAIN h[q].conts : h[q].conts[j].child \in Promise
    BY ContType
  <2>4. CASE q # p
    BY <1>1, <2>3, <2>4
  <2>5. CASE q = p
    <3>1. /\ DOMAIN g[p].conts = 1 .. m /\ DOMAIN h[p].conts = 1 .. Len(h[p].conts)
          /\ \A j \in DOMAIN h[p].conts : g[p].conts[j] = h[p].conts[j]
          /\ g[p].conts[m] = c /\ Len(h[p].conts) \in Nat
      BY <1>1, AppendedCont
    <3>2. i \in DOMAIN h[p].conts \/ i = m
      BY <2>5, <3>1
    <3> QED BY <1>1, <2>3, <2>5, <3>1, <3>2
  <2> QED BY <2>4, <2>5
<1> HIDE DEF m
<1>3. OneParent(g)
  <2>1. SUFFICES ASSUME NEW q1 \in Promise, NEW q2 \in Promise,
                        NEW i \in DOMAIN g[q1].conts, NEW j \in DOMAIN g[q2].conts,
                        ~g[q1].conts[i].adopt, ~g[q2].conts[j].adopt,
                        g[q1].conts[i].child = g[q2].conts[j].child
                 PROVE  q1 = q2 /\ i = j
    BY DEF OneParent
  <2>2. CASE g[q1].conts[i].child = x
    <3>1. q1 = p /\ i = m
      BY <1>2, <2>2
    <3>2. q2 = p /\ j = m
      BY <1>2, <2>1, <2>2
    <3> QED BY <3>1, <3>2
  <2>3. CASE g[q1].conts[i].child # x
    <3>1. i \in DOMAIN h[q1].conts /\ g[q1].conts[i] = h[q1].conts[i]
      BY <1>2, <2>3
    <3>2. j \in DOMAIN h[q2].conts /\ g[q2].conts[j] = h[q2].conts[j]
      BY <1>2, <2>1, <2>3
    <3> QED BY <2>1, <3>1, <3>2 DEF OneParent
  <2> QED BY <2>2, <2>3
<1>4. NotYetFollowing(g, cur, n, run)
  BY <1>1, <1>2 DEF NotYetFollowing
<1> QED BY <1>3, <1>4 DEF g

LEMMA AttachKept ==
  ASSUME IInv, NEW p \in Promise, NEW k \in Kind, NEW child \in Promise,
         Attach(p, k, child)
  PROVE  Kept
<1> DEFINE h == [heap EXCEPT ![child] = NewPromise("PENDING", None)]
           g == AppendCont(h, p, k, FALSE, child)
<1>1. /\ heap \in Heap /\ jobs \in Seq(Promise) /\ held \in Ext
      /\ Outside \in Ext /\ Exact(heap, Outside) /\ OneParent(heap)
      /\ NotYetFollowing(heap, current, cursor, inHandler)
      /\ LoopInv(heap, current, cursor, inHandler)
      /\ current \in Promise \union {None} /\ cursor \in Nat
      /\ draining \in BOOLEAN /\ inHandler \in BOOLEAN
      /\ heap[p].state \in Live /\ heap[child].state = "unborn" /\ p # child
  BY InvFacts DEF IInv, TypeOK, Attach, Live, Settled
<1>2. /\ heap[child].state \notin Live /\ held[child] = 0
      /\ \A q \in Promise : \A i \in DOMAIN heap[q].conts : heap[q].conts[i].child # child
  <2>1. heap[child].state \notin Live
    BY <1>1 DEF Live, Settled
  <2>2. ~(held[child] > 0)
    BY <2>1, InvFacts DEF Owned
  <2>3. held[child] \in Nat
    BY <1>1 DEF Ext
  <2>4. \A q \in Promise : \A i \in DOMAIN heap[q].conts : heap[q].conts[i].child # child
    BY <1>1, <2>1, ReferredLive
  <2> QED BY <2>1, <2>2, <2>3, <2>4
<1>3. held' = Plus(held, child) /\ held' \in Ext
  BY <1>1, <1>2 DEF Attach, Plus, Ext
<1>4. /\ h \in Heap /\ Exact(h, Plus(Outside, child))
      /\ Evolves(heap, h) /\ NoneNew(heap, h)
      /\ h[p].state \in Live /\ h[child].state \in Live /\ h[child].following = None
      /\ \A q \in Promise : \A i \in DOMAIN h[q].conts : h[q].conts[i].child # child
      /\ \A q \in Promise : h[q].conts = heap[q].conts
  <2>1. h \in Heap /\ Exact(h, Plus(Outside, child)) /\ Evolves(heap, h) /\ NoneNew(heap, h)
    BY <1>1, BirthExact, BirthEvolves DEF Live, Payload
  <2>2. /\ h[child] = NewPromise("PENDING", None)
        /\ \A q \in Promise : q # child => h[q] = heap[q]
    BY <1>1 DEF Heap
  <2>3. h[child].state = "PENDING" /\ h[child].following = None /\ h[child].conts = << >>
    BY <2>2 DEF NewPromise
  <2>4. heap[child].conts = << >>
    BY <1>1, <1>2 DEF Exact, Sound
  <2> HIDE DEF h
  <2> QED BY <1>1, <1>2, <2>1, <2>2, <2>3, <2>4 DEF Live
<1> DEFINE ext == Plus(Outside, child)
<1>5. /\ ext \in Ext
      /\ ext = With(Base(held', current), jobs)
  BY <1>1, <1>3, OutsidePlus, PlusMinus DEF Outside
<1>6. heap' = g \/ heap' = Ref(g, p)
  BY DEF Attach
<1>7. PICK queued \in Alloc("job") :
        IF heap[p].state # "PENDING" /\ queued
        THEN heap' = Ref(g, p) /\ jobs' = Append(jobs, p)
        ELSE heap' = g /\ UNCHANGED jobs
  BY DEF Attach
<1>8. OneParent(h) /\ NotYetFollowing(h, current, cursor, inHandler)
  BY <1>1, <1>4, OneParentKept, NotYetFollowingKept
<1>9. inHandler => cursor \in DOMAIN h[current].conts
  BY <1>1, <1>4, NoneAssumption DEF LoopInv
<1> HIDE DEF h
<1>10. g \in Heap /\ Exact(g, ext) /\ Evolves(h, g)
  BY <1>4, <1>5, AppendContExact, AppendContEvolves
<1>11. OneParent(g) /\ NotYetFollowing(g, current, cursor, inHandler)
  BY <1>1, <1>4, <1>8, <1>9, ShapeKeptByAttach
<1>12. g[p].state \in Live
  BY <1>4, AppendContEffect
<1>13. Evolves(heap, g)
  BY <1>4, <1>10, EvolvesTransitive
<1>14. /\ current' = current /\ cursor' = cursor /\ draining' = draining
       /\ inHandler' = inHandler
  BY DEF Attach, drainVars
<1> HIDE DEF g, ext
<1>15. CASE heap' = g /\ jobs' = jobs
  <2>1. IInv'
    BY <1>1, <1>3, <1>5, <1>10, <1>11, <1>13, <1>14, <1>15, PreservedWithShape
  <2> QED BY <1>13, <1>15, <2>1 DEF Kept
<1>16. CASE heap' = Ref(g, p) /\ jobs' = Append(jobs, p)
  <2>1. heap' \in Heap /\ Exact(heap', Plus(ext, p)) /\ SameButCounts(g, heap')
    BY <1>5, <1>10, <1>12, <1>16, RefExact, RefEffect DEF SameButCounts
  <2>2. Evolves(g, heap') /\ NoneNew(g, heap')
    BY <1>5, <1>10, <2>1, SameEvolves
  <2>3. Plus(ext, p) = With(Base(held', current'), jobs')
    <3>1. Base(held', current) \in Ext
      BY <1>1, <1>3, BaseChanges
    <3> QED BY <1>1, <1>5, <1>14, <1>16, <3>1, WithAppend
  <2>4. OneParent(heap') /\ NotYetFollowing(heap', current, cursor, inHandler)
    BY <1>1, <1>10, <1>11, <2>1, <2>2, OneParentKept, NotYetFollowingKept
  <2>5. Evolves(heap, heap')
    BY <1>13, <2>2, EvolvesTransitive
  <2>6. jobs' \in Seq(Promise)
    BY <1>1, <1>16
  <2>7. IInv'
    BY <1>1, <1>3, <1>14, <2>1, <2>3, <2>4, <2>5, <2>6, PreservedWithShape
  <2> QED BY <2>5, <2>7 DEF Kept
<1> QED BY <1>7, <1>15, <1>16

-----------------------------------------------------------------------------
(* A handler returns                                                         *)

\* The handler that returns was called for a continuation of the application
\* whose child follows no promise.
LEMMA ReturnFacts ==
  ASSUME IInv, inHandler, Returns
  PROVE  /\ heap \in Heap /\ jobs \in Seq(Promise) /\ held \in Ext
         /\ Outside \in Ext /\ Exact(heap, Outside)
         /\ current \in Promise /\ cursor \in DOMAIN heap[current].conts
         /\ AtCursor \in Continuation /\ AtCursor.child \in Promise
         /\ AtCursor.fired /\ ~AtCursor.adopt
         /\ Anchored(heap, Outside, AtCursor.child)
         /\ heap[AtCursor.child].state \in Live
         /\ heap[AtCursor.child].following = None
         /\ Evolves(heap, heap) /\ NoneNew(heap, heap)
         /\ current' = current /\ ~inHandler' /\ inHandler' \in BOOLEAN
         /\ cursor \in Nat /\ cursor' \in Nat /\ cursor' >= cursor
         /\ draining' \in BOOLEAN
<1>1. /\ heap \in Heap /\ jobs \in Seq(Promise) /\ held \in Ext
      /\ Outside \in Ext /\ Exact(heap, Outside)
      /\ draining \in BOOLEAN /\ cursor \in Nat
  BY InvFacts DEF IInv, TypeOK
<1>2. /\ current # None /\ cursor \in DOMAIN heap[current].conts
      /\ AtCursor.fired /\ ~AtCursor.adopt
  BY DEF IInv, LoopInv, AtCursor
<1>3. /\ current \in Promise /\ AtCursor \in Continuation
      /\ Anchored(heap, Outside, AtCursor.child)
      /\ heap[AtCursor.child].state \in Live
  BY <1>2, CursorFacts
<1>4. AtCursor.child \in Promise
  BY <1>3 DEF Continuation
<1>5. heap[AtCursor.child].following = None
  BY <1>2, <1>3 DEF IInv, NotYetFollowing, AtCursor
<1>6. Evolves(heap, heap) /\ NoneNew(heap, heap)
  BY <1>1, SameEvolves DEF SameButCounts
<1>7. current' = current /\ cursor' = cursor + 1 /\ draining' = draining /\ ~inHandler'
  BY DEF Returns
<1>8. inHandler' \in BOOLEAN
  BY Zenon DEF Returns
<1>9. cursor' \in Nat /\ cursor' >= cursor /\ draining' \in BOOLEAN
  BY <1>1, <1>7
<1> QED BY <1>1, <1>2, <1>3, <1>4, <1>5, <1>6, <1>7, <1>8, <1>9

LEMMA KeptByReturn ==
  ASSUME IInv, inHandler, Returns, held' = held, NEW o \in OutcomeRecord,
         SettleAndEnqueue(heap, AtCursor.child, o, None)
  PROVE  /\ Kept
         /\ Enqueued(heap, heap', AtCursor.child, jobs, jobs') /\ NoneNew(heap, heap')
<1>1. Exact(heap, Given(Outside, None))
  BY ReturnFacts DEF Given
<1>2. Outside = With(Base(held, current), jobs)
  BY DEF Outside
<1> QED BY <1>1, <1>2, ReturnFacts, KeptBySettling

LEMMA ReturnResultKept ==
  ASSUME IInv, NEW o \in OutcomeRecord, ReturnResult(o)
  PROVE  /\ Kept
         /\ Enqueued(heap, heap', AtCursor.child, jobs, jobs') /\ NoneNew(heap, heap')
BY KeptByReturn DEF ReturnResult

LEMMA ReturnFinallyKept ==
  ASSUME IInv, ReturnFinally
  PROVE  /\ Kept
         /\ Enqueued(heap, heap', AtCursor.child, jobs, jobs') /\ NoneNew(heap, heap')
<1>1. PICK o \in PassThrough(heap, current) :
        SettleAndEnqueue(heap, AtCursor.child, o, None)
  BY DEF ReturnFinally
<1>2. inHandler /\ Returns /\ held' = held
  BY DEF ReturnFinally
<1>3. o \in OutcomeRecord
  BY <1>1, <1>2, ReturnFacts, OutcomeTypes
<1> QED BY <1>1, <1>2, <1>3, KeptByReturn

-----------------------------------------------------------------------------
(* Adoption                                                                  *)

\* Once the handler has returned, its child may follow a promise: no other
\* continuation of the application has that child.
LEMMA ShapeKeptByFollowing ==
  ASSUME IInv, inHandler, Returns, NEW r \in Promise
  PROVE  /\ OneParent(Following(heap, AtCursor.child, r))
         /\ NotYetFollowing(Following(heap, AtCursor.child, r), current, cursor', FALSE)
<1> DEFINE x == AtCursor.child
           g == Following(heap, x, r)
<1>1. \A q \in Promise : g[q].conts = heap[q].conts
                         /\ g[q].following = IF q = x THEN r ELSE heap[q].following
  BY ReturnFacts, FollowingEffect
<1>2. OneParent(heap) /\ NotYetFollowing(heap, current, cursor, inHandler)
  BY DEF IInv
<1> HIDE DEF g
<1>3. OneParent(g)
  BY <1>1, <1>2 DEF OneParent
<1>4. ASSUME NEW p \in Promise, NEW i \in DOMAIN heap[p].conts,
             ~heap[p].conts[i].adopt, ~heap[p].conts[i].fired
      PROVE  heap[p].conts[i].child # x
  BY <1>2, <1>4, ReturnFacts DEF OneParent, AtCursor
<1>5. NotYetFollowing(g, current, cursor', FALSE)
  <2>1. SUFFICES ASSUME NEW p \in Promise, NEW i \in DOMAIN heap[p].conts,
                        ~heap[p].conts[i].adopt, ~heap[p].conts[i].fired
                 PROVE  g[heap[p].conts[i].child].following = None
    BY <1>1 DEF NotYetFollowing
  <2>2. heap[p].conts[i].child \in Promise
    BY ReturnFacts, ContType
  <2> QED BY <1>1, <1>2, <1>4, <2>1, <2>2 DEF NotYetFollowing
<1> QED BY <1>3, <1>5 DEF g

\* The child follows r through two continuations, and r loses a reference.
LEMMA FollowKept ==
  ASSUME IInv, inHandler, Returns, NEW r \in Promise, held[r] > 0,
         held' = Minus(held, r), heap' = Follow(heap, AtCursor.child, r), jobs' = jobs
  PROVE  /\ Kept
         /\ LET x == AtCursor.child
                h1 == Following(heap, x, r)
                h2 == AppendCont(h1, r, "THEN", TRUE, x)
            IN  /\ h1 \in Heap /\ h2 \in Heap
                /\ AppendCont(h2, r, "CATCH", TRUE, x) \in Heap
<1> DEFINE x == AtCursor.child
           ext == With(Base(held', current), jobs)
           h1 == Following(heap, x, r)
           h2 == AppendCont(h1, r, "THEN", TRUE, x)
           h3 == AppendCont(h2, r, "CATCH", TRUE, x)
<1>1. /\ heap \in Heap /\ jobs \in Seq(Promise) /\ held \in Ext /\ x \in Promise
      /\ current \in Promise /\ Exact(heap, Outside) /\ Outside \in Ext
      /\ heap[x].state \in Live /\ heap[x].following = None
      /\ current' = current /\ ~inHandler' /\ inHandler' \in BOOLEAN
      /\ cursor' \in Nat /\ cursor' >= cursor /\ draining' \in BOOLEAN
  BY ReturnFacts
<1>2. heap[r].state \in Live
  BY InvFacts DEF Owned
<1>3. held' \in Ext /\ held = Plus(held', r)
  BY <1>1, PlusMinus
<1>4. ext \in Ext /\ Outside = Given(ext, r)
  <2>1. Base(held', current) \in Ext
    BY <1>1, <1>3, BaseChanges
  <2> QED BY <1>1, <1>3, <2>1, WithType, OutsidePlus, NoneAssumption DEF Outside, Given
<1>5. h1 \in Heap /\ Exact(h1, Outside) /\ Evolves(heap, h1)
      /\ h1[r].state \in Live /\ h1[x].state \in Live
  BY <1>1, <1>2, FollowingExact, FollowingEvolves, FollowingEffect
<1>6. OneParent(h1) /\ NotYetFollowing(h1, current, cursor', FALSE)
  BY ShapeKeptByFollowing
<1>7. heap' = Unref(h3, r)
  BY DEF Follow
<1>8. "THEN" \in Kind /\ "CATCH" \in Kind /\ TRUE \in BOOLEAN
  BY DEF Kind
<1> HIDE DEF x, ext, h1
<1>9. h2 \in Heap /\ Exact(h2, Outside) /\ Evolves(h1, h2)
      /\ h2[r].state \in Live /\ h2[x].state \in Live
  <2>1. h2 \in Heap /\ Exact(h2, Outside) /\ Evolves(h1, h2)
    BY <1>1, <1>5, <1>8, AppendContExact, AppendContEvolves
  <2>2. \A a \in BOOLEAN : \A q \in Promise :
          AppendCont(h1, r, "THEN", a, x)[q].state = h1[q].state
    BY <1>1, <1>5, <1>8, AppendContEffect
  <2> QED BY <1>1, <1>5, <2>1, <2>2
<1>10. OneParent(h2) /\ NotYetFollowing(h2, current, cursor', FALSE)
  BY <1>1, <1>5, <1>6, <1>8, ShapeKeptByAdoptCont
<1> HIDE DEF h2
<1>11. h3 \in Heap /\ Exact(h3, Outside) /\ Evolves(h2, h3)
  BY <1>1, <1>8, <1>9, AppendContExact, AppendContEvolves
<1>12. OneParent(h3) /\ NotYetFollowing(h3, current, cursor', FALSE)
  BY <1>1, <1>8, <1>9, <1>10, ShapeKeptByAdoptCont
<1> HIDE DEF h3
<1>13. heap' \in Heap /\ Exact(heap', ext) /\ Evolves(h3, heap') /\ NoneNew(h3, heap')
  BY <1>4, <1>7, <1>11, UnrefGiven
<1>14. Evolves(heap, heap')
  BY <1>5, <1>9, <1>11, <1>13, EvolvesTransitive
<1>15. FALSE \in BOOLEAN
  OBVIOUS
<1>16. OneParent(heap') /\ NotYetFollowing(heap', current, cursor', FALSE)
  BY <1>11, <1>12, <1>13, <1>15, OneParentKept, NotYetFollowingKept
<1>17. NotYetFollowing(heap', current, cursor', inHandler')
  BY <1>1, <1>16 DEF NotYetFollowing
<1>18. IInv'
  BY <1>1, <1>3, <1>13, <1>14, <1>16, <1>17, PreservedWithShape DEF ext
<1> QED BY <1>5, <1>9, <1>11, <1>14, <1>18 DEF Kept, h1, h2, h3, x

\* The continuations and the state of every promise are the same.
SameConts(h, g) ==
  \A q \in Promise : g[q].conts = h[q].conts /\ g[q].state = h[q].state

LEMMA ReturnPromiseKept ==
  ASSUME IInv, NEW r \in Promise, ReturnPromise(r)
  PROVE  /\ Kept
         /\ \/ /\ heap' = Follow(heap, AtCursor.child, r) /\ jobs' = jobs
               /\ heap[r].state = "PENDING"
            \/ \E h : /\ SameConts(heap, h)
                     /\ Enqueued(h, heap', AtCursor.child, jobs, jobs')
                     /\ NoneNew(h, heap')
<1> DEFINE x == AtCursor.child
           ext == With(Base(held', current), jobs)
<1>1. /\ inHandler /\ Returns /\ held[r] > 0 /\ held' = Minus(held, r) /\ Adopt(x, r)
  BY DEF ReturnPromise, Owned, Minus
<1>2. /\ heap \in Heap /\ jobs \in Seq(Promise) /\ held \in Ext /\ x \in Promise
      /\ current \in Promise /\ Exact(heap, Outside) /\ Outside \in Ext
      /\ heap[x].state \in Live /\ heap[x].following = None
      /\ Anchored(heap, Outside, x)
      /\ Evolves(heap, heap) /\ NoneNew(heap, heap)
      /\ current' = current /\ ~inHandler' /\ inHandler' \in BOOLEAN
      /\ cursor' \in Nat /\ cursor' >= cursor /\ draining' \in BOOLEAN
  BY <1>1, ReturnFacts
<1>3. heap[r].state \in Live
  BY <1>1, InvFacts DEF Owned
<1>4. held' \in Ext /\ held = Plus(held', r)
  BY <1>1, <1>2, PlusMinus
<1>5. ext \in Ext /\ Outside = Given(ext, r)
  <2>1. Base(held', current) \in Ext
    BY <1>2, <1>4, BaseChanges
  <2> QED BY <1>2, <1>4, <2>1, WithType, OutsidePlus, NoneAssumption DEF Outside, Given
<1>6. Anchored(heap, ext, x)
  <2>1. Base(held', current)[current] > 0
    BY <1>2, <1>4 DEF Base, Ext
  <2>2. JobCount(jobs, current) \in Nat /\ Base(held', current) \in Ext
    BY <1>2, <1>4, JobCountType, BaseChanges
  <2>3. ext[current] > 0
    <3>1. ext[current] = Base(held', current)[current] + JobCount(jobs, current)
      BY <1>2 DEF With
    <3>2. Base(held', current)[current] \in Nat
      BY <1>2, <2>2 DEF Ext
    <3> QED BY <2>1, <2>2, <3>1, <3>2
  <2> QED BY <1>1, <1>2, <2>3, ReturnFacts DEF Anchored, AtCursor
<1>7. CASE heap[x].state # "PENDING"
  <2>1. heap' = Unref(heap, r) /\ jobs' = jobs
    BY <1>1, <1>7 DEF Adopt
  <2> HIDE DEF x, ext
  <2>2. /\ heap' \in Heap /\ Exact(heap', ext)
        /\ Evolves(heap, heap') /\ NoneNew(heap, heap')
    BY <1>2, <1>5, <2>1, UnrefGiven
  <2>3. Exact(heap', With(Base(held', current'), jobs'))
    BY <1>2, <2>1, <2>2 DEF ext
  <2>4. IInv'
    BY <1>2, <1>4, <2>1, <2>2, <2>3, Preserved
  <2>5. Trimmed(heap, heap')
    BY <1>2, <2>1, UnrefEffect
  <2>6. Enqueued(heap, heap', x, jobs, jobs')
    BY <2>1, <2>5 DEF Enqueued, Trimmed, Gone, Blank
  <2> QED BY <2>2, <2>4, <2>6 DEF Kept, SameConts, x
<1>8. CASE heap[x].state = "PENDING" /\ heap[r].state # "PENDING"
  <2>1. PICK o \in Adopted(heap, r) : SettleAndEnqueue(heap, x, o, r)
    BY <1>1, <1>8 DEF Adopt
  <2>2. o \in OutcomeRecord
    BY <1>2, <2>1, OutcomeTypes
  <2>3. Exact(heap, Given(With(Base(held', current), jobs), r))
    BY <1>2, <1>5
  <2> HIDE DEF x
  <2>4. Kept /\ Enqueued(heap, heap', x, jobs, jobs') /\ NoneNew(heap, heap')
    BY <1>2, <1>4, <1>6, <2>1, <2>2, <2>3, KeptBySettling
  <2> QED BY <2>4 DEF SameConts, x
<1>9. CASE heap[x].state = "PENDING" /\ heap[r].state = "PENDING"
  <2>1. \/ heap' = Follow(heap, x, r) /\ jobs' = jobs
        \/ \E o \in CopiedRejection(LibraryError) :
             SettleAndEnqueue(Following(heap, x, r), x, o, r)
    BY <1>1, <1>9 DEF Adopt
  <2>2. CASE heap' = Follow(heap, x, r) /\ jobs' = jobs
    BY <1>1, <1>9, <2>2, FollowKept
  <2>3. ASSUME NEW o \in CopiedRejection(LibraryError),
               SettleAndEnqueue(Following(heap, x, r), x, o, r)
        PROVE  Kept /\ \E h : /\ SameConts(heap, h)
                             /\ Enqueued(h, heap', x, jobs, jobs')
                             /\ NoneNew(h, heap')
    <3> DEFINE h == Following(heap, x, r)
    <3>1. o \in OutcomeRecord
      BY <1>2, <2>3, OutcomeTypes
    <3>2. OneParent(h) /\ NotYetFollowing(h, current, cursor', FALSE)
      BY <1>1, ShapeKeptByFollowing
    <3>3. NotYetFollowing(h, current, cursor', inHandler')
      BY <1>2, <3>2 DEF NotYetFollowing
    <3> HIDE DEF x
    <3>4. h \in Heap /\ Exact(h, Outside) /\ Evolves(heap, h)
      BY <1>2, <1>3, FollowingExact, FollowingEvolves
    <3> HIDE DEF h
    <3>5. Exact(h, Given(With(Base(held', current), jobs), r))
      BY <1>5, <3>4
    <3>6. Anchored(h, ext, x)
      <4>1. \A q \in Promise : h[q].conts = heap[q].conts
        BY <1>2, FollowingEffect DEF h
      <4> QED BY <1>6, <4>1 DEF Anchored
    <3>7. SettleAndEnqueue(h, x, o, r)
      BY <2>3 DEF h
    <3>8. SameConts(heap, h)
      BY <1>2, FollowingEffect DEF h, SameConts
    <3>9. Kept /\ Enqueued(h, heap', x, jobs, jobs') /\ NoneNew(h, heap')
      BY <1>2, <1>4, <3>1, <3>2, <3>3, <3>4, <3>5, <3>6, <3>7, KeptBySettlingWithShape
    <3> QED BY <3>8, <3>9
  <2> QED BY <2>1, <2>2, <2>3
<1> QED BY <1>7, <1>8, <1>9

-----------------------------------------------------------------------------
(* The theorems                                                              *)

LEMMA AppOutcomeTypes ==
  /\ AppOutcomes \subseteq OutcomeRecord /\ Cancelled \in OutcomeRecord
  /\ \A o \in AppOutcomes \union {[state |-> "PENDING", payload |-> None]} :
       o \in [state : Live, payload : Payload]
BY DEF AppOutcomes, Resolved, Rejected, Cancelled, OutcomeRecord, Settled, Live, Payload

LEMMA NextKept == ASSUME IInv, Next PROVE Kept
<1>1. CASE Application
  <2>1. PICK p \in Promise :
          \/ \E o \in AppOutcomes \union {[state |-> "PENDING", payload |-> None]} : Create(p, o)
          \/ \E k \in Attached, child \in Promise : k \in Kind /\ Attach(p, k, child)
          \/ \E o \in AppOutcomes \union {Cancelled} : SettleCall(p, o)
          \/ RefCall(p)
          \/ UnrefCall(p)
    BY <1>1, AttachedAssumption DEF Application, Kind
  <2> QED BY <2>1, AppOutcomeTypes, CreateKept, AttachKept, SettleCallKept,
             RefCallKept, UnrefCallKept
<1>2. CASE HandlerReturns
  BY <1>2, AppOutcomeTypes, ReturnResultKept, ReturnPromiseKept, ReturnFinallyKept
     DEF HandlerReturns
<1>3. CASE BeginDrain
  BY <1>3, BeginDrainKept
<1>4. CASE DrainLoop
  BY <1>4, TakeJobKept, EndDrainKept, SkipFiredKept, CallHandlerKept, FireNextKept,
     FinishJobKept DEF DrainLoop
<1> QED BY <1>1, <1>2, <1>3, <1>4 DEF Next

LEMMA InitInv == ASSUME Init PROVE IInv
<1>1. TypeOK
  <2>1. Blank("unborn") \in PromiseObject
    BY BlankType DEF State
  <2>2. draining \in BOOLEAN /\ inHandler \in BOOLEAN
    BY Zenon DEF Init
  <2>3. heap \in [Promise -> PromiseObject] /\ jobs \in Seq(Promise)
    BY <2>1 DEF Init
  <2>4. current \in Promise \union {None} /\ cursor \in Nat /\ held \in [Promise -> Nat]
    BY DEF Init
  <2> QED BY <2>2, <2>3, <2>4 DEF TypeOK
<1>2. \A p \in Promise : heap[p] = Blank("unborn") /\ heap[p].conts = << >>
                         /\ heap[p].following = None
  BY DEF Init, Blank
<1>3. OneParent(heap) /\ NotYetFollowing(heap, current, cursor, inHandler)
  BY <1>2 DEF OneParent, NotYetFollowing
<1>4. LoopInv(heap, current, cursor, inHandler)
  BY DEF Init, LoopInv
<1>5. ASSUME NEW p \in Promise PROVE Counted(heap, Outside, p) /\ Sound(heap, p)
  <2>1. Outside[p] = 0
    <3>1. {i \in DOMAIN jobs : jobs[i] = p} = {}
      BY DEF Init
    <3>2. JobCount(jobs, p) = 0
      BY <3>1, FS_EmptySet DEF JobCount
    <3>3. Base(held, current)[p] = 0
      BY NoneAssumption DEF Base, Init
    <3> QED BY <3>2, <3>3 DEF Outside, With
  <2>2. RefsFrom(heap, Promise, p) = 0
    <3>1. ContRefs(heap, Promise, p) = {}
      BY <1>2 DEF ContRefs
    <3>2. FollowRefs(heap, Promise, p) = {}
      BY <1>2, NoneAssumption DEF FollowRefs
    <3> QED BY <3>1, <3>2, FS_EmptySet DEF RefsFrom
  <2> QED BY <1>2, <2>1, <2>2 DEF Counted, Sound, Blank, Live, Settled
<1> QED BY <1>1, <1>3, <1>4, <1>5 DEF IInv, Exact

\* The invariant is inductive.
THEOREM Invariance == Spec => []IInv
<1>1. Init => IInv
  BY InitInv
<1>2. IInv /\ [Next]_vars => IInv'
  BY NextKept, KeptByStutter DEF Kept
<1> QED BY <1>1, <1>2, PTL DEF Spec

\* Every field of every promise, the job list and the loop keep their types.
THEOREM TypeCorrect == Spec => []TypeOK
<1>1. IInv => TypeOK
  BY DEF IInv
<1> QED BY <1>1, Invariance, PTL

\* The count of every promise is the number of references on it - of the
\* application, the job list, the drain loop, continuations and adoptions - and a
\* promise is alive exactly as long as there is one: no path of qpromise.c leaks
\* a reference, drops one twice or uses an object after its last one is gone.
THEOREM RefcountsAreExact == Spec => []RefcountsExact
<1>1. IInv => RefcountsExact
  <2> SUFFICES ASSUME IInv, NEW p \in Promise
               PROVE  /\ heap[p].refcount = External(p) + RefsFrom(heap, Promise, p)
                      /\ IsLive(p) <=> heap[p].refcount > 0
    BY DEF RefcountsExact
  <2>1. Counted(heap, Outside, p) /\ Sound(heap, p)
    BY DEF IInv, Exact
  <2>2. Outside[p] = (held[p] + (IF current = p THEN 1 ELSE 0)) + JobCount(jobs, p)
    BY DEF Outside, With, Base
  <2>3. JobCount(jobs, p) = JobRefs(p) /\ JobCount(jobs, p) \in Nat /\ held[p] \in Nat
    BY InvFacts, JobCountType DEF JobCount, JobRefs, Ext
  <2>4. Outside[p] = External(p)
    BY <2>2, <2>3 DEF External
  <2> QED BY <2>1, <2>4 DEF Counted, Sound, IsLive
<1> QED BY <1>1, Invariance, PTL

\* A promise settles at most once, also when a handler settles the promise whose
\* continuations are being run.
THEOREM SettlesAtMostOnce == Spec => SettlesOnce
<1>1. IInv /\ [Next]_vars =>
        [\A p \in Promise : IsSettled(p) =>
           Outcome(heap, p)' = Outcome(heap, p) \/ heap'[p].state = "freed"]_vars
  <2> SUFFICES ASSUME IInv, Next, NEW p \in Promise, IsSettled(p)
               PROVE  Outcome(heap, p)' = Outcome(heap, p) \/ heap'[p].state = "freed"
    OBVIOUS
  <2>1. Evolved(heap, heap', p)
    BY NextKept DEF Kept, Evolves
  <2> QED BY <2>1 DEF Evolved, Gone, IsSettled, Outcome
<1> QED BY <1>1, Invariance, PTL DEF Spec, SettlesOnce

\* No handler is called twice: the loop calls one only for a continuation that
\* had not fired, and nothing makes a continuation unfired.
THEOREM HandlersRunAtMostOnce == Spec => HandlersRunOnce
<1> DEFINE A == /\ inHandler' /\ ~inHandler => ~AtCursor.fired /\ AtCursor'.fired
                /\ \A p \in Promise : heap'[p].state # "freed" =>
                     \A i \in DOMAIN heap[p].conts :
                       /\ i \in DOMAIN heap'[p].conts
                       /\ heap[p].conts[i].fired => heap'[p].conts[i].fired
<1>1. ASSUME IInv, Next PROVE A
  <2>1. inHandler' /\ ~inHandler => CallHandler
    <3>1. CASE Application
      <4>1. ASSUME NEW p \in Promise, NEW o, Create(p, o) PROVE inHandler' = inHandler
        BY <4>1 DEF Create, drainVars
      <4>2. ASSUME NEW p \in Promise, NEW k, NEW child, Attach(p, k, child)
            PROVE  inHandler' = inHandler
        BY <4>2 DEF Attach, drainVars
      <4>3. ASSUME NEW p \in Promise, NEW o, SettleCall(p, o) PROVE inHandler' = inHandler
        BY <4>3 DEF SettleCall, drainVars
      <4>4. ASSUME NEW p \in Promise, RefCall(p) \/ UnrefCall(p) PROVE inHandler' = inHandler
        BY <4>4 DEF RefCall, UnrefCall, drainVars
      <4> QED BY <3>1, <4>1, <4>2, <4>3, <4>4 DEF Application
    <3>2. CASE HandlerReturns
      BY <3>2 DEF HandlerReturns, ReturnResult, ReturnPromise, ReturnFinally
    <3>3. CASE BeginDrain
      BY <3>3 DEF BeginDrain
    <3>4. CASE DrainLoop
      BY <3>4 DEF DrainLoop, TakeJob, EndDrain, SkipFired, FireNext, FinishJob
    <3> QED BY <1>1, <3>1, <3>2, <3>3, <3>4 DEF Next
  <2>2. \A p \in Promise : Evolved(heap, heap', p)
    BY <1>1, NextKept DEF Kept, Evolves
  <2>3. ASSUME CallHandler PROVE ~AtCursor.fired /\ AtCursor'.fired
    <3>1. ~AtCursor.fired /\ cursor \in DOMAIN heap[current].conts /\ heap' = MarkFired(heap)
      BY <2>3 DEF CallHandler, AtContinuation
    <3>2. /\ heap \in [Promise -> PromiseObject]
          /\ current \in Promise
      BY <1>1, <2>3 DEF CallHandler, AtContinuation, IInv, TypeOK
    <3>3. heap[current].conts[cursor] \in Continuation
      BY <3>1, <3>2 DEF PromiseObject
    <3>4. heap'[current] =
            [heap[current] EXCEPT !.conts[cursor] = [@ EXCEPT !.fired = TRUE]]
      BY <3>1, <3>2 DEF MarkFired
    <3>5. heap'[current].conts[cursor] = [heap[current].conts[cursor] EXCEPT !.fired = TRUE]
      BY <3>1, <3>2, <3>4 DEF PromiseObject
    <3>6. heap'[current].conts[cursor].fired
      BY <3>3, <3>5 DEF Continuation
    <3> QED BY <2>3, <3>1, <3>6 DEF CallHandler, AtCursor
  <2> QED BY <1>1, <2>1, <2>2, <2>3 DEF Evolved, Gone
<1>2. IInv /\ [Next]_vars => [A]_vars
  BY <1>1
<1> QED BY <1>2, Invariance, PTL DEF Spec, HandlersRunOnce

-----------------------------------------------------------------------------
(* No wake-up is lost                                                        *)

Woken(h, js, cur, k) ==
  \A p \in Promise : \A i \in DOMAIN h[p].conts :
    h[p].state \in Settled /\ ~h[p].conts[i].fired =>
      \/ \E j \in DOMAIN js : js[j] = p
      \/ cur = p /\ k <= i

\* A promise that settles gets a job, and no other continuation is new.
LEMMA WokenKept ==
  ASSUME NEW h, NEW g, NEW js \in Seq(Promise), NEW ks, NEW p \in Promise,
         NEW cur, NEW k, Woken(h, js, cur, k), NoneNew(h, g),
         Enqueued(h, g, p, js, ks), "job" \notin Failing
  PROVE  Woken(g, ks, cur, k)
<1>1. SUFFICES ASSUME NEW q \in Promise, NEW i \in DOMAIN g[q].conts,
                      g[q].state \in Settled, ~g[q].conts[i].fired
               PROVE  \/ \E j \in DOMAIN ks : ks[j] = q
                      \/ cur = q /\ k <= i
  BY DEF Woken
<1>2. i \in DOMAIN h[q].conts /\ ~h[q].conts[i].fired
  BY <1>1 DEF NoneNew
<1>3. CASE g[q].state = h[q].state
  <2>1. (\E j \in DOMAIN js : js[j] = q) \/ (cur = q /\ k <= i)
    BY <1>1, <1>2, <1>3 DEF Woken
  <2>2. \A j \in DOMAIN js : j \in DOMAIN ks /\ ks[j] = js[j]
    BY DEF Enqueued
  <2> QED BY <2>1, <2>2
<1>4. CASE g[q].state # h[q].state
  <2>1. q = p /\ ks = Append(js, p)
    BY <1>1, <1>4 DEF Enqueued, Gone, Settled
  <2>2. Len(js) + 1 \in DOMAIN ks /\ ks[Len(js) + 1] = q
    BY <2>1
  <2> QED BY <2>2
<1> QED BY <1>3, <1>4

\* The loop moves on from a continuation that has fired.
LEMMA WokenAdvances ==
  ASSUME NEW h \in Heap, NEW js, NEW cur, NEW k \in Nat, Woken(h, js, cur, k),
         cur \in Promise => k \in DOMAIN h[cur].conts /\ h[cur].conts[k].fired
  PROVE  Woken(h, js, cur, k + 1)
<1>1. \A p \in Promise : \A i \in DOMAIN h[p].conts : i \in Nat
  <2>1. \A p \in Promise : h[p].conts \in Seq(Continuation)
    BY DEF Heap, PromiseObject
  <2> QED BY <2>1
<1> QED BY <1>1 DEF Woken

LEMMA SameContsWoken ==
  ASSUME NEW h, NEW g, NEW js, NEW cur, NEW k, Woken(h, js, cur, k), SameConts(h, g)
  PROVE  Woken(g, js, cur, k)
BY DEF Woken, SameConts

\* An adoption appends continuations to a pending promise.
LEMMA FollowWoken ==
  ASSUME NEW h \in Heap, NEW x \in Promise, NEW r \in Promise, h[x].following = None,
         h[r].state = "PENDING", Following(h, x, r) \in Heap,
         NEW js, NEW cur, NEW k, Woken(h, js, cur, k),
         AppendCont(Following(h, x, r), r, "THEN", TRUE, x) \in Heap,
         AppendCont(AppendCont(Following(h, x, r), r, "THEN", TRUE, x),
                    r, "CATCH", TRUE, x) \in Heap
  PROVE  Woken(Follow(h, x, r), js, cur, k)
<1> DEFINE h1 == Following(h, x, r)
           h2 == AppendCont(h1, r, "THEN", TRUE, x)
           h3 == AppendCont(h2, r, "CATCH", TRUE, x)
<1>1. "THEN" \in Kind /\ "CATCH" \in Kind
  BY DEF Kind
<1>2. \A q \in Promise : h1[q].state = h[q].state /\ h1[q].conts = h[q].conts
  BY FollowingEffect
<1>3. h1 \in Heap /\ h2 \in Heap /\ h3 \in Heap
  OBVIOUS
<1>4. Follow(h, x, r) = Unref(h3, r)
  BY DEF Follow
<1> HIDE DEF h1
<1>5. \A q \in Promise : h2[q].state = h1[q].state /\ (q # r => h2[q].conts = h1[q].conts)
  <2>1. \A a \in BOOLEAN : \A q \in Promise :
          /\ AppendCont(h1, r, "THEN", a, x)[q].state = h1[q].state
          /\ q # r => AppendCont(h1, r, "THEN", a, x)[q].conts = h1[q].conts
    BY <1>1, <1>3, AppendContEffect
  <2> QED BY <2>1
<1> HIDE DEF h2
<1>6. \A q \in Promise : h3[q].state = h2[q].state /\ (q # r => h3[q].conts = h2[q].conts)
  <2>1. \A a \in BOOLEAN : \A q \in Promise :
          /\ AppendCont(h2, r, "CATCH", a, x)[q].state = h2[q].state
          /\ q # r => AppendCont(h2, r, "CATCH", a, x)[q].conts = h2[q].conts
    BY <1>1, <1>3, AppendContEffect
  <2> QED BY <2>1
<1> HIDE DEF h3
<1>7. Trimmed(h3, Follow(h, x, r))
  BY <1>3, <1>4, UnrefEffect
<1>8. \A q \in Promise :
        Follow(h, x, r)[q].state \in Settled =>
          /\ q # r /\ h[q].state = Follow(h, x, r)[q].state
          /\ Follow(h, x, r)[q].conts = h[q].conts
  BY <1>2, <1>5, <1>6, <1>7 DEF Trimmed, Blank, Settled
<1> QED BY <1>8 DEF Woken

LEMMA WokenByApplication ==
  ASSUME IInv, Woken(heap, jobs, current, cursor), "job" \notin Failing, Application
  PROVE  Woken(heap', jobs', current', cursor')
<1>1. /\ heap \in Heap /\ jobs \in Seq(Promise) /\ Outside \in Ext /\ Exact(heap, Outside)
  BY InvFacts DEF IInv
<1>2. PICK p \in Promise :
        \/ \E o \in AppOutcomes \union {[state |-> "PENDING", payload |-> None]} : Create(p, o)
        \/ \E k \in Attached, child \in Promise : k \in Kind /\ Attach(p, k, child)
        \/ \E o \in AppOutcomes \union {Cancelled} : SettleCall(p, o)
        \/ RefCall(p)
        \/ UnrefCall(p)
  BY AttachedAssumption DEF Application, Kind
<1>3. ASSUME NEW o, Create(p, o) PROVE Woken(heap', jobs', current', cursor')
  <2>1. heap' = [heap EXCEPT ![p] = NewPromise(o.state, o.payload)]
    BY <1>3 DEF Create
  <2>2. heap'[p].conts = << >> /\ \A q \in Promise : q # p => heap'[q] = heap[q]
    BY <1>1, <2>1 DEF Heap, NewPromise
  <2> QED BY <1>3, <2>2 DEF Woken, Create, drainVars
<1>4. ASSUME NEW k \in Kind, NEW child \in Promise, Attach(p, k, child)
      PROVE  Woken(heap', jobs', current', cursor')
  <2> DEFINE h == [heap EXCEPT ![child] = NewPromise("PENDING", None)]
             g == AppendCont(h, p, k, FALSE, child)
  <2>1. PICK queued \in Alloc("job") :
          IF heap[p].state # "PENDING" /\ queued
          THEN heap' = Ref(g, p) /\ jobs' = Append(jobs, p)
          ELSE heap' = g /\ UNCHANGED jobs
    BY <1>4 DEF Attach
  <2>2. queued
    BY <2>1 DEF Alloc
  <2>3. heap[child].state = "unborn" /\ heap[p].state \in Live /\ p # child
        /\ current' = current /\ cursor' = cursor
    BY <1>4, InvFacts DEF Attach, drainVars, Live, Settled
  <2>4. NewPromise("PENDING", None) \in PromiseObject
    BY DEF NewPromise, PromiseObject, State, Live, Payload
  <2>5. h \in Heap /\ h[p] = heap[p] /\ h[child].conts = << >> /\ h[child].state = "PENDING"
        /\ \A q \in Promise : q # child => h[q] = heap[q]
    BY <1>1, <2>3, <2>4 DEF Heap, NewPromise
  <2> HIDE DEF h
  <2>6. \A a \in BOOLEAN : \A q \in Promise :
          /\ AppendCont(h, p, k, a, child)[q].state = h[q].state
          /\ q # p => AppendCont(h, p, k, a, child)[q].conts = h[q].conts
    BY <2>5, AppendContEffect
  <2>7. \A q \in Promise : g[q].state = h[q].state /\ (q # p => g[q].conts = h[q].conts)
    BY <2>6
  <2>8. g \in Heap
    <3>1. NewCont(k, FALSE, child) \in Continuation
      BY DEF NewCont, Continuation
    <3>2. h[p] \in PromiseObject /\ h[p].conts \in Seq(Continuation)
      BY <2>5 DEF Heap, PromiseObject
    <3>3. Append(h[p].conts, NewCont(k, FALSE, child)) \in Seq(Continuation)
      BY <3>1, <3>2, AppendProperties
    <3>4. [h EXCEPT ![p].conts = Append(@, NewCont(k, FALSE, child))] \in Heap
      BY <2>5, <3>2, <3>3 DEF Heap, PromiseObject
    <3> QED BY <3>4, RefEffect DEF AppendCont
  <2> HIDE DEF g
  <2>9. \A q \in Promise :
          heap'[q].state = g[q].state /\ heap'[q].conts = g[q].conts
    BY <2>1, <2>8, RefEffect
  <2>10. CASE heap[p].state = "PENDING"
    <3>1. jobs' = jobs
      BY <2>1, <2>10
    <3>2. heap'[p].state = "PENDING"
      BY <2>5, <2>7, <2>9, <2>10
    <3>3. \A q \in Promise : heap'[q].state \in Settled =>
            heap[q].state = heap'[q].state /\ heap[q].conts = heap'[q].conts
      BY <2>5, <2>7, <2>9, <3>2 DEF Settled
    <3> QED BY <2>3, <3>1, <3>3 DEF Woken
  <2>11. CASE heap[p].state # "PENDING"
    <3>1. jobs' = Append(jobs, p)
      BY <2>1, <2>2, <2>11
    <3>2. /\ \A j \in DOMAIN jobs : j \in DOMAIN jobs' /\ jobs'[j] = jobs[j]
          /\ \E j \in DOMAIN jobs' : jobs'[j] = p
      <4>1. Len(jobs) + 1 \in DOMAIN jobs' /\ jobs'[Len(jobs) + 1] = p
        BY <1>1, <3>1
      <4>2. \A j \in DOMAIN jobs : j \in DOMAIN jobs' /\ jobs'[j] = jobs[j]
        BY <1>1, <3>1
      <4> QED BY <4>1, <4>2
    <3>3. \A q \in Promise \ {p} : heap'[q].state \in Settled =>
            heap[q].state = heap'[q].state /\ heap[q].conts = heap'[q].conts
      BY <2>5, <2>7, <2>9 DEF Settled
    <3> QED BY <2>3, <3>2, <3>3 DEF Woken
  <2> QED BY <2>10, <2>11
<1>5. ASSUME NEW o \in OutcomeRecord, SettleCall(p, o)
      PROVE  Woken(heap', jobs', current', cursor')
  BY <1>1, <1>5, SettleCallKept, WokenKept DEF SettleCall, drainVars
<1>6. ASSUME RefCall(p) PROVE Woken(heap', jobs', current', cursor')
  <2>1. SameConts(heap, heap')
    BY <1>1, <1>6, RefEffect DEF RefCall, SameConts
  <2> QED BY <1>6, <2>1, SameContsWoken DEF RefCall, drainVars
<1>7. ASSUME UnrefCall(p) PROVE Woken(heap', jobs', current', cursor')
  <2>1. NoneNew(heap, heap') /\ Enqueued(heap, heap', p, jobs, jobs')
    <3>1. Trimmed(heap, heap') /\ NoneNew(heap, heap') /\ jobs' = jobs
      BY <1>1, <1>7, UnrefEffect, UnrefEvolves DEF UnrefCall
    <3> QED BY <3>1 DEF Enqueued, Trimmed, Gone, Blank
  <2> QED BY <1>1, <1>7, <2>1, WokenKept DEF UnrefCall, drainVars
<1> QED BY <1>2, <1>3, <1>4, <1>5, <1>6, <1>7, AppOutcomeTypes

LEMMA WokenByReturn ==
  ASSUME IInv, Woken(heap, jobs, current, cursor), "job" \notin Failing, HandlerReturns
  PROVE  Woken(heap', jobs', current', cursor')
<1>1. inHandler /\ Returns
  BY DEF HandlerReturns, ReturnResult, ReturnPromise, ReturnFinally
<1>2. /\ heap \in Heap /\ jobs \in Seq(Promise) /\ AtCursor.child \in Promise
      /\ current \in Promise /\ cursor \in DOMAIN heap[current].conts
      /\ heap[current].conts[cursor].fired /\ cursor \in Nat
      /\ heap[AtCursor.child].following = None
      /\ current' = current /\ cursor' = cursor + 1
  BY <1>1, ReturnFacts DEF AtCursor, Returns
<1>3. Woken(heap, jobs, current, cursor')
  BY <1>2, WokenAdvances
<1>4. ASSUME NEW h, SameConts(heap, h), NoneNew(h, heap'),
             Enqueued(h, heap', AtCursor.child, jobs, jobs')
      PROVE  Woken(heap', jobs', current', cursor')
  <2>1. Woken(h, jobs, current, cursor')
    BY <1>3, <1>4, SameContsWoken
  <2> QED BY <1>2, <1>4, <2>1, WokenKept
<1>5. SameConts(heap, heap)
  BY DEF SameConts
<1>6. ASSUME NEW o \in AppOutcomes, ReturnResult(o)
      PROVE  Woken(heap', jobs', current', cursor')
  BY <1>4, <1>5, <1>6, AppOutcomeTypes, ReturnResultKept
<1>7. ASSUME ReturnFinally PROVE Woken(heap', jobs', current', cursor')
  BY <1>4, <1>5, <1>7, ReturnFinallyKept
<1>8. ASSUME NEW r \in Promise, ReturnPromise(r)
      PROVE  Woken(heap', jobs', current', cursor')
  <2>1. CASE heap' = Follow(heap, AtCursor.child, r) /\ jobs' = jobs
             /\ heap[r].state = "PENDING"
    <3>1. held[r] > 0 /\ held' = Minus(held, r)
      BY <1>8 DEF ReturnPromise, Owned, Minus
    <3>2. Woken(Follow(heap, AtCursor.child, r), jobs, current, cursor')
      BY <1>1, <1>2, <1>3, <2>1, <3>1, FollowKept, FollowWoken
    <3> QED BY <1>2, <2>1, <3>2
  <2> QED BY <1>4, <1>8, <2>1, ReturnPromiseKept
<1> QED BY <1>6, <1>7, <1>8 DEF HandlerReturns

LEMMA WokenByLoop ==
  ASSUME IInv, Woken(heap, jobs, current, cursor), "job" \notin Failing, DrainLoop
  PROVE  Woken(heap', jobs', current', cursor')
<1>1. /\ heap \in Heap /\ jobs \in Seq(Promise) /\ Outside \in Ext /\ Exact(heap, Outside)
      /\ cursor \in Nat /\ current \in Promise \union {None}
  BY InvFacts DEF IInv, TypeOK
<1>2. CASE TakeJob
  <2>1. \A p \in Promise : (\E j \in DOMAIN jobs : jobs[j] = p) =>
          p = Head(jobs) \/ \E j \in DOMAIN Tail(jobs) : Tail(jobs)[j] = p
    <3> SUFFICES ASSUME NEW p \in Promise, NEW j \in DOMAIN jobs, jobs[j] = p, p # Head(jobs)
                 PROVE  \E l \in DOMAIN Tail(jobs) : Tail(jobs)[l] = p
      OBVIOUS
    <3>1. jobs # << >>
      BY <1>2 DEF TakeJob
    <3>2. j # 1 /\ j \in 1 .. Len(jobs) /\ Len(jobs) \in Nat
      BY <1>1, <3>1
    <3>3. j - 1 \in DOMAIN Tail(jobs) /\ Tail(jobs)[j - 1] = p
      BY <1>1, <3>1, <3>2
    <3> QED BY <3>3
  <2>2. \A p \in Promise : \A i \in DOMAIN heap[p].conts : i >= 1
    <3>1. \A p \in Promise : heap[p].conts \in Seq(Continuation)
      BY <1>1 DEF Heap, PromiseObject
    <3> QED BY <3>1
  <2>3. /\ current = None /\ current' = Head(jobs) /\ jobs' = Tail(jobs)
        /\ cursor' = 1 /\ heap' = heap
    BY <1>2 DEF TakeJob
  <2> QED BY <2>1, <2>2, <2>3, NoneAssumption DEF Woken
<1>3. CASE EndDrain
  BY <1>3 DEF EndDrain
<1>4. CASE SkipFired
  <2>1. Woken(heap, jobs, current, cursor + 1)
    BY <1>1, <1>4, WokenAdvances DEF SkipFired, AtContinuation, AtCursor
  <2> QED BY <1>4, <2>1 DEF SkipFired
<1>5. ASSUME current # None, cursor \in DOMAIN heap[current].conts
      PROVE  /\ Woken(MarkFired(heap), jobs, current, cursor)
             /\ Woken(MarkFired(heap), jobs, current, cursor + 1)
  <2>1. Enqueued(heap, MarkFired(heap), current, jobs, jobs)
    BY <1>5, MarkFiredFacts DEF Enqueued
  <2>2. Woken(MarkFired(heap), jobs, current, cursor)
    BY <1>1, <1>5, <2>1, MarkFiredFacts, WokenKept
  <2> QED BY <1>1, <1>5, <2>2, MarkFiredFacts, WokenAdvances
<1>6. CASE CallHandler
  BY <1>5, <1>6 DEF CallHandler, AtContinuation
<1>7. CASE FireNext
  <2>1. /\ current # None /\ cursor \in DOMAIN heap[current].conts
        /\ current' = current /\ cursor' = cursor + 1
    BY <1>7 DEF FireNext, AtContinuation
  <2>2. AtCursor.child \in Promise
    BY <2>1, CursorFacts DEF Continuation
  <2>3. Woken(MarkFired(heap), jobs, current, cursor')
    BY <1>5, <2>1
  <2> QED BY <1>1, <1>7, <2>1, <2>2, <2>3, FireNextKept, WokenKept
<1>8. CASE FinishJob
  <2>1. /\ current \in Promise /\ cursor >= 1 /\ cursor \notin DOMAIN heap[current].conts
        /\ heap' = Unref(heap, current) /\ jobs' = jobs /\ cursor' = cursor
        /\ current' = None
    BY <1>1, <1>8 DEF FinishJob, IInv, LoopInv
  <2>2. \A i \in DOMAIN heap[current].conts : ~(cursor <= i)
    <3>1. heap[current].conts \in Seq(Continuation)
      BY <1>1, <2>1 DEF Heap, PromiseObject
    <3>2. DOMAIN heap[current].conts = 1 .. Len(heap[current].conts)
          /\ Len(heap[current].conts) \in Nat
      BY <3>1
    <3> QED BY <1>1, <2>1, <3>2
  <2>3. Woken(heap, jobs, None, cursor)
    BY <2>2 DEF Woken
  <2>4. NoneNew(heap, heap') /\ Trimmed(heap, heap')
    BY <1>1, <2>1, UnrefEvolves, UnrefEffect
  <2>5. Enqueued(heap, heap', current, jobs, jobs')
    BY <2>1, <2>4 DEF Enqueued, Trimmed, Gone, Blank
  <2> QED BY <1>1, <2>1, <2>3, <2>4, <2>5, WokenKept
<1> QED BY <1>2, <1>3, <1>4, <1>6, <1>7, <1>8 DEF DrainLoop

\* As long as a job can be allocated for it, no continuation of a settled promise
\* is forgotten: the loop has it ahead, or a job of its promise is queued.  (When
\* the allocation fails, qp_enqueue_fire gives up silently, and it is.)
THEOREM NoWakeupIsLost ==
  ASSUME "job" \notin Failing
  PROVE  Spec => []NoLostWakeup
<1> DEFINE W == Woken(heap, jobs, current, cursor)
<1>1. NoLostWakeup <=> W
  BY DEF NoLostWakeup, Woken, IsSettled
<1>2. Init => W
  BY DEF Init, Woken, Blank
<1>3. IInv /\ W /\ [Next]_vars => W'
  <2>1. ASSUME IInv, W, Next PROVE W'
    <3>1. CASE BeginDrain
      BY <2>1, <3>1 DEF BeginDrain
    <3> QED BY <2>1, <3>1, WokenByApplication, WokenByReturn, WokenByLoop DEF Next
  <2>2. ASSUME W, UNCHANGED vars PROVE W'
    BY <2>2 DEF vars
  <2> QED BY <2>1, <2>2
<1>4. Spec => []W
  <2> HIDE DEF W
  <2> QED BY <1>2, <1>3, Invariance, PTL DEF Spec
<1> QED BY <1>1, <1>4, PTL

-----------------------------------------------------------------------------
(* What one step does to one promise                                         *)

Erased(g, q) == Gone(g, q) /\ g[q].payload = None

\* From h to g, p settles with o if it is pending; objects may be freed.
Settles(h, g, p, o) ==
  \A q \in Promise :
    \/ Erased(g, q)
    \/ /\ g[q].conts = h[q].conts
       /\ IF q = p /\ h[p].state = "PENDING"
          THEN Outcome(g, q) = o /\ g[q].following = None
          ELSE Outcome(g, q) = Outcome(h, q) /\ g[q].following = h[q].following

LEMMA TrimmedErases ==
  ASSUME NEW h, NEW g, Trimmed(h, g), NEW q \in Promise
  PROVE  \/ Erased(g, q)
         \/ /\ Outcome(g, q) = Outcome(h, q) /\ g[q].conts = h[q].conts
            /\ g[q].following = h[q].following
BY DEF Trimmed, Erased, Gone, Blank, Outcome

\* No object refers to q, as none refers to a promise that is not born yet.
Unreferred(h, q) ==
  \A p \in Promise : /\ h[p].following # q
                     /\ \A i \in DOMAIN h[p].conts : h[p].conts[i].child # q

LEMMA UnrefSpares ==
  ASSUME NEW h \in Heap, NEW p \in Promise \union {None}, NEW q \in Promise, q # p,
         Unreferred(h, q)
  PROVE  Outcome(Unref(h, p), q) = Outcome(h, q) /\ Unreferred(Unref(h, p), q)
<1>1. Unreferred(Unref(h, p), q)
  <2>1. Trimmed(h, Unref(h, p))
    BY UnrefEffect
  <2> QED BY <2>1, NoneAssumption DEF Trimmed, Unreferred, Blank
<1>2. CASE p = None \/ h[p].refcount > 1
  BY <1>1, <1>2 DEF Unref, Outcome, Heap, PromiseObject
<1>3. CASE p # None /\ ~(h[p].refcount > 1)
  <2>1. \A S \in SUBSET Promise : RefsFrom(h, S, q) = 0
    <3>1. SUFFICES ASSUME NEW S \in SUBSET Promise PROVE RefsFrom(h, S, q) = 0
      OBVIOUS
    <3>2. ContRefs(h, S, q) = {}
      BY DEF ContRefs, Unreferred
    <3>3. FollowRefs(h, S, q) = {}
      BY DEF FollowRefs, Unreferred
    <3> QED BY <3>2, <3>3, FS_EmptySet DEF RefsFrom
  <2>2. q \notin Destroyed(h, p)
    <3> DEFINE S == Promise \ {q}
    <3>1. p \in S
      BY <1>3
    <3>2. \A x \in Promise : RefsFrom(h, S, x) > 0 => x \in S
      BY <2>1
    <3> HIDE DEF S
    <3>3. q \notin S /\ S \in SUBSET Promise
      BY DEF S
    <3> QED BY <3>1, <3>2, <3>3 DEF Destroyed
  <2>3. Unref(h, p)[q] = [h[q] EXCEPT !.refcount = @ - RefsFrom(h, Destroyed(h, p), q)]
    BY <1>3, <2>2 DEF Unref
  <2> QED BY <1>1, <2>3 DEF Outcome, Heap, PromiseObject
<1> QED BY <1>2, <1>3

LEMMA SettlesTo ==
  ASSUME NEW h \in Heap, NEW p \in Promise, NEW handed \in Promise \union {None},
         NEW o \in OutcomeRecord, SettleAndEnqueue(h, p, o, handed)
  PROVE  /\ Settles(h, heap', p, o)
         /\ jobs' = jobs \/ (jobs' = Append(jobs, p) /\ h[p].state = "PENDING")
         /\ \A q \in Promise : Unreferred(h, q) /\ q # p /\ q # handed =>
              Outcome(heap', q) = Outcome(h, q)
<1>1. CASE h[p].state # "PENDING"
  <2>1. heap' = Unref(h, handed) /\ jobs' = jobs
    BY <1>1 DEF SettleAndEnqueue
  <2>2. Trimmed(h, heap')
    BY <2>1, UnrefEffect
  <2> QED BY <1>1, <2>1, <2>2, TrimmedErases, UnrefSpares DEF Settles
<1>2. CASE h[p].state = "PENDING"
  <2> DEFINE e == [h EXCEPT ![p].state = o.state, ![p].payload = o.payload,
                            ![p].following = None]
             s == Settle(h, p, o)
             r == Ref(s, p)
  <2>1. /\ e \in Heap
        /\ \A q \in Promise :
             /\ e[q].conts = h[q].conts
             /\ e[q].following = IF q = p THEN None ELSE h[q].following
             /\ Outcome(e, q) = IF q = p THEN o ELSE Outcome(h, q)
    <3>1. o.state \in State /\ o.payload \in Payload /\ o = [state |-> o.state, payload |-> o.payload]
      BY DEF OutcomeRecord, State, Live
    <3>2. e \in Heap
      BY <3>1 DEF Heap, PromiseObject
    <3> QED BY <3>1, <3>2 DEF Heap, PromiseObject, Outcome
  <2>2. s = Unref(e, h[p].following) /\ h[p].following \in Promise \union {None}
    BY DEF Settle, Heap, PromiseObject
  <2> HIDE DEF e, s
  <2>3. s \in Heap /\ Trimmed(e, s)
    BY <2>1, <2>2, UnrefEffect
  <2>4. r \in Heap /\ \A q \in Promise : /\ Outcome(r, q) = Outcome(s, q) /\ r[q].conts = s[q].conts
                                          /\ r[q].following = s[q].following
                                          /\ r[q].state = s[q].state /\ r[q].payload = s[q].payload
    BY <2>3, RefEffect DEF Outcome
  <2>5. \/ heap' = Unref(r, handed) /\ jobs' = Append(jobs, p)
        \/ heap' = Unref(s, handed) /\ jobs' = jobs
    BY <1>2 DEF SettleAndEnqueue, s
  <2> HIDE DEF r
  <2>6. Trimmed(r, heap') \/ Trimmed(s, heap')
    BY <2>3, <2>4, <2>5, UnrefEffect
  <2>7. ASSUME NEW q \in Promise
        PROVE  \/ Erased(heap', q)
               \/ /\ heap'[q].conts = h[q].conts
                  /\ IF q = p THEN Outcome(heap', q) = o /\ heap'[q].following = None
                     ELSE Outcome(heap', q) = Outcome(h, q) /\ heap'[q].following = h[q].following
    <3>1. \/ Erased(s, q)
          \/ /\ Outcome(s, q) = Outcome(e, q) /\ s[q].conts = e[q].conts
             /\ s[q].following = e[q].following
      BY <2>3, TrimmedErases
    <3>2. \/ Erased(heap', q)
          \/ /\ Outcome(heap', q) = Outcome(s, q) /\ heap'[q].conts = s[q].conts
             /\ heap'[q].following = s[q].following
      BY <2>4, <2>6, TrimmedErases
    <3>3. Erased(s, q) /\ ~Erased(heap', q) => Erased(heap', q)
      BY <3>2 DEF Erased, Gone, Outcome
    <3> QED BY <2>1, <3>1, <3>2, <3>3
  <2>8. ASSUME NEW q \in Promise, Unreferred(h, q), q # p, q # handed
        PROVE  Outcome(heap', q) = Outcome(h, q)
    <3>1. Unreferred(e, q) /\ q # h[p].following
      BY <2>1, <2>8, NoneAssumption DEF Unreferred
    <3>2. Outcome(s, q) = Outcome(e, q) /\ Unreferred(s, q)
      BY <2>1, <2>2, <3>1, UnrefSpares
    <3>3. Unreferred(r, q)
      BY <2>4, <3>2 DEF Unreferred
    <3>4. Outcome(Unref(s, handed), q) = Outcome(s, q) /\ Outcome(Unref(r, handed), q) = Outcome(r, q)
      BY <2>3, <2>4, <2>8, <3>2, <3>3, UnrefSpares
    <3> QED BY <2>1, <2>4, <2>5, <2>8, <3>2, <3>4
  <2> QED BY <1>2, <2>5, <2>7, <2>8 DEF Settles
<1> QED BY <1>1, <1>2

-----------------------------------------------------------------------------
(* Jobs are those of settled promises                                        *)

Queued(js) == {js[j] : j \in DOMAIN js}

JobsSettled ==
  /\ current # None => heap[current].state \in Settled
  /\ \A p \in Queued(jobs) : heap[p].state \in Settled

\* A promise that is queued, or being run, is alive.
LEMMA QueuedLive ==
  ASSUME NEW h \in Heap, NEW hd \in Ext, NEW cur \in Promise \union {None},
         NEW js \in Seq(Promise), Exact(h, With(Base(hd, cur), js)),
         NEW p \in Promise, p \in Queued(js) \/ p = cur
  PROVE  h[p].state \in Live
<1>1. CASE p = cur
  BY <1>1, CurrentLive, NoneAssumption
<1>2. CASE p \in Queued(js)
  <2>1. JobCount(js, p) \in Nat /\ JobCount(js, p) > 0
    <3>1. /\ IsFiniteSet({i \in DOMAIN js : js[i] = p})
          /\ {i \in DOMAIN js : js[i] = p} # {}
      BY <1>2, JobCountType DEF Queued
    <3>2. Cardinality({i \in DOMAIN js : js[i] = p}) # 0
      BY <3>1, FS_EmptySet
    <3> QED BY <3>2, JobCountType DEF JobCount
  <2>2. Base(hd, cur) \in Ext /\ Base(hd, cur)[p] \in Nat
    BY DEF Base, Ext
  <2>3. With(Base(hd, cur), js)[p] = Base(hd, cur)[p] + JobCount(js, p)
    BY DEF With
  <2>4. With(Base(hd, cur), js)[p] > 0
    BY <2>1, <2>2, <2>3
  <2> QED BY <2>2, <2>4, WithType, ReferredLive
<1> QED BY <1>1, <1>2

-----------------------------------------------------------------------------
(* The moves of a promise                                                    *)

\* A cancelled promise has no payload, and a rejected one has, if the texts of
\* errors can be copied.
Proper(o) ==
  /\ o.state = "CANCELLED" => o.payload = None
  /\ "string" \notin Failing /\ o.state = "REJECTED" => o.payload # None

LEMMA OutcomesProper ==
  /\ \A o \in AppOutcomes \union {Cancelled} : Proper(o)
  /\ \A o \in CopiedRejection(LibraryError) : Proper(o)
  /\ \A h \in Heap, p \in Promise :
       \A o \in PassThrough(h, p) \union Adopted(h, p) \union AdoptedOnCatch(h, p) : Proper(o)
<1>1. /\ Proper(Cancelled) /\ \A v : Proper(Resolved(v))
      /\ \A e : e # None \/ "string" \in Failing => Proper(Rejected(e))
  BY DEF Proper, Cancelled, Resolved, Rejected
<1>2. \A e \in Error \union {LibraryError} : Proper(Rejected(e))
  BY <1>1, NoneAssumption
<1>3. ASSUME NEW e, NEW o \in CopiedRejection(e)
      PROVE  Proper(o)
  <2>1. \/ o = Rejected(IF e = None THEN LibraryError ELSE e)
        \/ "string" \in Failing /\ o \in RejectedUncopied
    BY <1>3 DEF CopiedRejection
  <2>2. (IF e = None THEN LibraryError ELSE e) # None
    BY NoneAssumption
  <2> QED BY <1>1, <2>1, <2>2 DEF RejectedUncopied
<1>4. ASSUME NEW h \in Heap, NEW p \in Promise
      PROVE  \A o \in PassThrough(h, p) \union Adopted(h, p) \union AdoptedOnCatch(h, p) :
               Proper(o)
  <2>1. \A o \in PassThrough(h, p) : Proper(o)
    BY <1>1, <1>3 DEF PassThrough, RejectedUncopied
  <2>2. \A o \in Adopted(h, p) : Proper(o)
    BY <1>1, <1>3 DEF Adopted
  <2>3. \A o \in AdoptedOnCatch(h, p) : Proper(o)
    BY <1>1, NoneAssumption DEF AdoptedOnCatch
  <2> QED BY <2>1, <2>2, <2>3
<1>5. \A o \in AppOutcomes : Proper(o)
  BY <1>1, <1>2 DEF AppOutcomes
<1> QED BY <1>1, <1>3, <1>4, <1>5

FreedNow(q) == Erased(heap', q) /\ heap[q].state # "unborn"

Still(q) == Outcome(heap', q) = Outcome(heap, q) /\ heap'[q].conts = heap[q].conts

Newborn(x) == heap[x].state = "unborn" /\ heap'[x].conts = << >>

BornNow(q) ==
  /\ heap[q].state = "unborn" /\ heap'[q].state \in Live
  /\ heap'[q].conts = << >> /\ heap[q].conts = << >>
  /\ heap'[q].state = "PENDING" => heap'[q].payload = None
  /\ Proper(Outcome(heap', q))

SettledNow(q) ==
  /\ heap[q].state = "PENDING" /\ heap'[q].state \in Settled
  /\ heap'[q].conts = heap[q].conts /\ Proper(Outcome(heap', q))

\* The child of a continuation that no adoption attached is born with it.
Grown(q) ==
  /\ heap[q].state \in Live /\ Outcome(heap', q) = Outcome(heap, q)
  /\ \E c, d \in Continuation :
       /\ ~c.fired /\ ~d.fired
       /\ c.adopt => c.kind # "FINALLY"
       /\ d.adopt => d.kind # "FINALLY"
       /\ \/ heap'[q].conts = Append(heap[q].conts, c) /\ Newborn(c.child)
          \/ heap'[q].conts = Append(Append(heap[q].conts, c), d) /\ c.adopt /\ d.adopt

FiredNow(q) ==
  /\ q = current /\ ~inHandler /\ cursor \in DOMAIN heap[q].conts
  /\ current' = current /\ (cursor' = cursor + 1 \/ (inHandler' /\ cursor' = cursor))
  /\ Outcome(heap', q) = Outcome(heap, q)
  /\ ~heap[q].conts[cursor].fired
  /\ heap'[q].conts = [heap[q].conts EXCEPT ![cursor].fired = TRUE]

Moves(q) ==
  FreedNow(q) \/ Still(q) \/ BornNow(q) \/ SettledNow(q) \/ Grown(q) \/ FiredNow(q)

\* A promise that is not born is referred to by nothing.
LEMMA UnbornFacts ==
  ASSUME IInv, NEW q \in Promise, heap[q].state = "unborn"
  PROVE  /\ Unreferred(heap, q) /\ ~Owned(q) /\ q # current /\ heap[q].conts = << >>
         /\ heap[q].following = None
<1>1. /\ heap \in Heap /\ Outside \in Ext /\ Exact(heap, Outside)
      /\ heap[q].state \notin Live
  BY InvFacts DEF IInv, Live, Settled
<1>2. Unreferred(heap, q)
  BY <1>1, ReferredLive DEF Unreferred
<1>3. ~Owned(q) /\ q # current
  BY <1>1, InvFacts, NoneAssumption
<1> QED BY <1>1, <1>2, <1>3 DEF Exact, Sound

LEMMA TrimmedMoves ==
  ASSUME IInv, NEW p \in Promise, Outside[p] > 0, heap' = Unref(heap, p)
  PROVE  \A q \in Promise : Moves(q)
<1>1. heap \in Heap /\ heap[p].state \in Live /\ Outside \in Ext /\ Exact(heap, Outside)
  BY InvFacts, ReferredLive DEF IInv
<1>2. Trimmed(heap, heap')
  BY <1>1, UnrefEffect
<1>3. SUFFICES ASSUME NEW q \in Promise PROVE Moves(q)
  OBVIOUS
<1>4. CASE heap[q].state = "unborn"
  <2>1. q # p /\ Unreferred(heap, q) /\ heap[q].conts = << >>
    BY <1>1, <1>4, UnbornFacts DEF Live, Settled
  <2>2. Outcome(heap', q) = Outcome(heap, q)
    BY <1>1, <2>1, UnrefSpares
  <2>3. heap'[q].conts = << >>
    BY <1>2, <2>1 DEF Trimmed, Blank
  <2> QED BY <2>1, <2>2, <2>3 DEF Moves, Still
<1>5. CASE heap[q].state # "unborn"
  BY <1>2, <1>5, TrimmedErases DEF Moves, Still, FreedNow
<1> QED BY <1>4, <1>5

\* What SettleAndEnqueue does to one promise, on a heap with these outcomes.
LEMMA SettlingMoves ==
  ASSUME IInv, NEW h \in Heap, NEW p \in Promise, NEW handed \in Promise \union {None},
         NEW o \in OutcomeRecord, SettleAndEnqueue(h, p, o, handed),
         \A q \in Promise : Outcome(h, q) = Outcome(heap, q),
         \A q \in Promise : heap[q].state = "unborn" =>
           Unreferred(h, q) /\ q # p /\ q # handed,
         NEW q \in Promise
  PROVE  \/ FreedNow(q)
         \/ /\ heap'[q].conts = h[q].conts
            /\ \/ Outcome(heap', q) = Outcome(heap, q)
               \/ q = p /\ heap[p].state = "PENDING" /\ Outcome(heap', q) = o
<1>1. /\ Settles(h, heap', p, o)
      /\ Unreferred(h, q) /\ q # p /\ q # handed => Outcome(heap', q) = Outcome(h, q)
  BY SettlesTo
<1>2. h[p].state = heap[p].state
  BY DEF Outcome
<1>3. CASE heap[q].state = "unborn"
  <2>1. heap'[q].state = "unborn"
    BY <1>1, <1>3 DEF Outcome
  <2> QED BY <1>1, <1>2, <1>3, <2>1 DEF Settles, Erased, Gone
<1>4. CASE heap[q].state # "unborn"
  BY <1>1, <1>2, <1>4 DEF Settles, FreedNow
<1> QED BY <1>3, <1>4

\* The same when the continuations are those of the present heap.
LEMMA SettlingMovesAll ==
  ASSUME IInv, NEW h \in Heap, NEW p \in Promise, NEW handed \in Promise \union {None},
         NEW o \in OutcomeRecord, Proper(o), SettleAndEnqueue(h, p, o, handed),
         \A q \in Promise : Outcome(h, q) = Outcome(heap, q) /\ h[q].conts = heap[q].conts,
         \A q \in Promise : heap[q].state = "unborn" =>
           Unreferred(h, q) /\ q # p /\ q # handed,
         NEW q \in Promise
  PROVE  Moves(q)
<1>1. \/ FreedNow(q)
      \/ /\ heap'[q].conts = heap[q].conts
         /\ \/ Outcome(heap', q) = Outcome(heap, q)
            \/ heap[q].state = "PENDING" /\ Outcome(heap', q) = o
  BY SettlingMoves
<1>2. Outcome(heap', q) = o => heap'[q].state \in Settled
  BY DEF Outcome, OutcomeRecord
<1> QED BY <1>1, <1>2 DEF Moves, Still, SettledNow

LEMMA AttachMoves ==
  ASSUME IInv, NEW p \in Promise, NEW k \in Kind, NEW child \in Promise,
         Attach(p, k, child)
  PROVE  \A q \in Promise : Moves(q)
<1> DEFINE h == [heap EXCEPT ![child] = NewPromise("PENDING", None)]
           g == AppendCont(h, p, k, FALSE, child)
           c == NewCont(k, FALSE, child)
<1>1. /\ heap \in Heap /\ heap[p].state \in Live /\ heap[child].state = "unborn" /\ p # child
      /\ heap[child].conts = << >>
  BY InvFacts, UnbornFacts DEF IInv, Attach, Live, Settled
<1>2. NewPromise("PENDING", None) \in PromiseObject
  BY DEF NewPromise, PromiseObject, State, Live, Payload
<1>3. /\ h \in Heap /\ h[child].conts = << >> /\ h[child].state = "PENDING"
      /\ h[child].payload = None /\ \A q \in Promise : q # child => h[q] = heap[q]
  BY <1>1, <1>2 DEF Heap, NewPromise
<1> HIDE DEF h
<1>4. /\ c \in Continuation /\ ~c.fired /\ ~c.adopt /\ c.child = child
      /\ \A q \in Promise : /\ g[q].state = h[q].state /\ g[q].payload = h[q].payload
                            /\ q # p => g[q].conts = h[q].conts
      /\ g[p].conts = Append(h[p].conts, c)
  <2>1. c \in Continuation /\ c.fired = FALSE /\ c.adopt = FALSE /\ c.child = child
    BY DEF NewCont, Continuation
  <2>2. \A a \in BOOLEAN :
          /\ \A q \in Promise :
               /\ AppendCont(h, p, k, a, child)[q].state = h[q].state
               /\ AppendCont(h, p, k, a, child)[q].payload = h[q].payload
               /\ q # p => AppendCont(h, p, k, a, child)[q].conts = h[q].conts
          /\ AppendCont(h, p, k, a, child)[p].conts = Append(h[p].conts, NewCont(k, a, child))
    BY <1>3, AppendContEffect
  <2> QED BY <2>1, <2>2
<1>5. g \in Heap
  <2>1. h[p] \in PromiseObject /\ h[p].conts \in Seq(Continuation)
    BY <1>3 DEF Heap, PromiseObject
  <2>2. Append(h[p].conts, c) \in Seq(Continuation)
    BY <1>4, <2>1, AppendProperties
  <2>3. [h EXCEPT ![p].conts = Append(@, c)] \in Heap
    BY <1>3, <2>1, <2>2 DEF Heap, PromiseObject
  <2> QED BY <2>3, RefEffect DEF AppendCont
<1>6. heap' = g \/ heap' = Ref(g, p)
  BY DEF Attach, h
<1> HIDE DEF g, c
<1>7. \A q \in Promise : /\ heap'[q].state = g[q].state /\ heap'[q].payload = g[q].payload
                         /\ heap'[q].conts = g[q].conts
  BY <1>5, <1>6, RefEffect
<1>8. BornNow(child)
  <2>1. /\ heap'[child].state = "PENDING" /\ heap'[child].payload = None
        /\ heap'[child].conts = << >>
    BY <1>1, <1>3, <1>4, <1>7
  <2> QED BY <1>1, <2>1 DEF BornNow, Live, Proper, Outcome
<1>9. Grown(p)
  BY <1>1, <1>3, <1>4, <1>7 DEF Grown, Newborn, Outcome
<1>10. \A q \in Promise : q # p /\ q # child => Still(q)
  BY <1>1, <1>3, <1>4, <1>7 DEF Still, Outcome
<1> QED BY <1>8, <1>9, <1>10 DEF Moves

LEMMA ApplicationMoves ==
  ASSUME IInv, Application
  PROVE  \A q \in Promise : Moves(q)
<1>1. /\ heap \in Heap /\ Outside \in Ext /\ Exact(heap, Outside)
  BY InvFacts DEF IInv
<1>2. PICK p \in Promise :
        \/ \E o \in AppOutcomes \union {[state |-> "PENDING", payload |-> None]} : Create(p, o)
        \/ \E k \in Attached, child \in Promise : k \in Kind /\ Attach(p, k, child)
        \/ \E o \in AppOutcomes \union {Cancelled} : SettleCall(p, o)
        \/ RefCall(p)
        \/ UnrefCall(p)
  BY AttachedAssumption DEF Application, Kind
<1>3. ASSUME NEW o \in AppOutcomes \union {[state |-> "PENDING", payload |-> None]},
             Create(p, o)
      PROVE  \A q \in Promise : Moves(q)
  <2>1. heap[p].state = "unborn" /\ heap' = [heap EXCEPT ![p] = NewPromise(o.state, o.payload)]
    BY <1>3 DEF Create
  <2>2. /\ heap'[p].conts = << >> /\ heap'[p].state = o.state /\ heap'[p].payload = o.payload
        /\ \A q \in Promise : q # p => heap'[q] = heap[q]
    BY <1>1, <2>1 DEF Heap, NewPromise
  <2>3. o.state \in Live /\ (o.state = "PENDING" => o.payload = None) /\ Proper(o)
    <3>1. o \in AppOutcomes => o \in OutcomeRecord /\ Proper(o)
      BY AppOutcomeTypes, OutcomesProper
    <3> QED BY <3>1 DEF OutcomeRecord, Live, Settled, Proper
  <2>4. BornNow(p)
    BY <2>1, <2>2, <2>3, UnbornFacts DEF BornNow, Proper, Outcome
  <2> QED BY <2>2, <2>4 DEF Moves, Still, Outcome
<1>4. ASSUME NEW o \in AppOutcomes \union {Cancelled}, SettleCall(p, o)
      PROVE  \A q \in Promise : Moves(q)
  <2>1. heap[p].state = "PENDING" /\ SettleAndEnqueue(heap, p, o, None)
    BY <1>4 DEF SettleCall
  <2>2. o \in OutcomeRecord /\ Proper(o)
    BY AppOutcomeTypes, OutcomesProper
  <2>3. \A q \in Promise : heap[q].state = "unborn" => Unreferred(heap, q) /\ q # p /\ q # None
    BY <2>1, UnbornFacts, NoneAssumption
  <2> QED BY <1>1, <2>1, <2>2, <2>3, SettlingMovesAll
<1>5. CASE RefCall(p)
  BY <1>1, <1>5, RefEffect DEF RefCall, Moves, Still, Outcome
<1>6. CASE UnrefCall(p)
  BY <1>6, InvFacts, TrimmedMoves DEF UnrefCall
<1> QED BY <1>2, <1>3, <1>4, <1>5, <1>6, AttachMoves

LEMMA FollowMoves ==
  ASSUME IInv, inHandler, Returns, NEW r \in Promise, held[r] > 0,
         held' = Minus(held, r), heap' = Follow(heap, AtCursor.child, r), jobs' = jobs
  PROVE  \A q \in Promise : Moves(q)
<1> DEFINE x == AtCursor.child
           h1 == Following(heap, x, r)
           h2 == AppendCont(h1, r, "THEN", TRUE, x)
           h3 == AppendCont(h2, r, "CATCH", TRUE, x)
           c == NewCont("THEN", TRUE, x)
           d == NewCont("CATCH", TRUE, x)
<1>1. /\ heap \in Heap /\ x \in Promise /\ heap[x].state \in Live /\ heap[x].following = None
  BY ReturnFacts
<1>2. heap[r].state \in Live
  BY InvFacts DEF Owned
<1>3. h1 \in Heap /\ h2 \in Heap /\ h3 \in Heap
  BY FollowKept
<1>4. heap' = Unref(h3, r)
  BY DEF Follow
<1>5. "THEN" \in Kind /\ "CATCH" \in Kind
  BY DEF Kind
<1>6. \A q \in Promise : /\ h1[q].state = heap[q].state /\ h1[q].payload = heap[q].payload
                         /\ h1[q].conts = heap[q].conts
                         /\ h1[q].following = IF q = x THEN r ELSE heap[q].following
  BY <1>1, FollowingEffect
<1>c. /\ c \in Continuation /\ d \in Continuation /\ ~c.fired /\ ~d.fired
      /\ c.child = x /\ d.child = x /\ c.kind # "FINALLY" /\ d.kind # "FINALLY"
      /\ c.adopt /\ d.adopt
  BY <1>1, <1>5 DEF NewCont, Continuation
<1> HIDE DEF x, h1
<1>7. /\ \A q \in Promise : /\ h2[q].state = h1[q].state /\ h2[q].payload = h1[q].payload
                            /\ h2[q].following = h1[q].following
                            /\ q # r => h2[q].conts = h1[q].conts
      /\ h2[r].conts = Append(h1[r].conts, c)
  <2>1. \A a \in BOOLEAN : LET g == AppendCont(h1, r, "THEN", a, x) IN
          /\ \A q \in Promise : /\ g[q].state = h1[q].state /\ g[q].payload = h1[q].payload
                                /\ g[q].following = h1[q].following
                                /\ q # r => g[q].conts = h1[q].conts
          /\ g[r].conts = Append(h1[r].conts, NewCont("THEN", a, x))
    BY <1>1, <1>3, <1>5, AppendContEffect
  <2> QED BY <2>1
<1> HIDE DEF h2
<1>8. /\ \A q \in Promise : /\ h3[q].state = h2[q].state /\ h3[q].payload = h2[q].payload
                            /\ h3[q].following = h2[q].following
                            /\ q # r => h3[q].conts = h2[q].conts
      /\ h3[r].conts = Append(h2[r].conts, d)
  <2>1. \A a \in BOOLEAN : LET g == AppendCont(h2, r, "CATCH", a, x) IN
          /\ \A q \in Promise : /\ g[q].state = h2[q].state /\ g[q].payload = h2[q].payload
                                /\ g[q].following = h2[q].following
                                /\ q # r => g[q].conts = h2[q].conts
          /\ g[r].conts = Append(h2[r].conts, NewCont("CATCH", a, x))
    BY <1>1, <1>3, <1>5, AppendContEffect
  <2> QED BY <2>1
<1> HIDE DEF h3, c, d
<1>9. Trimmed(h3, heap')
  BY <1>3, <1>4, UnrefEffect
<1>10. ASSUME NEW q \in Promise, heap[q].state = "unborn"
       PROVE  Still(q)
  <2>1. Unreferred(heap, q) /\ q # r /\ q # x /\ heap[q].conts = << >>
    BY <1>1, <1>2, <1>10, UnbornFacts DEF Live, Settled
  <2>2. Unreferred(h3, q)
    <3>1. \A p \in Promise : h3[p].following # q
      BY <1>6, <1>7, <1>8, <2>1 DEF Unreferred
    <3>2. \A p \in Promise \ {r} : \A i \in DOMAIN h3[p].conts : h3[p].conts[i].child # q
      BY <1>6, <1>7, <1>8, <2>1 DEF Unreferred
    <3>3. \A i \in DOMAIN h3[r].conts : h3[r].conts[i].child # q
      <4>1. \A i \in DOMAIN heap[r].conts : heap[r].conts[i].child # q
        BY <2>1 DEF Unreferred
      <4>2. \A i \in DOMAIN h2[r].conts : h2[r].conts[i].child # q
        BY <1>3, <1>6, <1>7, <1>c, <2>1, <4>1, AppendedCont
      <4> QED BY <1>3, <1>8, <1>c, <2>1, <4>2, AppendedCont
    <3> QED BY <3>1, <3>2, <3>3 DEF Unreferred
  <2>3. Outcome(heap', q) = Outcome(h3, q)
    BY <1>3, <1>4, <2>1, <2>2, UnrefSpares
  <2>4. heap'[q].conts = << >>
    BY <1>6, <1>7, <1>8, <1>9, <2>1 DEF Trimmed, Blank
  <2> QED BY <1>6, <1>7, <1>8, <2>1, <2>3, <2>4 DEF Still, Outcome
<1>11. ASSUME NEW q \in Promise, heap[q].state # "unborn"
       PROVE  FreedNow(q) \/ Still(q) \/ Grown(q)
  <2>1. \/ Erased(heap', q)
        \/ Outcome(heap', q) = Outcome(h3, q) /\ heap'[q].conts = h3[q].conts
    BY <1>9, TrimmedErases
  <2>2. Outcome(h3, q) = Outcome(heap, q)
    BY <1>6, <1>7, <1>8 DEF Outcome
  <2>3. CASE q # r
    BY <1>6, <1>7, <1>8, <1>11, <2>1, <2>2, <2>3 DEF FreedNow, Still
  <2>4. CASE q = r
    <3>1. h3[q].conts = Append(Append(heap[q].conts, c), d)
      BY <1>6, <1>7, <1>8, <2>4
    <3> QED BY <1>2, <1>c, <1>11, <2>1, <2>2, <2>4, <3>1 DEF FreedNow, Grown
  <2> QED BY <2>3, <2>4
<1> QED BY <1>10, <1>11 DEF Moves

LEMMA ReturnMoves ==
  ASSUME IInv, HandlerReturns
  PROVE  \A q \in Promise : Moves(q)
<1>1. inHandler /\ Returns
  BY DEF HandlerReturns, ReturnResult, ReturnPromise, ReturnFinally
<1>2. /\ heap \in Heap /\ Outside \in Ext /\ Exact(heap, Outside)
      /\ AtCursor.child \in Promise /\ heap[AtCursor.child].state \in Live
      /\ heap[AtCursor.child].following = None /\ current \in Promise
  BY <1>1, ReturnFacts
<1>3. ASSUME NEW o \in OutcomeRecord, Proper(o), NEW handed \in Promise \union {None},
             handed \in Promise => Owned(handed), SettleAndEnqueue(heap, AtCursor.child, o, handed)
      PROVE  \A q \in Promise : Moves(q)
  <2>1. \A q \in Promise : heap[q].state = "unborn" =>
          Unreferred(heap, q) /\ q # AtCursor.child /\ q # handed
    BY <1>2, <1>3, UnbornFacts, NoneAssumption DEF Live, Settled
  <2> QED BY <1>2, <1>3, <2>1, SettlingMovesAll
<1>4. ASSUME NEW o \in AppOutcomes, ReturnResult(o)
      PROVE  \A q \in Promise : Moves(q)
  BY <1>3, <1>4, AppOutcomeTypes, OutcomesProper, NoneAssumption DEF ReturnResult
<1>5. CASE ReturnFinally
  <2>1. PICK o \in PassThrough(heap, current) : SettleAndEnqueue(heap, AtCursor.child, o, None)
    BY <1>5 DEF ReturnFinally
  <2>2. o \in OutcomeRecord /\ Proper(o)
    BY <1>2, <2>1, OutcomeTypes, OutcomesProper
  <2> QED BY <1>3, <2>1, <2>2, NoneAssumption
<1>6. ASSUME NEW r \in Promise, ReturnPromise(r)
      PROVE  \A q \in Promise : Moves(q)
  <2> DEFINE x == AtCursor.child
  <2>1. held[r] > 0 /\ held' = Minus(held, r) /\ Adopt(x, r) /\ Outside[r] > 0
        /\ heap[r].state \in Live
    BY <1>6, InvFacts DEF ReturnPromise, Owned, Minus
  <2>2. CASE heap[x].state # "PENDING"
    BY <2>1, <2>2, TrimmedMoves DEF Adopt
  <2>3. CASE heap[x].state = "PENDING" /\ heap[r].state # "PENDING"
    <3>1. PICK o \in Adopted(heap, r) : SettleAndEnqueue(heap, x, o, r)
      BY <2>1, <2>3 DEF Adopt
    <3>2. o \in OutcomeRecord /\ Proper(o)
      BY <1>2, <3>1, OutcomeTypes, OutcomesProper
    <3> QED BY <1>3, <2>1, <3>1, <3>2 DEF Owned
  <2>4. CASE heap[x].state = "PENDING" /\ heap[r].state = "PENDING"
    <3>1. \/ heap' = Follow(heap, x, r) /\ jobs' = jobs
          \/ \E o \in CopiedRejection(LibraryError) :
               SettleAndEnqueue(Following(heap, x, r), x, o, r)
      BY <2>1, <2>4 DEF Adopt
    <3>2. CASE heap' = Follow(heap, x, r) /\ jobs' = jobs
      BY <1>1, <2>1, <3>2, FollowMoves
    <3>3. ASSUME NEW o \in CopiedRejection(LibraryError),
                 SettleAndEnqueue(Following(heap, x, r), x, o, r)
          PROVE  \A q \in Promise : Moves(q)
      <4> DEFINE h == Following(heap, x, r)
      <4>1. o \in OutcomeRecord /\ Proper(o)
        BY <1>2, <3>3, OutcomeTypes, OutcomesProper
      <4>2. h \in Heap
        BY <1>2, <2>1, FollowingExact
      <4>3. \A q \in Promise : /\ h[q].state = heap[q].state /\ h[q].payload = heap[q].payload
                               /\ h[q].conts = heap[q].conts
                               /\ h[q].following = IF q = x THEN r ELSE heap[q].following
        BY <1>2, FollowingEffect
      <4>4. SettleAndEnqueue(h, x, o, r)
        BY <3>3
      <4> HIDE DEF h, x
      <4>5. \A q \in Promise : heap[q].state = "unborn" => Unreferred(h, q) /\ q # x /\ q # r
        <5>1. \A q \in Promise : heap[q].state = "unborn" =>
                Unreferred(heap, q) /\ q # x /\ q # r
          BY <1>2, <2>1, UnbornFacts DEF x, Live, Settled
        <5> QED BY <4>3, <5>1 DEF Unreferred
      <4>6. \A q \in Promise : Outcome(h, q) = Outcome(heap, q) /\ h[q].conts = heap[q].conts
        BY <4>3 DEF Outcome
      <4>7. x \in Promise
        BY <1>2 DEF x
      <4> QED BY <4>1, <4>2, <4>4, <4>5, <4>6, <4>7, SettlingMovesAll
    <3> QED BY <3>1, <3>2, <3>3
  <2> QED BY <2>2, <2>3, <2>4
<1> QED BY <1>4, <1>5, <1>6 DEF HandlerReturns

\* Marking a continuation fired touches nothing but the mark.
LEMMA MarkFiredOnly ==
  ASSUME IInv, current # None, cursor \in DOMAIN heap[current].conts
  PROVE  /\ \A q \in Promise : /\ Outcome(MarkFired(heap), q) = Outcome(heap, q)
                               /\ MarkFired(heap)[q].following = heap[q].following
                               /\ q # current => MarkFired(heap)[q].conts = heap[q].conts
         /\ MarkFired(heap)[current].conts =
              [heap[current].conts EXCEPT ![cursor].fired = TRUE]
         /\ \A q \in Promise : heap[q].state = "unborn" => Unreferred(MarkFired(heap), q)
<1>1. heap \in Heap /\ current \in Promise
  BY InvFacts DEF IInv
<1>2. MarkFired(heap) =
        [heap EXCEPT ![current].conts = [heap[current].conts EXCEPT ![cursor].fired = TRUE]]
  BY <1>1 DEF MarkFired, Heap, PromiseObject
<1>3. \A q \in Promise : MarkFired(heap)[q] =
        IF q = current
        THEN [heap[current] EXCEPT !.conts = [heap[current].conts EXCEPT ![cursor].fired = TRUE]]
        ELSE heap[q]
  BY <1>1, <1>2 DEF Heap
<1>4. \A q \in Promise :
        /\ MarkFired(heap)[q].state = heap[q].state
        /\ MarkFired(heap)[q].payload = heap[q].payload
        /\ MarkFired(heap)[q].following = heap[q].following
        /\ q # current => MarkFired(heap)[q].conts = heap[q].conts
        /\ q = current => MarkFired(heap)[q].conts =
                            [heap[current].conts EXCEPT ![cursor].fired = TRUE]
  BY <1>1, <1>3 DEF Heap, PromiseObject
<1>5. NoneNew(heap, MarkFired(heap))
  BY MarkFiredFacts
<1>6. \A q \in Promise : heap[q].state = "unborn" => Unreferred(MarkFired(heap), q)
  <2>1. SUFFICES ASSUME NEW q \in Promise, heap[q].state = "unborn"
                 PROVE  Unreferred(MarkFired(heap), q)
    OBVIOUS
  <2>2. Unreferred(heap, q)
    BY <2>1, UnbornFacts
  <2> QED BY <1>4, <1>5, <2>2 DEF Unreferred, NoneNew
<1> QED BY <1>1, <1>4, <1>6 DEF Outcome

LEMMA LoopMoves ==
  ASSUME IInv, JobsSettled, DrainLoop
  PROVE  \A q \in Promise : Moves(q)
<1>1. CASE TakeJob \/ EndDrain \/ SkipFired
  <2>1. heap' = heap
    BY <1>1 DEF TakeJob, EndDrain, SkipFired
  <2> QED BY <2>1 DEF Moves, Still, Outcome
<1>2. CASE FinishJob
  BY <1>2, InvFacts, TrimmedMoves DEF FinishJob
<1>3. CASE CallHandler
  <2>1. /\ current # None /\ cursor \in DOMAIN heap[current].conts /\ ~inHandler
        /\ ~AtCursor.fired /\ heap' = MarkFired(heap) /\ inHandler'
        /\ current' = current /\ cursor' = cursor
    BY <1>3 DEF CallHandler, AtContinuation
  <2>2. FiredNow(current)
    BY <2>1, InvFacts, MarkFiredOnly DEF FiredNow, AtCursor
  <2>3. \A q \in Promise : q # current => Still(q)
    BY <2>1, MarkFiredOnly DEF Still
  <2> QED BY <2>2, <2>3 DEF Moves
<1>4. CASE FireNext
  <2>1. /\ current # None /\ cursor \in DOMAIN heap[current].conts /\ ~inHandler
        /\ ~AtCursor.fired /\ current' = current /\ cursor' = cursor + 1
    BY <1>4 DEF FireNext, AtContinuation
  <2>2. PICK o \in IF ~Calls(AtCursor.kind, heap[current].state)
                   THEN PassThrough(heap, current)
                   ELSE IF AtCursor.kind = "THEN" THEN Adopted(heap, current)
                   ELSE AdoptedOnCatch(heap, current) :
          SettleAndEnqueue(MarkFired(heap), AtCursor.child, o, None)
    BY <1>4 DEF FireNext
  <2>3. /\ heap \in Heap /\ current \in Promise /\ AtCursor.child \in Promise
        /\ heap[AtCursor.child].state \in Live /\ heap[current].state \in Settled
    BY <2>1, InvFacts, CursorFacts DEF Continuation, JobsSettled
  <2>4. o \in OutcomeRecord /\ Proper(o)
    BY <2>2, <2>3, OutcomeTypes, OutcomesProper
  <2>5. /\ MarkFired(heap) \in Heap
        /\ \A q \in Promise : Outcome(MarkFired(heap), q) = Outcome(heap, q)
        /\ \A q \in Promise : heap[q].state = "unborn" =>
             Unreferred(MarkFired(heap), q) /\ q # AtCursor.child /\ q # None
    BY <2>1, <2>3, MarkFiredFacts, MarkFiredOnly, NoneAssumption DEF Live, Settled
  <2>6. ASSUME NEW q \in Promise
        PROVE  \/ FreedNow(q)
               \/ /\ heap'[q].conts = MarkFired(heap)[q].conts
                  /\ \/ Outcome(heap', q) = Outcome(heap, q)
                     \/ /\ q = AtCursor.child /\ heap[AtCursor.child].state = "PENDING"
                        /\ Outcome(heap', q) = o
    <3> DEFINE h == MarkFired(heap)
               x == AtCursor.child
    <3>1. SettleAndEnqueue(h, x, o, None) /\ h \in Heap /\ x \in Promise
      BY <2>2, <2>3, <2>5
    <3>2. /\ \A p \in Promise : Outcome(h, p) = Outcome(heap, p)
          /\ \A p \in Promise : heap[p].state = "unborn" =>
               Unreferred(h, p) /\ p # x /\ p # None
      BY <2>5
    <3> HIDE DEF h, x
    <3>3. \/ FreedNow(q)
          \/ /\ heap'[q].conts = h[q].conts
             /\ \/ Outcome(heap', q) = Outcome(heap, q)
                \/ q = x /\ heap[x].state = "PENDING" /\ Outcome(heap', q) = o
      BY <2>4, <3>1, <3>2, SettlingMoves
    <3> QED BY <3>3 DEF h, x
  <2>7. FreedNow(current) \/ FiredNow(current)
    <3>1. heap[current].state # "PENDING"
      BY <2>3 DEF Settled
    <3> QED BY <2>1, <2>3, <2>6, <3>1, MarkFiredOnly DEF FiredNow, AtCursor
  <2>8. ASSUME NEW q \in Promise, q # current
        PROVE  FreedNow(q) \/ Still(q) \/ SettledNow(q)
    <3>1. MarkFired(heap)[q].conts = heap[q].conts
      BY <2>1, <2>8, MarkFiredOnly
    <3>2. Outcome(heap', q) = o => heap'[q].state \in Settled
      BY <2>4 DEF Outcome, OutcomeRecord
    <3> QED BY <2>4, <2>6, <3>1, <3>2 DEF Still, SettledNow
  <2> QED BY <2>7, <2>8 DEF Moves
<1> QED BY <1>1, <1>2, <1>3, <1>4 DEF DrainLoop

LEMMA StepMoves ==
  ASSUME IInv, JobsSettled, Next
  PROVE  \A q \in Promise : Moves(q)
<1>1. CASE BeginDrain
  BY <1>1 DEF BeginDrain, Moves, Still, Outcome
<1> QED BY <1>1, ApplicationMoves, ReturnMoves, LoopMoves DEF Next

\* What a step leaves in the job list: old jobs, and that of a promise that is
\* settled or is settled by the step.
LEMMA StepJobs ==
  ASSUME IInv, Next
  PROVE  /\ \A p \in Queued(jobs') : p \in Queued(jobs) \/ heap[p].state \in Settled
                                     \/ heap'[p].state \in Settled \/ heap'[p].state = "freed"
         /\ current' \in {current, None} \union Queued(jobs)
<1>1. jobs \in Seq(Promise) /\ heap \in Heap
  BY InvFacts
<1>2. ASSUME NEW p \in Promise, jobs' = Append(jobs, p)
      PROVE  Queued(jobs') \subseteq Queued(jobs) \union {p}
  BY <1>1, <1>2 DEF Queued
<1>3. ASSUME NEW h \in Heap, NEW p \in Promise, NEW handed \in Promise \union {None},
             NEW o \in OutcomeRecord, SettleAndEnqueue(h, p, o, handed)
      PROVE  \A q \in Queued(jobs') : q \in Queued(jobs) \/ heap'[q].state \in Settled
                                      \/ heap'[q].state = "freed"
  <2>1. /\ Settles(h, heap', p, o)
        /\ jobs' = jobs \/ (jobs' = Append(jobs, p) /\ h[p].state = "PENDING")
    BY <1>3, SettlesTo
  <2>2. o.state \in Settled
    BY DEF OutcomeRecord
  <2>3. h[p].state = "PENDING" => heap'[p].state \in Settled \/ heap'[p].state = "freed"
    <3>1. Outcome(heap', p) = o => heap'[p].state = o.state
      BY DEF Outcome
    <3> QED BY <2>1, <2>2, <3>1 DEF Settles, Erased, Gone
  <2> QED BY <1>2, <2>1, <2>3
<1>4. CASE Application
  <2>1. PICK p \in Promise :
          \/ \E o \in AppOutcomes \union {[state |-> "PENDING", payload |-> None]} : Create(p, o)
          \/ \E k \in Attached, child \in Promise : k \in Kind /\ Attach(p, k, child)
          \/ \E o \in AppOutcomes \union {Cancelled} : SettleCall(p, o)
          \/ RefCall(p)
          \/ UnrefCall(p)
    BY <1>4, AttachedAssumption DEF Application, Kind
  <2>2. ASSUME NEW k, NEW child, Attach(p, k, child)
        PROVE  /\ current' = current
               /\ \A q \in Queued(jobs') : q \in Queued(jobs) \/ heap[q].state \in Settled
    <3>1. heap[p].state \in Live
      BY <2>2, InvFacts DEF Attach
    <3>2. jobs' = jobs \/ (jobs' = Append(jobs, p) /\ heap[p].state # "PENDING")
      BY <2>2 DEF Attach
    <3> QED BY <1>2, <2>2, <3>1, <3>2 DEF Attach, drainVars, Live
  <2>3. ASSUME NEW o \in AppOutcomes \union {Cancelled}, SettleCall(p, o)
        PROVE  /\ current' = current
               /\ \A q \in Queued(jobs') : q \in Queued(jobs) \/ heap'[q].state \in Settled
                                           \/ heap'[q].state = "freed"
    BY <1>1, <1>3, <2>3, AppOutcomeTypes DEF SettleCall, drainVars
  <2>4. ASSUME (\E o : Create(p, o)) \/ RefCall(p) \/ UnrefCall(p)
        PROVE  current' = current /\ jobs' = jobs
    BY <2>4 DEF Create, RefCall, UnrefCall, drainVars
  <2> QED BY <2>1, <2>2, <2>3, <2>4
<1>5. CASE HandlerReturns
  <2>1. inHandler /\ Returns
    BY <1>5 DEF HandlerReturns, ReturnResult, ReturnPromise, ReturnFinally
  <2>2. AtCursor.child \in Promise /\ current \in Promise /\ current' = current
        /\ heap[AtCursor.child].following = None /\ heap[AtCursor.child].state \in Live
        /\ Exact(heap, Outside) /\ Outside \in Ext
    BY <2>1, ReturnFacts
  <2>3. ASSUME NEW o \in AppOutcomes, ReturnResult(o)
        PROVE  \A q \in Queued(jobs') : q \in Queued(jobs) \/ heap'[q].state \in Settled
                                        \/ heap'[q].state = "freed"
    BY <1>1, <1>3, <2>2, <2>3, AppOutcomeTypes DEF ReturnResult
  <2>4. ASSUME ReturnFinally
        PROVE  \A q \in Queued(jobs') : q \in Queued(jobs) \/ heap'[q].state \in Settled
                                        \/ heap'[q].state = "freed"
    <3>1. PICK o \in PassThrough(heap, current) :
            SettleAndEnqueue(heap, AtCursor.child, o, None)
      BY <2>4 DEF ReturnFinally
    <3>2. o \in OutcomeRecord
      BY <1>1, <2>2, <3>1, OutcomeTypes
    <3> QED BY <1>1, <1>3, <2>2, <3>1, <3>2
  <2>5. ASSUME NEW r \in Promise, ReturnPromise(r)
        PROVE  \A q \in Queued(jobs') : q \in Queued(jobs) \/ heap'[q].state \in Settled
                                        \/ heap'[q].state = "freed"
    <3>1. \/ jobs' = jobs
          \/ \E o \in Adopted(heap, r) : SettleAndEnqueue(heap, AtCursor.child, o, r)
          \/ \E o \in CopiedRejection(LibraryError) :
               SettleAndEnqueue(Following(heap, AtCursor.child, r), AtCursor.child, o, r)
      BY <2>5 DEF ReturnPromise, Adopt
    <3>2. heap[r].state \in Live
      BY <2>5, InvFacts DEF ReturnPromise
    <3>3. Following(heap, AtCursor.child, r) \in Heap
      BY <1>1, <2>2, <3>2, FollowingExact
    <3>4. /\ Adopted(heap, r) \subseteq OutcomeRecord
          /\ CopiedRejection(LibraryError) \subseteq OutcomeRecord
      BY <1>1, OutcomeTypes
    <3> QED BY <1>1, <1>3, <2>2, <3>1, <3>3, <3>4
  <2> QED BY <1>5, <2>2, <2>3, <2>4, <2>5 DEF HandlerReturns
<1>6. CASE BeginDrain
  BY <1>6 DEF BeginDrain
<1>7. CASE FireNext
  <2>1. /\ current # None /\ cursor \in DOMAIN heap[current].conts /\ current' = current
    BY <1>7 DEF FireNext, AtContinuation
  <2>2. PICK o \in IF ~Calls(AtCursor.kind, heap[current].state)
                   THEN PassThrough(heap, current)
                   ELSE IF AtCursor.kind = "THEN" THEN Adopted(heap, current)
                   ELSE AdoptedOnCatch(heap, current) :
          SettleAndEnqueue(MarkFired(heap), AtCursor.child, o, None)
    BY <1>7 DEF FireNext
  <2>3. AtCursor.child \in Promise /\ MarkFired(heap) \in Heap /\ current \in Promise
    BY <2>1, CursorFacts, MarkFiredFacts DEF Continuation
  <2>4. o \in OutcomeRecord
    BY <1>1, <2>2, <2>3, OutcomeTypes
  <2> HIDE DEF AtCursor
  <2> QED BY <1>3, <2>1, <2>2, <2>3, <2>4
<1>8. CASE TakeJob
  <2>1. jobs # << >> /\ current' = Head(jobs) /\ jobs' = Tail(jobs)
    BY <1>8 DEF TakeJob
  <2>2. Head(jobs) \in Queued(jobs) /\ Queued(Tail(jobs)) \subseteq Queued(jobs)
    BY <1>1, <2>1 DEF Queued
  <2> QED BY <2>1, <2>2
<1>9. CASE EndDrain \/ SkipFired \/ CallHandler \/ FinishJob
  BY <1>9 DEF EndDrain, SkipFired, CallHandler, FinishJob
<1> QED BY <1>4, <1>5, <1>6, <1>7, <1>8, <1>9 DEF Next, DrainLoop

LEMMA JobsSettledKept ==
  ASSUME IInv, JobsSettled, Next
  PROVE  JobsSettled'
<1>1. IInv' /\ Evolves(heap, heap')
  BY NextKept DEF Kept
<1>2. /\ heap' \in Heap /\ held' \in Ext /\ jobs' \in Seq(Promise)
      /\ current' \in Promise \union {None} /\ Exact(heap', With(Base(held', current'), jobs'))
  BY <1>1 DEF IInv, TypeOK, Heap, Ext, Outside
<1>3. \A p \in Promise : p \in Queued(jobs') \/ p = current' => heap'[p].state \in Live
  BY <1>2, QueuedLive
<1>4. ASSUME NEW p \in Promise, p \in Queued(jobs') \/ p = current'
      PROVE  heap'[p].state \in Settled
  <2>1. heap'[p].state # "freed" /\ ~Gone(heap', p)
    BY <1>3, <1>4 DEF Live, Settled, Gone
  <2>2. heap[p].state \in Settled => heap'[p].state \in Settled
    BY <1>1, <2>1 DEF Evolves, Evolved
  <2> QED BY <1>4, <2>1, <2>2, StepJobs, NoneAssumption DEF JobsSettled
<1>5. Queued(jobs') \subseteq Promise
  BY <1>2 DEF Queued
<1> QED BY <1>2, <1>4, <1>5 DEF JobsSettled

-----------------------------------------------------------------------------
(* Outcomes are passed on                                                    *)

Payloads ==
  \A q \in Promise :
    /\ heap[q].state \notin {"RESOLVED", "REJECTED"} => heap[q].payload = None
    /\ Proper(Outcome(heap, q))

\* The continuations of an adoption are a then and a catch, and continuations
\* fire in the order of attachment: none has fired before an earlier one.
Conts ==
  \A q \in Promise : \A i \in DOMAIN heap[q].conts :
    /\ heap[q].conts[i].adopt => heap[q].conts[i].kind # "FINALLY"
    /\ heap[q].conts[i].fired =>
         \A j \in DOMAIN heap[q].conts : j < i => heap[q].conts[j].fired

\* The loop has passed only continuations that have fired.
Passed ==
  current # None =>
    \A j \in 1 .. (cursor - 1) :
      j \in DOMAIN heap[current].conts /\ heap[current].conts[j].fired

PInv == IInv /\ JobsSettled /\ Payloads /\ Conts /\ Passed

\* The loop stays where it is, moves past a fired continuation, or changes jobs.
LEMMA StepLoop ==
  ASSUME IInv, Next
  PROVE  \/ current' = None
         \/ cursor' = 1
         \/ /\ current' = current
            /\ \/ cursor' = cursor
               \/ /\ cursor' = cursor + 1 /\ cursor \in DOMAIN heap[current].conts
                  /\ heap[current].conts[cursor].fired \/ heap'[current].conts[cursor].fired
<1>1. CASE Application
  <2>1. current' = current /\ cursor' = cursor
    BY <1>1 DEF Application, Create, Attach, SettleCall, RefCall, UnrefCall, drainVars
  <2> QED BY <2>1
<1>2. CASE HandlerReturns
  <2>1. inHandler /\ Returns
    BY <1>2 DEF HandlerReturns, ReturnResult, ReturnPromise, ReturnFinally
  <2>2. /\ cursor \in DOMAIN heap[current].conts /\ heap[current].conts[cursor].fired
        /\ current' = current /\ cursor' = cursor + 1
    BY <2>1, ReturnFacts DEF AtCursor, Returns
  <2> QED BY <2>2
<1>3. CASE FireNext
  <2>1. /\ current # None /\ cursor \in DOMAIN heap[current].conts
        /\ current' = current /\ cursor' = cursor + 1
    BY <1>3 DEF FireNext, AtContinuation
  <2>2. IInv' /\ Evolves(heap, heap') /\ NoneNew(MarkFired(heap), heap')
    BY <1>3, FireNextKept DEF Kept
  <2>3. current \in Promise /\ ~Gone(heap', current)
    <3>1. /\ heap' \in Heap /\ held' \in Ext /\ jobs' \in Seq(Promise)
          /\ current' \in Promise \union {None}
          /\ Exact(heap', With(Base(held', current'), jobs'))
      BY <2>2 DEF IInv, TypeOK, Heap, Ext, Outside
    <3> QED BY <2>1, <3>1, CurrentLive, InvFacts
  <2>4. cursor \in DOMAIN heap'[current].conts
    BY <2>1, <2>2, <2>3 DEF Evolves, Evolved
  <2>5. MarkFired(heap)[current].conts[cursor].fired
    BY <2>1, MarkFiredFacts
  <2>6. heap'[current].conts[cursor].fired
    BY <2>2, <2>3, <2>4, <2>5 DEF NoneNew
  <2> QED BY <2>1, <2>6
<1>4. CASE SkipFired
  BY <1>4 DEF SkipFired, AtContinuation, AtCursor
<1>5. CASE TakeJob \/ EndDrain \/ CallHandler \/ FinishJob \/ BeginDrain
  BY <1>5 DEF TakeJob, EndDrain, CallHandler, FinishJob, BeginDrain
<1> QED BY <1>1, <1>2, <1>3, <1>4, <1>5 DEF Next, DrainLoop

LEMMA PassedKept ==
  ASSUME IInv, Passed, Next
  PROVE  Passed'
<1>1. IInv' /\ Evolves(heap, heap')
  BY NextKept DEF Kept
<1>2. /\ heap' \in Heap /\ held' \in Ext /\ jobs' \in Seq(Promise)
      /\ current' \in Promise \union {None} /\ Exact(heap', With(Base(held', current'), jobs'))
      /\ cursor \in Nat
  BY <1>1 DEF IInv, TypeOK, Heap, Ext, Outside
<1>3. CASE current' = None \/ cursor' = 1
  BY <1>3 DEF Passed
<1>4. CASE current' = current /\ current # None
  <2>1. current \in Promise /\ ~Gone(heap', current)
    BY <1>2, <1>4, CurrentLive, InvFacts
  <2>2. \A j \in DOMAIN heap[current].conts :
          /\ j \in DOMAIN heap'[current].conts
          /\ heap[current].conts[j].fired => heap'[current].conts[j].fired
    BY <1>1, <2>1 DEF Evolves, Evolved
  <2>3. \A j \in 1 .. (cursor - 1) :
          j \in DOMAIN heap[current].conts /\ heap[current].conts[j].fired
    BY <1>4 DEF Passed
  <2>4. CASE cursor' = cursor
    BY <1>4, <2>2, <2>3, <2>4 DEF Passed
  <2>5. CASE /\ cursor' = cursor + 1 /\ cursor \in DOMAIN heap[current].conts
             /\ heap[current].conts[cursor].fired \/ heap'[current].conts[cursor].fired
    <3>1. \A j \in 1 .. (cursor' - 1) : j = cursor \/ j \in 1 .. (cursor - 1)
      BY <1>2, <2>5
    <3> QED BY <1>4, <2>2, <2>3, <2>5, <3>1 DEF Passed
  <2> QED BY <1>3, <2>4, <2>5, StepLoop
<1> QED BY <1>3, <1>4, StepLoop

LEMMA ContsKept ==
  ASSUME IInv, JobsSettled, Conts, Passed, Next
  PROVE  Conts'
<1>1. SUFFICES ASSUME NEW q \in Promise
               PROVE  \A i \in DOMAIN heap'[q].conts :
                        /\ heap'[q].conts[i].adopt => heap'[q].conts[i].kind # "FINALLY"
                        /\ heap'[q].conts[i].fired =>
                             \A j \in DOMAIN heap'[q].conts : j < i => heap'[q].conts[j].fired
  BY DEF Conts
<1>2. Moves(q)
  BY StepMoves
<1>t. heap[q].conts \in Seq(Continuation)
  BY InvFacts DEF Heap, PromiseObject
<1>3. CASE heap'[q].conts = << >>
  BY <1>3
<1>4. CASE heap'[q].conts = heap[q].conts
  BY <1>4 DEF Conts
<1>g. \A s \in Seq(Continuation), c \in Continuation :
        /\ Append(s, c) \in Seq(Continuation)
        /\ ~c.fired /\ (c.adopt => c.kind # "FINALLY")
           /\ (\A i \in DOMAIN s :
                 /\ s[i].adopt => s[i].kind # "FINALLY"
                 /\ s[i].fired => \A j \in DOMAIN s : j < i => s[j].fired)
           => \A i \in DOMAIN Append(s, c) :
                 /\ Append(s, c)[i].adopt => Append(s, c)[i].kind # "FINALLY"
                 /\ Append(s, c)[i].fired =>
                      \A j \in DOMAIN Append(s, c) : j < i => Append(s, c)[j].fired
  <2>1. SUFFICES ASSUME NEW s \in Seq(Continuation), NEW c \in Continuation,
                        ~c.fired, c.adopt => c.kind # "FINALLY",
                        \A i \in DOMAIN s :
                          /\ s[i].adopt => s[i].kind # "FINALLY"
                          /\ s[i].fired => \A j \in DOMAIN s : j < i => s[j].fired,
                        NEW i \in DOMAIN Append(s, c)
                 PROVE  /\ Append(s, c)[i].adopt => Append(s, c)[i].kind # "FINALLY"
                        /\ Append(s, c)[i].fired =>
                             \A j \in DOMAIN Append(s, c) : j < i => Append(s, c)[j].fired
    BY AppendProperties
  <2>2. /\ DOMAIN s = 1 .. Len(s) /\ DOMAIN Append(s, c) = 1 .. Len(s) + 1
        /\ Len(s) \in Nat
        /\ \A j \in DOMAIN s : Append(s, c)[j] = s[j]
        /\ Append(s, c)[Len(s) + 1] = c
    BY <2>1
  <2>3. CASE i = Len(s) + 1
    BY <2>1, <2>2, <2>3
  <2>4. CASE i \in DOMAIN s
    <3>1. \A j \in DOMAIN Append(s, c) : j < i => j \in DOMAIN s
      BY <2>2, <2>4
    <3> QED BY <2>1, <2>2, <2>4, <3>1
  <2> QED BY <2>2, <2>3, <2>4
<1>5. CASE Grown(q)
  <2>1. PICK c \in Continuation, d \in Continuation :
          /\ ~c.fired /\ ~d.fired
          /\ c.adopt => c.kind # "FINALLY"
          /\ d.adopt => d.kind # "FINALLY"
          /\ \/ heap'[q].conts = Append(heap[q].conts, c)
             \/ heap'[q].conts = Append(Append(heap[q].conts, c), d)
    BY <1>5 DEF Grown
  <2> DEFINE s == heap[q].conts
             r == Append(s, c)
  <2>2. /\ r \in Seq(Continuation)
        /\ \A i \in DOMAIN r :
             /\ r[i].adopt => r[i].kind # "FINALLY"
             /\ r[i].fired => \A j \in DOMAIN r : j < i => r[j].fired
    BY <1>t, <1>g, <2>1 DEF Conts
  <2> HIDE DEF r
  <2>3. \A i \in DOMAIN Append(r, d) :
             /\ Append(r, d)[i].adopt => Append(r, d)[i].kind # "FINALLY"
             /\ Append(r, d)[i].fired =>
                  \A j \in DOMAIN Append(r, d) : j < i => Append(r, d)[j].fired
    BY <1>g, <2>1, <2>2
  <2>4. heap'[q].conts = r \/ heap'[q].conts = Append(r, d)
    BY <2>1 DEF r
  <2> QED BY <2>2, <2>3, <2>4
<1>6. CASE FiredNow(q)
  <2>1. /\ q = current /\ cursor \in DOMAIN heap[q].conts
        /\ heap'[q].conts = [heap[q].conts EXCEPT ![cursor].fired = TRUE]
    BY <1>6 DEF FiredNow
  <2>2. /\ DOMAIN heap'[q].conts = DOMAIN heap[q].conts
        /\ \A i \in DOMAIN heap[q].conts :
             /\ heap'[q].conts[i].adopt = heap[q].conts[i].adopt
             /\ heap'[q].conts[i].kind = heap[q].conts[i].kind
             /\ heap'[q].conts[i].fired => i = cursor \/ heap[q].conts[i].fired
             /\ heap[q].conts[i].fired => heap'[q].conts[i].fired
             /\ i = cursor => heap'[q].conts[i].fired
    <3> DEFINE s == heap[q].conts
               t == [s EXCEPT ![cursor].fired = TRUE]
    <3>1. \A i \in DOMAIN s : s[i] \in Continuation
      BY <1>t
    <3>2. /\ DOMAIN t = DOMAIN s
          /\ \A i \in DOMAIN s : t[i] = IF i = cursor THEN [s[i] EXCEPT !.fired = TRUE] ELSE s[i]
      BY <1>t, <2>1
    <3> HIDE DEF s, t
    <3>3. \A i \in DOMAIN s : /\ t[i].adopt = s[i].adopt /\ t[i].kind = s[i].kind
                              /\ t[i].fired => i = cursor \/ s[i].fired
                              /\ s[i].fired => t[i].fired
                              /\ i = cursor => t[i].fired
      BY <3>1, <3>2 DEF Continuation
    <3>4. heap'[q].conts = t
      BY <2>1 DEF s, t
    <3> QED BY <3>2, <3>3, <3>4 DEF s
  <2>3. \A j \in DOMAIN heap[q].conts : j < cursor => heap[q].conts[j].fired
    <3>1. DOMAIN heap[q].conts = 1 .. Len(heap[q].conts)
      BY <1>t
    <3>2. current # None /\ cursor \in Nat
      BY <2>1, NoneAssumption DEF IInv, TypeOK
    <3>3. \A j \in DOMAIN heap[q].conts : j < cursor => j \in 1 .. (cursor - 1)
      BY <1>t, <3>1, <3>2
    <3> QED BY <2>1, <3>2, <3>3 DEF Passed
  <2>4. /\ \A i \in DOMAIN heap[q].conts :
             /\ heap[q].conts[i].adopt => heap[q].conts[i].kind # "FINALLY"
             /\ heap[q].conts[i].fired =>
                  \A j \in DOMAIN heap[q].conts : j < i => heap[q].conts[j].fired
    BY DEF Conts
  <2> QED BY <2>2, <2>3, <2>4
<1> QED BY <1>2, <1>3, <1>4, <1>5, <1>6
      DEF Moves, FreedNow, Erased, Gone, Still, BornNow, SettledNow

LEMMA PInvKept ==
  ASSUME PInv, [Next]_vars
  PROVE  PInv'
<1>1. CASE Next
  <2>1. IInv' /\ JobsSettled'
    BY <1>1, NextKept, JobsSettledKept DEF PInv, Kept
  <2>2. ASSUME NEW q \in Promise
        PROVE  /\ heap'[q].state \notin {"RESOLVED", "REJECTED"} => heap'[q].payload = None
               /\ Proper(Outcome(heap', q))
    <3>1. Moves(q)
      BY <1>1, StepMoves DEF PInv
    <3>2. CASE Outcome(heap', q) = Outcome(heap, q)
      <4>1. heap'[q].state = heap[q].state /\ heap'[q].payload = heap[q].payload
        BY <3>2 DEF Outcome
      <4> QED BY <3>2, <4>1 DEF PInv, Payloads
    <3>3. CASE FreedNow(q)
      BY <3>3 DEF FreedNow, Erased, Gone, Proper, Outcome
    <3>4. CASE BornNow(q) \/ SettledNow(q)
      BY <3>4 DEF BornNow, SettledNow, Proper, Outcome, Live, Settled
    <3> QED BY <3>1, <3>2, <3>3, <3>4 DEF Moves, Still, Grown, FiredNow
  <2>3. Payloads'
    BY <2>2 DEF Payloads, Outcome
  <2>4. Conts' /\ Passed'
    BY <1>1, ContsKept, PassedKept DEF PInv
  <2> QED BY <2>1, <2>3, <2>4 DEF PInv
<1>2. CASE UNCHANGED vars
  <2>1. IInv'
    BY <1>2, KeptByStutter DEF PInv, Kept
  <2> QED BY <1>2, <2>1 DEF vars, PInv, JobsSettled, Payloads, Conts, Passed, Outcome
<1> QED BY <1>1, <1>2

LEMMA InitPInv == ASSUME Init PROVE PInv
<1>1. jobs = << >> /\ current = None /\ heap = [p \in Promise |-> Blank("unborn")]
  BY DEF Init
<1>2. JobsSettled
  BY <1>1 DEF JobsSettled, Queued
<1>3. Payloads
  BY <1>1 DEF Payloads, Proper, Outcome, Blank
<1>4. Conts /\ Passed
  BY <1>1 DEF Conts, Passed, Blank
<1> QED BY <1>2, <1>3, <1>4, InitInv DEF PInv

THEOREM PromiseInvariance == Spec => []PInv
BY InitPInv, PInvKept, PTL DEF Spec

\* Texts can be copied: the child of the continuation at the cursor gets what the
\* settled promise has.
LEMMA PassedOn ==
  ASSUME "string" \notin Failing, PInv, current # None,
         NEW o \in IF ~Calls(AtCursor.kind, heap[current].state)
                   THEN PassThrough(heap, current)
                   ELSE IF AtCursor.kind = "THEN" THEN Adopted(heap, current)
                   ELSE AdoptedOnCatch(heap, current),
         AtCursor.kind = "FINALLY" => ~Calls(AtCursor.kind, heap[current].state)
  PROVE  o = Outcome(heap, current)
<1> DEFINE p == current
<1>1. /\ p \in Promise /\ heap[p].state \in {"RESOLVED", "REJECTED", "CANCELLED"}
      /\ heap[p].state = "CANCELLED" => heap[p].payload = None
      /\ heap[p].state = "REJECTED" => heap[p].payload # None
  BY InvFacts DEF PInv, JobsSettled, Payloads, Proper, Outcome, Settled
<1>2. PassThrough(heap, p) \subseteq {Outcome(heap, p)}
  BY <1>1 DEF PassThrough, CopiedRejection, Resolved, Rejected, Cancelled, Outcome
<1>3. heap[p].state = "RESOLVED" => Adopted(heap, p) \subseteq {Outcome(heap, p)}
  BY <1>1 DEF Adopted, Resolved, Outcome
<1>4. heap[p].state = "REJECTED" => AdoptedOnCatch(heap, p) \subseteq {Outcome(heap, p)}
  BY <1>1 DEF AdoptedOnCatch, Rejected, Outcome
<1>5. Calls("THEN", heap[p].state) => heap[p].state = "RESOLVED"
  BY DEF Calls
<1>6. Calls(AtCursor.kind, heap[p].state) /\ AtCursor.kind # "THEN" /\ AtCursor.kind # "FINALLY"
        => heap[p].state = "REJECTED"
  BY DEF Calls
<1> QED BY <1>2, <1>3, <1>4, <1>5, <1>6

\* What the drain loop settles by itself gets the outcome of the promise the loop
\* is at, for any promises and payloads, adoptions that could not be linked
\* included, if the texts of values and errors can be copied.
THEOREM OutcomesAreDerived ==
  ASSUME "string" \notin Failing
  PROVE  Spec => DerivedOutcome
<1>1. ASSUME PInv, Next, ~AppRuns, NEW p \in Promise, heap[p].state = "PENDING",
             heap'[p].state \in Settled
      PROVE  Outcome(heap', p) = Outcome(heap, current)
  <2>1. DrainLoop
    <3>1. ~Application
      BY <1>1 DEF Application, Create, Attach, SettleCall, RefCall, UnrefCall
    <3>2. ~HandlerReturns
      BY <1>1 DEF AppRuns, HandlerReturns, ReturnResult, ReturnPromise, ReturnFinally
    <3>3. ~BeginDrain
      BY <1>1 DEF AppRuns, BeginDrain
    <3> QED BY <1>1, <3>1, <3>2, <3>3 DEF Next
  <2>2. heap \in Heap /\ (current # None => current \in Promise)
    BY <1>1, InvFacts DEF PInv
  <2>3. FireNext
    <3>1. heap'[p].state # heap[p].state /\ heap'[p].state # "freed"
      BY <1>1 DEF Settled
    <3>2. ~(TakeJob \/ EndDrain \/ SkipFired)
      BY <3>1 DEF TakeJob, EndDrain, SkipFired
    <3>3. ~CallHandler
      BY <1>1, <3>1, MarkFiredFacts DEF PInv, CallHandler, AtContinuation
    <3>4. ~FinishJob
      <4>1. ASSUME FinishJob PROVE FALSE
        <5>1. Trimmed(heap, heap')
          BY <2>2, <4>1, UnrefEffect DEF FinishJob
        <5> QED BY <3>1, <5>1 DEF Trimmed, Blank
      <4> QED BY <4>1
    <3> QED BY <2>1, <3>2, <3>3, <3>4 DEF DrainLoop
  <2>4. /\ current # None /\ cursor \in DOMAIN heap[current].conts
        /\ AtCursor.adopt \/ ~Calls(AtCursor.kind, heap[current].state)
    BY <2>3 DEF FireNext, AtContinuation
  <2>5. PICK o \in IF ~Calls(AtCursor.kind, heap[current].state)
                   THEN PassThrough(heap, current)
                   ELSE IF AtCursor.kind = "THEN" THEN Adopted(heap, current)
                   ELSE AdoptedOnCatch(heap, current) :
          SettleAndEnqueue(MarkFired(heap), AtCursor.child, o, None)
    BY <2>3 DEF FireNext
  <2>6. AtCursor.kind = "FINALLY" => ~Calls(AtCursor.kind, heap[current].state)
    BY <1>1, <2>2, <2>4 DEF PInv, Conts, AtCursor
  <2>7. o = Outcome(heap, current)
    BY <1>1, <2>4, <2>5, <2>6, PassedOn
  <2>8. o \in OutcomeRecord /\ AtCursor.child \in Promise /\ MarkFired(heap) \in Heap
        /\ Outcome(MarkFired(heap), p) = Outcome(heap, p)
    BY <1>1, <2>2, <2>4, <2>5, OutcomeTypes, CursorFacts, MarkFiredFacts, MarkFiredOnly
       DEF PInv, Continuation
  <2>9. Settles(MarkFired(heap), heap', AtCursor.child, o)
    <3> DEFINE h == MarkFired(heap)
               x == AtCursor.child
    <3>1. SettleAndEnqueue(h, x, o, None) /\ h \in Heap /\ x \in Promise
      BY <2>5, <2>8
    <3> HIDE DEF h, x
    <3>2. Settles(h, heap', x, o)
      BY <2>8, <3>1, SettlesTo
    <3> QED BY <3>2 DEF h, x
  <2>10. \/ Erased(heap', p) \/ Outcome(heap', p) = o
         \/ Outcome(heap', p) = Outcome(heap, p)
    BY <2>8, <2>9 DEF Settles
  <2>11. ~Erased(heap', p) /\ Outcome(heap', p) # Outcome(heap, p)
    BY <1>1 DEF Erased, Gone, Settled, Outcome
  <2> QED BY <2>7, <2>10, <2>11
<1>2. PInv /\ [Next]_vars =>
        [~AppRuns => \A p \in Promise : heap[p].state = "PENDING" /\ IsSettled(p)' =>
           Outcome(heap', p) = Outcome(heap, current)]_vars
  BY <1>1 DEF IsSettled
<1> QED BY <1>2, PromiseInvariance, PTL DEF Spec, DerivedOutcome

-----------------------------------------------------------------------------
(* The contract of qpromise.h                                                *)

Ran(q)  == Cardinality(FiredPrefix(q))

\* How many continuations of a list have fired, none before them waiting.
Prefix(s) == {i \in DOMAIN s : \A j \in 1 .. i : s[j].fired}

LEMMA PrefixFacts ==
  ASSUME NEW s \in Seq(Continuation)
  PROVE  /\ IsFiniteSet(Prefix(s)) /\ Cardinality(Prefix(s)) \in Nat
         /\ Cardinality(Prefix(<< >>)) = 0
         /\ (\A i \in DOMAIN s : s[i].fired) => Cardinality(Prefix(s)) = Len(s)
         /\ \A k \in DOMAIN s : (\A j \in 1 .. (k - 1) : s[j].fired) /\ ~s[k].fired
              => Cardinality(Prefix(s)) = k - 1
         /\ \A k \in DOMAIN s : (\A j \in 1 .. k : s[j].fired)
                                /\ (k + 1 \in DOMAIN s => ~s[k + 1].fired)
              => Cardinality(Prefix(s)) = k
<1>1. Len(s) \in Nat /\ DOMAIN s = 1 .. Len(s)
  OBVIOUS
<1>2. \A k \in Nat : IsFiniteSet(1 .. k) /\ Cardinality(1 .. k) = k
  <2>1. SUFFICES ASSUME NEW k \in Nat PROVE IsFiniteSet(1 .. k) /\ Cardinality(1 .. k) = k
    OBVIOUS
  <2> QED BY FS_Interval
<1>3. IsFiniteSet(Prefix(s)) /\ Cardinality(Prefix(s)) \in Nat
  <2>1. Prefix(s) \subseteq 1 .. Len(s)
    BY <1>1 DEF Prefix
  <2>2. IsFiniteSet(Prefix(s))
    BY <1>1, <1>2, <2>1, FS_Subset
  <2> QED BY <2>2, FS_CardinalityType
<1>4. Cardinality(Prefix(<< >>)) = 0
  <2>1. Prefix(<< >>) = {}
    BY DEF Prefix
  <2> QED BY <2>1, FS_EmptySet
<1>5. ASSUME \A i \in DOMAIN s : s[i].fired
      PROVE  Cardinality(Prefix(s)) = Len(s)
  <2>1. Prefix(s) = 1 .. Len(s)
    BY <1>1, <1>5 DEF Prefix
  <2> QED BY <1>1, <1>2, <2>1
<1>6. ASSUME NEW k \in DOMAIN s, \A j \in 1 .. (k - 1) : s[j].fired, ~s[k].fired
      PROVE  Cardinality(Prefix(s)) = k - 1
  <2>1. Prefix(s) = 1 .. (k - 1)
    BY <1>1, <1>6 DEF Prefix
  <2>2. k - 1 \in Nat
    BY <1>1
  <2> QED BY <1>2, <2>1, <2>2
<1>7. ASSUME NEW k \in DOMAIN s, \A j \in 1 .. k : s[j].fired,
             k + 1 \in DOMAIN s => ~s[k + 1].fired
      PROVE  Cardinality(Prefix(s)) = k
  <2>1. k \in Nat
    BY <1>1
  <2>2. \A i \in DOMAIN s : i > k => k + 1 \in DOMAIN s /\ k + 1 \in 1 .. i
    BY <1>1, <2>1
  <2>3. Prefix(s) = 1 .. k
    BY <1>1, <1>7, <2>1, <2>2 DEF Prefix
  <2> QED BY <1>2, <2>1, <2>3
<1> QED BY <1>3, <1>4, <1>5, <1>6, <1>7

\* Continuations that are appended have not fired.
LEMMA PrefixAppend ==
  ASSUME NEW s \in Seq(Continuation), NEW c \in Continuation, ~c.fired
  PROVE  Append(s, c) \in Seq(Continuation) /\ Prefix(Append(s, c)) = Prefix(s)
<1>1. /\ Append(s, c) \in Seq(Continuation)
      /\ Len(s) \in Nat /\ DOMAIN s = 1 .. Len(s) /\ DOMAIN Append(s, c) = 1 .. Len(s) + 1
      /\ \A i \in DOMAIN s : Append(s, c)[i] = s[i]
      /\ Append(s, c)[Len(s) + 1] = c
  BY AppendProperties
<1>2. \A i \in 1 .. Len(s) : 1 .. i \subseteq DOMAIN s
  BY <1>1
<1>3. \A i \in DOMAIN s : (\A j \in 1 .. i : Append(s, c)[j].fired) <=> \A j \in 1 .. i : s[j].fired
  BY <1>1, <1>2
<1>4. ~(\A j \in 1 .. (Len(s) + 1) : Append(s, c)[j].fired)
  BY <1>1
<1>5. \A i \in DOMAIN Append(s, c) : i \in DOMAIN s \/ i = Len(s) + 1
  BY <1>1
<1> QED BY <1>1, <1>3, <1>4, <1>5 DEF Prefix

\* A job stays queued until the loop takes it, and the loop stays at a promise
\* until it has passed its last continuation.
LEMMA StepKeepsJobs ==
  ASSUME IInv, Next
  PROVE  /\ \A q \in Queued(jobs) : q \in Queued(jobs') \/ q = current'
         /\ \/ current \in {current', None}
            \/ cursor \notin DOMAIN heap[current].conts /\ jobs' = jobs
<1>1. jobs \in Seq(Promise)
  BY InvFacts
<1>2. ASSUME NEW p, jobs' = jobs \/ jobs' = Append(jobs, p)
      PROVE  \A q \in Queued(jobs) : q \in Queued(jobs')
  <2>1. CASE jobs' = jobs
    BY <2>1
  <2>2. CASE jobs' = Append(jobs, p)
    <3>1. \A i \in DOMAIN jobs : i \in DOMAIN jobs' /\ jobs'[i] = jobs[i]
      BY <1>1, <2>2
    <3> QED BY <3>1 DEF Queued
  <2> QED BY <1>2, <2>1, <2>2
<1>3. \A h, p, o, handed : SettleAndEnqueue(h, p, o, handed) =>
        jobs' = jobs \/ jobs' = Append(jobs, p)
  BY DEF SettleAndEnqueue
<1>4. CASE Application
  <2>1. current' = current /\ \E p : jobs' = jobs \/ jobs' = Append(jobs, p)
    BY <1>3, <1>4 DEF Application, Create, Attach, SettleCall, RefCall, UnrefCall, drainVars
  <2> QED BY <1>2, <2>1
<1>5. CASE HandlerReturns
  <2>1. current' = current
    BY <1>5 DEF HandlerReturns, ReturnResult, ReturnPromise, ReturnFinally, Returns
  <2>2. \E p : jobs' = jobs \/ jobs' = Append(jobs, p)
    BY <1>3, <1>5 DEF HandlerReturns, ReturnResult, ReturnPromise, ReturnFinally, Adopt
  <2> QED BY <1>2, <2>1, <2>2
<1>6. CASE FireNext
  <2>1. current' = current /\ \E p : jobs' = jobs \/ jobs' = Append(jobs, p)
    BY <1>3, <1>6 DEF FireNext
  <2> QED BY <1>2, <2>1
<1>7. CASE TakeJob
  <2>1. current = None /\ jobs # << >> /\ current' = Head(jobs) /\ jobs' = Tail(jobs)
    BY <1>7 DEF TakeJob
  <2>2. \A i \in DOMAIN jobs : jobs[i] = Head(jobs) \/ \E j \in DOMAIN Tail(jobs) : Tail(jobs)[j] = jobs[i]
    <3>1. SUFFICES ASSUME NEW i \in DOMAIN jobs, jobs[i] # Head(jobs)
                   PROVE  \E j \in DOMAIN Tail(jobs) : Tail(jobs)[j] = jobs[i]
      OBVIOUS
    <3>2. i # 1 /\ i \in 1 .. Len(jobs) /\ Len(jobs) \in Nat
      BY <1>1, <2>1, <3>1
    <3>3. i - 1 \in DOMAIN Tail(jobs) /\ Tail(jobs)[i - 1] = jobs[i]
      BY <1>1, <2>1, <3>2
    <3> QED BY <3>3
  <2> QED BY <2>1, <2>2 DEF Queued
<1>8. CASE FinishJob
  BY <1>8 DEF FinishJob
<1>9. CASE BeginDrain \/ EndDrain \/ SkipFired \/ CallHandler
  BY <1>9 DEF BeginDrain, EndDrain, SkipFired, CallHandler
<1> QED BY <1>4, <1>5, <1>6, <1>7, <1>8, <1>9 DEF Next, DrainLoop

\* A promise is not freed while a continuation of it waits to run.
LEMMA FreedHasRun ==
  ASSUME IInv, Woken(heap, jobs, current, cursor), Next,
         NEW q \in Promise, heap[q].state \in Settled, Erased(heap', q),
         NEW i \in DOMAIN heap[q].conts
  PROVE  heap[q].conts[i].fired
<1>1. SUFFICES ASSUME ~heap[q].conts[i].fired PROVE FALSE
  OBVIOUS
<1>2. IInv'
  BY NextKept DEF Kept
<1>3. /\ heap' \in Heap /\ held' \in Ext /\ jobs' \in Seq(Promise)
      /\ current' \in Promise \union {None} /\ Exact(heap', With(Base(held', current'), jobs'))
  BY <1>2 DEF IInv, TypeOK, Heap, Ext, Outside
<1>4. q \notin Queued(jobs') /\ q # current'
  <2>1. heap'[q].state \notin Live
    BY DEF Erased, Gone, Live, Settled
  <2> QED BY <1>3, <2>1, QueuedLive
<1>5. q \notin Queued(jobs)
  BY <1>4, StepKeepsJobs
<1>6. current = q /\ cursor <= i
  BY <1>1, <1>5 DEF Woken, Queued
<1>7. cursor \notin DOMAIN heap[q].conts
  BY <1>4, <1>6, StepKeepsJobs, NoneAssumption
<1>8. cursor \in Nat /\ cursor >= 1 /\ heap[q].conts \in Seq(Continuation)
  BY <1>6, InvFacts, NoneAssumption DEF IInv, TypeOK, LoopInv, Heap, PromiseObject
<1> QED BY <1>6, <1>7, <1>8

\* The contract's moves, in terms of the promise before and after a step.
Result == [state : Settled, payload : Payload]

LEMMA ContractMove ==
  ASSUME NEW q \in Promise,
         LET o == Outcome(heap, q)
             u == Outcome(heap', q)
             s == heap[q].conts
             t == heap'[q].conts
         IN  \/ u = o /\ Len(t) = Len(s) /\ Cardinality(Prefix(t)) = Cardinality(Prefix(s))
             \/ /\ o = NoOutcome("unborn") /\ u \in {NoOutcome("PENDING")} \union Result
                /\ Len(t) = Len(s) /\ Cardinality(Prefix(t)) = Cardinality(Prefix(s))
             \/ /\ o \in {NoOutcome("PENDING")} \union Result /\ u = o
                /\ Len(t) \in {Len(s) + 1, Len(s) + 2}
                /\ Cardinality(Prefix(t)) = Cardinality(Prefix(s))
             \/ /\ o = NoOutcome("PENDING") /\ u \in Result
                /\ Len(t) = Len(s) /\ Cardinality(Prefix(t)) = Cardinality(Prefix(s))
             \/ /\ o \in Result /\ Cardinality(Prefix(s)) < Len(s)
                /\ Cardinality(Prefix(t)) = Cardinality(Prefix(s)) + 1
                /\ u = o /\ Len(t) = Len(s)
             \/ /\ o \in {NoOutcome("PENDING")} \union Result
                /\ o \in Result => Cardinality(Prefix(s)) = Len(s)
                /\ u = NoOutcome("freed") /\ Len(t) = 0 /\ Cardinality(Prefix(t)) = 0
  PROVE  Contract!Move(q) \/ Contract!Rest(q)
<1>1. /\ FiredPrefix(q) = Prefix(heap[q].conts)
      /\ FiredPrefix(q)' = Prefix(heap'[q].conts)
  BY DEF FiredPrefix, Prefix
<1> QED BY <1>1 DEF Contract!Move, Contract!Rest, Contract!Born, Contract!Attach, Contract!Settle,
             Contract!Run, Contract!Free, Contract!Alive, Result

\* Every promise makes one of the contract's moves, or none, in every step.
LEMMA StepKeepsContract ==
  ASSUME PInv, Woken(heap, jobs, current, cursor), Next, NEW q \in Promise
  PROVE  Contract!Move(q) \/ Contract!Rest(q)
<1> DEFINE o == Outcome(heap, q)
           u == Outcome(heap', q)
           s == heap[q].conts
           t == heap'[q].conts
<1>1. PInv' /\ IInv /\ IInv' /\ Moves(q)
  BY PInvKept, StepMoves DEF PInv
<1>2. /\ heap[q] \in PromiseObject /\ heap'[q] \in PromiseObject
      /\ s \in Seq(Continuation) /\ t \in Seq(Continuation)
      /\ current \in Promise \union {None} /\ cursor \in Nat
  BY <1>1 DEF IInv, TypeOK, PromiseObject
<1>3. /\ o.state = heap[q].state /\ o.payload = heap[q].payload
      /\ u.state = heap'[q].state /\ u.payload = heap'[q].payload
  BY DEF Outcome
<1>4. /\ heap[q].state \in Settled <=> o \in Result
      /\ heap'[q].state \in Settled <=> u \in Result
      /\ heap[q].state \in {"PENDING", "unborn", "freed"} => o = NoOutcome(heap[q].state)
      /\ heap'[q].state \in {"PENDING", "unborn", "freed"} => u = NoOutcome(heap'[q].state)
  <2>1. /\ heap[q].state \notin {"RESOLVED", "REJECTED"} => heap[q].payload = None
        /\ heap'[q].state \notin {"RESOLVED", "REJECTED"} => heap'[q].payload = None
    BY <1>1 DEF PInv, Payloads
  <2>2. heap[q].payload \in Payload /\ heap'[q].payload \in Payload
    BY <1>2 DEF PromiseObject
  <2> QED BY <2>1, <2>2 DEF Outcome, NoOutcome, Result
<1>5. /\ Cardinality(Prefix(s)) \in Nat /\ Cardinality(Prefix(t)) \in Nat
      /\ Len(s) \in Nat /\ Len(<< >>) = 0 /\ Cardinality(Prefix(<< >>)) = 0
  BY <1>2, PrefixFacts
<1>6. /\ heap[q].state \in Live <=> o \in {NoOutcome("PENDING")} \union Result
      /\ heap'[q].state \in Live <=> u \in {NoOutcome("PENDING")} \union Result
  BY <1>3, <1>4 DEF Live, NoOutcome
<1>7. CASE Still(q)
  BY <1>7, ContractMove DEF Still
<1>8. CASE FreedNow(q)
  <2>1. heap'[q].state = "freed" /\ t = << >> /\ u = NoOutcome("freed")
    BY <1>4, <1>8 DEF FreedNow, Erased, Gone
  <2>2. CASE heap[q].state = "freed"
    <3>1. s = << >>
      BY <1>1, <2>2 DEF IInv, Exact, Sound, Live, Settled
    <3> QED BY <1>4, <2>1, <2>2, <3>1, ContractMove
  <2>3. CASE heap[q].state \in Live
    <3>1. ASSUME o \in Result PROVE Cardinality(Prefix(s)) = Len(s)
      <4>1. heap[q].state \in Settled /\ Erased(heap', q)
        BY <1>4, <1>8, <3>1 DEF FreedNow
      <4>2. \A i \in DOMAIN s : s[i].fired
        BY <1>1, <4>1, FreedHasRun
      <4> QED BY <1>2, <4>2, PrefixFacts
    <3> QED BY <1>5, <1>6, <2>1, <2>3, <3>1, ContractMove
  <2> QED BY <1>2, <1>8, <2>2, <2>3 DEF FreedNow, PromiseObject, State
<1>9. CASE BornNow(q)
  BY <1>4, <1>6, <1>9, ContractMove DEF BornNow
<1>10. CASE SettledNow(q)
  BY <1>4, <1>10, ContractMove DEF SettledNow
<1>11. CASE Grown(q)
  <2>1. PICK c \in Continuation, d \in Continuation :
          /\ ~c.fired /\ ~d.fired
          /\ t = Append(s, c) \/ t = Append(Append(s, c), d)
    BY <1>11 DEF Grown
  <2> DEFINE r == Append(s, c)
  <2>2. r \in Seq(Continuation) /\ Prefix(r) = Prefix(s) /\ Len(r) = Len(s) + 1
    BY <1>2, <2>1, PrefixAppend
  <2> HIDE DEF r
  <2>3. Prefix(Append(r, d)) = Prefix(s) /\ Len(Append(r, d)) = Len(s) + 2
    BY <1>5, <2>1, <2>2, PrefixAppend
  <2>4. Len(t) \in {Len(s) + 1, Len(s) + 2} /\ Cardinality(Prefix(t)) = Cardinality(Prefix(s))
    BY <2>1, <2>2, <2>3 DEF r
  <2> QED BY <1>6, <1>11, <2>4, ContractMove DEF Grown
<1>12. CASE FiredNow(q)
  <2>1. /\ q = current /\ cursor \in DOMAIN s /\ u = o /\ ~s[cursor].fired
        /\ t = [s EXCEPT ![cursor].fired = TRUE]
    BY <1>12 DEF FiredNow
  <2>2. o \in Result
    BY <1>4, <2>1, NoneAssumption DEF PInv, JobsSettled
  <2>3. /\ cursor \in 1 .. Len(s) /\ DOMAIN s = 1 .. Len(s) /\ DOMAIN t = 1 .. Len(s)
        /\ Len(t) = Len(s)
    BY <1>2, <2>1
  <2>4. \A j \in 1 .. (cursor - 1) : s[j].fired
    BY <2>1, NoneAssumption DEF PInv, Passed
  <2>5. Cardinality(Prefix(s)) = cursor - 1
    BY <1>2, <2>1, <2>4, PrefixFacts
  <2>6. t[cursor].fired /\ \A j \in DOMAIN s : j # cursor => t[j] = s[j]
    <3>1. s[cursor] \in Continuation
      BY <1>2, <2>1
    <3>2. t[cursor] = [s[cursor] EXCEPT !.fired = TRUE]
      BY <1>2, <2>1
    <3> QED BY <1>2, <2>1, <3>1, <3>2 DEF Continuation
  <2>7. \A j \in 1 .. cursor : t[j].fired
    <3>1. \A j \in 1 .. cursor : j = cursor \/ (j \in 1 .. (cursor - 1) /\ j \in DOMAIN s)
      BY <1>2, <2>3
    <3> QED BY <2>4, <2>6, <3>1
  <2>8. cursor + 1 \in DOMAIN t => ~t[cursor + 1].fired
    <3>1. SUFFICES ASSUME cursor + 1 \in DOMAIN s PROVE ~s[cursor + 1].fired
      BY <1>2, <2>3, <2>6
    <3>2. cursor < cursor + 1
      BY <1>2
    <3> QED BY <2>1, <3>1, <3>2 DEF PInv, Conts
  <2>9. Cardinality(Prefix(t)) = cursor
    BY <1>2, <2>3, <2>7, <2>8, PrefixFacts
  <2>10. /\ Cardinality(Prefix(s)) < Len(s)
         /\ Cardinality(Prefix(t)) = Cardinality(Prefix(s)) + 1
    BY <1>2, <1>5, <2>3, <2>5, <2>9
  <2> QED BY <2>1, <2>2, <2>3, <2>10, ContractMove
<1> QED BY <1>1, <1>7, <1>8, <1>9, <1>10, <1>11, <1>12 DEF Moves

\* If no job is lost for want of memory, every continuation of a settled promise
\* that has not fired is ahead of the loop or has a job: what NoLostWakeup says,
\* kept by every step.
LEMMA WokenStep ==
  ASSUME IInv, Woken(heap, jobs, current, cursor), "job" \notin Failing, [Next]_vars
  PROVE  Woken(heap', jobs', current', cursor')
<1>1. CASE UNCHANGED vars
  BY <1>1 DEF vars
<1>2. CASE BeginDrain
  BY <1>2 DEF BeginDrain
<1> QED BY <1>1, <1>2, WokenByApplication, WokenByReturn, WokenByLoop DEF Next

\* The library keeps the contract of qpromise.h, for any promises, payloads and
\* kinds of continuation, as long as jobs can be allocated: each promise settles
\* at most once, its continuations run once each, in the order of attachment and
\* after it settled, and it is not freed while one of them waits.
THEOREM ContractIsKept ==
  ASSUME "job" \notin Failing
  PROVE  Spec => KeepsContract
<1> DEFINE W == Woken(heap, jobs, current, cursor)
<1>1. Init => Contract!Init
  <2>1. SUFFICES ASSUME Init PROVE Contract!Init
    OBVIOUS
  <2>2. \A q \in Promise : heap[q].conts = << >> /\ Outcome(heap, q) = NoOutcome("unborn")
    BY <2>1 DEF Init, Blank, Outcome, NoOutcome
  <2>3. \A q \in Promise : FiredPrefix(q) = {}
    BY <2>2 DEF FiredPrefix
  <2>4. Cardinality({}) = 0 /\ Len(<< >>) = 0
    BY FS_EmptySet
  <2>5. \A q \in Promise : /\ Outcome(heap, q) = NoOutcome("unborn")
                           /\ Len(heap[q].conts) = 0 /\ Cardinality(FiredPrefix(q)) = 0
    BY <2>2, <2>3, <2>4
  <2> QED BY <2>5, Zenon DEF Contract!Init
<1>2. Init => W
  BY DEF Init, Woken, Blank
<1>3. PInv /\ W /\ [Next]_vars => W'
  BY WokenStep DEF PInv
<1>4. PInv /\ W /\ [Next]_vars => [Contract!Next]_(Contract!vars)
  <2>1. ASSUME PInv, W, Next PROVE Contract!Next
    BY <2>1, StepKeepsContract DEF Contract!Next
  <2>2. ASSUME UNCHANGED vars PROVE UNCHANGED Contract!vars
    <3>1. heap' = heap
      BY <2>2 DEF vars
    <3>2. \A q \in Promise : FiredPrefix(q)' = FiredPrefix(q) /\ Outcome(heap, q)' = Outcome(heap, q)
      BY <3>1 DEF FiredPrefix, Outcome
    <3> QED BY <3>1, <3>2 DEF Contract!vars
  <2> QED BY <2>1, <2>2
<1> HIDE DEF W
<1> QED BY <1>1, <1>2, <1>3, <1>4, PromiseInvariance, PTL DEF Spec, KeepsContract, Contract!Spec

-----------------------------------------------------------------------------
(* What a drained queue has delivered                                        *)

\* The promise x follows will settle x: an adoption waits in its list.
Linked(h, x) ==
  \E i \in DOMAIN h[h[x].following].conts :
    LET c == h[h[x].following].conts[i]
    IN  c.adopt /\ ~c.fired /\ c.child = x

\* What a step may do to what q follows.
Follows(q) ==
  \/ heap'[q].following = heap[q].following /\ heap'[q].state = heap[q].state
  \/ /\ heap'[q].following = None
     /\ heap[q].following # None => Erased(heap', q) \/ heap'[q].state \in Settled
  \/ /\ heap'[q].following \in Promise /\ heap'[q].state = "PENDING"
     /\ Linked(heap', q) \/ Gone(heap', heap'[q].following)

Answered(q) == Erased(heap', q) \/ heap'[q].state \in Settled

LEMMA SettlesFollows ==
  ASSUME NEW h \in Heap, NEW p \in Promise, NEW o \in OutcomeRecord,
         Settles(h, heap', p, o), heap[p].state \in Live,
         \A q \in Promise : Outcome(h, q) = Outcome(heap, q),
         \A q \in Promise : \/ h[q].following = heap[q].following
                            \/ q = p /\ heap[p].state = "PENDING"
  PROVE  (\A q \in Promise : Follows(q)) /\ Answered(p)
<1>1. \A q \in Promise : h[q].state = heap[q].state
  BY DEF Outcome
<1>2. o.state \in Settled
  BY DEF OutcomeRecord
<1>3. ASSUME NEW q \in Promise
      PROVE  \/ Erased(heap', q)
             \/ /\ q = p /\ heap[p].state = "PENDING"
                /\ heap'[q].state \in Settled /\ heap'[q].following = None
             \/ /\ ~(q = p /\ heap[p].state = "PENDING")
                /\ heap'[q].state = heap[q].state /\ heap'[q].following = heap[q].following
  <2>1. \A g : /\ Outcome(g, q) = o => g[q].state = o.state
               /\ Outcome(g, q) = Outcome(h, q) => g[q].state = h[q].state
    BY DEF Outcome
  <2> QED BY <1>1, <1>2, <2>1 DEF Settles
<1>4. ASSUME NEW q \in Promise PROVE Follows(q)
  BY <1>3 DEF Follows, Erased, Gone
<1>5. Answered(p)
  BY <1>3 DEF Answered, Live
<1> QED BY <1>4, <1>5

LEMMA FollowFollows ==
  ASSUME IInv, inHandler, Returns, NEW r \in Promise, held[r] > 0,
         held' = Minus(held, r), heap' = Follow(heap, AtCursor.child, r), jobs' = jobs,
         heap[AtCursor.child].state = "PENDING"
  PROVE  /\ \A q \in Promise : Follows(q)
         /\ heap'[AtCursor.child].following # None \/ Answered(AtCursor.child)
<1> DEFINE x == AtCursor.child
           h1 == Following(heap, x, r)
           h2 == AppendCont(h1, r, "THEN", TRUE, x)
           h3 == AppendCont(h2, r, "CATCH", TRUE, x)
           c == NewCont("THEN", TRUE, x)
           d == NewCont("CATCH", TRUE, x)
<1>1. /\ heap \in Heap /\ x \in Promise /\ heap[x].following = None
      /\ heap[x].state = "PENDING"
  BY ReturnFacts
<1>2. h1 \in Heap /\ h2 \in Heap /\ h3 \in Heap
  BY FollowKept
<1>3. heap' = Unref(h3, r)
  BY DEF Follow
<1>4. "THEN" \in Kind /\ "CATCH" \in Kind
  BY DEF Kind
<1>5. \A q \in Promise : /\ h1[q].state = heap[q].state
                         /\ h1[q].following = IF q = x THEN r ELSE heap[q].following
  BY <1>1, FollowingEffect
<1>6. c \in Continuation /\ c.adopt /\ ~c.fired /\ c.child = x /\ d \in Continuation
  BY <1>1, <1>4 DEF NewCont, Continuation
<1> HIDE DEF x, h1
<1>7. /\ \A q \in Promise : h2[q].state = h1[q].state /\ h2[q].following = h1[q].following
      /\ h2[r].conts = Append(h1[r].conts, c)
  <2>1. \A a \in BOOLEAN : LET g == AppendCont(h1, r, "THEN", a, x) IN
          /\ \A q \in Promise : g[q].state = h1[q].state /\ g[q].following = h1[q].following
          /\ g[r].conts = Append(h1[r].conts, NewCont("THEN", a, x))
    BY <1>1, <1>2, <1>4, AppendContEffect
  <2> QED BY <2>1
<1> HIDE DEF h2
<1>8. /\ \A q \in Promise : h3[q].state = h2[q].state /\ h3[q].following = h2[q].following
      /\ h3[r].conts = Append(h2[r].conts, d)
  <2>1. \A a \in BOOLEAN : LET g == AppendCont(h2, r, "CATCH", a, x) IN
          /\ \A q \in Promise : g[q].state = h2[q].state /\ g[q].following = h2[q].following
          /\ g[r].conts = Append(h2[r].conts, NewCont("CATCH", a, x))
    BY <1>1, <1>2, <1>4, AppendContEffect
  <2> QED BY <2>1
<1> HIDE DEF h3, c, d
<1>9. \E i \in DOMAIN h3[r].conts :
        h3[r].conts[i].adopt /\ ~h3[r].conts[i].fired /\ h3[r].conts[i].child = x
  <2> DEFINE i == Len(h1[r].conts) + 1
  <2>1. i \in DOMAIN h2[r].conts /\ h2[r].conts[i] = c
    BY <1>2, <1>6, <1>7, AppendedCont
  <2> HIDE DEF i
  <2>2. i \in DOMAIN h3[r].conts /\ h3[r].conts[i] = c
    BY <1>2, <1>6, <1>8, <2>1, AppendedCont
  <2> QED BY <1>6, <2>2
<1>10. Trimmed(h3, heap')
  BY <1>2, <1>3, UnrefEffect
<1>11. ASSUME NEW q \in Promise
       PROVE  \/ Erased(heap', q)
              \/ /\ heap'[q].state = heap[q].state
                 /\ heap'[q].following = IF q = x THEN r ELSE heap[q].following
  <2>1. Outcome(heap', q) = Outcome(h3, q) => heap'[q].state = h3[q].state
    BY DEF Outcome
  <2> QED BY <1>5, <1>7, <1>8, <1>10, <2>1, TrimmedErases
<1>12. Gone(heap', r) \/ heap'[r].conts = h3[r].conts
  BY <1>10, TrimmedErases DEF Erased
<1>13. ASSUME NEW q \in Promise PROVE Follows(q)
  BY <1>1, <1>9, <1>11, <1>12 DEF Follows, Linked, Erased, Gone
<1>14. heap'[x].following # None \/ Answered(x)
  BY <1>1, <1>11, NoneAssumption DEF Answered
<1> QED BY <1>13, <1>14 DEF x

LEMMA ReturnFollows ==
  ASSUME IInv, HandlerReturns
  PROVE  /\ \A q \in Promise : Follows(q)
         /\ heap'[AtCursor.child].following # None \/ Answered(AtCursor.child)
<1> DEFINE x == AtCursor.child
<1>1. inHandler /\ Returns
  BY DEF HandlerReturns, ReturnResult, ReturnPromise, ReturnFinally
<1>2. /\ heap \in Heap /\ x \in Promise /\ heap[x].state \in Live
      /\ heap[x].following = None /\ current \in Promise
      /\ Outside \in Ext /\ Exact(heap, Outside)
  BY <1>1, ReturnFacts
<1>3. ASSUME NEW h \in Heap, NEW o \in OutcomeRecord, NEW handed \in Promise \union {None},
             SettleAndEnqueue(h, x, o, handed),
             \A q \in Promise : Outcome(h, q) = Outcome(heap, q),
             \A q \in Promise : \/ h[q].following = heap[q].following
                                \/ q = x /\ heap[x].state = "PENDING"
      PROVE  (\A q \in Promise : Follows(q)) /\ Answered(x)
  <2> HIDE DEF x
  <2>1. Settles(h, heap', x, o)
    BY <1>2, <1>3, SettlesTo
  <2> QED BY <1>2, <1>3, <2>1, SettlesFollows
<1>4. ASSUME NEW o \in AppOutcomes, ReturnResult(o)
      PROVE  (\A q \in Promise : Follows(q)) /\ Answered(x)
  BY <1>2, <1>3, <1>4, AppOutcomeTypes DEF ReturnResult
<1>5. CASE ReturnFinally
  <2>1. PICK o \in PassThrough(heap, current) : SettleAndEnqueue(heap, x, o, None)
    BY <1>5 DEF ReturnFinally
  <2>2. o \in OutcomeRecord
    BY <1>2, <2>1, OutcomeTypes
  <2> QED BY <1>2, <1>3, <2>1, <2>2
<1>6. ASSUME NEW r \in Promise, ReturnPromise(r)
      PROVE  (\A q \in Promise : Follows(q)) /\ (heap'[x].following # None \/ Answered(x))
  <2>1. held[r] > 0 /\ held' = Minus(held, r) /\ Adopt(x, r) /\ heap[r].state \in Live
    BY <1>6, InvFacts DEF ReturnPromise, Owned, Minus
  <2>2. CASE heap[x].state # "PENDING"
    <3>1. heap' = Unref(heap, r)
      BY <2>1, <2>2 DEF Adopt
    <3>2. Trimmed(heap, heap')
      BY <1>2, <3>1, UnrefEffect
    <3>3. \A q \in Promise : \/ Erased(heap', q)
                             \/ /\ heap'[q].state = heap[q].state
                                /\ heap'[q].following = heap[q].following
      BY <3>2, TrimmedErases DEF Outcome
    <3> HIDE DEF x
    <3> QED BY <1>2, <2>2, <3>3 DEF Follows, Erased, Gone, Answered, Live
  <2>3. CASE heap[x].state = "PENDING" /\ heap[r].state # "PENDING"
    <3>1. PICK o \in Adopted(heap, r) : SettleAndEnqueue(heap, x, o, r)
      BY <2>1, <2>3 DEF Adopt
    <3>2. o \in OutcomeRecord
      BY <1>2, <3>1, OutcomeTypes
    <3> QED BY <1>2, <1>3, <3>1, <3>2
  <2>4. CASE heap[x].state = "PENDING" /\ heap[r].state = "PENDING"
    <3>1. \/ heap' = Follow(heap, x, r) /\ jobs' = jobs
          \/ \E o \in CopiedRejection(LibraryError) :
               SettleAndEnqueue(Following(heap, x, r), x, o, r)
      BY <2>1, <2>4 DEF Adopt
    <3>2. CASE heap' = Follow(heap, x, r) /\ jobs' = jobs
      BY <1>1, <2>1, <2>4, <3>2, FollowFollows
    <3>3. ASSUME NEW o \in CopiedRejection(LibraryError),
                 SettleAndEnqueue(Following(heap, x, r), x, o, r)
          PROVE  (\A q \in Promise : Follows(q)) /\ Answered(x)
      <4> DEFINE h == Following(heap, x, r)
      <4>1. o \in OutcomeRecord
        BY <1>2, <3>3, OutcomeTypes
      <4>2. h \in Heap
        BY <1>2, <2>1, FollowingExact
      <4>3. \A q \in Promise : /\ h[q].state = heap[q].state /\ h[q].payload = heap[q].payload
                               /\ h[q].following = IF q = x THEN r ELSE heap[q].following
        BY <1>2, FollowingEffect
      <4>4. SettleAndEnqueue(h, x, o, r)
        BY <3>3
      <4> HIDE DEF h
      <4>5. \A q \in Promise : Outcome(h, q) = Outcome(heap, q)
        BY <4>3 DEF Outcome
      <4> QED BY <1>3, <2>4, <4>1, <4>2, <4>3, <4>4, <4>5
    <3> QED BY <3>1, <3>2, <3>3
  <2> QED BY <2>2, <2>3, <2>4
<1> QED BY <1>4, <1>5, <1>6 DEF HandlerReturns

LEMMA TrimmedFollows ==
  ASSUME IInv, NEW p \in Promise, heap' = Unref(heap, p)
  PROVE  \A q \in Promise : Follows(q)
<1>1. Trimmed(heap, heap')
  BY InvFacts, UnrefEffect
<1>2. \A q \in Promise : \/ Erased(heap', q)
                         \/ /\ heap'[q].state = heap[q].state
                            /\ heap'[q].following = heap[q].following
  BY <1>1, TrimmedErases DEF Outcome
<1> QED BY <1>2 DEF Follows, Erased, Gone

LEMMA ApplicationFollows ==
  ASSUME IInv, Application
  PROVE  \A q \in Promise : Follows(q)
<1>1. heap \in Heap
  BY InvFacts
<1>2. PICK p \in Promise :
        \/ \E o \in AppOutcomes \union {[state |-> "PENDING", payload |-> None]} : Create(p, o)
        \/ \E k \in Attached, child \in Promise : k \in Kind /\ Attach(p, k, child)
        \/ \E o \in AppOutcomes \union {Cancelled} : SettleCall(p, o)
        \/ RefCall(p)
        \/ UnrefCall(p)
  BY AttachedAssumption DEF Application, Kind
<1>3. ASSUME NEW o, Create(p, o) PROVE \A q \in Promise : Follows(q)
  <2>1. heap[p].state = "unborn" /\ heap' = [heap EXCEPT ![p] = NewPromise(o.state, o.payload)]
    BY <1>3 DEF Create
  <2>2. heap'[p].following = None /\ \A q \in Promise : q # p => heap'[q] = heap[q]
    BY <1>1, <2>1 DEF Heap, NewPromise
  <2> QED BY <2>1, <2>2, UnbornFacts DEF Follows
<1>4. ASSUME NEW k \in Kind, NEW child \in Promise, Attach(p, k, child)
      PROVE  \A q \in Promise : Follows(q)
  <2> DEFINE h == [heap EXCEPT ![child] = NewPromise("PENDING", None)]
             g == AppendCont(h, p, k, FALSE, child)
  <2>1. heap[child].state = "unborn" /\ heap[child].following = None
    BY <1>4, UnbornFacts DEF Attach
  <2>2. NewPromise("PENDING", None) \in PromiseObject
    BY DEF NewPromise, PromiseObject, State, Live, Payload
  <2>3. /\ h \in Heap /\ h[child].following = None
        /\ \A q \in Promise : q # child => h[q] = heap[q]
    BY <1>1, <2>2 DEF Heap, NewPromise
  <2>4. heap' = g \/ heap' = Ref(g, p)
    BY <1>4 DEF Attach
  <2> HIDE DEF h
  <2>5. \A q \in Promise : g[q].state = h[q].state /\ g[q].following = h[q].following
    <3>1. \A a \in BOOLEAN : \A q \in Promise :
            /\ AppendCont(h, p, k, a, child)[q].state = h[q].state
            /\ AppendCont(h, p, k, a, child)[q].following = h[q].following
      BY <2>3, AppendContEffect
    <3> QED BY <3>1
  <2>6. g \in Heap
    <3>1. h[p] \in PromiseObject /\ h[p].conts \in Seq(Continuation)
      BY <2>3 DEF Heap, PromiseObject
    <3>2. NewCont(k, FALSE, child) \in Continuation
      BY DEF NewCont, Continuation
    <3>3. Append(h[p].conts, NewCont(k, FALSE, child)) \in Seq(Continuation)
      BY <3>1, <3>2, AppendProperties
    <3>4. [h EXCEPT ![p].conts = Append(@, NewCont(k, FALSE, child))] \in Heap
      BY <2>3, <3>1, <3>3 DEF Heap, PromiseObject
    <3> QED BY <3>4, RefEffect DEF AppendCont
  <2> HIDE DEF g
  <2>7. \A q \in Promise : heap'[q].state = g[q].state /\ heap'[q].following = g[q].following
    BY <2>4, <2>6, RefEffect
  <2> QED BY <2>1, <2>3, <2>5, <2>7 DEF Follows
<1>5. ASSUME NEW o \in AppOutcomes \union {Cancelled}, SettleCall(p, o)
      PROVE  \A q \in Promise : Follows(q)
  <2>1. heap[p].state = "PENDING" /\ SettleAndEnqueue(heap, p, o, None)
    BY <1>5 DEF SettleCall
  <2>2. o \in OutcomeRecord
    BY AppOutcomeTypes
  <2>3. Settles(heap, heap', p, o)
    BY <1>1, <2>1, <2>2, SettlesTo
  <2> QED BY <1>1, <2>1, <2>2, <2>3, SettlesFollows DEF Live
<1>6. CASE RefCall(p)
  BY <1>1, <1>6, RefEffect DEF RefCall, Follows
<1>7. CASE UnrefCall(p)
  BY <1>7, TrimmedFollows DEF UnrefCall
<1> QED BY <1>2, <1>3, <1>4, <1>5, <1>6, <1>7

LEMMA LoopFollows ==
  ASSUME IInv, DrainLoop
  PROVE  /\ \A q \in Promise : Follows(q)
         /\ FireNext => Answered(AtCursor.child)
<1>1. CASE TakeJob \/ EndDrain \/ SkipFired
  BY <1>1 DEF TakeJob, EndDrain, SkipFired, FireNext, AtContinuation, Follows
<1>2. CASE FinishJob
  BY <1>2, InvFacts, TrimmedFollows DEF FinishJob, FireNext, AtContinuation
<1>3. CASE CallHandler
  <2>1. /\ current # None /\ cursor \in DOMAIN heap[current].conts
        /\ heap' = MarkFired(heap) /\ ~FireNext
    BY <1>3 DEF CallHandler, AtContinuation, FireNext
  <2>2. \A q \in Promise : /\ MarkFired(heap)[q].state = heap[q].state
                           /\ MarkFired(heap)[q].following = heap[q].following
    BY <2>1, MarkFiredOnly, MarkFiredFacts
  <2> QED BY <2>1, <2>2 DEF Follows
<1>4. CASE FireNext
  <2> DEFINE h == MarkFired(heap)
             x == AtCursor.child
  <2>1. current # None /\ cursor \in DOMAIN heap[current].conts
    BY <1>4 DEF FireNext, AtContinuation
  <2>2. PICK o \in IF ~Calls(AtCursor.kind, heap[current].state)
                   THEN PassThrough(heap, current)
                   ELSE IF AtCursor.kind = "THEN" THEN Adopted(heap, current)
                   ELSE AdoptedOnCatch(heap, current) :
          SettleAndEnqueue(h, x, o, None)
    BY <1>4 DEF FireNext
  <2>3. /\ heap \in Heap /\ current \in Promise /\ x \in Promise /\ heap[x].state \in Live
    BY <2>1, InvFacts, CursorFacts DEF Continuation
  <2>4. o \in OutcomeRecord
    BY <2>2, <2>3, OutcomeTypes
  <2>5. /\ h \in Heap
        /\ \A q \in Promise : Outcome(h, q) = Outcome(heap, q) /\ h[q].following = heap[q].following
    BY <2>1, MarkFiredFacts, MarkFiredOnly
  <2> HIDE DEF h, x
  <2>6. Settles(h, heap', x, o)
    BY <2>2, <2>3, <2>4, <2>5, SettlesTo
  <2>7. (\A q \in Promise : Follows(q)) /\ Answered(x)
    BY <2>3, <2>4, <2>5, <2>6, SettlesFollows
  <2> QED BY <2>7 DEF x
<1> QED BY <1>1, <1>2, <1>3, <1>4 DEF DrainLoop

LEMMA StepFollows ==
  ASSUME IInv, Next
  PROVE  \A q \in Promise : Follows(q)
<1>1. CASE BeginDrain
  BY <1>1 DEF BeginDrain, Follows
<1> QED BY <1>1, ApplicationFollows, ReturnFollows, LoopFollows DEF Next

-----------------------------------------------------------------------------
(* The invariant behind a drained queue                                      *)

\* A continuation that has fired has settled its child, or the child follows a
\* promise, or the handler runs; and a promise that follows another is pending,
\* and is linked to it.
Handed ==
  \A p \in Promise : \A i \in DOMAIN heap[p].conts :
    heap[p].conts[i].fired =>
      \/ heap[heap[p].conts[i].child].state \in Settled
      \/ heap[heap[p].conts[i].child].following # None
      \/ inHandler /\ current = p /\ cursor = i

Links ==
  \A q \in Promise : heap[q].following # None =>
    heap[q].state = "PENDING" /\ Linked(heap, q)

RunsInDrain == current # None => draining

\* Who moves, by the phase of the loop.
LEMMA StepPhase ==
  ASSUME IInv, Next
  PROVE  /\ inHandler => HandlerReturns \/ (inHandler' /\ current' = current /\ cursor' = cursor)
         /\ ~inHandler /\ inHandler' => CallHandler
         /\ RunsInDrain => RunsInDrain'
<1>1. inHandler => current # None
  BY DEF IInv, LoopInv
<1>2. CASE Application
  <2>1. draining' = draining /\ current' = current /\ cursor' = cursor /\ inHandler' = inHandler
    BY <1>2 DEF Application, Create, Attach, SettleCall, RefCall, UnrefCall, drainVars
  <2> QED BY <2>1 DEF RunsInDrain
<1>3. CASE HandlerReturns
  <2>1. inHandler /\ draining' = draining /\ current' = current
    BY <1>3 DEF HandlerReturns, ReturnResult, ReturnPromise, ReturnFinally, Returns
  <2> QED BY <1>3, <2>1 DEF RunsInDrain
<1>4. CASE BeginDrain
  BY <1>4 DEF BeginDrain, RunsInDrain
<1>5. CASE DrainLoop
  BY <1>1, <1>5 DEF DrainLoop, TakeJob, EndDrain, SkipFired, CallHandler, FireNext, FinishJob,
                    AtContinuation, RunsInDrain
<1> QED BY <1>2, <1>3, <1>4, <1>5 DEF Next

\* What a heap refers to is alive.
LEMMA ReferencedLive ==
  ASSUME NEW h \in Heap, NEW ext \in Ext, Exact(h, ext), NEW p \in Promise
  PROVE  /\ \A i \in DOMAIN h[p].conts :
              h[p].conts[i].child \in Promise /\ h[h[p].conts[i].child].state \in Live
         /\ h[p].following # None =>
              h[p].following \in Promise /\ h[h[p].following].state \in Live
<1>1. h[p].conts \in Seq(Continuation) /\ h[p].following \in Promise \union {None}
  BY DEF Heap, PromiseObject
<1>2. \A i \in DOMAIN h[p].conts : h[p].conts[i] \in Continuation
  BY <1>1
<1>3. \A i \in DOMAIN h[p].conts : h[p].conts[i].child \in Promise
  BY <1>2 DEF Continuation
<1> QED BY <1>1, <1>3, ReferredLive

LEMMA StillReferenced ==
  ASSUME IInv, Next, NEW p \in Promise
  PROVE  /\ \A i \in DOMAIN heap'[p].conts :
              LET x == heap'[p].conts[i].child
              IN  x \in Promise /\ ~Gone(heap', x) /\ ~Erased(heap', x)
         /\ heap'[p].following # None =>
              LET x == heap'[p].following
              IN  x \in Promise /\ ~Gone(heap', x)
<1>1. heap' \in Heap /\ held' \in Ext /\ jobs' \in Seq(Promise)
      /\ current' \in Promise \union {None} /\ Exact(heap', Outside')
  BY NextKept DEF Kept, IInv, TypeOK, Heap, Ext
<1>2. Outside' \in Ext
  <2>1. Base(held', current') \in Ext
    BY <1>1 DEF Base, Ext
  <2> QED BY <1>1, <2>1, WithType DEF Outside
<1>3. \A x : heap'[x].state \in Live => ~Gone(heap', x) /\ ~Erased(heap', x)
  BY DEF Live, Settled, Gone, Erased
<1> QED BY <1>1, <1>2, <1>3, ReferencedLive

\* A continuation that has fired after a step had fired before it, or is the one
\* at the cursor and fires in the step.
LEMMA FiredBefore ==
  ASSUME IInv, JobsSettled, Next, NEW p \in Promise, NEW i \in DOMAIN heap'[p].conts,
         heap'[p].conts[i].fired
  PROVE  /\ i \in DOMAIN heap[p].conts
         /\ heap[p].conts[i].child = heap'[p].conts[i].child
         /\ heap[p].conts[i].adopt = heap'[p].conts[i].adopt
         /\ heap[p].conts[i].fired \/ (FiredNow(p) /\ i = cursor)
<1> DEFINE s == heap[p].conts
           t == heap'[p].conts
<1>1. Moves(p) /\ s \in Seq(Continuation)
  BY StepMoves, InvFacts DEF Heap, PromiseObject
<1>2. ~FreedNow(p) /\ ~BornNow(p)
  BY DEF FreedNow, Erased, Gone, BornNow
<1>3. CASE t = s
  BY <1>3
<1>4. \A u \in Seq(Continuation), c \in Continuation :
        /\ Append(u, c) \in Seq(Continuation)
        /\ ~c.fired => \A j \in DOMAIN Append(u, c) : Append(u, c)[j].fired =>
                         j \in DOMAIN u /\ Append(u, c)[j] = u[j]
  BY AppendProperties
<1>5. CASE Grown(p)
  <2>1. PICK c \in Continuation, d \in Continuation :
          /\ ~c.fired /\ ~d.fired
          /\ t = Append(s, c) \/ t = Append(Append(s, c), d)
    BY <1>5 DEF Grown
  <2> DEFINE r == Append(s, c)
  <2>2. r \in Seq(Continuation) /\ \A j \in DOMAIN r : r[j].fired => j \in DOMAIN s /\ r[j] = s[j]
    BY <1>1, <1>4, <2>1
  <2>3. t = r \/ t = Append(r, d)
    BY <2>1
  <2> HIDE DEF r
  <2>4. i \in DOMAIN r /\ t[i] = r[i]
    BY <1>4, <2>1, <2>2, <2>3
  <2> QED BY <2>2, <2>4
<1>6. CASE FiredNow(p)
  <2>1. cursor \in DOMAIN s /\ t = [s EXCEPT ![cursor].fired = TRUE]
    BY <1>6 DEF FiredNow
  <2>2. i \in DOMAIN s /\ (i # cursor => t[i] = s[i])
    BY <1>1, <2>1
  <2>3. i = cursor => t[i].child = s[i].child /\ t[i].adopt = s[i].adopt
    <3>1. s[cursor] \in Continuation
      BY <1>1, <2>1
    <3> QED BY <1>1, <2>1, <3>1 DEF Continuation
  <2> QED BY <1>6, <2>2, <2>3
<1> QED BY <1>1, <1>2, <1>3, <1>5, <1>6 DEF Moves, Still, SettledNow

\* The continuation that fires is handed to a handler, or its child is answered.
LEMMA FiringPhase ==
  ASSUME IInv, Next, NEW p \in Promise, FiredNow(p)
  PROVE  \/ /\ CallHandler /\ inHandler' /\ current' = p /\ cursor' = cursor
            /\ ~heap[p].conts[cursor].adopt
         \/ Answered(heap[p].conts[cursor].child)
<1>1. p = current /\ current \in Promise /\ ~inHandler /\ cursor \in Nat /\ current # None
      /\ current' = current /\ ~AtCursor.fired
      /\ (cursor' = cursor + 1 \/ (inHandler' /\ cursor' = cursor))
  BY NoneAssumption DEF FiredNow, IInv, TypeOK, AtCursor
<1>2. CASE inHandler'
  <2>1. CallHandler
    BY <1>1, <1>2, StepPhase
  <2>2. cursor' = cursor /\ ~AtCursor.adopt
    BY <2>1 DEF CallHandler
  <2> QED BY <1>1, <1>2, <2>1, <2>2 DEF AtCursor
<1>3. CASE ~inHandler'
  <2>1. cursor' = cursor + 1 /\ cursor' # cursor
    BY <1>1, <1>3
  <2>2. ~Application
    BY <2>1 DEF Application, Create, Attach, SettleCall, RefCall, UnrefCall, drainVars
  <2>3. ~HandlerReturns
    BY <1>1 DEF HandlerReturns, ReturnResult, ReturnPromise, ReturnFinally
  <2>4. ~(BeginDrain \/ TakeJob \/ EndDrain \/ SkipFired \/ CallHandler \/ FinishJob)
    BY <1>1, <1>3, <2>1 DEF BeginDrain, TakeJob, EndDrain, SkipFired, CallHandler, FinishJob
  <2>5. FireNext
    BY <2>2, <2>3, <2>4 DEF Next, DrainLoop
  <2> QED BY <1>1, <2>5, LoopFollows DEF DrainLoop, AtCursor
<1> QED BY <1>2, <1>3

LEMMA HandedKept ==
  ASSUME IInv, JobsSettled, Handed, Next
  PROVE  Handed'
<1>1. SUFFICES ASSUME NEW p \in Promise, NEW i \in DOMAIN heap'[p].conts,
                      heap'[p].conts[i].fired
               PROVE  \/ heap'[heap'[p].conts[i].child].state \in Settled
                      \/ heap'[heap'[p].conts[i].child].following # None
                      \/ inHandler' /\ current' = p /\ cursor' = i
  BY DEF Handed
<1> DEFINE x == heap'[p].conts[i].child
<1>2. /\ i \in DOMAIN heap[p].conts /\ x = heap[p].conts[i].child
      /\ heap[p].conts[i].fired \/ (FiredNow(p) /\ i = cursor)
  BY <1>1, FiredBefore
<1>3. x \in Promise /\ ~Gone(heap', x) /\ ~Erased(heap', x)
  BY StillReferenced
<1> HIDE DEF x
<1>4. CASE heap[p].conts[i].fired
  <2>1. Evolved(heap, heap', x) /\ Follows(x)
    BY <1>3, NextKept, StepFollows DEF Kept, Evolves
  <2>2. CASE heap[x].state \in Settled
    BY <1>3, <2>1, <2>2 DEF Evolved, x
  <2>3. CASE heap[x].following # None
    BY <1>3, <2>1, <2>3, NoneAssumption DEF Follows, x
  <2>4. CASE inHandler /\ current = p /\ cursor = i
    <3>1. CASE inHandler' /\ current' = current /\ cursor' = cursor
      BY <2>4, <3>1
    <3>2. CASE HandlerReturns
      <4>1. AtCursor.child = x
        BY <1>2, <2>4 DEF AtCursor
      <4> QED BY <1>3, <3>2, <4>1, ReturnFollows DEF Answered, x
    <3> QED BY <2>4, <3>1, <3>2, StepPhase
  <2> QED BY <1>2, <1>4, <2>2, <2>3, <2>4 DEF Handed
<1>5. CASE FiredNow(p) /\ i = cursor
  BY <1>2, <1>3, <1>5, FiringPhase DEF Answered, x
<1> QED BY <1>2, <1>4, <1>5

LEMMA LinksKept ==
  ASSUME IInv, JobsSettled, Links, Next
  PROVE  Links'
<1>1. SUFFICES ASSUME NEW q \in Promise, heap'[q].following # None
               PROVE  heap'[q].state = "PENDING" /\ Linked(heap', q)
  BY DEF Links, Linked
<1> DEFINE r == heap'[q].following
<1>2. r \in Promise /\ ~Gone(heap', r) /\ Follows(q)
  BY <1>1, StillReferenced, StepFollows
<1>3. CASE r = heap[q].following /\ heap'[q].state = heap[q].state
  <2>1. heap'[q].state = "PENDING" /\ Linked(heap, q)
    BY <1>1, <1>3 DEF Links
  <2>2. PICK i \in DOMAIN heap[r].conts :
          heap[r].conts[i].adopt /\ ~heap[r].conts[i].fired /\ heap[r].conts[i].child = q
    BY <1>3, <2>1 DEF Linked
  <2> HIDE DEF r
  <2>3. /\ i \in DOMAIN heap'[r].conts /\ heap'[r].conts[i].adopt
        /\ heap'[r].conts[i].child = q
    BY <1>2, <2>2, NextKept DEF Kept, Evolves, Evolved
  <2>4. ~heap'[r].conts[i].fired
    <3>1. SUFFICES ASSUME heap'[r].conts[i].fired PROVE FALSE
      OBVIOUS
    <3>2. FiredNow(r) /\ i = cursor
      BY <1>2, <2>2, <2>3, <3>1, FiredBefore
    <3>3. Answered(q)
      BY <1>2, <2>2, <3>2, FiringPhase
    <3> QED BY <2>1, <3>3 DEF Answered, Erased, Gone, Settled
  <2> QED BY <2>1, <2>3, <2>4 DEF Linked, r
<1> QED BY <1>1, <1>2, <1>3 DEF Follows

\* What a drain leaves behind is delivered, for any promises and payloads, as long
\* as jobs can be allocated: after qpromise_drain every continuation of a settled
\* promise has fired, and its child is settled or waits for a pending promise.
THEOREM DrainsDeliver ==
  ASSUME "job" \notin Failing
  PROVE  Spec => []DrainedMeansDelivered
<1> DEFINE W == Woken(heap, jobs, current, cursor)
           D == Handed /\ Links /\ RunsInDrain
<1>1. Init => W /\ D
  BY DEF Init, Woken, Blank, Handed, Links, RunsInDrain
<1>2. PInv /\ W /\ [Next]_vars => W'
  BY WokenStep DEF PInv
<1>3. PInv /\ D /\ [Next]_vars => D'
  <2>1. ASSUME PInv, D, Next PROVE D'
    BY <2>1, HandedKept, LinksKept, StepPhase DEF PInv
  <2>2. ASSUME D, UNCHANGED vars PROVE D'
    BY <2>2 DEF vars, Handed, Links, Linked, RunsInDrain
  <2> QED BY <2>1, <2>2
<1>4. PInv /\ W /\ D => DrainedMeansDelivered
  <2>1. SUFFICES ASSUME PInv, W, D, ~draining, jobs = << >>,
                        NEW p \in Promise, NEW i \in DOMAIN heap[p].conts, IsSettled(p)
                 PROVE  LET c == heap[p].conts[i]
                        IN  /\ c.fired
                            /\ \/ IsSettled(c.child)
                               \/ /\ heap[c.child].following # None
                                  /\ heap[heap[c.child].following].state = "PENDING"
    BY DEF DrainedMeansDelivered
  <2> DEFINE x == heap[p].conts[i].child
  <2>2. heap \in Heap /\ Outside \in Ext /\ Exact(heap, Outside) /\ current = None
    BY <2>1, InvFacts DEF PInv, IInv, RunsInDrain
  <2>3. \A q \in Promise : heap[q].state \in Settled =>
          \A j \in DOMAIN heap[q].conts : heap[q].conts[j].fired
    BY <2>1, <2>2, NoneAssumption DEF Woken
  <2>4. heap[p].conts[i].fired
    BY <2>1, <2>3 DEF IsSettled
  <2>5. x \in Promise
    BY <2>2, ReferencedLive
  <2>6. heap[x].state \in Settled \/ heap[x].following # None
    BY <2>1, <2>2, <2>4, NoneAssumption DEF Handed
  <2>7. ASSUME heap[x].following # None
        PROVE  heap[heap[x].following].state = "PENDING"
    <3>1. Linked(heap, x)
      BY <2>1, <2>5, <2>7 DEF Links
    <3>2. heap[x].following \in Promise /\ heap[heap[x].following].state \in Live
      BY <2>2, <2>5, <2>7, ReferencedLive
    <3>3. heap[heap[x].following].state \notin Settled
      BY <2>3, <3>1, <3>2 DEF Linked
    <3> QED BY <3>2, <3>3 DEF Live
  <2> QED BY <2>4, <2>6, <2>7 DEF IsSettled
<1> HIDE DEF W, D
<1> QED BY <1>1, <1>2, <1>3, <1>4, PromiseInvariance, PTL DEF Spec

-----------------------------------------------------------------------------
(* What is released is freed                                                 *)

\* p holds a reference on q through a continuation the application attached.
Parent(h, p, q) ==
  \E i \in DOMAIN h[p].conts : ~h[p].conts[i].adopt /\ h[p].conts[i].child = q

\* These references form no cycle: every set of promises has a member on which
\* no member holds one.
Rooted(h) ==
  \A S \in SUBSET Promise : S # {} => \E r \in S : \A p \in S : ~Parent(h, p, r)

LEMMA ParentsAreOld ==
  ASSUME IInv, JobsSettled, Next, NEW p \in Promise, NEW q \in Promise, Parent(heap', p, q)
  PROVE  Parent(heap, p, q) \/ Newborn(q)
<1> DEFINE s == heap[p].conts
           t == heap'[p].conts
<1>1. Moves(p) /\ s \in Seq(Continuation)
  BY StepMoves, InvFacts DEF Heap, PromiseObject
<1>2. PICK i \in DOMAIN t : ~t[i].adopt /\ t[i].child = q
  BY DEF Parent
<1>3. CASE t = s
  BY <1>2, <1>3 DEF Parent
<1>4. CASE t = << >>
  BY <1>2, <1>4
<1>5. \A u \in Seq(Continuation), c \in Continuation :
        /\ Append(u, c) \in Seq(Continuation)
        /\ \A j \in DOMAIN Append(u, c) :
             (j \in DOMAIN u /\ Append(u, c)[j] = u[j]) \/ Append(u, c)[j] = c
  BY AppendProperties
<1>6. CASE Grown(p)
  <2>1. PICK c \in Continuation, d \in Continuation :
          \/ t = Append(s, c) /\ Newborn(c.child)
          \/ t = Append(Append(s, c), d) /\ c.adopt /\ d.adopt
    BY <1>6 DEF Grown
  <2> DEFINE r == Append(s, c)
  <2>2. /\ r \in Seq(Continuation)
        /\ \A j \in DOMAIN r : (j \in DOMAIN s /\ r[j] = s[j]) \/ r[j] = c
    BY <1>1, <1>5
  <2>3. CASE t = r /\ Newborn(c.child)
    BY <1>2, <2>2, <2>3 DEF Parent
  <2>4. CASE t = Append(r, d) /\ c.adopt /\ d.adopt
    <3> HIDE DEF r
    <3>1. i \in DOMAIN r /\ t[i] = r[i]
      BY <1>2, <1>5, <2>2, <2>4
    <3> QED BY <1>2, <2>2, <2>4, <3>1 DEF Parent
  <2> QED BY <2>1, <2>3, <2>4
<1>7. CASE FiredNow(p)
  <2>1. cursor \in DOMAIN s /\ t = [s EXCEPT ![cursor].fired = TRUE]
    BY <1>7 DEF FiredNow
  <2>2. s[cursor] \in Continuation
    BY <1>1, <2>1
  <2>3. i \in DOMAIN s /\ t[i].child = s[i].child /\ t[i].adopt = s[i].adopt
    BY <1>1, <1>2, <2>1, <2>2 DEF Continuation
  <2> QED BY <1>2, <2>3 DEF Parent
<1> QED BY <1>1, <1>3, <1>4, <1>6, <1>7
      DEF Moves, FreedNow, Erased, Gone, Still, BornNow, SettledNow

LEMMA RootedKept ==
  ASSUME IInv, JobsSettled, Rooted(heap), Next
  PROVE  Rooted(heap')
<1>1. SUFFICES ASSUME NEW S \in SUBSET Promise, S # {}
               PROVE  \E r \in S : \A p \in S : ~Parent(heap', p, r)
  BY DEF Rooted
<1> DEFINE T == {q \in S : ~Newborn(q)}
<1>2. \A p, q \in Promise : Parent(heap', p, q) => ~Newborn(p)
  BY DEF Parent, Newborn
<1>3. CASE T = {}
  BY <1>1, <1>2, <1>3
<1>4. CASE T # {}
  <2>1. PICK r \in T : \A p \in T : ~Parent(heap, p, r)
    BY <1>4 DEF Rooted
  <2>2. ASSUME NEW p \in S, Parent(heap', p, r) PROVE FALSE
    <3>1. p \in T /\ Parent(heap, p, r)
      BY <1>2, <2>1, <2>2, ParentsAreOld
    <3> QED BY <2>1, <3>1
  <2> QED BY <2>1, <2>2
<1> QED BY <1>3, <1>4

\* Nothing leaks, whichever allocations fail: with the queue drained, promises
\* that the application does not refer to are freed, unless an adoption ties them
\* together.  The references left are those of a parent on its children, which
\* form no cycle, and those of an adoption, which has continuations to show for it.
THEOREM ReleasedAreFreed == Spec => []ReleasedMeansFreed
<1> DEFINE D == Rooted(heap) /\ Links /\ RunsInDrain
<1>1. Init => D
  BY DEF Init, Blank, Rooted, Parent, Links, RunsInDrain
<1>2. PInv /\ D /\ [Next]_vars => D'
  <2>1. ASSUME PInv, D, Next PROVE D'
    BY <2>1, RootedKept, LinksKept, StepPhase DEF PInv
  <2>2. ASSUME D, UNCHANGED vars PROVE D'
    <3>1. heap' = heap /\ current' = current /\ draining' = draining
      BY <2>2 DEF vars
    <3>2. Rooted(heap') = Rooted(heap)
      BY <3>1
    <3>3. Links' /\ RunsInDrain'
      BY <2>2, <3>1 DEF Links, Linked, RunsInDrain
    <3> QED BY <2>2, <3>2, <3>3
  <2> QED BY <2>1, <2>2
<1>3. PInv /\ D => ReleasedMeansFreed
  <2>1. SUFFICES ASSUME PInv, D, ~draining, jobs = << >>,
                        \A p \in Promise :
                          /\ held[p] = 0
                          /\ \A i \in DOMAIN heap[p].conts : ~heap[p].conts[i].adopt,
                        \E p \in Promise : IsLive(p)
                 PROVE  FALSE
    BY DEF ReleasedMeansFreed
  <2>2. heap \in Heap /\ Exact(heap, Outside) /\ current = None
    BY <2>1, InvFacts DEF PInv, IInv, RunsInDrain
  <2> DEFINE S == {p \in Promise : heap[p].state \in Live}
  <2>3. PICK r \in S : \A p \in S : ~Parent(heap, p, r)
    <3>1. S # {} /\ S \in SUBSET Promise
      BY <2>1 DEF IsLive
    <3> HIDE DEF S
    <3> QED BY <2>1, <3>1 DEF Rooted
  <2>4. ContRefs(heap, Promise, r) = {}
    <3>1. SUFFICES ASSUME NEW p \in Promise, NEW i \in DOMAIN heap[p].conts,
                          heap[p].conts[i].child = r
                   PROVE  FALSE
      BY DEF ContRefs
    <3>2. ~heap[p].conts[i].adopt
      BY <2>1
    <3>3. heap[p].state \in Live
      BY <2>2 DEF Exact, Sound
    <3> QED BY <2>3, <3>1, <3>2, <3>3 DEF Parent
  <2>5. FollowRefs(heap, Promise, r) = {}
    <3>1. SUFFICES ASSUME NEW p \in Promise, heap[p].following = r PROVE FALSE
      BY DEF FollowRefs
    <3>2. r \in Promise /\ Linked(heap, p)
      BY <2>1, <3>1, NoneAssumption DEF Links
    <3> QED BY <2>1, <3>1, <3>2 DEF Linked
  <2>6. RefsFrom(heap, Promise, r) = 0
    BY <2>4, <2>5, FS_EmptySet DEF RefsFrom
  <2>7. Outside[r] = 0
    <3>1. {i \in DOMAIN jobs : jobs[i] = r} = {}
      BY <2>1
    <3>2. JobCount(jobs, r) = 0
      BY <3>1, FS_EmptySet DEF JobCount
    <3>3. Base(held, current)[r] = 0
      BY <2>1, <2>2, NoneAssumption DEF Base
    <3> QED BY <3>2, <3>3 DEF Outside, With
  <2>8. heap[r].refcount = 0
    BY <2>2, <2>6, <2>7 DEF Exact, Counted
  <2>9. heap[r].refcount > 0
    BY <2>2 DEF Exact, Sound
  <2> QED BY <2>8, <2>9
<1> HIDE DEF D
<1> QED BY <1>1, <1>2, <1>3, PromiseInvariance, PTL DEF Spec

=============================================================================
