---------------------------- MODULE PpmLibProofs ----------------------------
(***************************************************************************)
(* Theorems of PpmLib: the project's ledger, the memory pool, and the        *)
(* resolver with the signer.                                               *)
(*                                                                         *)
(* The ledger: whatever overlaps and is killed, every hash a file holds    *)
(* names a line.  A command fills state.json with the hash in its hands, so *)
(* the invariant says of every command that this hash names a line as soon  *)
(* as the line need not be appended any more; that needs that reading the   *)
(* state and appending the line follow each other in every script.         *)
(* While commands run one after the other and to their end, more is known: *)
(* between two of them state.json names the last line, the lock holds what *)
(* replaying the lines gives, and a snapshot what its line continued.  For *)
(* the command under way the invariant says which of these its next step   *)
(* finds, from what is left of its script: that the lock is changed once,  *)
(* before the one line which says so.                                      *)
(*                                                                         *)
(* The pool: no queued write is lost or worked off twice, and a slot holds  *)
(* the newest write committed to it unless a batch was overtaken.  Beside   *)
(* the books themselves the first needs that there is one controller: a     *)
(* thread that runs a tool has it, and nothing waits in any other.  The     *)
(* second needs the order of the numbers: of the queue, of every batch, and *)
(* between the queue, the batches that nobody overtook and what has been    *)
(* committed.                                                              *)
(*                                                                         *)
(* The resolver and the signer: every requirement of a resolved package is  *)
(* resolved, being resolved, or before a call that will come to it; a file  *)
(* in the cache has an url that an index lists for it; and a hash that is   *)
(* written down is what an index publishes, unless an index gives none.    *)
(***************************************************************************)
EXTENDS PpmLib, SequenceTheorems, WellFoundedInduction, TLAPS

-----------------------------------------------------------------------------
(* Commands and what is known of them.                                     *)

\* Reading state.json and appending the line are always one after the other.
Paired(todo) ==
  /\ \A k \in 1 .. Len(todo) - 1 :
       todo[k].do = "read_state" <=> todo[k + 1].do = "append_line"
  /\ todo # << >> => todo[Len(todo)].do # "read_state"

Subjects == Addable \union Snap \union Range(Wheels) \union {NotName}

\* What a step of a command does; only some name a snapshot.
Plain == {"ensure_state", "ensure_lock", "read_state", "append_line", "open_state", "fill_state",
          "read_lock", "open_lock", "fill_lock", "upload", "upload_next"}
Copying == {"empty_lock_out", "copy_lock_out", "empty_state_out", "copy_state_out", "find_snapshot",
            "empty_lock", "copy_lock_back", "empty_state", "copy_state_back"}
Doing == Plain \union Copying

Move == [do : Plain, of : Subjects] \union [do : Doing, of : Snap]
Todo == Seq(Move)

\* The next step is this one.
Starts(todo, do) == todo # << >> /\ todo[1].do = do

IsCommand(c) ==
  /\ c = [op |-> c.op, todo |-> c.todo, prev |-> c.prev, hash |-> c.hash,
          names |-> c.names, failed |-> c.failed]
  /\ c.todo \in Todo /\ c.prev \in Int /\ c.hash \in Int
  /\ Paired(c.todo)

LedgerTyped ==
  /\ state \in Int /\ minted \in Nat
  /\ DOMAIN snaps = Snap /\ \A s \in Snap : snaps[s] = [lock |-> snaps[s].lock, state |-> snaps[s].state]
  /\ \A s \in Snap : snaps[s].state \in Int
  /\ DOMAIN cli = Cli /\ cli = [p \in Cli |-> cli[p]] /\ \A p \in Cli : IsCommand(cli[p])
  /\ ledger = [i \in 1 .. Len(ledger) |-> ledger[i]] /\ Len(ledger) \in Nat

\* What a command has read or written names a line, except while the line is
\* still to be appended.
Known(c, ids) ==
  IF Starts(c.todo, "append_line") THEN c.prev > None => c.prev \in ids
  ELSE c.hash > None => c.hash \in ids

LedgerInv == LedgerTyped /\ HashesNameLines /\ \A p \in Cli : Known(cli[p], Ids)

-----------------------------------------------------------------------------
(* The scripts: every one is made of steps of commands and paired.          *)

\* One pair, three steps before the end.
LEMMA OnePair ==
  ASSUME NEW f, NEW n \in Nat, n >= 6,
         \A k \in 1 .. n : (f[k] = "read_state" <=> k = n - 3) /\ (f[k] = "append_line" <=> k = n - 2)
  PROVE  /\ \A k \in 1 .. n - 1 : f[k] = "read_state" <=> f[k + 1] = "append_line"
         /\ f[n] # "read_state" /\ f[1] # "append_line"
OBVIOUS

\* Steps on one name, with one pair.
LEMMA StepsPaired ==
  ASSUME NEW dos \in Seq(Doing), NEW of \in Subjects, dos \in Seq(Plain) \/ of \in Snap,
         NEW n \in Nat, n = Len(dos), n >= 6,
         \A k \in 1 .. n : (dos[k] = "read_state" <=> k = n - 3) /\ (dos[k] = "append_line" <=> k = n - 2)
  PROVE  /\ Steps(dos, of) \in Todo /\ Paired(Steps(dos, of))
         /\ ~Starts(Steps(dos, of), "append_line")
<1>1. DOMAIN dos = 1 .. n /\ \A k \in 1 .. n : dos[k] \in Doing /\ (dos[k] \in Plain \/ of \in Snap)
  OBVIOUS
<1>2. Steps(dos, of) = [k \in 1 .. n |-> Step(dos[k], of)]
  BY <1>1 DEF Steps
<1>3. \A k \in 1 .. n : Step(dos[k], of) \in Move /\ Step(dos[k], of).do = dos[k]
  BY <1>1 DEF Step, Move
<1>4. Steps(dos, of) \in Todo /\ Len(Steps(dos, of)) = n
  BY <1>1, <1>2, <1>3 DEF Todo
<1>5. \A k \in 1 .. n : Steps(dos, of)[k].do = dos[k]
  BY <1>2, <1>3
<1>6. /\ \A k \in 1 .. n - 1 : dos[k] = "read_state" <=> dos[k + 1] = "append_line"
      /\ dos[n] # "read_state" /\ dos[1] # "append_line"
  BY OnePair
<1>7. /\ \A k \in 1 .. n - 1 : k \in 1 .. n /\ k + 1 \in 1 .. n
      /\ n \in 1 .. n /\ 1 \in 1 .. n
  OBVIOUS
<1>8. \A k \in 1 .. n - 1 : Steps(dos, of)[k].do = "read_state" <=> Steps(dos, of)[k + 1].do = "append_line"
  <2> TAKE k \in 1 .. n - 1
  <2>1. k \in 1 .. n /\ k + 1 \in 1 .. n
    BY <1>7
  <2>2. Steps(dos, of)[k].do = dos[k] /\ Steps(dos, of)[k + 1].do = dos[k + 1]
    BY <1>5, <2>1
  <2> QED BY <1>6, <2>2
<1>9. Steps(dos, of)[n].do # "read_state" /\ Steps(dos, of)[1].do # "append_line"
  BY <1>5, <1>6, <1>7
<1> QED BY <1>4, <1>8, <1>9 DEF Paired, Starts

\* Two sequences joined.
LEMMA Joined ==
  ASSUME NEW D, NEW a \in Seq(D), NEW b \in Seq(D)
  PROVE  /\ a \o b \in Seq(D) /\ Len(a) \in Nat /\ Len(b) \in Nat /\ Len(a \o b) = Len(a) + Len(b)
         /\ \A k \in 1 .. Len(a) + Len(b) : (a \o b)[k] = IF k <= Len(a) THEN a[k] ELSE b[k - Len(a)]
OBVIOUS

\* These touch no snapshot.
LEMMA PlainScripts ==
  /\ Ensure \o Entry \in Seq(Plain) /\ Ensure \o Adding \o Entry \in Seq(Plain)
  /\ Publishing \in Seq(Plain)
<1>1. Ensure \in Seq(Plain) /\ Entry \in Seq(Plain) /\ Adding \in Seq(Plain) /\ <<"upload">> \in Seq(Plain)
  BY DEF Ensure, Entry, Adding, Plain
<1>2. \A a, b \in Seq(Plain) : a \o b \in Seq(Plain)
  BY Joined
<1> QED BY <1>1, <1>2 DEF Publishing

\* The scripts without a loop: the only pair is four steps before the end.
LEMMA Straight ==
  ASSUME NEW dos \in {Ensure \o Entry, Ensure \o Adding \o Entry, Ensure \o Snapping \o Entry,
                     Ensure \o Restore \o Entry, Publishing}
  PROVE  /\ dos \in Seq(Doing) /\ Len(dos) \in Nat /\ Len(dos) >= 6
         /\ \A k \in 1 .. Len(dos) : (dos[k] = "read_state" <=> k = Len(dos) - 3)
                                   /\ (dos[k] = "append_line" <=> k = Len(dos) - 2)
<1>1. /\ Ensure \in Seq(Doing) /\ Len(Ensure) = 2
      /\ Ensure[1] = "ensure_state" /\ Ensure[2] = "ensure_lock"
  BY DEF Ensure, Doing, Plain, Copying
<1>2. /\ Entry \in Seq(Doing) /\ Len(Entry) = 4 /\ Entry[1] = "read_state" /\ Entry[2] = "append_line"
      /\ Entry[3] = "open_state" /\ Entry[4] = "fill_state"
  BY DEF Entry, Doing, Plain, Copying
<1>3. /\ Adding \in Seq(Doing) /\ Len(Adding) = 3
      /\ \A k \in 1 .. 3 : Adding[k] \notin {"read_state", "append_line"}
  BY DEF Adding, Doing, Plain, Copying
<1>4. /\ Snapping \in Seq(Doing) /\ Len(Snapping) = 4
      /\ \A k \in 1 .. 4 : Snapping[k] \notin {"read_state", "append_line"}
  BY DEF Snapping, Doing, Plain, Copying
<1>5. /\ Restore \in Seq(Doing) /\ Len(Restore) = 5
      /\ \A k \in 1 .. 5 : Restore[k] \notin {"read_state", "append_line"}
  BY DEF Restore, Doing, Plain, Copying
<1>6. /\ <<"upload">> \in Seq(Doing) /\ Len(<<"upload">>) = 1
      /\ \A k \in 1 .. 1 : <<"upload">>[k] \notin {"read_state", "append_line"}
  BY DEF Doing, Plain, Copying
<1>7. ASSUME NEW front \in Seq(Doing), Len(front) >= 2,
             \A k \in 1 .. Len(front) : front[k] \notin {"read_state", "append_line"}
      PROVE  /\ front \o Entry \in Seq(Doing) /\ Len(front \o Entry) = Len(front) + 4
             /\ \A k \in 1 .. Len(front) + 4 :
                  /\ (front \o Entry)[k] = "read_state" <=> k = Len(front) + 1
                  /\ (front \o Entry)[k] = "append_line" <=> k = Len(front) + 2
  <2>1. /\ front \o Entry \in Seq(Doing) /\ Len(front) \in Nat
        /\ Len(front \o Entry) = Len(front) + Len(Entry)
        /\ \A k \in 1 .. Len(front) + Len(Entry) :
             (front \o Entry)[k] = IF k <= Len(front) THEN front[k] ELSE Entry[k - Len(front)]
    BY <1>2, Joined
  <2>2. /\ Len(front \o Entry) = Len(front) + 4
        /\ \A k \in 1 .. Len(front) + 4 :
             (front \o Entry)[k] = IF k <= Len(front) THEN front[k] ELSE Entry[k - Len(front)]
    BY <1>2, <2>1
  <2>3. ASSUME NEW k \in 1 .. Len(front) + 4, k > Len(front)
        PROVE  /\ (front \o Entry)[k] = "read_state" <=> k = Len(front) + 1
               /\ (front \o Entry)[k] = "append_line" <=> k = Len(front) + 2
    <3>1. (front \o Entry)[k] = Entry[k - Len(front)]
      BY <2>1, <2>2, <2>3
    <3>2. \/ k - Len(front) = 1 \/ k - Len(front) = 2 \/ k - Len(front) = 3 \/ k - Len(front) = 4
      BY <2>1, <2>3
    <3> QED BY <1>2, <2>1, <3>1, <3>2
  <2>4. ASSUME NEW k \in 1 .. Len(front) + 4, ~(k > Len(front))
        PROVE  (front \o Entry)[k] \notin {"read_state", "append_line"} /\ k < Len(front) + 1
    BY <1>7, <2>1, <2>2, <2>4
  <2> QED BY <2>1, <2>2, <2>3, <2>4
<1>8. ASSUME NEW a \in Seq(Doing), NEW b \in Seq(Doing),
             \A k \in 1 .. Len(a) : a[k] \notin {"read_state", "append_line"},
             \A k \in 1 .. Len(b) : b[k] \notin {"read_state", "append_line"}
      PROVE  /\ a \o b \in Seq(Doing) /\ Len(a) \in Nat /\ Len(b) \in Nat /\ Len(a \o b) = Len(a) + Len(b)
             /\ \A k \in 1 .. Len(a \o b) : (a \o b)[k] \notin {"read_state", "append_line"}
  BY <1>8, Joined
<1>9. \A k \in 1 .. Len(Ensure) : Ensure[k] \notin {"read_state", "append_line"}
  BY <1>1
<1>11. CASE dos = Ensure \o Entry
  <2>1. Len(Ensure) >= 2
    BY <1>1
  <2>2. Ensure \in Seq(Doing) /\ Len(Ensure) \in Nat
    BY <1>1
  <2>3. /\ Ensure \o Entry \in Seq(Doing) /\ Len(Ensure \o Entry) = Len(Ensure) + 4
        /\ \A k \in 1 .. Len(Ensure) + 4 :
             /\ (Ensure \o Entry)[k] = "read_state" <=> k = Len(Ensure) + 1
             /\ (Ensure \o Entry)[k] = "append_line" <=> k = Len(Ensure) + 2
    BY <1>7, <1>9, <2>1, <2>2
  <2> QED BY <1>11, <2>1, <2>2, <2>3
<1>12. CASE dos = Ensure \o Adding \o Entry
  <2> DEFINE front == Ensure \o Adding
  <2>1. /\ front \in Seq(Doing) /\ Len(front) = Len(Ensure) + Len(Adding)
        /\ \A k \in 1 .. Len(front) : front[k] \notin {"read_state", "append_line"}
    BY <1>1, <1>3, <1>8, <1>9
  <2>3. Len(front) >= 2
    BY <1>1, <1>3, <2>1
  <2>2. dos = front \o Entry
    BY <1>12
  <2> HIDE DEF front
  <2>4. /\ Len(front) \in Nat /\ front \o Entry \in Seq(Doing) /\ Len(front \o Entry) = Len(front) + 4
        /\ \A k \in 1 .. Len(front) + 4 :
             /\ (front \o Entry)[k] = "read_state" <=> k = Len(front) + 1
             /\ (front \o Entry)[k] = "append_line" <=> k = Len(front) + 2
    BY <1>7, <2>1, <2>3
  <2> QED BY <2>2, <2>3, <2>4
<1>13. CASE dos = Ensure \o Snapping \o Entry
  <2> DEFINE front == Ensure \o Snapping
  <2>1. /\ front \in Seq(Doing) /\ Len(front) = Len(Ensure) + Len(Snapping)
        /\ \A k \in 1 .. Len(front) : front[k] \notin {"read_state", "append_line"}
    BY <1>1, <1>4, <1>8, <1>9
  <2>3. Len(front) >= 2
    BY <1>1, <1>4, <2>1
  <2>2. dos = front \o Entry
    BY <1>13
  <2> HIDE DEF front
  <2>4. /\ Len(front) \in Nat /\ front \o Entry \in Seq(Doing) /\ Len(front \o Entry) = Len(front) + 4
        /\ \A k \in 1 .. Len(front) + 4 :
             /\ (front \o Entry)[k] = "read_state" <=> k = Len(front) + 1
             /\ (front \o Entry)[k] = "append_line" <=> k = Len(front) + 2
    BY <1>7, <2>1, <2>3
  <2> QED BY <2>2, <2>3, <2>4
<1>14. CASE dos = Ensure \o Restore \o Entry
  <2> DEFINE front == Ensure \o Restore
  <2>1. /\ front \in Seq(Doing) /\ Len(front) = Len(Ensure) + Len(Restore)
        /\ \A k \in 1 .. Len(front) : front[k] \notin {"read_state", "append_line"}
    BY <1>1, <1>5, <1>8, <1>9
  <2>3. Len(front) >= 2
    BY <1>1, <1>5, <2>1
  <2>2. dos = front \o Entry
    BY <1>14
  <2> HIDE DEF front
  <2>4. /\ Len(front) \in Nat /\ front \o Entry \in Seq(Doing) /\ Len(front \o Entry) = Len(front) + 4
        /\ \A k \in 1 .. Len(front) + 4 :
             /\ (front \o Entry)[k] = "read_state" <=> k = Len(front) + 1
             /\ (front \o Entry)[k] = "append_line" <=> k = Len(front) + 2
    BY <1>7, <2>1, <2>3
  <2> QED BY <2>2, <2>3, <2>4
<1>15. CASE dos = Publishing
  <2> DEFINE front == <<"upload">> \o Ensure
  <2>1. /\ front \in Seq(Doing) /\ Len(front) = Len(<<"upload">>) + Len(Ensure)
        /\ \A k \in 1 .. Len(front) : front[k] \notin {"read_state", "append_line"}
    BY <1>1, <1>6, <1>8, <1>9
  <2>3. Len(front) >= 2
    BY <1>1, <1>6, <2>1
  <2>2. dos = front \o Entry
    BY <1>15 DEF Publishing
  <2> HIDE DEF front
  <2>4. /\ Len(front) \in Nat /\ front \o Entry \in Seq(Doing) /\ Len(front \o Entry) = Len(front) + 4
        /\ \A k \in 1 .. Len(front) + 4 :
             /\ (front \o Entry)[k] = "read_state" <=> k = Len(front) + 1
             /\ (front \o Entry)[k] = "append_line" <=> k = Len(front) + 2
    BY <1>7, <2>1, <2>3
  <2> QED BY <2>2, <2>3, <2>4
<1> QED BY <1>11, <1>12, <1>13, <1>14, <1>15

\* The same counted from the front.
LEMMA FromEnd ==
  ASSUME NEW P, NEW D, NEW m, m = 7,
         \A k \in 1 .. m : P[k] \in D,
         \A k \in 1 .. m : (P[k] = "read_state" <=> k = m - 3) /\ (P[k] = "append_line" <=> k = m - 2)
  PROVE  \A k \in 1 .. 7 : P[k] \in D /\ (P[k] = "read_state" <=> k = 4) /\ (P[k] = "append_line" <=> k = 5)
OBVIOUS

\* The script of a loop, in rounds of seven steps: the next step is the next of
\* the round or the first of the next round.
LEMMA Rounds ==
  ASSUME NEW l \in Nat, NEW k \in 1 .. 7 * l
  PROVE  /\ ((k - 1) % 7) + 1 \in 1 .. 7 /\ (k - 1) \div 7 + 1 \in 1 .. l
         /\ ((k + 1 - 1) % 7) + 1 = IF ((k - 1) % 7) + 1 = 7 THEN 1 ELSE ((k - 1) % 7) + 1 + 1
OBVIOUS

\* There is a pair in each round.
InRounds(P, W, l) == [k \in 1 .. 7 * l |-> Step(P[((k - 1) % 7) + 1], W[(k - 1) \div 7 + 1])]

LEMMA RoundsPaired ==
  ASSUME NEW l \in Nat, NEW P, NEW W,
         \A k \in 1 .. 7 : P[k] \in Plain /\ (P[k] = "read_state" <=> k = 4) /\ (P[k] = "append_line" <=> k = 5),
         \A k \in 1 .. l : W[k] \in Subjects
  PROVE  /\ InRounds(P, W, l) \in Seq(Move) /\ Len(InRounds(P, W, l)) = 7 * l
         /\ \A k \in 1 .. 7 * l - 1 : InRounds(P, W, l)[k].do = "read_state"
                                      <=> InRounds(P, W, l)[k + 1].do = "append_line"
         /\ 7 * l > 0 => InRounds(P, W, l)[7 * l].do # "read_state" /\ InRounds(P, W, l)[1].do # "append_line"
<1> DEFINE S == InRounds(P, W, l)
          n == 7 * l
           d == [k \in 1 .. n |-> ((k - 1) % 7) + 1]
           w == [k \in 1 .. n |-> (k - 1) \div 7 + 1]
<1>1. n \in Nat /\ n = 7 * l
  OBVIOUS
<1>2. \A k \in 1 .. n : d[k] = ((k - 1) % 7) + 1 /\ w[k] = (k - 1) \div 7 + 1
  OBVIOUS
<1>3. S = [k \in 1 .. n |-> Step(P[d[k]], W[w[k]])]
  BY <1>2 DEF InRounds
<1> HIDE DEF S, n, d, w
<1>10. \A k \in 1 .. n : S[k] = Step(P[d[k]], W[w[k]])
  BY <1>3, Zenon
<1>4. \A k \in 1 .. n : d[k] \in 1 .. 7 /\ w[k] \in 1 .. l
  BY <1>1, <1>2, Rounds
<1>5. \A k \in 1 .. n - 1 : k \in 1 .. n /\ k + 1 \in 1 .. n
  BY <1>1
<1>6. \A k \in 1 .. n - 1 : d[k + 1] = IF d[k] = 7 THEN 1 ELSE d[k] + 1
  <2> TAKE k \in 1 .. n - 1
  <2>0. k \in 1 .. n /\ k + 1 \in 1 .. n
    BY <1>5
  <2>1. d[k] = ((k - 1) % 7) + 1
    BY <1>2, <2>0
  <2>4. d[k + 1] = ((k + 1 - 1) % 7) + 1
    BY <1>2, <2>0
  <2>2. k \in 1 .. 7 * l
    BY <1>1
  <2>3. ((k + 1 - 1) % 7) + 1 = IF ((k - 1) % 7) + 1 = 7 THEN 1 ELSE ((k - 1) % 7) + 1 + 1
    BY <2>2, Rounds
  <2> QED BY <2>1, <2>3, <2>4
<1>7. n > 0 => n \in 1 .. n /\ 1 \in 1 .. n /\ d[n] = 7 /\ d[1] = 1
  BY <1>1, <1>2
<1>8. \A k \in 1 .. n : P[d[k]] \in Plain /\ W[w[k]] \in Subjects
  BY <1>4, Zenon
<1>9. \A k \in 1 .. n - 1 : P[d[k]] = "read_state" <=> P[d[k + 1]] = "append_line"
  <2> TAKE k \in 1 .. n - 1
  <2>1. P[d[k]] = "read_state" <=> d[k] = 4
    BY <1>4, <1>5
  <2>2. P[d[k + 1]] = "append_line" <=> d[k + 1] = 5
    BY <1>4, <1>5
  <2>3. d[k] = 4 <=> d[k + 1] = 5
    <3>1. d[k] \in 1 .. 7 /\ d[k + 1] = IF d[k] = 7 THEN 1 ELSE d[k] + 1
      BY <1>4, <1>5, <1>6, Zenon
    <3> QED BY <3>1
  <2> QED BY <2>1, <2>2, <2>3
<1>13. \A k \in 1 .. n : S[k] \in Move /\ S[k].do = P[d[k]]
  <2> TAKE k \in 1 .. n
  <2>1. S[k] = [do |-> P[d[k]], of |-> W[w[k]]]
    BY <1>10 DEF Step
  <2>2. P[d[k]] \in Plain /\ W[w[k]] \in Subjects
    BY <1>8
  <2> QED BY <2>1, <2>2 DEF Move
<1>14. S \in Seq(Move) /\ Len(S) = n
  <2>1. \A k \in 1 .. n : S[k] \in Move
    BY <1>13
  <2>2. S = [k \in 1 .. n |-> S[k]]
    BY <1>3
  <2> QED BY <1>1, <2>1, <2>2
<1>15. \A k \in 1 .. n - 1 : S[k].do = "read_state" <=> S[k + 1].do = "append_line"
  <2> TAKE k \in 1 .. n - 1
  <2>1. S[k].do = P[d[k]] /\ S[k + 1].do = P[d[k + 1]]
    BY <1>5, <1>13
  <2> QED BY <1>9, <2>1
<1>11. n > 0 => S[n].do = P[7] /\ S[1].do = P[1]
  BY <1>7, <1>13
<1>12. P[7] # "read_state" /\ P[1] # "append_line"
  OBVIOUS
<1> QED BY <1>14, <1>15, <1>11, <1>12 DEF n, S

\* Such a script has its one pair.
LEMMA StraightPaired ==
  ASSUME NEW dos \in {Ensure \o Entry, Ensure \o Adding \o Entry, Ensure \o Snapping \o Entry,
                     Ensure \o Restore \o Entry},
         NEW of \in Subjects, dos \in Seq(Plain) \/ of \in Snap
  PROVE  /\ Steps(dos, of) \in Todo /\ Paired(Steps(dos, of))
         /\ ~Starts(Steps(dos, of), "append_line")
<1>0. dos \in {Ensure \o Entry, Ensure \o Adding \o Entry, Ensure \o Snapping \o Entry,
              Ensure \o Restore \o Entry, Publishing}
  OBVIOUS
<1>1. dos \in Seq(Doing) /\ Len(dos) \in Nat /\ Len(dos) >= 6
  BY <1>0, Straight
<1>2. \A k \in 1 .. Len(dos) : (dos[k] = "read_state" <=> k = Len(dos) - 3)
                           /\ (dos[k] = "append_line" <=> k = Len(dos) - 2)
  BY <1>0, Straight
<1> DEFINE n == Len(dos)
<1>3. dos \in Seq(Doing) /\ n \in Nat /\ n = Len(dos) /\ n >= 6
  BY <1>1
<1>4. \A k \in 1 .. n : (dos[k] = "read_state" <=> k = n - 3) /\ (dos[k] = "append_line" <=> k = n - 2)
  BY <1>2
<1> HIDE DEF n
<1> QED BY <1>3, <1>4, StepsPaired

\* Every command begins with a paired script, and not in the middle of a pair.
LEMMA ScriptPaired ==
  ASSUME NEW call \in Invocations
  PROVE  /\ Script(call[1], call[2]) \in Todo /\ Paired(Script(call[1], call[2]))
         /\ ~Starts(Script(call[1], call[2]), "append_line")
<1> DEFINE op == call[1]
           of == call[2]
<1>0. of \in Subjects
  BY DEF Invocations, Subjects
<1>1. CASE op = "add"
  BY <1>0, <1>1, StraightPaired, PlainScripts DEF Script
<1>2. CASE op = "snapshot"
  <2>1. of \in Snap
    BY <1>2 DEF Invocations
  <2> QED BY <1>0, <1>2, <2>1, StraightPaired DEF Script
<1>3. CASE op = "rollback"
  <2>1. of \in Snap
    BY <1>3 DEF Invocations
  <2> QED BY <1>0, <1>3, <2>1, StraightPaired DEF Script
<1>4. CASE op = "publish"
  <2> DEFINE m == Len(Publishing)
             l == Len(Wheels)
             S == Script(op, of)
  <2>1. m = 7
    BY DEF Publishing, Ensure, Entry
  <2>2. S = [k \in 1 .. m * l |-> Step(Publishing[((k - 1) % m) + 1], Wheels[(k - 1) \div m + 1])]
    BY <1>4 DEF Script, InTurn
  <2>3. /\ \A k \in 1 .. m : Publishing[k] \in Plain
        /\ \A k \in 1 .. m : (Publishing[k] = "read_state" <=> k = m - 3)
                          /\ (Publishing[k] = "append_line" <=> k = m - 2)
    <3>1. Publishing \in Seq(Plain)
      BY PlainScripts
    <3>2. \A k \in 1 .. m : Publishing[k] \in Plain
      BY <3>1
    <3>3. \A k \in 1 .. m : (Publishing[k] = "read_state" <=> k = m - 3)
                          /\ (Publishing[k] = "append_line" <=> k = m - 2)
      BY Straight
    <3> QED BY <3>2, <3>3
  <2>4. l \in Nat /\ \A k \in 1 .. l : Wheels[k] \in Subjects
    <3>1. \A k \in 1 .. l : Wheels[k] \in Range(Wheels)
      BY WheelsAreOrdered DEF Range
    <3> QED BY <3>1, WheelsAreOrdered DEF Subjects
  <2> HIDE DEF m, l, S
  <2>5. \A k \in 1 .. 7 : Publishing[k] \in Plain
                        /\ (Publishing[k] = "read_state" <=> k = 4)
                        /\ (Publishing[k] = "append_line" <=> k = 5)
    BY <2>1, <2>3, FromEnd
  <2>6. S = InRounds(Publishing, Wheels, l)
    BY <2>1, <2>2, Zenon DEF InRounds
  <2>7. /\ S \in Seq(Move) /\ Len(S) = 7 * l
        /\ \A k \in 1 .. 7 * l - 1 : S[k].do = "read_state" <=> S[k + 1].do = "append_line"
        /\ 7 * l > 0 => S[7 * l].do # "read_state" /\ S[1].do # "append_line"
    <3> DEFINE R == InRounds(Publishing, Wheels, l)
    <3>1. l \in Nat
      BY <2>4
    <3>2. \A k \in 1 .. l : Wheels[k] \in Subjects
      BY <2>4
    <3>3. R \in Seq(Move) /\ Len(R) = 7 * l
      BY <3>1, <3>2, <2>5, RoundsPaired
    <3>4. \A k \in 1 .. 7 * l - 1 : R[k].do = "read_state" <=> R[k + 1].do = "append_line"
      <4> TAKE k \in 1 .. 7 * l - 1
      <4> QED BY <3>1, <3>2, <2>5, RoundsPaired
    <3>5. 7 * l > 0 => R[7 * l].do # "read_state" /\ R[1].do # "append_line"
      BY <3>1, <3>2, <2>5, RoundsPaired
    <3> QED BY <2>6, <3>3, <3>4, <3>5, Zenon
  <2>8. S \in Todo /\ (S # << >> => 7 * l > 0)
    BY <2>4, <2>7, EmptySeq DEF Todo
  <2> QED BY <2>7, <2>8 DEF Paired, Starts, S
<1>5. CASE op = "publish_all"
  <2> DEFINE S == [i \in DOMAIN Wheels |-> Step("upload_next", Wheels[i])]
  <2>1. Script(op, of) = S
    BY <1>5 DEF Script
  <2>2. DOMAIN Wheels = 1 .. Len(Wheels) /\ Len(Wheels) \in Nat
    BY WheelsAreOrdered
  <2>3. \A i \in DOMAIN Wheels : S[i] \in Move /\ S[i].do = "upload_next"
    BY DEF Step, Subjects, Range, Plain, Move
  <2>4. S \in Todo /\ Len(S) = Len(Wheels)
    BY <2>2, <2>3 DEF Todo
  <2> HIDE DEF S
  <2>5. \A k \in 1 .. Len(S) : S[k].do = "upload_next"
    BY <2>2, <2>3, <2>4
  <2>6. S # << >> => Len(S) \in 1 .. Len(S) /\ 1 \in 1 .. Len(S)
    BY <2>2, <2>4, EmptySeq DEF Todo
  <2>7. \A k \in 1 .. Len(S) - 1 : k \in 1 .. Len(S) /\ k + 1 \in 1 .. Len(S)
    BY <2>2, <2>4
  <2> QED BY <2>1, <2>4, <2>5, <2>6, <2>7 DEF Paired, Starts
<1>6. CASE op \notin {"add", "snapshot", "rollback", "publish", "publish_all"}
  BY <1>0, <1>6, StraightPaired, PlainScripts DEF Script
<1> QED BY <1>1, <1>2, <1>3, <1>4, <1>5, <1>6

(* Commands between two steps.                                             *)

\* The first step and the rest of a script.
LEMMA NextMove ==
  ASSUME NEW t \in Todo, Paired(t), t # << >>
  PROVE  /\ Head(t) \in Move /\ Head(t) = t[1] /\ Tail(t) \in Todo /\ Paired(Tail(t))
         /\ Starts(Tail(t), "append_line") <=> Head(t).do = "read_state"
<1>1. /\ Len(t) \in Nat /\ Len(t) > 0 /\ Head(t) = t[1] /\ Tail(t) \in Todo /\ Len(Tail(t)) = Len(t) - 1
      /\ \A k \in 1 .. Len(t) - 1 : Tail(t)[k] = t[k + 1]
      /\ Head(t) \in Move
  BY EmptySeq DEF Todo
<1>2. (Tail(t) = << >>) <=> Len(t) = 1
  BY <1>1, EmptySeq DEF Todo
<1>3. \A k \in 1 .. Len(t) - 1 : t[k].do = "read_state" <=> t[k + 1].do = "append_line"
  BY DEF Paired
<1>4. t[Len(t)].do # "read_state"
  BY DEF Paired
<1>5. ASSUME NEW k \in 1 .. Len(Tail(t)) - 1
      PROVE  Tail(t)[k].do = "read_state" <=> Tail(t)[k + 1].do = "append_line"
  <2>1. k \in 1 .. Len(t) - 1 /\ k + 1 \in 1 .. Len(t) - 1
    BY <1>1
  <2> QED BY <1>1, <1>3, <2>1
<1>6. Tail(t) # << >> => Tail(t)[Len(Tail(t))].do # "read_state"
  <2> SUFFICES ASSUME Tail(t) # << >> PROVE Tail(t)[Len(Tail(t))].do # "read_state"
    OBVIOUS
  <2>1. Len(t) - 1 \in 1 .. Len(t) - 1 /\ Len(t) - 1 + 1 = Len(t)
    BY <1>1, <1>2
  <2>2. Tail(t)[Len(t) - 1] = t[Len(t)]
    BY <1>1, <2>1
  <2> QED BY <1>1, <1>4, <2>2
<1>7. Starts(Tail(t), "append_line") <=> t[1].do = "read_state"
  <2>1. CASE Len(t) = 1
    BY <1>2, <1>4, <2>1 DEF Starts
  <2>2. CASE Len(t) # 1
    <3>1. 1 \in 1 .. Len(t) - 1 /\ 1 + 1 = 2
      BY <1>1, <2>2
    <3>2. Tail(t)[1] = t[1 + 1]
      BY <1>1, <3>1
    <3> QED BY <1>2, <1>3, <2>2, <3>1, <3>2 DEF Starts
  <2> QED BY <2>1, <2>2
<1> QED BY <1>1, <1>5, <1>6, <1>7 DEF Paired

\* Two steps put before the rest.
LEMMA Prefixed ==
  ASSUME NEW t \in Todo, Paired(t), ~Starts(t, "append_line"), NEW of \in Subjects,
         NEW a \in {"open_state", "open_lock"}, NEW b \in {"fill_state", "fill_lock"}
  PROVE  LET u == Steps(<<a, b>>, of) \o t
         IN  u \in Todo /\ Paired(u) /\ ~Starts(u, "append_line")
<1> DEFINE front == Steps(<<a, b>>, of)
           u == front \o t
<1>1. front = <<Step(a, of), Step(b, of)>>
  BY DEF Steps
<1>2. Step(a, of) \in Move /\ Step(b, of) \in Move /\ Step(a, of).do = a /\ Step(b, of).do = b
  BY DEF Step, Move, Plain
<1>3. front \in Todo /\ Len(front) = 2 /\ front[1].do = a /\ front[2].do = b
  <2> DEFINE x == Step(a, of)
             y == Step(b, of)
  <2>1. front = <<x, y>> /\ x \in Move /\ y \in Move /\ x.do = a /\ y.do = b
    BY <1>1, <1>2
  <2> HIDE DEF x, y
  <2>2. <<x, y>> \in Seq(Move) /\ Len(<<x, y>>) = 2
    BY <2>1
  <2>3. <<x, y>>[1] = x /\ <<x, y>>[2] = y
    OBVIOUS
  <2>4. front[1] = x /\ front[2] = y
    BY <2>1, <2>3, Zenon
  <2>5. front \in Todo /\ Len(front) = 2
    BY <2>1, <2>2, Zenon DEF Todo
  <2> QED BY <2>1, <2>4, <2>5
<1> HIDE DEF front
<1>4. /\ u \in Todo /\ Len(t) \in Nat /\ Len(u) = 2 + Len(t)
      /\ \A k \in 1 .. Len(u) : u[k] = IF k <= 2 THEN front[k] ELSE t[k - 2]
  <2>1. /\ front \o t \in Seq(Move) /\ Len(front) \in Nat /\ Len(t) \in Nat
        /\ Len(front \o t) = Len(front) + Len(t)
        /\ \A k \in 1 .. Len(front) + Len(t) :
             (front \o t)[k] = IF k <= Len(front) THEN front[k] ELSE t[k - Len(front)]
    BY <1>3, Joined DEF Todo
  <2> QED BY <1>3, <2>1 DEF Todo
<1> HIDE DEF u
<1>5. u[1].do = a /\ u[2].do = b
  BY <1>3, <1>4
<1>6. \A k \in 1 .. Len(t) : u[k + 2] = t[k]
  BY <1>4
<1>7. ASSUME NEW k \in 1 .. Len(u) - 1
      PROVE  u[k].do = "read_state" <=> u[k + 1].do = "append_line"
  <2>1. CASE k = 1
    BY <1>5, <2>1
  <2>2. CASE k = 2
    <3>1. 1 \in 1 .. Len(t) /\ t # << >>
      BY <1>4, <2>2, EmptySeq DEF Todo
    <3>2. u[2 + 1] = t[1]
      BY <1>6, <3>1
    <3>3. t[1].do # "append_line"
      BY <3>1 DEF Starts
    <3> QED BY <1>5, <2>2, <3>2, <3>3
  <2>3. CASE k > 2
    <3>1. k - 2 \in 1 .. Len(t) - 1 /\ k - 2 \in 1 .. Len(t) /\ k - 2 + 1 \in 1 .. Len(t)
      BY <1>4, <2>3
    <3>2. u[k] = t[k - 2] /\ u[k + 1] = t[k - 2 + 1]
      BY <1>4, <2>3
    <3>3. t[k - 2].do = "read_state" <=> t[k - 2 + 1].do = "append_line"
      BY <3>1 DEF Paired
    <3> QED BY <3>2, <3>3
  <2> QED BY <1>4, <2>1, <2>2, <2>3
<1>8. u # << >> => u[Len(u)].do # "read_state"
  <2>1. CASE Len(t) = 0
    BY <1>4, <1>5, <2>1
  <2>2. CASE Len(t) # 0
    <3>1. Len(t) \in 1 .. Len(t) /\ t # << >> /\ Len(u) = Len(t) + 2
      BY <1>4, <2>2, EmptySeq DEF Todo
    <3> QED BY <1>6, <3>1 DEF Paired
  <2> QED BY <2>1, <2>2
<1> QED BY <1>4, <1>5, <1>7, <1>8 DEF Paired, Starts, u, front

-----------------------------------------------------------------------------
\* No command, and one that begins.
LEMMA NoCommandOK ==
  ASSUME NEW ids
  PROVE  IsCommand(NoCommand) /\ Known(NoCommand, ids)
<1>1. << >> \in Todo /\ Paired(<< >>) /\ ~Starts(<< >>, "append_line")
  BY DEF Todo, Paired, Starts
<1> QED BY <1>1 DEF IsCommand, Known, NoCommand, None

LEMMA BegunOK ==
  ASSUME NEW call \in Invocations, NEW ids
  PROVE  LET c == [NoCommand EXCEPT !.op = call[1], !.todo = Script(call[1], call[2])]
         IN  IsCommand(c) /\ Known(c, ids)
<1> DEFINE t == Script(call[1], call[2])
           what == call[1]
           n == NoCommand
           c == [n EXCEPT !.op = what, !.todo = t]
<1>1. t \in Todo /\ Paired(t) /\ ~Starts(t, "append_line")
  BY ScriptPaired
<1>2. /\ n = [op |-> n.op, todo |-> n.todo, prev |-> n.prev, hash |-> n.hash,
             names |-> n.names, failed |-> n.failed]
      /\ n.prev = 0 /\ n.hash = 0
  BY DEF NoCommand, None
<1> HIDE DEF t, what, n
<1>3. c = [op |-> what, todo |-> t, prev |-> n.prev, hash |-> n.hash,
           names |-> n.names, failed |-> n.failed]
  <2> DEFINE e == [n EXCEPT !.op = what]
  <2>1. e = [op |-> what, todo |-> n.todo, prev |-> n.prev, hash |-> n.hash,
             names |-> n.names, failed |-> n.failed]
    BY <1>2
  <2>2. c = [e EXCEPT !.todo = t]
    BY <1>2
  <2> HIDE DEF c, e
  <2> QED BY <2>1, <2>2
<1> HIDE DEF c
<1>4. IsCommand(c) /\ Known(c, ids)
  BY <1>1, <1>2, <1>3 DEF IsCommand, Known, None
<1> QED BY <1>4 DEF c, n, t, what

\* A command goes on: only the steps that read state.json and append the line change what it knows.
LEMMA OnwardOK ==
  ASSUME NEW c, IsCommand(c), c.todo # << >>, NEW more, IsCommand(more), more.todo = c.todo,
         NEW ids
  PROVE  LET d == [more EXCEPT !.todo = Tail(@)]
         IN  /\ IsCommand(d)
             /\ Known(d, ids) <=> IF Head(c.todo).do = "read_state" THEN more.prev > None => more.prev \in ids
                                  ELSE more.hash > None => more.hash \in ids
<1> DEFINE t == c.todo
<1>1. t \in Todo /\ Paired(t) /\ t # << >>
  BY DEF IsCommand
<1>2. Tail(t) \in Todo /\ Paired(Tail(t)) /\ (Starts(Tail(t), "append_line") <=> Head(t).do = "read_state")
  BY <1>1, NextMove
<1> HIDE DEF t
<1>3. [more EXCEPT !.todo = Tail(@)]
        = [op |-> more.op, todo |-> Tail(t), prev |-> more.prev, hash |-> more.hash,
           names |-> more.names, failed |-> more.failed]
  BY DEF IsCommand, t
<1>4. more.prev \in Int /\ more.hash \in Int
  BY DEF IsCommand
<1> QED BY <1>2, <1>3, <1>4 DEF IsCommand, Known, t

\* What names a line goes on naming it.
LEMMA KnownMore ==
  ASSUME NEW c, NEW ids, NEW more, ids \subseteq more, Known(c, ids)
  PROVE  Known(c, more)
BY DEF Known

\* One command changed.
LEMMA CommandsMove ==
  ASSUME LedgerInv, NEW p \in Cli, NEW c, NEW ids, Ids \subseteq ids,
         IsCommand(c), Known(c, ids), cli' = [cli EXCEPT ![p] = c]
  PROVE  /\ DOMAIN cli' = Cli /\ cli' = [q \in Cli |-> cli'[q]]
         /\ \A q \in Cli : IsCommand(cli'[q]) /\ Known(cli'[q], ids)
<1>1. DOMAIN cli = Cli /\ \A q \in Cli : IsCommand(cli[q]) /\ Known(cli[q], Ids)
  BY DEF LedgerInv, LedgerTyped
<1>2. \A q \in Cli : cli'[q] = IF q = p THEN c ELSE cli[q]
  BY <1>1
<1>3. \A q \in Cli : Known(cli[q], ids)
  BY <1>1, KnownMore
<1>4. DOMAIN cli' = Cli /\ cli' = [q \in Cli |-> cli'[q]]
  BY <1>1
<1> QED BY <1>1, <1>2, <1>3, <1>4

\* The ledger is left alone, and the files still name its lines.
StillNamed ==
  /\ ledger' = ledger /\ minted' \in Nat
  /\ state' \in Int /\ (state' > None => state' \in Ids)
  /\ DOMAIN snaps' = Snap
  /\ \A s \in Snap : /\ snaps'[s] = [lock |-> snaps'[s].lock, state |-> snaps'[s].state]
                     /\ snaps'[s].state \in Int
                     /\ snaps'[s].state > None => snaps'[s].state \in Ids

\* It is, if no file changes.
LEMMA FilesAlone ==
  ASSUME LedgerInv, UNCHANGED <<ledger, state, snaps, minted>>
  PROVE  StillNamed
<1>1. ledger' = ledger /\ state' = state /\ snaps' = snaps /\ minted' = minted
  OBVIOUS
<1> QED BY <1>1 DEF StillNamed, LedgerInv, LedgerTyped, HashesNameLines

\* Then all depends on the command that moves.
LEMMA Rest ==
  ASSUME LedgerInv, NEW p \in Cli, NEW c, IsCommand(c), Known(c, Ids), cli' = [cli EXCEPT ![p] = c],
         StillNamed
  PROVE  LedgerInv'
<1>1. Ids' = Ids
  BY DEF Ids, StillNamed
<1>2. /\ DOMAIN cli' = Cli /\ cli' = [q \in Cli |-> cli'[q]]
      /\ \A q \in Cli : IsCommand(cli'[q]) /\ Known(cli'[q], Ids)
  BY CommandsMove
<1>3. HashesNameLines'
  <2>1. \A i \in DOMAIN ledger : ledger[i].prev > None => \E j \in 1..(i - 1) : ledger[j].id = ledger[i].prev
    BY DEF LedgerInv, HashesNameLines
  <2> QED BY <1>1, <2>1 DEF HashesNameLines, StillNamed
<1>4. LedgerTyped'
  BY <1>2 DEF LedgerInv, LedgerTyped, StillNamed
<1> QED BY <1>1, <1>2, <1>3, <1>4 DEF LedgerInv

\* What is known of a command that has a step to do.
LEMMA Having ==
  ASSUME LedgerInv, NEW p \in Cli, NEW do, At(p, do)
  PROVE  /\ IsCommand(cli[p]) /\ cli[p].todo # << >> /\ Head(cli[p].todo).do = do
         /\ cli[p].todo \in Todo /\ Paired(cli[p].todo)
         /\ Subject(p) \in Subjects /\ (do \in Copying => Subject(p) \in Snap)
         /\ IF do = "append_line" THEN cli[p].prev > None => cli[p].prev \in Ids
            ELSE cli[p].hash > None => cli[p].hash \in Ids
<1>1. cli[p].todo # << >> /\ Head(cli[p].todo).do = do
  BY DEF At, Idle
<1>2. IsCommand(cli[p]) /\ Known(cli[p], Ids)
  BY DEF LedgerInv, LedgerTyped
<1>3. cli[p].todo \in Todo /\ Paired(cli[p].todo)
  BY <1>2 DEF IsCommand
<1>4. Head(cli[p].todo) \in Move /\ Head(cli[p].todo) = cli[p].todo[1]
  BY <1>1, <1>3, NextMove
<1>5. \A m \in Move : m.of \in Subjects /\ (m.do \in Copying => m.of \in Snap)
  BY DEF Move, Subjects, Plain, Copying
<1> QED BY <1>1, <1>2, <1>3, <1>4, <1>5 DEF Subject, Known, Starts

\* A step that is over, other than the two.
LEMMA Going ==
  ASSUME LedgerInv, NEW p \in Cli, NEW do, At(p, do), do \notin {"read_state", "append_line"},
         NEW more, IsCommand(more), more.todo = cli[p].todo, more.hash = cli[p].hash,
         Onward(p, more), StillNamed
  PROVE  LedgerInv'
<1> DEFINE c == [more EXCEPT !.todo = Tail(@)]
<1>1. /\ IsCommand(cli[p]) /\ cli[p].todo # << >> /\ Head(cli[p].todo).do = do
      /\ cli[p].hash > None => cli[p].hash \in Ids
  BY Having
<1>2. IsCommand(c) /\ Known(c, Ids)
  BY <1>1, OnwardOK
<1>3. cli' = [cli EXCEPT ![p] = c]
  BY DEF Onward
<1> HIDE DEF c
<1> QED BY <1>2, <1>3, Rest

\* A command that ends.
LEMMA GivingUp ==
  ASSUME LedgerInv, NEW p \in Cli, GiveUp(p), StillNamed
  PROVE  LedgerInv'
BY NoCommandOK, Rest DEF GiveUp

-----------------------------------------------------------------------------
(* The steps.                                                              *)

LEMMA EnsureStateStep ==
  ASSUME LedgerInv, NEW p \in Cli, EnsureState(p)
  PROVE  LedgerInv'
<1> DEFINE t == cli[p].todo
           u == Steps(<<"open_state", "fill_state">>, Subject(p)) \o Tail(t)
<1>1. At(p, "ensure_state") /\ StillNamed
  BY FilesAlone DEF EnsureState
<1>2. CASE state # Missing
  <2>1. Onward(p, cli[p])
    BY <1>2 DEF EnsureState
  <2>2. IsCommand(cli[p])
    BY <1>1, Having
  <2> QED BY <1>1, <2>1, <2>2, Going
<1>3. CASE state = Missing
  <2>1. /\ IsCommand(cli[p]) /\ t \in Todo /\ Paired(t) /\ t # << >> /\ Head(t).do = "ensure_state"
        /\ Subject(p) \in Subjects
    BY <1>1, Having
  <2>2. Tail(t) \in Todo /\ Paired(Tail(t)) /\ ~Starts(Tail(t), "append_line")
    BY <2>1, NextMove
  <2>3. u \in Todo /\ Paired(u) /\ ~Starts(u, "append_line")
    BY <2>1, <2>2, Prefixed
  <2> DEFINE c == [cli[p] EXCEPT !.todo = u, !.hash = None]
  <2>4. cli' = [cli EXCEPT ![p].todo = u, ![p].hash = None]
    BY <1>3 DEF EnsureState
  <2>5. cli[p] = [op |-> cli[p].op, todo |-> cli[p].todo, prev |-> cli[p].prev, hash |-> cli[p].hash,
                  names |-> cli[p].names, failed |-> cli[p].failed] /\ cli[p].prev \in Int
    BY <2>1 DEF IsCommand
  <2> HIDE DEF u, t
  <2>6. DOMAIN cli = Cli
    BY DEF LedgerInv, LedgerTyped
  <2>7. cli' = [cli EXCEPT ![p] = c]
    BY <2>4, <2>6
  <2>8. c = [op |-> cli[p].op, todo |-> u, prev |-> cli[p].prev, hash |-> 0,
             names |-> cli[p].names, failed |-> cli[p].failed]
    <3> DEFINE e == [cli[p] EXCEPT !.todo = u]
    <3>1. e = [op |-> cli[p].op, todo |-> u, prev |-> cli[p].prev, hash |-> cli[p].hash,
               names |-> cli[p].names, failed |-> cli[p].failed]
      BY <2>5
    <3>2. c = [e EXCEPT !.hash = None]
      BY <2>5
    <3> HIDE DEF e, c
    <3> QED BY <3>1, <3>2 DEF None
  <2> HIDE DEF c
  <2>9. IsCommand(c) /\ Known(c, Ids)
    BY <2>3, <2>5, <2>8 DEF IsCommand, Known, None
  <2> QED BY <1>1, <2>7, <2>9, Rest
<1> QED BY <1>2, <1>3

LEMMA EnsureLockStep ==
  ASSUME LedgerInv, NEW p \in Cli, EnsureLock(p)
  PROVE  LedgerInv'
<1> DEFINE t == cli[p].todo
           u == Steps(<<"open_lock", "fill_lock">>, NotName) \o Tail(t)
<1>1. At(p, "ensure_lock") /\ StillNamed
  BY FilesAlone DEF EnsureLock
<1>2. CASE lock.kind # "missing"
  <2>1. Onward(p, cli[p])
    BY <1>2 DEF EnsureLock
  <2>2. IsCommand(cli[p])
    BY <1>1, Having
  <2> QED BY <1>1, <2>1, <2>2, Going
<1>3. CASE lock.kind = "missing"
  <2>1. /\ IsCommand(cli[p]) /\ t \in Todo /\ Paired(t) /\ t # << >> /\ Head(t).do = "ensure_lock"
        /\ cli[p].hash > None => cli[p].hash \in Ids
    BY <1>1, Having
  <2>2. Tail(t) \in Todo /\ Paired(Tail(t)) /\ ~Starts(Tail(t), "append_line")
    BY <2>1, NextMove
  <2>3. u \in Todo /\ Paired(u) /\ ~Starts(u, "append_line")
    BY <2>2, Prefixed DEF Subjects
  <2> DEFINE c == [cli[p] EXCEPT !.todo = u]
  <2>4. cli' = [cli EXCEPT ![p].todo = u]
    BY <1>3 DEF EnsureLock
  <2>5. cli[p] = [op |-> cli[p].op, todo |-> cli[p].todo, prev |-> cli[p].prev, hash |-> cli[p].hash,
                  names |-> cli[p].names, failed |-> cli[p].failed] /\ cli[p].prev \in Int /\ cli[p].hash \in Int
    BY <2>1 DEF IsCommand
  <2> HIDE DEF u, t
  <2>7. cli' = [cli EXCEPT ![p] = c]
    BY <2>4 DEF LedgerInv, LedgerTyped
  <2>8. c = [op |-> cli[p].op, todo |-> u, prev |-> cli[p].prev, hash |-> cli[p].hash,
             names |-> cli[p].names, failed |-> cli[p].failed]
    BY <2>5
  <2> HIDE DEF c
  <2>9. IsCommand(c) /\ Known(c, Ids)
    BY <2>1, <2>3, <2>5, <2>8 DEF IsCommand, Known
  <2> QED BY <1>1, <2>7, <2>9, Rest
<1> QED BY <1>2, <1>3

\* What is read from the state names a line, so that what is appended follows one.
LEMMA ReadStateStep ==
  ASSUME LedgerInv, NEW p \in Cli, ReadState(p)
  PROVE  LedgerInv'
<1>1. At(p, "read_state") /\ ledger' = ledger /\ state' = state /\ snaps' = snaps
  BY DEF ReadState
<1>2. state \in Int /\ minted \in Nat /\ (state > None => state \in Ids)
  BY DEF LedgerInv, LedgerTyped, HashesNameLines
<1>3. CASE state = Torn
  <2>1. GiveUp(p) /\ StillNamed
    BY <1>3, FilesAlone DEF ReadState
  <2> QED BY <2>1, GivingUp
<1>4. CASE state # Torn
  <2> DEFINE more == [cli[p] EXCEPT !.prev = state, !.hash = minted + 1]
             c == [more EXCEPT !.todo = Tail(@)]
  <2>1. minted' = minted + 1 /\ Onward(p, more)
    BY <1>4 DEF ReadState
  <2>2. IsCommand(cli[p]) /\ cli[p].todo # << >> /\ Head(cli[p].todo).do = "read_state"
    BY <1>1, Having
  <2>3. cli[p] = [op |-> cli[p].op, todo |-> cli[p].todo, prev |-> cli[p].prev, hash |-> cli[p].hash,
                  names |-> cli[p].names, failed |-> cli[p].failed] /\ cli[p].todo \in Todo /\ Paired(cli[p].todo)
    BY <2>2 DEF IsCommand
  <2>4. more = [op |-> cli[p].op, todo |-> cli[p].todo, prev |-> state, hash |-> minted + 1,
                names |-> cli[p].names, failed |-> cli[p].failed]
    <3> DEFINE e == [cli[p] EXCEPT !.prev = state]
    <3>1. e = [op |-> cli[p].op, todo |-> cli[p].todo, prev |-> state, hash |-> cli[p].hash,
               names |-> cli[p].names, failed |-> cli[p].failed]
      BY <2>3
    <3>2. more = [e EXCEPT !.hash = minted + 1]
      BY <2>3
    <3> HIDE DEF e, more
    <3> QED BY <3>1, <3>2
  <2>5. cli' = [cli EXCEPT ![p] = c]
    BY <2>1 DEF Onward
  <2> HIDE DEF more
  <2>6. IsCommand(more) /\ more.todo = cli[p].todo /\ more.prev = state
    BY <1>2, <2>3, <2>4 DEF IsCommand
  <2>7. IsCommand(c) /\ Known(c, Ids)
    BY <1>2, <2>2, <2>6, OnwardOK
  <2>8. StillNamed
    BY <1>1, <1>2, <2>1 DEF StillNamed, LedgerInv, LedgerTyped, HashesNameLines
  <2> HIDE DEF c
  <2> QED BY <2>5, <2>7, <2>8, Rest
<1> QED BY <1>3, <1>4

\* From here on the hash of the entry names a line.
LEMMA AppendLineStep ==
  ASSUME LedgerInv, NEW p \in Cli, AppendLine(p)
  PROVE  LedgerInv'
<1> DEFINE line == [id |-> cli[p].hash, op |-> cli[p].op, of |-> Subject(p), prev |-> cli[p].prev]
           c == [cli[p] EXCEPT !.todo = Tail(@)]
           n == Len(ledger)
<1>1. At(p, "append_line") /\ ledger' = Append(ledger, line) /\ cli' = [cli EXCEPT ![p] = c]
      /\ state' = state /\ snaps' = snaps /\ minted' = minted
  BY DEF AppendLine, Onward
<1>2. /\ IsCommand(cli[p]) /\ cli[p].todo # << >> /\ Head(cli[p].todo).do = "append_line"
      /\ cli[p].prev > None => cli[p].prev \in Ids
  BY <1>1, Having
<1>3. ledger = [i \in 1 .. n |-> ledger[i]] /\ n \in Nat
  BY DEF LedgerInv, LedgerTyped
<1>4. line.id = cli[p].hash /\ line.prev = cli[p].prev
  OBVIOUS
<1> HIDE DEF line
<1>5. /\ DOMAIN ledger' = 1 .. n + 1 /\ Len(ledger') = n + 1
      /\ \A i \in 1 .. n : ledger'[i] = ledger[i]
      /\ ledger'[n + 1] = line
      /\ ledger' = [i \in 1 .. Len(ledger') |-> ledger'[i]]
  <2> DEFINE D == {ledger[i] : i \in 1 .. n} \union {line}
  <2>1. ledger \in Seq(D) /\ line \in D
    BY <1>3
  <2> HIDE DEF D
  <2>2. /\ ledger' \in Seq(D) /\ Len(ledger') = n + 1
        /\ ledger'[n + 1] = line
    BY <1>1, <2>1
  <2>3. \A i \in 1 .. n : ledger'[i] = ledger[i]
    BY <1>1, <2>1
  <2>4. DOMAIN ledger' = 1 .. n + 1 /\ ledger' = [i \in 1 .. Len(ledger') |-> ledger'[i]]
    BY <2>2
  <2> QED BY <2>2, <2>3, <2>4
<1> HIDE DEF n
<1>6. Ids' = Ids \union {cli[p].hash}
  <2>1. Ids = {ledger[i].id : i \in 1 .. n}
    BY <1>3 DEF Ids
  <2>2. Ids' = {ledger'[i].id : i \in 1 .. n + 1}
    BY <1>5 DEF Ids
  <2>3. 1 .. n + 1 = 1 .. n \union {n + 1}
    BY <1>3 DEF n
  <2> QED BY <1>4, <1>5, <2>1, <2>2, <2>3
<1>7. IsCommand(c) /\ Known(c, Ids')
  BY <1>2, <1>6, OnwardOK
<1> HIDE DEF c
<1>8. /\ DOMAIN cli' = Cli /\ cli' = [q \in Cli |-> cli'[q]]
      /\ \A q \in Cli : IsCommand(cli'[q]) /\ Known(cli'[q], Ids')
  BY <1>1, <1>6, <1>7, CommandsMove
<1>9. ASSUME NEW i \in 1 .. n + 1, ledger'[i].prev > None
      PROVE  \E j \in 1 .. (i - 1) : ledger'[j].id = ledger'[i].prev
  <2>1. CASE i \in 1 .. n
    <3>1. PICK j \in 1 .. (i - 1) : ledger[j].id = ledger[i].prev
      BY <1>3, <1>5, <1>9, <2>1 DEF LedgerInv, HashesNameLines
    <3>2. j \in 1 .. n
      BY <1>3, <2>1 DEF n
    <3> QED BY <1>5, <2>1, <3>1, <3>2
  <2>2. CASE i = n + 1
    <3>1. cli[p].prev > None /\ ledger'[i].prev = cli[p].prev
      BY <1>4, <1>5, <1>9, <2>2
    <3>2. PICK j \in 1 .. n : ledger[j].id = cli[p].prev
      BY <1>2, <1>3, <3>1 DEF Ids
    <3>3. j \in 1 .. (i - 1)
      BY <1>3, <2>2 DEF n
    <3> QED BY <1>5, <3>1, <3>2, <3>3
  <2> QED BY <1>3, <2>1, <2>2 DEF n
<1>10. HashesNameLines'
  BY <1>1, <1>5, <1>6, <1>9 DEF HashesNameLines, LedgerInv
<1>11. LedgerTyped'
  BY <1>1, <1>3, <1>5, <1>8 DEF LedgerInv, LedgerTyped, n
<1> QED BY <1>8, <1>10, <1>11 DEF LedgerInv

\* The steps that only go on, whatever they do to the lock file.
LEMMA PlainGoing ==
  ASSUME LedgerInv, NEW p \in Cli, NEW do, At(p, do), do \notin {"read_state", "append_line"},
         Onward(p, cli[p]), StillNamed
  PROVE  LedgerInv'
<1>1. IsCommand(cli[p])
  BY Having
<1> QED BY <1>1, Going

LEMMA OpenStateStep ==
  ASSUME LedgerInv, NEW p \in Cli, OpenState(p)
  PROVE  LedgerInv'
<1>1. At(p, "open_state") /\ Onward(p, cli[p])
  BY DEF OpenState
<1>2. state' = -1 /\ ledger' = ledger /\ snaps' = snaps /\ minted' = minted
  BY DEF OpenState, Torn
<1>3. StillNamed
  BY <1>2 DEF StillNamed, LedgerInv, LedgerTyped, HashesNameLines, None
<1> QED BY <1>1, <1>3, PlainGoing

LEMMA FillStateStep ==
  ASSUME LedgerInv, NEW p \in Cli, FillState(p)
  PROVE  LedgerInv'
<1>1. At(p, "fill_state") /\ Onward(p, cli[p])
  BY DEF FillState
<1>2. state' = cli[p].hash /\ ledger' = ledger /\ snaps' = snaps /\ minted' = minted
  BY DEF FillState
<1>3. IsCommand(cli[p]) /\ (cli[p].hash > None => cli[p].hash \in Ids)
  BY <1>1, Having
<1>4. cli[p].hash \in Int
  BY <1>3 DEF IsCommand
<1>5. StillNamed
  BY <1>2, <1>3, <1>4 DEF StillNamed, LedgerInv, LedgerTyped, HashesNameLines
<1> QED BY <1>1, <1>5, PlainGoing

LEMMA ReadLockStep ==
  ASSUME LedgerInv, NEW p \in Cli, ReadLock(p)
  PROVE  LedgerInv'
<1>1. At(p, "read_lock") /\ StillNamed
  BY FilesAlone DEF ReadLock
<1>2. CASE lock.kind # "map"
  <2>1. GiveUp(p)
    BY <1>2 DEF ReadLock
  <2> QED BY <1>1, <2>1, GivingUp
<1>3. CASE lock.kind = "map"
  <2> DEFINE more == [cli[p] EXCEPT !.names = lock.names \union {Subject(p)}]
  <2>1. Onward(p, more)
    BY <1>3 DEF ReadLock
  <2>2. IsCommand(cli[p])
    BY <1>1, Having
  <2>3. more = [op |-> cli[p].op, todo |-> cli[p].todo, prev |-> cli[p].prev, hash |-> cli[p].hash,
                names |-> lock.names \union {Subject(p)}, failed |-> cli[p].failed]
    BY <2>2 DEF IsCommand
  <2> HIDE DEF more
  <2>4. IsCommand(more) /\ more.todo = cli[p].todo /\ more.hash = cli[p].hash
    BY <2>2, <2>3 DEF IsCommand
  <2> QED BY <1>1, <2>1, <2>4, Going
<1> QED BY <1>2, <1>3

LEMMA OpenLockStep ==
  ASSUME LedgerInv, NEW p \in Cli, OpenLock(p)
  PROVE  LedgerInv'
BY FilesAlone, PlainGoing DEF OpenLock

LEMMA FillLockStep ==
  ASSUME LedgerInv, NEW p \in Cli, FillLock(p)
  PROVE  LedgerInv'
BY FilesAlone, PlainGoing DEF FillLock

LEMMA EmptyLockStep ==
  ASSUME LedgerInv, NEW p \in Cli, EmptyLock(p)
  PROVE  LedgerInv'
BY FilesAlone, PlainGoing DEF EmptyLock

LEMMA CopyLockBackStep ==
  ASSUME LedgerInv, NEW p \in Cli, CopyLockBack(p)
  PROVE  LedgerInv'
BY FilesAlone, PlainGoing DEF CopyLockBack

LEMMA EmptyLockOutStep ==
  ASSUME LedgerInv, NEW p \in Cli, EmptyLockOut(p)
  PROVE  LedgerInv'
<1> DEFINE s == Subject(p)
<1>1. At(p, "empty_lock_out") /\ Onward(p, cli[p]) /\ ledger' = ledger /\ state' = state /\ minted' = minted
      /\ snaps' = [snaps EXCEPT ![s].lock = TornLock]
  BY DEF EmptyLockOut
<1> HIDE DEF s
<1>2. \A r \in Snap : snaps'[r] = [lock |-> IF r = s THEN TornLock ELSE snaps[r].lock, state |-> snaps[r].state]
  BY <1>1 DEF LedgerInv, LedgerTyped
<1>3. DOMAIN snaps' = Snap
  BY <1>1 DEF LedgerInv, LedgerTyped
<1>4. StillNamed
  BY <1>1, <1>2, <1>3 DEF StillNamed, LedgerInv, LedgerTyped, HashesNameLines
<1> QED BY <1>1, <1>4, PlainGoing

LEMMA CopyLockOutStep ==
  ASSUME LedgerInv, NEW p \in Cli, CopyLockOut(p)
  PROVE  LedgerInv'
<1> DEFINE s == Subject(p)
<1>1. At(p, "copy_lock_out") /\ Onward(p, cli[p]) /\ ledger' = ledger /\ state' = state /\ minted' = minted
      /\ snaps' = [snaps EXCEPT ![s].lock = lock]
  BY DEF CopyLockOut
<1> HIDE DEF s
<1>2. \A r \in Snap : snaps'[r] = [lock |-> IF r = s THEN lock ELSE snaps[r].lock, state |-> snaps[r].state]
  BY <1>1 DEF LedgerInv, LedgerTyped
<1>3. DOMAIN snaps' = Snap
  BY <1>1 DEF LedgerInv, LedgerTyped
<1>4. StillNamed
  BY <1>1, <1>2, <1>3 DEF StillNamed, LedgerInv, LedgerTyped, HashesNameLines
<1> QED BY <1>1, <1>4, PlainGoing

LEMMA EmptyStateOutStep ==
  ASSUME LedgerInv, NEW p \in Cli, EmptyStateOut(p)
  PROVE  LedgerInv'
<1> DEFINE s == Subject(p)
<1>1. At(p, "empty_state_out") /\ Onward(p, cli[p]) /\ ledger' = ledger /\ state' = state /\ minted' = minted
      /\ snaps' = [snaps EXCEPT ![s].state = Torn]
  BY DEF EmptyStateOut
<1> HIDE DEF s
<1>2. \A r \in Snap : snaps'[r] = [lock |-> snaps[r].lock, state |-> IF r = s THEN Torn ELSE snaps[r].state]
  BY <1>1 DEF LedgerInv, LedgerTyped
<1>3. DOMAIN snaps' = Snap
  BY <1>1 DEF LedgerInv, LedgerTyped
<1>4. StillNamed
  BY <1>1, <1>2, <1>3 DEF Torn, None, StillNamed, LedgerInv, LedgerTyped, HashesNameLines
<1> QED BY <1>1, <1>4, PlainGoing

LEMMA CopyStateOutStep ==
  ASSUME LedgerInv, NEW p \in Cli, CopyStateOut(p)
  PROVE  LedgerInv'
<1> DEFINE s == Subject(p)
<1>1. At(p, "copy_state_out") /\ Onward(p, cli[p]) /\ ledger' = ledger /\ state' = state /\ minted' = minted
      /\ snaps' = [snaps EXCEPT ![s].state = state]
  BY DEF CopyStateOut
<1> HIDE DEF s
<1>2. \A r \in Snap : snaps'[r] = [lock |-> snaps[r].lock, state |-> IF r = s THEN state ELSE snaps[r].state]
  BY <1>1 DEF LedgerInv, LedgerTyped
<1>3. DOMAIN snaps' = Snap
  BY <1>1 DEF LedgerInv, LedgerTyped
<1>4. StillNamed
  BY <1>1, <1>2, <1>3 DEF StillNamed, LedgerInv, LedgerTyped, HashesNameLines
<1> QED BY <1>1, <1>4, PlainGoing

LEMMA FindSnapshotStep ==
  ASSUME LedgerInv, NEW p \in Cli, FindSnapshot(p)
  PROVE  LedgerInv'
<1>1. At(p, "find_snapshot") /\ StillNamed /\ (GiveUp(p) \/ Onward(p, cli[p]))
  BY FilesAlone DEF FindSnapshot
<1> QED BY <1>1, GivingUp, PlainGoing

LEMMA EmptyStateStep ==
  ASSUME LedgerInv, NEW p \in Cli, EmptyState(p)
  PROVE  LedgerInv'
<1>1. At(p, "empty_state") /\ ledger' = ledger /\ snaps' = snaps /\ minted' = minted
  BY DEF EmptyState
<1>2. CASE snaps[Subject(p)].state = Missing
  <2>1. GiveUp(p) /\ state' = state
    BY <1>2 DEF EmptyState
  <2> QED BY <1>1, <2>1, FilesAlone, GivingUp
<1>3. CASE snaps[Subject(p)].state # Missing
  <2>1. Onward(p, cli[p]) /\ state' = Torn
    BY <1>3 DEF EmptyState
  <2>2. StillNamed
    BY <1>1, <2>1 DEF StillNamed, LedgerInv, LedgerTyped, HashesNameLines, Torn, None
  <2> QED BY <1>1, <2>1, <2>2, PlainGoing
<1> QED BY <1>2, <1>3

\* A snapshot whose state is copied back is one of the snapshots.
LEMMA CopyStateBackStep ==
  ASSUME LedgerInv, NEW p \in Cli, CopyStateBack(p)
  PROVE  LedgerInv'
<1>1. /\ At(p, "copy_state_back") /\ ledger' = ledger /\ snaps' = snaps /\ minted' = minted
      /\ Onward(p, cli[p]) /\ state' = snaps[Subject(p)].state
  BY DEF CopyStateBack
<1>2. Subject(p) \in Snap
  BY <1>1, Having DEF Copying
<1>3. StillNamed
  BY <1>1, <1>2 DEF StillNamed, LedgerInv, LedgerTyped, HashesNameLines
<1> QED BY <1>1, <1>3, PlainGoing

LEMMA UploadStep ==
  ASSUME LedgerInv, NEW p \in Cli, NEW answer, Upload(p, answer)
  PROVE  LedgerInv'
<1>1. At(p, "upload") /\ StillNamed /\ (GiveUp(p) \/ Onward(p, cli[p]))
  BY FilesAlone DEF Upload
<1> QED BY <1>1, GivingUp, PlainGoing

LEMMA UploadNextStep ==
  ASSUME LedgerInv, NEW p \in Cli, NEW answer, UploadNext(p, answer)
  PROVE  LedgerInv'
<1> DEFINE failed == cli[p].failed \/ answer # "accepted"
           more == [cli[p] EXCEPT !.failed = failed]
<1>1. At(p, "upload_next") /\ StillNamed /\ Onward(p, more)
  BY FilesAlone DEF UploadNext
<1>2. IsCommand(cli[p])
  BY <1>1, Having
<1> HIDE DEF failed
<1>3. more = [op |-> cli[p].op, todo |-> cli[p].todo, prev |-> cli[p].prev, hash |-> cli[p].hash,
              names |-> cli[p].names, failed |-> failed]
  BY <1>2 DEF IsCommand
<1> HIDE DEF more
<1>4. IsCommand(more) /\ more.todo = cli[p].todo /\ more.hash = cli[p].hash
  BY <1>2, <1>3 DEF IsCommand
<1> QED BY <1>1, <1>4, Going

LEMMA BeginStep ==
  ASSUME LedgerInv, NEW p \in Cli, NEW call \in Invocations, Begin(p, call[1], call[2])
  PROVE  LedgerInv'
<1> DEFINE c == [NoCommand EXCEPT !.op = call[1], !.todo = Script(call[1], call[2])]
<1>1. cli' = [cli EXCEPT ![p] = c] /\ StillNamed
  BY FilesAlone DEF Begin
<1>2. IsCommand(c) /\ Known(c, Ids)
  BY BegunOK
<1> HIDE DEF c
<1> QED BY <1>1, <1>2, Rest

LEMMA KillStep ==
  ASSUME LedgerInv, NEW p \in Cli, Kill(p)
  PROVE  LedgerInv'
BY FilesAlone, GivingUp DEF Kill

\* The invariant holds at first, is kept by every step of a command, and by every
\* step of the others, who do not touch the ledger.
LEMMA LedgerStart ==
  ASSUME LedgerInit
  PROVE  LedgerInv
<1>1. ledger = << >> /\ state = -2 /\ minted = 0 /\ cli = [p \in Cli |-> NoCommand]
      /\ snaps = [s \in Snap |-> [lock |-> NoLock, state |-> -2]]
  BY DEF LedgerInit, Missing
<1>2. LedgerTyped
  BY <1>1, NoCommandOK DEF LedgerTyped
<1>3. HashesNameLines
  BY <1>1 DEF HashesNameLines, None
<1> QED BY <1>1, <1>2, <1>3, NoCommandOK DEF LedgerInv

LEMMA LedgerStep ==
  ASSUME LedgerInv, LedgerNext
  PROVE  LedgerInv'
<1>1. PICK p \in Cli : (\E call \in Invocations : Begin(p, call[1], call[2])) \/ CliStep(p) \/ Kill(p)
  BY DEF LedgerNext
<1>2. CASE \E call \in Invocations : Begin(p, call[1], call[2])
  BY <1>2, BeginStep
<1>3. CASE CliStep(p)
  BY <1>3, EnsureStateStep, EnsureLockStep, ReadStateStep, AppendLineStep, OpenStateStep, FillStateStep,
     ReadLockStep, OpenLockStep, FillLockStep, EmptyLockOutStep, CopyLockOutStep, EmptyStateOutStep,
     CopyStateOutStep, FindSnapshotStep, EmptyLockStep, CopyLockBackStep, EmptyStateStep, CopyStateBackStep,
     UploadStep, UploadNextStep DEF CliStep
<1>4. CASE Kill(p)
  BY <1>4, KillStep
<1> QED BY <1>1, <1>2, <1>3, <1>4

LEMMA LedgerAlone ==
  ASSUME LedgerInv, UNCHANGED ledgerVars
  PROVE  LedgerInv'
<1>1. ledger' = ledger /\ state' = state /\ snaps' = snaps /\ minted' = minted /\ cli' = cli
  BY DEF ledgerVars
<1> QED BY <1>1 DEF LedgerInv, LedgerTyped, HashesNameLines, Ids

(* For any number of processes, packages, snapshots and wheels, and however *)
(* many command lines overlap and are killed between their steps: a hash   *)
(* that state.json or a snapshot holds, and the previous hash of a line,    *)
(* names a line that is in the ledger.                                     *)
THEOREM HashesAreKept == Spec => []HashesNameLines
<1>1. Init => LedgerInv
  BY LedgerStart DEF Init
<1>2. LedgerInv /\ [Next]_vars => LedgerInv'
  <2> SUFFICES ASSUME LedgerInv, [Next]_vars PROVE LedgerInv'
    OBVIOUS
  <2>1. CASE LedgerNext
    BY <2>1, LedgerStep
  <2>2. CASE UNCHANGED ledgerVars
    BY <2>2, LedgerAlone
  <2> QED BY <2>1, <2>2 DEF Next, SigningNext, vars
<1>3. LedgerInv => HashesNameLines
  BY DEF LedgerInv
<1> QED BY <1>1, <1>2, <1>3, PTL DEF Spec

-----------------------------------------------------------------------------
(* The memory pool.                                                        *)
Stage == {"idle", "create", "run", "chain", "commit"}

ToolCall == [at : Stage, mc : Thread \union {Nothing}, index : 0 .. ChainLength, batch : Seq(Nat)]

Typed ==
  /\ mc \in Thread \union {Nothing}
  /\ writes \in Seq(Promise)
  /\ fate \in Seq({"pending", "committed", "expired", "cleared"}) /\ Len(fate) = Len(writes)
  /\ queue \in [Thread -> Seq(Nat)]
  /\ calls \in [Thread -> ToolCall]

\* One controller, and batches only where they are committed.
OneController ==
  /\ \A t \in Thread : calls[t].at \in {"run", "chain", "commit"} => mc # Nothing /\ calls[t].mc = mc
  /\ \A t \in Thread : calls[t].at # "commit" => calls[t].batch = << >>
  /\ \A t \in Thread : t # mc => queue[t] = << >>

\* The books, write by write.
Waits(i) == \E u \in Places : i \in Range(Place(u))

Booked ==
  /\ \A i \in Nat : Waits(i) <=> i \in DOMAIN fate /\ fate[i] = "pending"
  /\ \A u, v \in Places : u # v => Range(Place(u)) \intersect Range(Place(v)) = {}
  /\ \A u \in Places : Injective(Place(u))

Books == Typed /\ OneController /\ Booked

-----------------------------------------------------------------------------

\* What a sequence holds.
LEMMA Ranges ==
  /\ Range(<< >>) = {}
  /\ Injective(<< >>)
  /\ \A s \in Seq(Nat) : Range(s) \subseteq Nat
  /\ \A s \in Seq(Nat), x \in Nat :
       /\ Range(Append(s, x)) = Range(s) \union {x}
       /\ Injective(s) /\ x \notin Range(s) => Injective(Append(s, x))
<1>1. Range(<< >>) = {} /\ Injective(<< >>)
  BY DEF Range, Injective
<1>2. ASSUME NEW s \in Seq(Nat) PROVE Range(s) \subseteq Nat
  BY DEF Range
<1>3. ASSUME NEW s \in Seq(Nat), NEW x \in Nat
      PROVE  /\ Range(Append(s, x)) = Range(s) \union {x}
             /\ Injective(s) /\ x \notin Range(s) => Injective(Append(s, x))
  <2>1. /\ DOMAIN Append(s, x) = 1 .. Len(s) + 1
        /\ \A k \in 1 .. Len(s) : Append(s, x)[k] = s[k]
        /\ Append(s, x)[Len(s) + 1] = x
        /\ DOMAIN s = 1 .. Len(s) /\ Len(s) \in Nat
    OBVIOUS
  <2>2. Range(Append(s, x)) = Range(s) \union {x}
    BY <2>1 DEF Range
  <2>3. Injective(s) /\ x \notin Range(s) => Injective(Append(s, x))
    BY <2>1 DEF Range, Injective
  <2> QED BY <2>2, <2>3
<1> QED BY <1>1, <1>2, <1>3

\* Places hold sequences of numbers.
LEMMA PlacesTyped ==
  ASSUME Typed
  PROVE  \A u \in Places : Place(u) \in Seq(Nat)
BY DEF Typed, Places, Place, ToolCall

LEMMA BooksInit == PoolInit => Books
<1> SUFFICES ASSUME PoolInit PROVE Books
  OBVIOUS
<1>1. Typed
  BY ChainAssumption DEF PoolInit, Typed, NotRunning, ToolCall, Stage
<1>2. OneController
  BY DEF PoolInit, OneController, NotRunning
<1>3. \A u \in Places : Place(u) = << >>
  BY DEF PoolInit, Places, Place, NotRunning
<1>4. fate = << >>
  BY DEF PoolInit
<1>5. Booked
  BY <1>3, <1>4, Ranges DEF Booked, Waits
<1> QED BY <1>1, <1>2, <1>5 DEF Books

-----------------------------------------------------------------------------
(* How the places change *)

\* No place changes and no write changes its fate.
LEMMA PlacesKept ==
  ASSUME Booked, UNCHANGED fate, \A u \in Places : Place(u)' = Place(u)
  PROVE  Booked'
BY DEF Booked, Waits, Places

\* The write of this number is queued in the controller of thread t.
LEMMA QueuedBooks ==
  ASSUME Books, NEW t \in Thread, calls[t].mc = mc, mc # Nothing,
         NEW pid, NEW ttl, Queued(t, pid, ttl),
         \A u \in Thread : calls'[u].batch = calls[u].batch
  PROVE  Booked'
<1> DEFINE n == Len(writes) + 1
<1>0. mc \in Thread /\ n \in Nat /\ Len(fate) = n - 1
  BY DEF Books, Typed
<1>1. /\ fate' = Append(fate, "pending")
      /\ queue' = [queue EXCEPT ![mc] = Append(@, n)]
      /\ mc' = mc
  BY DEF Queued
<1>2. Place(Nothing)' = Append(Place(Nothing), n)
  BY <1>0, <1>1 DEF Place, Books, Typed
<1>3. \A u \in Places : u # Nothing => Place(u)' = Place(u)
  BY DEF Places, Place
<1>4. \A u \in Places : Place(u) \in Seq(Nat)
  BY PlacesTyped DEF Books
<1>5. \A u \in Places : n \notin Range(Place(u))
  <2>1. n \notin DOMAIN fate
    BY <1>0 DEF Books, Typed
  <2> QED BY <2>1, <1>0 DEF Books, Booked, Waits
<1>6. Nothing \in Places
  BY DEF Places
<1>7. Range(Place(Nothing)') = Range(Place(Nothing)) \union {n} /\ Injective(Place(Nothing)')
  BY <1>0, <1>2, <1>4, <1>5, <1>6, Ranges DEF Books, Booked
<1>8. \A i \in Nat : (i \in DOMAIN fate' /\ fate'[i] = "pending")
                       <=> i = n \/ (i \in DOMAIN fate /\ fate[i] = "pending")
  BY <1>0, <1>1 DEF Books, Typed
<1>9. \A i \in Nat : Waits(i)' <=> i = n \/ Waits(i)
  BY <1>3, <1>6, <1>7 DEF Waits, Places
<1>10. \A i \in Nat : Waits(i)' <=> i \in DOMAIN fate' /\ fate'[i] = "pending"
  BY <1>8, <1>9 DEF Books, Booked
<1>11. \A u, v \in Places : u # v => Range(Place(u)') \intersect Range(Place(v)') = {}
  BY <1>3, <1>5, <1>7 DEF Books, Booked
<1>12. \A u \in Places : Injective(Place(u)')
  BY <1>3, <1>7 DEF Books, Booked
<1> QED BY <1>10, <1>11, <1>12 DEF Booked, Places
-----------------------------------------------------------------------------
(* Types *)

LEMMA QueuedTyped ==
  ASSUME Typed, NEW t \in Thread, calls[t].mc \in Thread,
         NEW pid \in Int, NEW ttl \in BOOLEAN, Queued(t, pid, ttl)
  PROVE  /\ writes' \in Seq(Promise) /\ queue' \in [Thread -> Seq(Nat)] /\ mc' = mc
         /\ fate' \in Seq({"pending", "committed", "expired", "cleared"}) /\ Len(fate') = Len(writes')
<1>1. [pid |-> pid, ttl |-> ttl] \in Promise
  BY DEF Promise
<1>2. writes' \in Seq(Promise) /\ Len(writes') = Len(writes) + 1
  BY <1>1 DEF Queued, Typed
<1>3. fate' \in Seq({"pending", "committed", "expired", "cleared"}) /\ Len(fate') = Len(fate) + 1
  BY DEF Queued, Typed
<1>4. queue[calls[t].mc] \in Seq(Nat) /\ Len(writes) + 1 \in Nat
  BY DEF Typed
<1>5. Append(queue[calls[t].mc], Len(writes) + 1) \in Seq(Nat)
  BY <1>4
<1>6. queue' \in [Thread -> Seq(Nat)]
  BY <1>5 DEF Queued, Typed
<1> QED BY <1>2, <1>3, <1>6 DEF Queued, Typed

LEMMA TypedNext == Books /\ PoolNext => Typed'
<1> SUFFICES ASSUME Books, NEW t \in Thread, ToolStep(t) PROVE Typed'
  BY DEF PoolNext
<1> USE DEF Books
<1>1. CASE GetMc(t)
  <2>1. calls[t] \in ToolCall /\ mc \in Thread \union {Nothing}
    BY DEF Typed
  <2>2. PICK at \in Stage : calls' = [calls EXCEPT ![t].at = at, ![t].mc = mc]
    BY <1>1 DEF GetMc, Stage
  <2>3. [calls[t] EXCEPT !.at = at, !.mc = mc] \in ToolCall
    BY <2>1 DEF ToolCall
  <2>4. calls' \in [Thread -> ToolCall]
    BY <2>2, <2>3 DEF Typed
  <2> QED BY <1>1, <2>4 DEF GetMc, Typed, history_vars
<1>2. CASE CreateMc(t)
  BY <1>2 DEF CreateMc, Typed, ToolCall, Stage, history_vars
<1>3. CASE MemoryWrite(t)
  <2>1. PICK pid \in Pid, ttl \in BOOLEAN : Queued(t, pid, ttl)
    BY <1>3 DEF MemoryWrite
  <2>2. calls[t].mc \in Thread /\ pid \in Int
    BY <1>3, PidAssumption DEF MemoryWrite, OneController, Typed
  <2>3. calls' = [calls EXCEPT ![t] = NotRunning]
    BY <1>3 DEF MemoryWrite
  <2>4. NotRunning \in ToolCall
    BY ChainAssumption DEF NotRunning, ToolCall, Stage
  <2> QED BY <2>1, <2>2, <2>3, <2>4, QueuedTyped DEF Typed
<1>4. CASE ChainWrite(t)
  <2>1. Queued(t, calls[t].index, TRUE) /\ calls[t].index < ChainLength
    BY <1>4 DEF ChainWrite
  <2>2. calls[t].mc \in Thread /\ calls[t].index \in Int
    BY <1>4 DEF ChainWrite, OneController, Typed, ToolCall
  <2>3. calls' \in [Thread -> ToolCall]
    <3>1. calls[t] \in ToolCall /\ calls[t].index + 1 \in 0 .. ChainLength
      BY <2>1, ChainAssumption DEF Typed, ToolCall
    <3>2. [calls[t] EXCEPT !.at = "chain", !.index = @ + 1] \in ToolCall
      BY <3>1 DEF ToolCall, Stage
    <3>3. calls' = [calls EXCEPT ![t].at = "chain", ![t].index = @ + 1]
      BY <1>4 DEF ChainWrite
    <3> QED BY <3>2, <3>3 DEF Typed
  <2> QED BY <2>1, <2>2, <2>3, QueuedTyped DEF Typed
<1>5. CASE ChainFails(t)
  BY <1>5, ChainAssumption DEF ChainFails, Typed, ToolCall, Stage, NotRunning, history_vars
<1>6. CASE TakeQueue(t)
  <2>1. calls[t].mc \in Thread
    BY <1>6 DEF TakeQueue, OneController, Typed
  <2>2. queue[calls[t].mc] \in Seq(Nat) /\ << >> \in Seq(Nat)
    BY <2>1 DEF Typed
  <2>3. calls' \in [Thread -> ToolCall]
    BY <1>6, <2>2 DEF TakeQueue, Typed, ToolCall, Stage
  <2>4. queue' \in [Thread -> Seq(Nat)]
    BY <1>6, <2>2 DEF TakeQueue, Typed
  <2> QED BY <1>6, <2>3, <2>4 DEF TakeQueue, Typed, history_vars
<1>7. CASE CommitBatch(t)
  <2>1. PICK late : fate' = [i \in DOMAIN fate |->
                               IF i \notin Range(calls[t].batch) THEN fate[i]
                               ELSE IF i \in late THEN "expired" ELSE "committed"]
    BY <1>7 DEF CommitBatch
  <2>2. fate' \in Seq({"pending", "committed", "expired", "cleared"}) /\ Len(fate') = Len(fate)
    <3>1. DOMAIN fate = 1 .. Len(fate) /\ Len(fate) \in Nat
      BY DEF Typed
    <3>2. \A i \in DOMAIN fate : fate'[i] \in {"pending", "committed", "expired", "cleared"}
      BY <2>1 DEF Typed
    <3> QED BY <2>1, <3>1, <3>2
  <2>3. calls' \in [Thread -> ToolCall]
    BY <1>7, ChainAssumption DEF CommitBatch, Typed, ToolCall, Stage, NotRunning
  <2> QED BY <1>7, <2>2, <2>3 DEF CommitBatch, Typed
<1>8. CASE MemoryClear(t)
  <2>1. fate' = [i \in DOMAIN fate |->
                   IF fate[i] = "committed" \/ i \in Range(queue[calls[t].mc]) THEN "cleared" ELSE fate[i]]
    BY <1>8 DEF MemoryClear
  <2>2. fate' \in Seq({"pending", "committed", "expired", "cleared"}) /\ Len(fate') = Len(fate)
    <3>1. DOMAIN fate = 1 .. Len(fate) /\ Len(fate) \in Nat
      BY DEF Typed
    <3>2. \A i \in DOMAIN fate : fate'[i] \in {"pending", "committed", "expired", "cleared"}
      BY <2>1 DEF Typed
    <3> QED BY <2>1, <3>1, <3>2
  <2>3. calls' \in [Thread -> ToolCall]
    BY <1>8, ChainAssumption DEF MemoryClear, Typed, ToolCall, Stage, NotRunning
  <2>4. queue' \in [Thread -> Seq(Nat)]
    <3>1. << >> \in Seq(Nat)
      OBVIOUS
    <3> QED BY <1>8, <3>1 DEF MemoryClear, Typed
  <2> QED BY <1>8, <2>2, <2>3, <2>4 DEF MemoryClear, Typed
<1>9. CASE MemoryRead(t)
  BY <1>9, ChainAssumption DEF MemoryRead, Typed, ToolCall, Stage, NotRunning, history_vars
<1> QED BY <1>1, <1>2, <1>3, <1>4, <1>5, <1>6, <1>7, <1>8, <1>9 DEF ToolStep
-----------------------------------------------------------------------------
(* One controller *)

LEMMA OneControllerNext == Books /\ PoolNext => OneController'
<1> SUFFICES ASSUME Books, NEW t \in Thread, ToolStep(t) PROVE OneController'
  BY DEF PoolNext
<1> USE DEF Books, NotRunning
<1>0. Nothing \notin Thread /\ calls \in [Thread -> ToolCall] /\ mc \in Thread \union {Nothing}
  BY PoolNoneAssumption DEF Typed
<1>1. CASE GetMc(t)
  BY <1>0, <1>1 DEF GetMc, OneController, ToolCall, history_vars
<1>2. CASE CreateMc(t)
  BY <1>0, <1>2 DEF CreateMc, OneController, ToolCall, history_vars
<1>3. CASE MemoryWrite(t)
  <2>1. calls[t].mc = mc /\ mc' = mc /\ calls' = [calls EXCEPT ![t] = NotRunning]
    BY <1>3 DEF MemoryWrite, Queued, OneController
  <2>2. \A u \in Thread : u # mc => queue'[u] = queue[u]
    BY <1>3, <2>1 DEF MemoryWrite, Queued, Typed
  <2> QED BY <1>0, <2>1, <2>2 DEF OneController
<1>4. CASE ChainWrite(t)
  <2>1. calls[t].mc = mc /\ mc' = mc /\ calls' = [calls EXCEPT ![t].at = "chain", ![t].index = @ + 1]
    BY <1>4 DEF ChainWrite, Queued, OneController
  <2>2. \A u \in Thread : u # mc => queue'[u] = queue[u]
    BY <1>4, <2>1 DEF ChainWrite, Queued, Typed
  <2> QED BY <1>0, <1>4, <2>1, <2>2 DEF ChainWrite, OneController, ToolCall
<1>5. CASE ChainFails(t)
  BY <1>0, <1>5 DEF ChainFails, OneController, history_vars
<1>6. CASE TakeQueue(t)
  BY <1>0, <1>6 DEF TakeQueue, OneController, Typed, ToolCall, history_vars
<1>7. CASE CommitBatch(t)
  BY <1>0, <1>7 DEF CommitBatch, OneController
<1>8. CASE MemoryClear(t)
  BY <1>0, <1>8 DEF MemoryClear, OneController, Typed
<1>9. CASE MemoryRead(t)
  BY <1>0, <1>9 DEF MemoryRead, OneController, history_vars
<1> QED BY <1>1, <1>2, <1>3, <1>4, <1>5, <1>6, <1>7, <1>8, <1>9 DEF ToolStep

-----------------------------------------------------------------------------
(* The books *)

LEMMA BookedNext == Books /\ PoolNext => Booked'
<1> SUFFICES ASSUME Books, NEW t \in Thread, ToolStep(t) PROVE Booked'
  BY DEF PoolNext
<1>0. /\ Nothing \notin Thread /\ calls \in [Thread -> ToolCall] /\ mc \in Thread \union {Nothing}
      /\ Booked /\ t \in Places /\ Nothing \in Places /\ t # Nothing
      /\ \A u \in Places : Place(u) \in Seq(Nat)
      /\ \A u \in Places : Range(Place(u)) \subseteq Nat
  BY PoolNoneAssumption, PlacesTyped, Ranges DEF Books, Typed, Places
<1>1. CASE GetMc(t)
  <2>1. \A u \in Places : Place(u)' = Place(u)
    BY <1>0, <1>1 DEF GetMc, Place, Places, ToolCall
  <2> QED BY <1>0, <1>1, <2>1, PlacesKept DEF GetMc, history_vars
<1>2. CASE CreateMc(t)
  <2>1. \A u \in Places : Place(u)' = Place(u)
    BY <1>0, <1>2 DEF CreateMc, Place, Places, ToolCall, Books, OneController
  <2> QED BY <1>0, <1>2, <2>1, PlacesKept DEF CreateMc, history_vars
<1>3. CASE MemoryWrite(t)
  <2>1. PICK pid \in Pid, ttl \in BOOLEAN : Queued(t, pid, ttl)
    BY <1>3 DEF MemoryWrite
  <2>2. calls[t].mc = mc /\ mc # Nothing /\ calls[t].batch = << >>
    BY <1>3 DEF MemoryWrite, Books, OneController
  <2>3. \A u \in Thread : calls'[u].batch = calls[u].batch
    BY <1>0, <1>3, <2>2 DEF MemoryWrite, NotRunning
  <2> QED BY <2>1, <2>2, <2>3, QueuedBooks
<1>4. CASE ChainWrite(t)
  <2>1. Queued(t, calls[t].index, TRUE)
    BY <1>4 DEF ChainWrite
  <2>2. calls[t].mc = mc /\ mc # Nothing
    BY <1>4 DEF ChainWrite, Books, OneController
  <2>3. \A u \in Thread : calls'[u].batch = calls[u].batch
    BY <1>0, <1>4 DEF ChainWrite, ToolCall
  <2> QED BY <2>1, <2>2, <2>3, QueuedBooks
<1>5. CASE ChainFails(t)
  <2>1. \A u \in Places : Place(u)' = Place(u)
    BY <1>0, <1>5 DEF ChainFails, Place, Places, NotRunning, Books, OneController
  <2> QED BY <1>0, <1>5, <2>1, PlacesKept DEF ChainFails, history_vars
<1>6. CASE TakeQueue(t)
  <2>1. calls[t].mc = mc /\ mc # Nothing /\ calls[t].batch = << >> /\ mc \in Thread
    BY <1>0, <1>6 DEF TakeQueue, Books, OneController
  <2>2. /\ Place(t) = << >> /\ Place(t)' = Place(Nothing)
        /\ Place(Nothing)' = << >>
        /\ \A u \in Places \ {t, Nothing} : Place(u)' = Place(u)
    BY <1>0, <1>6, <2>1 DEF TakeQueue, Place, Places, Books, Typed, ToolCall
  <2>3. \A i \in Nat : Waits(i)' <=> Waits(i)
    BY <1>0, <2>2, Ranges DEF Waits, Places
  <2>4. fate' = fate
    BY <1>6 DEF TakeQueue, history_vars
  <2>5. \A u, v \in Places : u # v => Range(Place(u)') \intersect Range(Place(v)') = {}
    BY <1>0, <2>2, Ranges DEF Booked
  <2>6. \A u \in Places : Injective(Place(u)')
    BY <1>0, <2>2, Ranges DEF Booked
  <2> QED BY <1>0, <2>3, <2>4, <2>5, <2>6 DEF Booked, Places
<1>7. CASE CommitBatch(t)
  <2>1. PICK late : fate' = [i \in DOMAIN fate |->
                               IF i \notin Range(calls[t].batch) THEN fate[i]
                               ELSE IF i \in late THEN "expired" ELSE "committed"]
    BY <1>7 DEF CommitBatch
  <2>2. /\ Place(t) = calls[t].batch /\ Place(t)' = << >>
        /\ \A u \in Places \ {t} : Place(u)' = Place(u)
    BY <1>0, <1>7 DEF CommitBatch, Place, Places, NotRunning
  <2>3. \A i \in Nat : Waits(i)' <=> Waits(i) /\ i \notin Range(Place(t))
    BY <1>0, <2>2, Ranges DEF Waits, Places, Booked
  <2>4. \A i \in Nat : (i \in DOMAIN fate' /\ fate'[i] = "pending")
                         <=> i \in DOMAIN fate /\ fate[i] = "pending" /\ i \notin Range(Place(t))
    BY <2>1, <2>2
  <2>5. \A u, v \in Places : u # v => Range(Place(u)') \intersect Range(Place(v)') = {}
    BY <1>0, <2>2, Ranges DEF Booked
  <2>6. \A u \in Places : Injective(Place(u)')
    BY <1>0, <2>2, Ranges DEF Booked
  <2> QED BY <1>0, <2>3, <2>4, <2>5, <2>6 DEF Booked, Places
<1>8. CASE MemoryClear(t)
  <2>1. calls[t].mc = mc /\ mc # Nothing /\ calls[t].batch = << >> /\ mc \in Thread
    BY <1>0, <1>8 DEF MemoryClear, Books, OneController
  <2>2. /\ Place(Nothing) = queue[mc] /\ Place(Nothing)' = << >>
        /\ \A u \in Places \ {Nothing} : Place(u)' = Place(u)
    BY <1>0, <1>8, <2>1 DEF MemoryClear, Place, Places, NotRunning, Books, Typed
  <2>3. fate' = [i \in DOMAIN fate |->
                   IF fate[i] = "committed" \/ i \in Range(Place(Nothing)) THEN "cleared" ELSE fate[i]]
    BY <1>8, <2>1, <2>2 DEF MemoryClear
  <2>4. \A i \in Nat : Waits(i)' <=> Waits(i) /\ i \notin Range(Place(Nothing))
    BY <1>0, <2>2, Ranges DEF Waits, Places, Booked
  <2>5. \A i \in Nat : (i \in DOMAIN fate' /\ fate'[i] = "pending")
                         <=> i \in DOMAIN fate /\ fate[i] = "pending" /\ i \notin Range(Place(Nothing))
    BY <2>3
  <2>6. \A u, v \in Places : u # v => Range(Place(u)') \intersect Range(Place(v)') = {}
    BY <1>0, <2>2, Ranges DEF Booked
  <2>7. \A u \in Places : Injective(Place(u)')
    BY <1>0, <2>2, Ranges DEF Booked
  <2> QED BY <1>0, <2>4, <2>5, <2>6, <2>7 DEF Booked, Places
<1>9. CASE MemoryRead(t)
  <2>1. \A u \in Places : Place(u)' = Place(u)
    BY <1>0, <1>9 DEF MemoryRead, Place, Places, NotRunning, Books, OneController
  <2> QED BY <1>0, <1>9, <2>1, PlacesKept DEF MemoryRead, history_vars
<1> QED BY <1>1, <1>2, <1>3, <1>4, <1>5, <1>6, <1>7, <1>8, <1>9 DEF ToolStep

-----------------------------------------------------------------------------

\* The books are an inductive invariant of the pool server.
THEOREM BooksKept == PoolSpec => []Books
<1>1. PoolInit => Books
  BY BooksInit
<1>2. Books /\ [PoolNext]_poolVars => Books'
  <2>1. Books /\ PoolNext => Books'
    BY TypedNext, OneControllerNext, BookedNext DEF Books
  <2>2. Books /\ UNCHANGED poolVars => Books'
    BY DEF Books, Typed, OneController, Booked, Waits, Places, Place, poolVars, pool_vars, history_vars
  <2> QED BY <2>1, <2>2
<1> QED BY <1>1, <1>2, PTL DEF PoolSpec

\* Every queued write is in one place until it is committed, expires or is
\* cleared, however many threads write, process and clear (process_promises
\* takes the queue in one section and commits in another).
THEOREM NoWriteIsLost == PoolSpec => []WritesAccounted
<1>1. Books => WritesAccounted
  <2> SUFFICES ASSUME Books PROVE WritesAccounted
    OBVIOUS
  <2>1. \A u \in Places : Range(Place(u)) \subseteq Nat
    BY PlacesTyped, Ranges DEF Books
  <2>2. DOMAIN fate \subseteq Nat
    BY DEF Books, Typed
  <2>3. \A i : i \in UNION {Range(Place(u)) : u \in Places} <=> i \in Nat /\ Waits(i)
    BY <2>1 DEF Waits
  <2>4. {i \in DOMAIN fate : fate[i] = "pending"} = UNION {Range(Place(u)) : u \in Places}
    BY <2>2, <2>3 DEF Books, Booked
  <2> QED BY <2>4 DEF Books, Booked, WritesAccounted
<1> QED BY <1>1, BooksKept, PTL

-----------------------------------------------------------------------------
(* The newest write of a slot                                                *)

\* Every place holds its writes in the order they were queued.
InOrder == \A u \in Places : \A j, k \in DOMAIN Place(u) : j < k => Place(u)[j] < Place(u)[k]

\* What is queued is newer than all the rest.
QueueLast ==
  mc # Nothing =>
    \A i \in Range(queue[mc]) : \A j \in DOMAIN fate : j \notin Range(queue[mc]) => j < i

\* A batch that was not overtaken is newer than what has been committed.
BatchLater ==
  \A t \in Thread \ passed : \A i \in Range(calls[t].batch) :
    \A j \in DOMAIN fate : fate[j] = "committed" => j < i

\* The pools of no controller are empty.
OnePool ==
  /\ pool \in [Thread -> [Slot -> Nat \union {Nothing}]]
  /\ mc = Nothing => writes = << >>
  /\ \A t \in Thread : t # mc => \A s \in Slot : pool[t][s] = Nothing

Newest == InOrder /\ QueueLast /\ BatchLater /\ OnePool /\ NewestWins

\* A set of places in a sequence has a last one.
LEMMA LastOf ==
  ASSUME NEW n \in Nat, NEW S \in SUBSET (1 .. n), S # {}
  PROVE  LET k == CHOOSE k \in S : \A j \in S : j <= k
         IN  k \in S /\ \A j \in S : j <= k
<1> DEFINE R == {ss \in Nat \X Nat : ss[1] < ss[2]}
           T == {n - j : j \in S}
<1>1. IsWellFoundedOn(R, Nat)
  BY NatLessThanWellFounded DEF OpToRel
<1>2. T \subseteq Nat /\ T # {}
  <2>1. \A j \in S : n - j \in Nat
    OBVIOUS
  <2>2. PICK j \in S : TRUE
    OBVIOUS
  <2>3. n - j \in T
    OBVIOUS
  <2> QED BY <2>1, <2>3
<1>3. PICK x \in T : \A y \in T : <<y, x>> \notin R
  BY <1>1, <1>2, WFMin
<1>4. PICK k \in S : x = n - k
  BY <1>3
<1>5. ASSUME NEW j \in S PROVE j <= k
  <2>1. n - j \in T /\ n - j \in Nat /\ x \in Nat /\ <<n - j, x>> \notin R
    BY <1>2, <1>3
  <2>2. n - j < x => <<n - j, x>> \in R
    BY <2>1
  <2> QED BY <1>4, <2>1, <2>2
<1> QED BY <1>4, <1>5

\* A sequence in order stays so when something newer is appended.
LEMMA AppendOrdered ==
  ASSUME NEW q \in Seq(Nat), NEW n \in Nat, \A i \in DOMAIN q : q[i] < n,
         \A j, k \in DOMAIN q : j < k => q[j] < q[k],
         NEW j \in DOMAIN Append(q, n), NEW k \in DOMAIN Append(q, n), j < k
  PROVE  Append(q, n)[j] < Append(q, n)[k]
<1>1. DOMAIN Append(q, n) = 1 .. Len(q) + 1 /\ DOMAIN q = 1 .. Len(q) /\ Len(q) \in Nat
  OBVIOUS
<1>2. j \in DOMAIN q /\ Append(q, n)[j] = q[j]
  BY <1>1
<1>3. CASE k \in DOMAIN q
  BY <1>1, <1>2, <1>3
<1>4. CASE k = Len(q) + 1
  BY <1>1, <1>2, <1>4
<1> QED BY <1>1, <1>3, <1>4

LEMMA NewestInit == PoolInit => Newest
<1> SUFFICES ASSUME PoolInit PROVE Newest
  OBVIOUS
<1>1. \A u \in Places : Place(u) = << >>
  BY DEF PoolInit, Places, Place, NotRunning
<1>2. InOrder
  BY <1>1 DEF InOrder
<1>3. QueueLast /\ NewestWins
  BY DEF PoolInit, QueueLast, NewestWins
<1>4. BatchLater
  BY DEF PoolInit, BatchLater
<1>5. OnePool
  BY DEF PoolInit, OnePool
<1> QED BY <1>2, <1>3, <1>4, <1>5 DEF Newest

\* A step that changes no place, no pool and no history keeps it.
LEMMA NewestKept ==
  ASSUME Newest, UNCHANGED <<mc, queue, pool, history_vars>>,
         \A u \in Thread : calls'[u].batch = calls[u].batch
  PROVE  Newest'
<1>1. UNCHANGED <<mc, queue, pool, writes, fate, passed, mixed>>
  BY DEF history_vars
<1>2. \A u \in Places : Place(u)' = Place(u)
  BY <1>1 DEF Places, Place
<1>3. InOrder'
  BY <1>2 DEF Newest, InOrder, Places
<1>4. \A s : Committed(s)' = Committed(s)
  BY <1>1 DEF Committed, SlotOf
<1>5. NewestWins'
  BY <1>1, <1>4 DEF Newest, NewestWins
<1>6. QueueLast' /\ BatchLater' /\ OnePool'
  BY <1>1 DEF Newest, QueueLast, BatchLater, OnePool
<1> QED BY <1>3, <1>5, <1>6 DEF Newest

LEMMA NewestQueued ==
  ASSUME Books, Newest, NEW t \in Thread, calls[t].mc = mc, mc # Nothing,
         NEW pid, NEW ttl, Queued(t, pid, ttl),
         \A u \in Thread : calls'[u].batch = calls[u].batch
  PROVE  Newest'
<1> DEFINE n == Len(writes) + 1
<1>0. /\ mc \in Thread /\ n \in Nat /\ Len(fate) = n - 1 /\ DOMAIN fate = 1 .. (n - 1)
      /\ queue[mc] \in Seq(Nat)
      /\ \A u \in Places : Place(u) \in Seq(Nat)
  BY PlacesTyped DEF Books, Typed
<1>1. /\ fate' = Append(fate, "pending") /\ writes' = Append(writes, [pid |-> pid, ttl |-> ttl])
      /\ queue' = [queue EXCEPT ![mc] = Append(@, n)]
      /\ mc' = mc /\ pool' = pool /\ passed' = passed /\ mixed' = mixed
  BY DEF Queued
<1>2. /\ queue'[mc] = Append(queue[mc], n) /\ Place(Nothing) = queue[mc]
      /\ Place(Nothing)' = Append(Place(Nothing), n)
      /\ \A u \in Places : u # Nothing => Place(u)' = Place(u)
  BY <1>0, <1>1 DEF Place, Places, Books, Typed
<1>3. Range(queue[mc]) \subseteq DOMAIN fate /\ Range(queue'[mc]) = Range(queue[mc]) \union {n}
  <2>1. Nothing \in Places
    BY DEF Places
  <2>2. \A i \in Range(queue[mc]) : i \in DOMAIN fate
    BY <1>0, <1>2, <2>1, Ranges DEF Books, Booked, Waits
  <2> QED BY <1>0, <1>2, <2>2, Ranges
<1>4. /\ DOMAIN fate' = 1 .. n /\ fate'[n] = "pending"
      /\ \A i \in DOMAIN fate : fate'[i] = fate[i] /\ writes'[i] = writes[i]
  BY <1>0, <1>1 DEF Books, Typed
<1>5. InOrder'
  <2>1. ASSUME NEW j \in DOMAIN Append(queue[mc], n), NEW k \in DOMAIN Append(queue[mc], n), j < k
        PROVE  Append(queue[mc], n)[j] < Append(queue[mc], n)[k]
    <3>1. \A i \in DOMAIN queue[mc] : queue[mc][i] \in DOMAIN fate
      BY <1>3 DEF Range
    <3>2. \A i, l \in DOMAIN queue[mc] : i < l => queue[mc][i] < queue[mc][l]
      BY <1>2 DEF Newest, InOrder, Places
    <3>3. \A i \in DOMAIN queue[mc] : queue[mc][i] < n
      BY <1>0, <3>1
    <3> HIDE DEF n
    <3> QED BY <1>0, <2>1, <3>2, <3>3, AppendOrdered
  <2>2. \A u \in Places : u # Nothing => Place(u)' = Place(u)
    BY <1>2
  <2> QED BY <1>2, <2>1, <2>2 DEF Newest, InOrder, Places
<1>6. QueueLast'
  <2>1. ASSUME NEW i \in Range(queue'[mc]), NEW j \in DOMAIN fate', j \notin Range(queue'[mc])
        PROVE  j < i
    <3>1. j \in DOMAIN fate /\ j \notin Range(queue[mc])
      BY <1>0, <1>3, <1>4, <2>1
    <3>2. CASE i = n
      BY <1>0, <3>1, <3>2
    <3>3. CASE i \in Range(queue[mc])
      BY <1>0, <3>1, <3>3 DEF Newest, QueueLast
    <3> QED BY <1>3, <3>2, <3>3
  <2> QED BY <1>1, <2>1 DEF QueueLast
<1>7. BatchLater'
  BY <1>0, <1>1, <1>4 DEF Newest, BatchLater
<1>8. OnePool'
  BY <1>0, <1>1 DEF Newest, OnePool
<1>9. \A s : Committed(s)' = Committed(s)
  BY <1>0, <1>4 DEF Committed, SlotOf
<1>10. NewestWins'
  BY <1>1, <1>9 DEF Newest, NewestWins
<1> QED BY <1>5, <1>6, <1>7, <1>8, <1>10 DEF Newest

LEMMA NewestTaken ==
  ASSUME Books, Newest, NEW t \in Thread, TakeQueue(t)
  PROVE  Newest'
<1>0. /\ mc \in Thread /\ calls[t].mc = mc /\ mc # Nothing /\ calls[t].batch = << >>
      /\ mc' = mc /\ pool' = pool /\ writes' = writes /\ fate' = fate /\ passed' = passed
      /\ mixed' = mixed
      /\ calls \in [Thread -> ToolCall] /\ queue \in [Thread -> Seq(Nat)] /\ Nothing \notin Thread
  BY PoolNoneAssumption DEF TakeQueue, Books, OneController, Typed, history_vars
<1>1. /\ queue'[mc] = << >> /\ calls'[t].batch = queue[mc]
      /\ \A u \in Thread : u # t => calls'[u] = calls[u]
  BY <1>0 DEF TakeQueue, ToolCall
<1>2. /\ Place(t)' = Place(Nothing) /\ Place(Nothing)' = << >> /\ Place(Nothing) = queue[mc]
      /\ \A u \in Places : u \notin {t, Nothing} => Place(u)' = Place(u)
  BY <1>0, <1>1 DEF Place, Places
<1>3. InOrder'
  BY <1>2 DEF Newest, InOrder, Places
<1>4. QueueLast'
  BY <1>0, <1>1 DEF QueueLast, Range
<1>5. \A i \in Range(queue[mc]) : i \in DOMAIN fate /\ fate[i] = "pending"
  <2>1. Nothing \in Places
    BY DEF Places
  <2> QED BY <1>0, <1>2, <2>1, Ranges DEF Books, Booked, Waits
<1>6. BatchLater'
  BY <1>0, <1>1, <1>5 DEF Newest, BatchLater, QueueLast
<1>7. OnePool'
  BY <1>0 DEF Newest, OnePool
<1>8. \A s : Committed(s)' = Committed(s)
  BY <1>0 DEF Committed, SlotOf
<1>9. NewestWins'
  BY <1>0, <1>8 DEF Newest, NewestWins
<1> QED BY <1>3, <1>4, <1>6, <1>7, <1>9 DEF Newest

LEMMA NewestCommitted ==
  ASSUME Books, Newest, NEW t \in Thread, CommitBatch(t)
  PROVE  Newest'
<1> DEFINE batch == calls[t].batch
<1>0. /\ mc \in Thread /\ calls[t].mc = mc /\ mc # Nothing /\ t \in Places /\ t # Nothing
      /\ mc' = mc /\ queue' = queue /\ writes' = writes
      /\ calls \in [Thread -> ToolCall] /\ Place(t) = batch /\ batch \in Seq(Nat)
      /\ calls' = [calls EXCEPT ![t] = NotRunning] /\ Len(fate) \in Nat /\ DOMAIN fate = 1 .. Len(fate)
  BY PoolNoneAssumption DEF CommitBatch, Books, OneController, Typed, Places, Place, ToolCall
<1>a. PICK b \in {calls[t].batch} : \E late \in SUBSET Expirable(b) :
        /\ pool' = [pool EXCEPT ![calls[t].mc] = [s \in Slot |-> LastAt(b, late, s, @[s])]]
        /\ fate' = [i \in DOMAIN fate |->
                      IF i \notin Range(b) THEN fate[i]
                      ELSE IF i \in late THEN "expired" ELSE "committed"]
        /\ mixed' = LET slots == {s \in Slot : StoredIn(b, late, s) # {}}
                    IN  IF t \in passed THEN mixed \union slots ELSE mixed \ slots
  BY Zenon DEF CommitBatch
<1>b. b = batch
  OBVIOUS
<1>c. PICK late \in SUBSET Expirable(b) :
        /\ pool' = [pool EXCEPT ![calls[t].mc] = [s \in Slot |-> LastAt(b, late, s, @[s])]]
        /\ fate' = [i \in DOMAIN fate |->
                      IF i \notin Range(b) THEN fate[i]
                      ELSE IF i \in late THEN "expired" ELSE "committed"]
        /\ mixed' = LET slots == {s \in Slot : StoredIn(b, late, s) # {}}
                    IN  IF t \in passed THEN mixed \union slots ELSE mixed \ slots
  BY <1>a
<1>d. pool' = [pool EXCEPT ![mc] = [s \in Slot |-> LastAt(batch, late, s, @[s])]]
  BY <1>0, <1>b, <1>c
<1>e. fate' = [i \in DOMAIN fate |->
                 IF i \notin Range(batch) THEN fate[i]
                 ELSE IF i \in late THEN "expired" ELSE "committed"]
  BY <1>b, <1>c
<1>f. mixed' = LET slots == {s \in Slot : StoredIn(batch, late, s) # {}}
               IN  IF t \in passed THEN mixed \union slots ELSE mixed \ slots
  BY <1>b, <1>c
<1>1. pool' = [pool EXCEPT ![mc] = [s \in Slot |-> LastAt(batch, late, s, @[s])]]
      /\ fate' = [i \in DOMAIN fate |->
                     IF i \notin Range(batch) THEN fate[i]
                     ELSE IF i \in late THEN "expired" ELSE "committed"]
      /\ mixed' = LET slots == {s \in Slot : StoredIn(batch, late, s) # {}}
                  IN  IF t \in passed THEN mixed \union slots ELSE mixed \ slots
  BY <1>d, <1>e, <1>f
<1>2. /\ passed' = ({u \in Thread : calls[u].at = "commit"} \union passed) \ {t}
      /\ calls'[t].batch = << >> /\ \A u \in Thread : u # t => calls'[u] = calls[u]
  BY <1>0 DEF CommitBatch, NotRunning
<1>3. InOrder'
  <2>1. \A u \in Places : Place(u)' = IF u = t THEN << >> ELSE Place(u)
    BY <1>0, <1>2 DEF Place, Places
  <2> QED BY <1>0, <2>1 DEF Newest, InOrder, Places
<1>4. QueueLast'
  BY <1>0, <1>1 DEF Newest, QueueLast
<1>5. BatchLater'
  <2>1. \A u \in Thread \ passed' : calls'[u].batch = << >>
    BY <1>0, <1>2 DEF Books, OneController
  <2> QED BY <2>1 DEF BatchLater, Range
<1>6. \A i \in Range(batch) : i \in DOMAIN fate /\ fate[i] = "pending"
  BY <1>0, Ranges DEF Books, Booked, Waits
<1>7. ASSUME NEW s \in Slot
      PROVE  Committed(s)' = Committed(s) \union {batch[k] : k \in StoredIn(batch, late, s)}
  <2>1. \A i : SlotOf(i)' = SlotOf(i)
    BY <1>0 DEF SlotOf
  <2>2. \A i \in DOMAIN fate : fate'[i] = "committed" <=>
          fate[i] = "committed" \/ (i \in Range(batch) /\ i \notin late)
    BY <1>1, <1>6
  <2>3. \A i \in Range(batch) : \E k \in DOMAIN batch : batch[k] = i
    BY DEF Range
  <2>4. \A k \in DOMAIN batch : batch[k] \in Range(batch)
    BY DEF Range
  <2> QED BY <1>1, <1>6, <2>1, <2>2, <2>3, <2>4 DEF Committed, StoredIn
<1>8. ASSUME NEW s \in Slot
      PROVE  pool'[mc][s] = LastAt(batch, late, s, pool[mc][s])
  BY <1>0, <1>1 DEF Newest, OnePool
<1>9. ASSUME NEW s \in Slot, StoredIn(batch, late, s) # {}
      PROVE  \E K \in StoredIn(batch, late, s) :
               /\ pool'[mc][s] = batch[K]
               /\ \A k \in StoredIn(batch, late, s) : k <= K
  <2> DEFINE S == StoredIn(batch, late, s)
  <2>1. S \in SUBSET (1 .. Len(batch)) /\ Len(batch) \in Nat
    BY <1>0 DEF StoredIn
  <2>2. pool'[mc][s] = batch[CHOOSE k \in S : \A j \in S : j <= k]
    BY <1>8, <1>9 DEF LastAt
  <2> HIDE DEF S
  <2>3. LET k == CHOOSE k \in S : \A j \in S : j <= k
        IN  k \in S /\ \A j \in S : j <= k
    BY <1>9, <2>1, LastOf DEF S
  <2> QED BY <2>2, <2>3 DEF S
<1>10. ASSUME NEW s \in Slot
       PROVE  IF Committed(s)' = {} THEN pool'[mc][s] = Nothing
              ELSE /\ pool'[mc][s] \in Committed(s)'
                   /\ s \notin mixed' => \A i \in Committed(s)' : i <= pool'[mc][s]
  <2>1. CASE StoredIn(batch, late, s) = {}
    <3>1. Committed(s)' = Committed(s) /\ pool'[mc][s] = pool[mc][s]
      BY <1>7, <1>8, <2>1 DEF LastAt
    <3>2. s \in mixed' <=> s \in mixed
      BY <1>1, <2>1
    <3> QED BY <1>0, <3>1, <3>2 DEF Newest, NewestWins
  <2>2. CASE StoredIn(batch, late, s) # {}
    <3>1. PICK K \in StoredIn(batch, late, s) :
            /\ pool'[mc][s] = batch[K]
            /\ \A k \in StoredIn(batch, late, s) : k <= K
      BY <1>9, <2>2
    <3>2. K \in DOMAIN batch /\ DOMAIN batch = 1 .. Len(batch) /\ Len(batch) \in Nat /\ batch[K] \in Nat
          /\ batch[K] \in Range(batch)
      BY <1>0, <3>1 DEF StoredIn, Range
    <3>3. ASSUME NEW k \in StoredIn(batch, late, s) PROVE batch[k] <= batch[K]
      <4>1. k \in DOMAIN batch /\ k <= K /\ batch[k] \in Nat
        BY <1>0, <3>1 DEF StoredIn
      <4>2. k < K => batch[k] < batch[K]
        BY <1>0, <3>2, <4>1 DEF Newest, InOrder
      <4> QED BY <3>2, <4>1, <4>2
    <3>4. ASSUME s \notin mixed', NEW i \in Committed(s) PROVE i <= batch[K]
      <4>1. t \notin passed
        BY <1>1, <2>2, <3>4
      <4>2. i \in DOMAIN fate /\ fate[i] = "committed"
        BY DEF Committed
      <4>3. i < batch[K]
        BY <3>2, <4>1, <4>2 DEF Newest, BatchLater
      <4> QED BY <1>0, <3>2, <4>2, <4>3
    <3> QED BY <1>7, <3>1, <3>3, <3>4
  <2> QED BY <2>1, <2>2
<1>11. NewestWins'
  BY <1>0, <1>10 DEF NewestWins
<1>12. OnePool'
  <2>1. ASSUME NEW s \in Slot PROVE pool'[mc][s] \in Nat \union {Nothing}
    <3>1. CASE StoredIn(batch, late, s) = {}
      BY <1>0, <1>8, <3>1 DEF LastAt, Newest, OnePool
    <3>2. CASE StoredIn(batch, late, s) # {}
      <4>1. \A k \in StoredIn(batch, late, s) : batch[k] \in Nat
        BY <1>0 DEF StoredIn
      <4> QED BY <1>9, <3>2, <4>1
    <3> QED BY <3>1, <3>2
  <2>2. pool' = [pool EXCEPT ![mc] = [s \in Slot |-> pool'[mc][s]]]
    BY <1>0, <1>1, <1>8 DEF Newest, OnePool
  <2>3. [s \in Slot |-> pool'[mc][s]] \in [Slot -> Nat \union {Nothing}]
    BY <2>1
  <2>4. pool' \in [Thread -> [Slot -> Nat \union {Nothing}]]
    BY <1>0, <2>2, <2>3 DEF Newest, OnePool
  <2>5. \A u \in Thread : u # mc => pool'[u] = pool[u]
    BY <1>0, <1>1 DEF Newest, OnePool
  <2>6. \A u \in Thread : u # mc => \A s \in Slot : pool'[u][s] = Nothing
    BY <2>5 DEF Newest, OnePool
  <2>7. mc' # Nothing
    BY <1>0
  <2> QED BY <1>0, <2>4, <2>6, <2>7 DEF OnePool
<1> QED BY <1>3, <1>4, <1>5, <1>11, <1>12 DEF Newest

LEMMA NewestCleared ==
  ASSUME Books, Newest, NEW t \in Thread, MemoryClear(t)
  PROVE  Newest'
<1>0. /\ mc \in Thread /\ calls[t].mc = mc /\ mc # Nothing /\ calls[t].batch = << >>
      /\ mc' = mc /\ writes' = writes /\ passed' = passed
      /\ calls \in [Thread -> ToolCall] /\ queue \in [Thread -> Seq(Nat)] /\ Nothing \notin Thread
      /\ calls' = [calls EXCEPT ![t] = NotRunning]
  BY PoolNoneAssumption DEF MemoryClear, Books, OneController, Typed
<1>1. /\ pool' = [pool EXCEPT ![mc] = [s \in Slot |-> Nothing]]
      /\ queue'[mc] = << >>
      /\ fate' = [i \in DOMAIN fate |->
                    IF fate[i] = "committed" \/ i \in Range(queue[mc]) THEN "cleared" ELSE fate[i]]
  BY <1>0 DEF MemoryClear
<1>2. \A u \in Thread : calls'[u].batch = calls[u].batch
  BY <1>0 DEF NotRunning
<1>3. \A u \in Places : Place(u)' = IF u = Nothing THEN << >> ELSE Place(u)
  BY <1>0, <1>1, <1>2 DEF Places, Place
<1>4. InOrder'
  BY <1>3 DEF Newest, InOrder, Places
<1>5. QueueLast'
  BY <1>0, <1>1 DEF QueueLast, Range
<1>6. \A i \in DOMAIN fate' : fate'[i] # "committed"
  BY <1>1
<1>7. BatchLater'
  BY <1>6 DEF BatchLater
<1>8. OnePool'
  BY <1>0, <1>1 DEF Newest, OnePool
<1>9. NewestWins'
  <2>1. \A s : Committed(s)' = {}
    BY <1>6 DEF Committed
  <2>2. \A s \in Slot : pool'[mc][s] = Nothing
    BY <1>0, <1>1 DEF Newest, OnePool
  <2> QED BY <1>0, <2>1, <2>2 DEF NewestWins
<1> QED BY <1>4, <1>5, <1>7, <1>8, <1>9 DEF Newest

LEMMA NewestCreated ==
  ASSUME Books, Newest, NEW t \in Thread, CreateMc(t)
  PROVE  Newest'
<1>0. /\ calls \in [Thread -> ToolCall] /\ mc \in Thread \union {Nothing} /\ Nothing \notin Thread
      /\ queue' = queue /\ pool' = pool /\ writes' = writes /\ fate' = fate
      /\ passed' = passed /\ mixed' = mixed
  BY PoolNoneAssumption DEF CreateMc, Books, Typed, history_vars
<1>1. \A u \in Thread : calls'[u].batch = calls[u].batch
  BY <1>0 DEF CreateMc, ToolCall
<1>2. CASE mc # Nothing
  BY <1>1, <1>2, NewestKept DEF CreateMc
<1>3. CASE mc = Nothing
  <2>1. mc' = t /\ queue[t] = << >> /\ fate = << >>
    <3>1. mc' = t /\ t # mc
      BY <1>0, <1>3 DEF CreateMc
    <3>2. queue[t] = << >> /\ writes = << >>
      BY <1>3, <3>1 DEF Books, OneController, Newest, OnePool
    <3>3. Len(fate) = 0 /\ fate \in Seq({"pending", "committed", "expired", "cleared"})
      BY <3>2 DEF Books, Typed
    <3>4. fate = << >>
      BY <3>3
    <3> QED BY <3>1, <3>2, <3>4
  <2>2. \A u \in Places : Place(u)' = Place(u)
    BY <1>0, <1>1, <1>3, <2>1 DEF Places, Place
  <2>3. InOrder'
    BY <2>2 DEF Newest, InOrder, Places
  <2>4. QueueLast' /\ BatchLater'
    BY <1>0, <2>1 DEF QueueLast, BatchLater
  <2>5. OnePool'
    BY <1>0, <1>3, <2>1 DEF Newest, OnePool
  <2>6. NewestWins'
    <3>1. \A s : Committed(s)' = {}
      BY <1>0, <2>1 DEF Committed
    <3>2. \A s \in Slot : pool'[mc'][s] = Nothing
      BY <1>0, <1>3, <2>1 DEF Newest, OnePool
    <3> QED BY <3>1, <3>2 DEF NewestWins
  <2> QED BY <2>3, <2>4, <2>5, <2>6 DEF Newest
<1> QED BY <1>2, <1>3

LEMMA NewestNext == Books /\ Newest /\ PoolNext => Newest'
<1> SUFFICES ASSUME Books, Newest, NEW t \in Thread, ToolStep(t) PROVE Newest'
  BY DEF PoolNext
<1>0. calls \in [Thread -> ToolCall]
  BY DEF Books, Typed
<1>1. CASE GetMc(t)
  <2>1. \A u \in Thread : calls'[u].batch = calls[u].batch
    BY <1>0, <1>1 DEF GetMc, ToolCall
  <2> QED BY <1>1, <2>1, NewestKept DEF GetMc
<1>2. CASE MemoryWrite(t)
  <2>1. PICK pid \in Pid, ttl \in BOOLEAN : Queued(t, pid, ttl)
    BY <1>2 DEF MemoryWrite
  <2>2. calls[t].mc = mc /\ mc # Nothing /\ calls[t].batch = << >>
    BY <1>2 DEF MemoryWrite, Books, OneController
  <2>3. \A u \in Thread : calls'[u].batch = calls[u].batch
    BY <1>0, <1>2, <2>2 DEF MemoryWrite, NotRunning
  <2> QED BY <2>1, <2>2, <2>3, NewestQueued
<1>3. CASE ChainWrite(t)
  <2>1. Queued(t, calls[t].index, TRUE) /\ calls[t].mc = mc /\ mc # Nothing
    BY <1>3 DEF ChainWrite, Books, OneController
  <2>2. \A u \in Thread : calls'[u].batch = calls[u].batch
    BY <1>0, <1>3 DEF ChainWrite, ToolCall
  <2> QED BY <2>1, <2>2, NewestQueued
<1>4. CASE ChainFails(t) \/ MemoryRead(t)
  <2>1. \A u \in Thread : calls'[u].batch = calls[u].batch
    BY <1>0, <1>4 DEF ChainFails, MemoryRead, NotRunning, Books, OneController
  <2> QED BY <1>4, <2>1, NewestKept DEF ChainFails, MemoryRead
<1> QED BY <1>1, <1>2, <1>3, <1>4, NewestCreated, NewestTaken, NewestCommitted, NewestCleared
      DEF ToolStep

\* A slot holds the newest of the writes committed to it since the last clear,
\* for every number of threads and slots, unless a batch was committed after a
\* later one: batches are taken in the order of the queue, and only a process
\* call that another one overtakes (pmll_core.py:183-187) brings back older data.
THEOREM NewestIsKept == PoolSpec => []NewestWins
<1>1. Newest /\ UNCHANGED poolVars => Newest'
  <2> SUFFICES ASSUME Newest, UNCHANGED poolVars PROVE Newest'
    OBVIOUS
  <2>1. UNCHANGED <<mc, queue, pool, history_vars>> /\ calls' = calls
    BY DEF poolVars, pool_vars
  <2> QED BY <2>1, NewestKept
<1>2. Newest => NewestWins
  BY DEF Newest
<1> QED BY <1>1, <1>2, NewestInit, NewestNext, BooksKept, PTL DEF PoolSpec

-----------------------------------------------------------------------------
(* The resolver.  Between a wheel being resolved and its requirements being *)
(* resolved, they are what a call on the stack has still to follow, or what *)
(* the innermost call is about.                                             *)

Frame == [req : Required, doing : {"enter", "download", "follow"},
          choice : Candidates \union {NoChoice}, due : Seq(Required)]

IsRun(r) ==
  /\ r = [stage |-> r.stage, follow |-> r.follow, due |-> r.due, stack |-> r.stack, resolved |-> r.resolved,
          seen |-> r.seen, tries |-> r.tries, end |-> r.end, broken |-> r.broken]
  /\ r.due \in Seq(Required) /\ r.stack \in Seq(Frame)
  /\ r.stage # "resolving" => r.stack = << >>
  /\ \A k \in 2 .. Len(r.stack) : r.stack[k].doing = "follow"

\* The file of a package is in the cache, from an url that an index gives it.
Held(r) ==
  /\ \A n \in DOMAIN r.resolved : r.resolved[n].file \in DOMAIN cache
  /\ \A f \in DOMAIN cache : \E c \in Listed(f) : cache[f].url = c.url

\* What is downloaded is listed; after a failure the file is no package's.
Fetching(r) ==
  r.stack # << >> /\ r.stack[1].doing = "download" =>
    /\ r.stack[1].choice \in Candidates
    /\ r.tries # Retries + 1 => \A n \in DOMAIN r.resolved : r.resolved[n].file # r.stack[1].choice.file

\* It is resolved, or being resolved, or a call has it before it.
Pending(r, req) ==
  \/ req.name \in DOMAIN r.resolved
  \/ r.stack # << >> /\ r.stack[1].doing # "follow" /\ r.stack[1].req.name = req.name
  \/ \E k \in DOMAIN r.stack : r.stack[k].doing = "follow" /\ req \in Range(r.stack[k].due)

Covered(r) ==
  r.follow => \A n \in DOMAIN r.resolved : \A req \in Range(Requires(cache[r.resolved[n].file])) :
                req.applies => Pending(r, req)

\* Its hash is that of what an index publishes, if they all give the hash.
Published(it) ==
  (\A c \in Listed(it.file) : c.hashed) => \E c \in Listed(it.file) : it.sha = Whole(c.url)

AllPublished ==
  /\ \A n \in DOMAIN run.resolved : Published(run.resolved[n])
  /\ \A it \in matrix : Published(it)
  /\ signatures.source = "matrix" => \A it \in signatures.items : Published(it)

ResolverInv == IsRun(run) /\ Held(run) /\ Fetching(run) /\ Covered(run) /\ AllPublished

-----------------------------------------------------------------------------

\* The choice is made among what the indexes list.
LEMMA ChosenListed ==
  ASSUME NEW req, NEW answering \in SUBSET DOMAIN Indexes, NEW c \in Chosen(req, answering)
  PROVE  c \in Candidates
<1> DEFINE name == req.name
           offered == Offered(name, answering)
           version(at) == Candidate(name, at).version
           viable == Preferred(req, {version(at) : at \in offered})
           newest == {at \in offered : version(at) \in viable /\ \A v \in viable : v <= version(at)}
<1>1. c \in {Candidate(name, at) : at \in Picked(name, newest)}
  BY DEF Chosen
<1>2. newest \subseteq offered
  OBVIOUS
<1> HIDE DEF newest
<1>3. Picked(name, newest) \subseteq newest
  BY DEF Picked
<1>4. PICK at \in offered : c = Candidate(name, at)
  BY <1>1, <1>2, <1>3
<1>5. PICK i \in answering : name \in DOMAIN Indexes[i] /\ at \in {<<i, k>> : k \in DOMAIN Indexes[i][name]}
  BY <1>4 DEF Offered
<1>6. PICK k \in DOMAIN Indexes[i][name] : at = <<i, k>>
  BY <1>5
<1>7. c = Indexes[i][name][k]
  BY <1>4, <1>6 DEF Candidate
<1>8. Indexes[i] \in Range(Indexes) /\ Indexes[i][name] \in Range(Indexes[i])
  BY <1>5 DEF Range
<1>9. c \in Range(Indexes[i][name])
  BY <1>6, <1>7 DEF Range
<1> QED BY <1>8, <1>9 DEF Candidates

\* A run that has not begun or has ended.
LEMMA EndedRun ==
  ASSUME NEW r, NEW how, r = Ready \/ r = Ended(how)
  PROVE  IsRun(r) /\ r.stack = << >> /\ DOMAIN r.resolved = {} /\ r.stage = "ready"
<1>1. PICK end : r = [stage |-> "ready", follow |-> TRUE, due |-> << >>, stack |-> << >>, resolved |-> << >>,
                      seen |-> {}, tries |-> 0, end |-> end, broken |-> {}]
  BY DEF Ready, Ended
<1>2. r.stage = "ready" /\ r.stack = << >> /\ r.due = << >> /\ r.resolved = << >>
  BY <1>1
<1>3. r = [stage |-> r.stage, follow |-> r.follow, due |-> r.due, stack |-> r.stack, resolved |-> r.resolved,
          seen |-> r.seen, tries |-> r.tries, end |-> r.end, broken |-> r.broken]
  BY <1>1, Zenon
<1>4. DOMAIN r.resolved = {}
  BY <1>2
<1> QED BY <1>2, <1>3, <1>4 DEF IsRun

\* Such a run, or one that only starts, has nothing to answer for.
LEMMA EmptyRun ==
  ASSUME NEW r, r.stack = << >>, DOMAIN r.resolved = {}
  PROVE  Fetching(r) /\ Covered(r)
BY DEF Fetching, Covered

\* Innermost call and the others.
LEMMA Calls ==
  ASSUME IsRun(run), run.stack # << >>
  PROVE  /\ Top = run.stack[1] /\ Top \in Frame /\ Len(run.stack) \in Nat \ {0}
         /\ Tail(run.stack) \in Seq(Frame) /\ Len(Tail(run.stack)) = Len(run.stack) - 1
         /\ \A k \in 1 .. Len(run.stack) - 1 : Tail(run.stack)[k] = run.stack[k + 1]
         /\ \A k \in 2 .. Len(run.stack) : run.stack[k].doing = "follow" /\ run.stack[k] \in Frame
<1>1. run.stack \in Seq(Frame)
  BY DEF IsRun
<1> QED BY <1>1 DEF IsRun, Top

LEMMA TopChanged ==
  ASSUME IsRun(run), run.stack # << >>, NEW call \in Frame, NEW s, s = TopIs(call)
  PROVE  /\ s \in Seq(Frame) /\ s # << >> /\ Len(s) = Len(run.stack) /\ s[1] = call
         /\ \A k \in 2 .. Len(s) : s[k] = run.stack[k]
<1>1. Tail(run.stack) \in Seq(Frame) /\ Len(Tail(run.stack)) = Len(run.stack) - 1
      /\ (\A k \in 1 .. Len(run.stack) - 1 : Tail(run.stack)[k] = run.stack[k + 1])
      /\ Len(run.stack) \in Nat \ {0}
  BY Calls
<1> DEFINE t == Tail(run.stack)
<1> HIDE DEF t
<1>2. s = <<call>> \o t
  BY DEF TopIs, t
<1> QED BY <1>1, <1>2 DEF t

\* Another stack, in the middle of a run.
LEMMA OtherStack ==
  ASSUME IsRun(run), run.stage = "resolving", NEW s \in Seq(Frame),
         \A k \in 2 .. Len(s) : s[k].doing = "follow",
         NEW r, r = [run EXCEPT !.stack = s]
  PROVE  /\ IsRun(r) /\ r.stack = s /\ r.stage = "resolving"
         /\ r.resolved = run.resolved /\ r.follow = run.follow /\ r.tries = run.tries
BY DEF IsRun

\* And other requirements before it.
LEMMA OtherDue ==
  ASSUME IsRun(run), run.stage = "resolving", NEW s \in Seq(Frame), NEW d \in Seq(Required),
         \A k \in 2 .. Len(s) : s[k].doing = "follow",
         NEW r, r = [run EXCEPT !.due = d, !.stack = s]
  PROVE  IsRun(r) /\ r.stack = s /\ r.resolved = run.resolved /\ r.follow = run.follow
BY DEF IsRun

\* Most steps only move the run on.
LEMMA RunOnly ==
  ASSUME ResolverInv, IsRun(run'), Fetching(run'), Covered(run'),
         run'.resolved = run.resolved \/ DOMAIN run'.resolved = {},
         UNCHANGED <<cache, matrix, signatures, closed>>
  PROVE  ResolverInv'
<1>1. cache' = cache /\ matrix' = matrix /\ signatures' = signatures /\ closed' = closed
  OBVIOUS
<1>2. Fetching(run)' /\ Covered(run)'
  BY <1>1 DEF Fetching, Covered, Pending, Requires
<1>3. AllPublished' /\ Held(run)'
  BY <1>1 DEF AllPublished, Published, ResolverInv, Held
<1> QED BY <1>1, <1>2, <1>3 DEF ResolverInv, IsRun

\* A requirement that is called upon.
LEMMA Called ==
  ASSUME NEW req \in Required
  PROVE  Call(req) \in Frame /\ Call(req).doing = "enter" /\ Call(req).req = req
<1>1. << >> \in Seq(Required)
  OBVIOUS
<1>2. Call(req) = [req |-> req, doing |-> "enter", choice |-> NoChoice, due |-> << >>]
  BY DEF Call
<1> QED BY <1>1, <1>2 DEF Frame

LEMMA StartRunStep ==
  ASSUME ResolverInv, NEW reqs \in Requests, NEW follow, StartRun(reqs, follow), signatures' = signatures
  PROVE  ResolverInv'
<1>1. run' = [Ready EXCEPT !.stage = "resolving", !.due = reqs, !.follow = follow,
                            !.broken = {file \in DOMAIN cache : ~cache[file].whole}]
      /\ UNCHANGED <<cache, matrix, signatures, closed>>
  BY DEF StartRun
<1>2. reqs \in Seq(Required)
  BY RequirementsAreLists
<1>3. IsRun(Ready) /\ Ready.stack = << >> /\ DOMAIN Ready.resolved = {}
  BY EndedRun
<1>4. IsRun(run') /\ run'.stack = << >> /\ DOMAIN run'.resolved = {}
  BY <1>1, <1>2, <1>3 DEF IsRun
<1>5. Fetching(run') /\ Covered(run')
  BY <1>4, EmptyRun
<1> QED BY <1>1, <1>4, <1>5, RunOnly

\* A run that ends.
LEMMA EndingStep ==
  ASSUME ResolverInv, NEW how, run' = Ended(how), UNCHANGED <<cache, matrix, signatures, closed>>
  PROVE  ResolverInv'
<1>1. IsRun(run') /\ run'.stack = << >> /\ DOMAIN run'.resolved = {}
  BY EndedRun
<1>2. Fetching(run') /\ Covered(run')
  BY <1>1, EmptyRun
<1> QED BY <1>1, <1>2, RunOnly

LEMMA NextRootStep ==
  ASSUME ResolverInv, NextRoot, signatures' = signatures
  PROVE  ResolverInv'
<1> DEFINE s == IF Head(run.due).applies THEN <<Call(Head(run.due))>> ELSE << >>
<1>1. /\ run.stage = "resolving" /\ run.stack = << >> /\ run.due # << >>
      /\ run' = [run EXCEPT !.due = Tail(@), !.stack = s]
      /\ UNCHANGED <<cache, matrix, signatures, closed>>
  BY DEF NextRoot
<1>2. IsRun(run) /\ Covered(run) /\ run.due \in Seq(Required)
  BY DEF ResolverInv, IsRun
<1>3. Head(run.due) \in Required /\ Tail(run.due) \in Seq(Required)
  BY <1>1, <1>2
<1>4. Call(Head(run.due)) \in Frame /\ Call(Head(run.due)).doing = "enter"
  BY <1>3, Called
<1>5. s \in Seq(Frame) /\ Len(s) \in 0 .. 1 /\ (s # << >> => s[1].doing = "enter")
  BY <1>4
<1> HIDE DEF s
<1>6. IsRun(run') /\ run'.stack = s /\ run'.resolved = run.resolved /\ run'.follow = run.follow
  <2> DEFINE d == Tail(run.due)
  <2>1. d \in Seq(Required) /\ run' = [run EXCEPT !.due = d, !.stack = s]
    BY <1>1, <1>3
  <2> HIDE DEF d
  <2>2. \A k \in 2 .. Len(s) : s[k].doing = "follow"
    BY <1>5
  <2>3. IsRun(run) /\ run.stage = "resolving" /\ s \in Seq(Frame)
    BY <1>1, <1>2, <1>5
  <2> QED BY ONLY <2>1, <2>2, <2>3, OtherDue
<1>7. Fetching(run')
  BY <1>5, <1>6 DEF Fetching
<1>8. \A req : Pending(run, req) => Pending(run', req)
  BY <1>1, <1>6 DEF Pending
<1>9. Covered(run')
  BY <1>2, <1>6, <1>8 DEF Covered
<1> QED BY <1>1, <1>6, <1>7, <1>9, RunOnly

\* The innermost call returns, and nothing was left to it.
LEMMA Returned ==
  ASSUME ResolverInv, run.stage = "resolving", run.stack # << >>,
         Top.doing # "follow" => Top.req.name \in DOMAIN run.resolved,
         Top.doing = "follow" => Top.due = << >>,
         run' = [run EXCEPT !.stack = Tail(@)], UNCHANGED <<cache, matrix, signatures, closed>>
  PROVE  ResolverInv'
<1> DEFINE s == Tail(run.stack)
<1>1. IsRun(run) /\ Covered(run)
  BY DEF ResolverInv
<1>2. /\ Top = run.stack[1] /\ Len(run.stack) \in Nat \ {0}
      /\ s \in Seq(Frame) /\ Len(s) = Len(run.stack) - 1
      /\ \A k \in 1 .. Len(run.stack) - 1 : s[k] = run.stack[k + 1]
      /\ \A k \in 2 .. Len(run.stack) : run.stack[k].doing = "follow"
  BY <1>1, Calls
<1>3. run' = [run EXCEPT !.stack = s]
  OBVIOUS
<1> HIDE DEF s
<1>4. \A k \in 1 .. Len(s) : s[k].doing = "follow"
  BY <1>2
<1>5. IsRun(run') /\ run'.stack = s /\ run'.resolved = run.resolved /\ run'.follow = run.follow
  <2>1. \A k \in 2 .. Len(s) : s[k].doing = "follow"
    BY <1>2, <1>4
  <2>2. s \in Seq(Frame)
    BY <1>2
  <2> QED BY <1>1, <1>3, <2>1, <2>2, OtherStack
<1>6. Fetching(run')
  BY <1>2, <1>4, <1>5 DEF Fetching
<1>7. ASSUME NEW req, Pending(run, req) PROVE Pending(run', req)
  <2>1. CASE \E k \in DOMAIN run.stack : run.stack[k].doing = "follow" /\ req \in Range(run.stack[k].due)
    <3>1. PICK k \in DOMAIN run.stack : run.stack[k].doing = "follow" /\ req \in Range(run.stack[k].due)
      BY <2>1
    <3>2. k # 1
      BY <1>2, <3>1 DEF Range
    <3>3. k \in 1 .. Len(run.stack)
      BY <1>1, <3>1 DEF IsRun
    <3>4. k - 1 \in DOMAIN s /\ s[k - 1] = run.stack[k]
      <4>1. k - 1 \in 1 .. Len(run.stack) - 1
        BY <1>2, <3>2, <3>3
      <4>2. DOMAIN s = 1 .. Len(run.stack) - 1
        BY <1>2
      <4>3. s[k - 1] = run.stack[k - 1 + 1]
        BY <1>2, <4>1
      <4> QED BY <3>3, <4>1, <4>2, <4>3
    <3> QED BY <1>5, <3>1, <3>4 DEF Pending
  <2>2. CASE req.name \in DOMAIN run.resolved
    BY <2>2, <1>5 DEF Pending
  <2>3. CASE run.stack[1].doing # "follow" /\ run.stack[1].req.name = req.name
    BY <2>3, <1>2, <1>5 DEF Pending
  <2> QED BY <1>7, <2>1, <2>2, <2>3 DEF Pending
<1>8. Covered(run')
  BY <1>1, <1>5, <1>7 DEF Covered
<1> QED BY <1>5, <1>6, <1>8, RunOnly

LEMMA EnterStep ==
  ASSUME ResolverInv, NEW answering \in SUBSET DOMAIN Indexes, Enter(answering), signatures' = signatures
  PROVE  ResolverInv'
<1> DEFINE name == Top.req.name
           choices == Chosen(Top.req, answering)
<1>1. /\ run.stage = "resolving" /\ run.stack # << >> /\ Top.doing = "enter"
      /\ UNCHANGED <<cache, matrix, signatures, closed>>
  BY DEF Enter, Resolving
<1>2. CASE name \in DOMAIN run.resolved
  <2>1. run' = [run EXCEPT !.stack = Tail(@)]
    BY <1>2 DEF Enter
  <2> QED BY <1>1, <1>2, <2>1, Returned
<1>3. CASE run' = Ended("cyclic") \/ run' = Ended("none to choose")
  BY <1>1, <1>3, EndingStep
<1>4. ASSUME NEW choice \in choices,
             run' = [run EXCEPT !.seen = @ \union {name}, !.tries = Retries + 1,
                                !.stack = TopIs([Top EXCEPT !.doing = "download", !.choice = choice])]
      PROVE  ResolverInv'
  <2> DEFINE top == [Top EXCEPT !.doing = "download", !.choice = choice]
             s == TopIs(top)
  <2>1. IsRun(run) /\ Covered(run)
    BY DEF ResolverInv
  <2>2. /\ Top = run.stack[1] /\ Top \in Frame /\ Len(run.stack) \in Nat \ {0}
        /\ \A k \in 2 .. Len(run.stack) : run.stack[k].doing = "follow"
    BY <1>1, <2>1, Calls
  <2>3. choice \in Candidates
    BY ChosenListed
  <2>4. top \in Frame /\ top.doing = "download" /\ top.choice = choice /\ top.req = Top.req
    BY <2>2, <2>3 DEF Frame
  <2> HIDE DEF top
  <2>5. /\ s \in Seq(Frame) /\ s # << >> /\ Len(s) = Len(run.stack) /\ s[1] = top
        /\ \A k \in 2 .. Len(s) : s[k] = run.stack[k]
    BY <1>1, <2>1, <2>4, TopChanged
  <2>6. run' = [run EXCEPT !.seen = @ \union {name}, !.tries = Retries + 1, !.stack = s]
    BY <1>4 DEF top
  <2> HIDE DEF s
  <2>7. /\ IsRun(run') /\ run'.stack = s /\ run'.resolved = run.resolved /\ run'.follow = run.follow
        /\ run'.tries = Retries + 1
    BY <1>1, <2>1, <2>2, <2>5, <2>6 DEF IsRun
  <2>8. Fetching(run')
    BY <2>3, <2>4, <2>5, <2>7 DEF Fetching
  <2>9. DOMAIN s = DOMAIN run.stack
    BY <2>1, <2>5 DEF IsRun
  <2>10. ASSUME NEW req, Pending(run, req) PROVE Pending(run', req)
    <3>1. CASE \E k \in DOMAIN run.stack : run.stack[k].doing = "follow" /\ req \in Range(run.stack[k].due)
      <4>1. PICK k \in DOMAIN run.stack : run.stack[k].doing = "follow" /\ req \in Range(run.stack[k].due)
        BY <3>1
      <4>2. k # 1
        BY <1>1, <2>2, <4>1
      <4>3. k \in 2 .. Len(s)
        BY <2>1, <2>5, <4>1, <4>2 DEF IsRun
      <4> QED BY <2>5, <2>7, <2>9, <4>1, <4>3 DEF Pending
    <3>2. CASE req.name \in DOMAIN run.resolved
      BY <3>2, <2>7 DEF Pending
    <3>3. CASE run.stack[1].req.name = req.name
      BY <3>3, <2>2, <2>4, <2>5, <2>7 DEF Pending
    <3> QED BY <2>10, <3>1, <3>2, <3>3 DEF Pending
  <2>11. Covered(run')
    BY <2>1, <2>7, <2>10 DEF Covered
  <2> QED BY <1>1, <2>7, <2>8, <2>11, RunOnly
<1> QED BY <1>2, <1>3, <1>4 DEF Enter

\* What a file in the cache requires.
LEMMA RequiresTyped ==
  ASSUME NEW content
  PROVE  Requires(content) \in Seq(Required)
<1>1. content.url \in DOMAIN Metadata => Metadata[content.url] \in Range(Metadata)
  BY DEF Range
<1> QED BY <1>1, RequirementsAreLists DEF Requires, Announced

\* A download that is done, or was not needed.
LEMMA KeptStep ==
  ASSUME ResolverInv, Resolving("download"), NEW content, run' = Kept(Top.choice, content),
         cache'[Top.choice.file] = content,
         DOMAIN cache' = DOMAIN cache \union {Top.choice.file},
         \A f \in DOMAIN cache : f # Top.choice.file => cache'[f] = cache[f],
         \E c \in Listed(Top.choice.file) : content.url = c.url,
         \A n \in DOMAIN run.resolved : cache'[run.resolved[n].file] = cache[run.resolved[n].file],
         UNCHANGED <<matrix, signatures, closed>>
  PROVE  ResolverInv'
<1> DEFINE choice == Top.choice
           name == Top.req.name
           item == [file |-> choice.file, sha |-> Sha(choice, content)]
           due == IF run.follow /\ choice.wheel THEN Requires(content) ELSE << >>
           top == [Top EXCEPT !.doing = "follow", !.due = due]
           s == TopIs(top)
           resolved == With(run.resolved, name, item)
<1>1. run.stage = "resolving" /\ run.stack # << >> /\ Top.doing = "download"
  BY DEF Resolving
<1>2. IsRun(run) /\ Covered(run) /\ Held(run) /\ Fetching(run) /\ AllPublished
  BY DEF ResolverInv
<1>3. /\ Top = run.stack[1] /\ Top \in Frame /\ Len(run.stack) \in Nat \ {0}
      /\ \A k \in 2 .. Len(run.stack) : run.stack[k].doing = "follow"
  BY <1>1, <1>2, Calls
<1>4. choice \in Candidates
  BY <1>1, <1>2, <1>3 DEF Fetching
<1>5. due \in Seq(Required)
  BY RequiresTyped
<1>6. top \in Frame /\ top.doing = "follow" /\ top.due = due
  BY <1>3, <1>5 DEF Frame
<1> HIDE DEF top
<1>7. /\ s \in Seq(Frame) /\ s # << >> /\ Len(s) = Len(run.stack) /\ s[1] = top
      /\ \A k \in 2 .. Len(s) : s[k] = run.stack[k]
  BY <1>1, <1>2, <1>6, TopChanged
<1>8. run' = [run EXCEPT !.resolved = resolved, !.stack = s]
  BY DEF Kept, top
<1>9. /\ DOMAIN resolved = DOMAIN run.resolved \union {name}
      /\ resolved[name] = item
      /\ \A n \in DOMAIN run.resolved : n # name => resolved[n] = run.resolved[n]
  BY DEF With
<1> HIDE DEF s, resolved
<1>10. /\ IsRun(run') /\ run'.stack = s /\ run'.resolved = resolved /\ run'.follow = run.follow
  <2>1. \A k \in 2 .. Len(s) : s[k].doing = "follow"
    BY <1>3, <1>7
  <2>2. IsRun(run) /\ run.stage = "resolving" /\ s \in Seq(Frame)
    BY <1>1, <1>2, <1>7
  <2> QED BY ONLY <1>8, <2>1, <2>2 DEF IsRun
<1>11. matrix' = matrix /\ signatures' = signatures /\ closed' = closed
  OBVIOUS
<1>12. item.file = choice.file /\ item.sha = Sha(choice, content)
  OBVIOUS
<1>13. Fetching(run)'
  BY <1>6, <1>7, <1>10 DEF Fetching
<1>14. Held(run)'
  <2>1. \A n \in DOMAIN resolved : resolved[n].file \in DOMAIN cache'
    BY <1>2, <1>9, <1>12 DEF Held
  <2>2. \A f \in DOMAIN cache' : \E c \in Listed(f) : cache'[f].url = c.url
    BY <1>2 DEF Held
  <2> QED BY <1>10, <2>1, <2>2 DEF Held
<1>15. Published(item)
  <2>1. choice \in Listed(item.file)
    BY <1>4, <1>12 DEF Listed
  <2>2. choice.hashed => item.sha = Whole(choice.url)
    BY <1>12 DEF Sha
  <2> QED BY <2>1, <2>2 DEF Published
<1> HIDE DEF item
<1>16. AllPublished'
  <2>1. \A n \in DOMAIN resolved : Published(resolved[n])
    BY <1>2, <1>9, <1>15 DEF AllPublished
  <2> QED BY <1>2, <1>10, <1>11, <2>1 DEF AllPublished, Published
<1>17. ASSUME NEW req, Pending(run, req) PROVE Pending(run', req)
  <2>1. CASE \E k \in DOMAIN run.stack : run.stack[k].doing = "follow" /\ req \in Range(run.stack[k].due)
    <3>1. PICK k \in DOMAIN run.stack : run.stack[k].doing = "follow" /\ req \in Range(run.stack[k].due)
      BY <2>1
    <3>2. k # 1
      BY <1>1, <1>3, <3>1
    <3>3. k \in 2 .. Len(s) /\ k \in DOMAIN s
      BY <1>2, <1>7, <3>1, <3>2 DEF IsRun
    <3> QED BY <1>7, <1>10, <3>1, <3>3 DEF Pending
  <2>2. CASE req.name \in DOMAIN run.resolved
    BY <2>2, <1>9, <1>10 DEF Pending
  <2>3. CASE run.stack[1].req.name = req.name
    BY <2>3, <1>3, <1>9, <1>10 DEF Pending
  <2> QED BY <1>17, <2>1, <2>2, <2>3 DEF Pending
<1>18. Covered(run)'
  <2> SUFFICES ASSUME run'.follow, NEW n \in DOMAIN run'.resolved,
                      NEW req \in Range(Requires(cache'[run'.resolved[n].file])), req.applies
               PROVE  Pending(run', req)
    BY DEF Covered, Pending, Requires
  <2>1. CASE n = name
    <3>1. req \in Range(Requires(content))
      BY <2>1, <1>9, <1>10, <1>12
    <3>2. choice.wheel
      <4>1. PICK c \in Listed(choice.file) : content.url = c.url
        OBVIOUS
      <4>2. content.url \in DOMAIN Metadata
        BY <3>1 DEF Requires, Announced, Range
      <4>3. c \in Candidates /\ choice \in Listed(c.file)
        BY <4>1, <1>4 DEF Listed
      <4> QED BY <4>1, <4>2, <4>3, WheelsAreNamed
    <3>3. req \in Range(s[1].due) /\ s[1].doing = "follow" /\ 1 \in DOMAIN s
      BY <3>1, <3>2, <1>6, <1>7, <1>10
    <3> QED BY <3>3, <1>10 DEF Pending
  <2>2. CASE n # name
    <3>1. n \in DOMAIN run.resolved /\ run'.resolved[n] = run.resolved[n]
      BY <2>2, <1>9, <1>10
    <3>2. req \in Range(Requires(cache[run.resolved[n].file]))
      BY <3>1
    <3> QED BY <3>1, <3>2, <1>2, <1>10, <1>17 DEF Covered
  <2> QED BY <2>1, <2>2
<1> QED BY <1>10, <1>11, <1>13, <1>14, <1>16, <1>18 DEF ResolverInv, IsRun

LEMMA TakeCachedStep ==
  ASSUME ResolverInv, TakeCached, signatures' = signatures
  PROVE  ResolverInv'
<1>1. /\ Resolving("download") /\ Top.choice.file \in DOMAIN cache
      /\ run' = Kept(Top.choice, cache[Top.choice.file])
      /\ UNCHANGED <<cache, matrix, signatures, closed>>
  BY DEF TakeCached
<1>2. \E c \in Listed(Top.choice.file) : cache[Top.choice.file].url = c.url
  BY <1>1 DEF ResolverInv, Held
<1>3. DOMAIN cache' = DOMAIN cache \union {Top.choice.file} /\ cache' = cache
  BY <1>1
<1> QED BY <1>1, <1>2, <1>3, KeptStep

LEMMA AttemptStep ==
  ASSUME ResolverInv, NEW outcome, Attempt(outcome), signatures' = signatures
  PROVE  ResolverInv'
<1> DEFINE choice == Top.choice
           content == IF outcome = "whole" THEN Whole(choice.url) ELSE Part(choice.url)
<1>1. /\ Resolving("download") /\ run.stage = "resolving" /\ run.stack # << >> /\ Top.doing = "download"
      /\ run.tries = Retries + 1 => choice.file \notin DOMAIN cache
      /\ matrix' = matrix /\ signatures' = signatures /\ closed' = closed
      /\ cache' = IF outcome = "refused" THEN cache ELSE With(cache, choice.file, content)
      /\ run' = IF outcome = "whole" THEN Kept(choice, content)
                ELSE IF run.tries = 1 THEN Ended("download failed")
                ELSE [run EXCEPT !.tries = @ - 1]
  BY DEF Attempt, Resolving
<1>2. IsRun(run) /\ Covered(run) /\ Held(run) /\ Fetching(run) /\ AllPublished
  BY DEF ResolverInv
<1>3. Top = run.stack[1]
  BY <1>1, <1>2, Calls
<1>4. choice \in Candidates /\ choice \in Listed(choice.file)
  BY <1>1, <1>2, <1>3 DEF Fetching, Listed
<1>5. \A n \in DOMAIN run.resolved : run.resolved[n].file # choice.file
  BY <1>1, <1>2, <1>3 DEF Fetching, Held
<1>6. content.url = choice.url
  BY DEF Whole, Part
<1> HIDE DEF content
<1>7. /\ DOMAIN cache \subseteq DOMAIN cache'
      /\ \A f \in DOMAIN cache' : f # choice.file => f \in DOMAIN cache /\ cache'[f] = cache[f]
      /\ choice.file \in DOMAIN cache' =>
           cache'[choice.file] = content \/ (choice.file \in DOMAIN cache /\ cache'[choice.file] = cache[choice.file])
      /\ outcome # "refused" => DOMAIN cache' = DOMAIN cache \union {choice.file} /\ cache'[choice.file] = content
  BY <1>1 DEF With
<1>8. \A n \in DOMAIN run.resolved : /\ run.resolved[n].file \in DOMAIN cache'
                                      /\ cache'[run.resolved[n].file] = cache[run.resolved[n].file]
  BY <1>2, <1>5, <1>7 DEF Held
<1>9. CASE outcome = "whole"
  <2>1. run' = Kept(choice, content)
    BY <1>1, <1>9
  <2>2. \E c \in Listed(choice.file) : content.url = c.url
    BY <1>4, <1>6
  <2>3. UNCHANGED <<matrix, signatures, closed>>
    BY <1>1
  <2>4. \A f \in DOMAIN cache : f # choice.file => cache'[f] = cache[f]
    BY <1>7
  <2>5. DOMAIN cache' = DOMAIN cache \union {choice.file} /\ cache'[choice.file] = content
    BY <1>7, <1>9
  <2> HIDE DEF choice
  <2>6. choice = Top.choice
    BY DEF choice
  <2> QED BY <1>1, <1>8, <2>1, <2>2, <2>3, <2>4, <2>5, <2>6, KeptStep
<1>10. \A f \in DOMAIN cache' : \E c \in Listed(f) : cache'[f].url = c.url
  <2> SUFFICES ASSUME NEW f \in DOMAIN cache' PROVE \E c \in Listed(f) : cache'[f].url = c.url
    OBVIOUS
  <2>1. CASE f \in DOMAIN cache /\ cache'[f] = cache[f]
    BY <2>1, <1>2 DEF Held
  <2>2. CASE f = choice.file /\ cache'[f] = content
    BY <2>2, <1>4, <1>6
  <2> QED BY <2>1, <2>2, <1>7
<1>11. AllPublished' /\ Held(run)' /\ Fetching(run)' /\ Covered(run)' /\ IsRun(run)'
       /\ closed' = closed
  <2>1. CASE run' = Ended("download failed")
    <3>1. IsRun(run') /\ run'.stack = << >> /\ DOMAIN run'.resolved = {}
      BY <2>1, EndedRun
    <3>2. Fetching(run') /\ Covered(run)'
      BY <3>1 DEF Fetching, Covered
    <3>3. AllPublished' /\ Held(run)'
      BY <1>1, <1>2, <1>10, <3>1 DEF AllPublished, Published, Held
    <3> QED BY <1>1, <3>1, <3>2, <3>3 DEF Fetching, IsRun
  <2>2. CASE run' = [run EXCEPT !.tries = @ - 1]
    <3>1. /\ IsRun(run') /\ run'.stack = run.stack /\ run'.resolved = run.resolved /\ run'.follow = run.follow
      BY <1>2, <2>2 DEF IsRun
    <3>2. Fetching(run)'
      BY <1>3, <1>4, <1>5, <3>1 DEF Fetching
    <3>3. \A req : Pending(run, req) => Pending(run, req)'
      BY <3>1 DEF Pending
    <3>4. Covered(run)'
      BY <1>2, <1>8, <3>1, <3>3 DEF Covered, Requires
    <3>5. AllPublished'
      <4>1. signatures' = signatures /\ matrix' = matrix /\ run'.resolved = run.resolved
        BY <1>1, <3>1
      <4> QED BY <1>2, <4>1 DEF AllPublished, Published
    <3>6. Held(run)'
      BY <1>8, <1>10, <3>1 DEF Held
    <3> QED BY <1>1, <3>1, <3>2, <3>4, <3>5, <3>6 DEF IsRun
  <2>3. CASE outcome = "whole"
    BY <1>9, <2>3, <1>1 DEF ResolverInv
  <2> QED BY <1>1, <2>1, <2>2, <2>3
<1> QED BY <1>11 DEF ResolverInv

LEMMA FollowStep ==
  ASSUME ResolverInv, Follow, signatures' = signatures
  PROVE  ResolverInv'
<1> DEFINE next == Head(Top.due)
           rest == [Top EXCEPT !.due = Tail(@)]
           r == TopIs(rest)
<1>1. /\ run.stage = "resolving" /\ run.stack # << >> /\ Top.doing = "follow"
      /\ UNCHANGED <<cache, matrix, signatures, closed>>
  BY DEF Follow, Resolving
<1>2. CASE Top.due = << >>
  <2>1. run' = [run EXCEPT !.stack = Tail(@)]
    BY <1>2 DEF Follow
  <2> QED BY <1>1, <1>2, <2>1, Returned
<1>3. CASE Top.due # << >>
  <2> DEFINE s == IF next.applies /\ next.name \notin DOMAIN run.resolved THEN <<Call(next)>> \o r ELSE r
  <2>1. IsRun(run) /\ Covered(run)
    BY DEF ResolverInv
  <2>2. /\ Top = run.stack[1] /\ Top \in Frame /\ Len(run.stack) \in Nat \ {0}
        /\ \A k \in 2 .. Len(run.stack) : run.stack[k].doing = "follow" /\ run.stack[k] \in Frame
    BY <1>1, <2>1, Calls
  <2>3. Top.due \in Seq(Required)
    BY <2>2 DEF Frame
  <2>4. /\ next \in Required /\ Tail(Top.due) \in Seq(Required)
        /\ Range(Top.due) \subseteq {next} \union Range(Tail(Top.due))
    <3> DEFINE d == Top.due
    <3>1. d \in Seq(Required) /\ d # << >>
      BY <1>3, <2>3
    <3> HIDE DEF d
    <3>2. Head(d) = d[1] /\ Len(Tail(d)) = Len(d) - 1 /\ Len(d) \in Nat /\ Tail(d) \in Seq(Required)
      BY <3>1
    <3>3. \A k \in 1 .. Len(d) : k = 1 \/ (k - 1 \in 1 .. Len(d) - 1 /\ Tail(d)[k - 1] = d[k])
      BY <3>1
    <3>4. Range(d) \subseteq {Head(d)} \union Range(Tail(d))
      <4> SUFFICES ASSUME NEW k \in DOMAIN d, k # 1 PROVE d[k] \in Range(Tail(d))
        BY <3>1, <3>2 DEF Range
      <4>1. k - 1 \in DOMAIN Tail(d) /\ Tail(d)[k - 1] = d[k]
        BY <3>1, <3>2, <3>3
      <4> QED BY <4>1 DEF Range
    <3>5. Head(d) \in Required
      BY <3>1
    <3> QED BY <3>2, <3>4, <3>5 DEF d
  <2>5. rest \in Frame /\ rest.doing = "follow" /\ rest.due = Tail(Top.due)
    BY <1>1, <2>2, <2>4 DEF Frame
  <2> HIDE DEF rest
  <2>6. /\ r \in Seq(Frame) /\ r # << >> /\ Len(r) = Len(run.stack) /\ r[1] = rest
        /\ \A k \in 2 .. Len(r) : r[k] = run.stack[k]
    BY <1>1, <2>1, <2>5, TopChanged
  <2>7. \A k \in 1 .. Len(r) : r[k].doing = "follow"
    BY <2>2, <2>5, <2>6
  <2>8. run' = [run EXCEPT !.stack = s]
    BY <1>3 DEF Follow, rest
  <2> HIDE DEF r
  <2>9. /\ Call(next) \in Frame /\ Call(next).doing = "enter" /\ Call(next).req = next
    BY <2>4, Called
  <2> HIDE DEF next
  <2>10. \/ s = r
         \/ /\ s \in Seq(Frame) /\ Len(s) = Len(r) + 1 /\ s[1] = Call(next)
            /\ \A k \in 1 .. Len(r) : s[k + 1] = r[k]
    <3> DEFINE c == Call(next)
    <3> HIDE DEF c
    <3>1. c \in Frame
      BY <2>9 DEF c
    <3>2. s = r \/ s = <<c>> \o r
      BY DEF c
    <3>3. <<c>> \o r \in Seq(Frame) /\ Len(<<c>> \o r) = Len(r) + 1 /\ (<<c>> \o r)[1] = c
          /\ \A k \in 1 .. Len(r) : (<<c>> \o r)[k + 1] = r[k]
      BY <2>6, <3>1
    <3> QED BY <3>2, <3>3 DEF c
  <2>11. next.applies => next.name \in DOMAIN run.resolved \/ s[1] = Call(next)
    <3>1. next.applies /\ next.name \notin DOMAIN run.resolved => s = <<Call(next)>> \o r
      OBVIOUS
    <3> QED BY <2>6, <2>9, <3>1
  <2> HIDE DEF s
  <2>12. /\ s \in Seq(Frame) /\ s # << >> /\ s[1].doing # "download"
         /\ \A k \in 2 .. Len(s) : s[k].doing = "follow"
    <3>1. CASE s = r
      BY <3>1, <2>6, <2>7
    <3>2. CASE /\ s \in Seq(Frame) /\ Len(s) = Len(r) + 1 /\ s[1] = Call(next)
               /\ \A k \in 1 .. Len(r) : s[k + 1] = r[k]
      <4>1. \A k \in 2 .. Len(s) : k - 1 \in 1 .. Len(r) /\ s[k] = r[k - 1]
        BY <2>6, <3>2
      <4>2. \A k \in 2 .. Len(s) : s[k].doing = "follow"
        BY <2>7, <4>1
      <4>3. s # << >>
        BY <2>6, <3>2
      <4>4. s[1].doing # "download"
        BY <2>9, <3>2
      <4> QED BY <3>2, <4>2, <4>3, <4>4
    <3> QED BY <3>1, <3>2, <2>10
  <2>13. IsRun(run') /\ run'.stack = s /\ run'.resolved = run.resolved /\ run'.follow = run.follow
    BY <1>1, <2>1, <2>8, <2>12, OtherStack
  <2>14. Fetching(run')
    BY <2>12, <2>13 DEF Fetching
  <2>15. \A k \in DOMAIN r : \E j \in DOMAIN s : s[j] = r[k]
    <3> SUFFICES ASSUME NEW k \in 1 .. Len(r) PROVE \E j \in DOMAIN s : s[j] = r[k]
      BY <2>6
    <3>1. CASE s = r
      BY <3>1
    <3>2. CASE Len(s) = Len(r) + 1 /\ \A i \in 1 .. Len(r) : s[i + 1] = r[i]
      <4>1. k + 1 \in DOMAIN s
        BY <2>6, <2>12, <3>2
      <4> QED BY <3>2, <4>1
    <3> QED BY <3>1, <3>2, <2>10
  <2>16. ASSUME NEW req, req.applies, Pending(run, req) PROVE Pending(run', req)
    <3>1. CASE req.name \in DOMAIN run.resolved
      BY <3>1, <2>13 DEF Pending
    <3>2. CASE \E k \in DOMAIN run.stack : run.stack[k].doing = "follow" /\ req \in Range(run.stack[k].due)
      <4>1. PICK k \in DOMAIN run.stack : run.stack[k].doing = "follow" /\ req \in Range(run.stack[k].due)
        BY <3>2
      <4>2. k \in 1 .. Len(r) /\ k \in DOMAIN r
        BY <2>1, <2>6, <4>1 DEF IsRun
      <4>3. CASE req \in Range(r[k].due)
        BY <4>2, <4>3, <2>7, <2>13, <2>15 DEF Pending
      <4>4. CASE k = 1 /\ req = next
        <5>1. CASE next.name \in DOMAIN run.resolved
          BY <4>4, <5>1, <2>13 DEF Pending
        <5>2. CASE s[1] = Call(next)
          BY <4>4, <5>2, <2>9, <2>12, <2>13 DEF Pending
        <5> QED BY <5>1, <5>2, <4>4, <2>11, <2>16
      <4> QED BY <4>1, <4>2, <4>3, <4>4, <2>2, <2>4, <2>5, <2>6
    <3> QED BY <2>16, <3>1, <3>2, <1>1, <2>2 DEF Pending
  <2>17. Covered(run')
    BY <2>1, <2>13, <2>16 DEF Covered
  <2> QED BY <1>1, <2>13, <2>14, <2>17, RunOnly
<1> QED BY <1>2, <1>3

\* Writing at the end: only the stage moves, until the last file.
LEMMA WritingStep ==
  ASSUME ResolverInv, run.stack = << >>, NEW stage, stage # "resolving",
         run' = [run EXCEPT !.stage = stage], UNCHANGED <<cache, matrix, signatures, closed>>
  PROVE  ResolverInv'
<1>1. IsRun(run) /\ Covered(run)
  BY DEF ResolverInv
<1>2. IsRun(run') /\ run'.stack = run.stack /\ run'.resolved = run.resolved /\ run'.follow = run.follow
  BY <1>1 DEF IsRun
<1>3. Fetching(run')
  BY <1>2 DEF Fetching
<1>4. Covered(run')
  BY <1>1, <1>2 DEF Covered, Pending
<1> QED BY <1>2, <1>3, <1>4, RunOnly

LEMMA WriteMatrixInputsStep ==
  ASSUME ResolverInv, WriteMatrixInputs, signatures' = signatures
  PROVE  ResolverInv'
<1>1. /\ run.stage = "matrix" /\ matrix' = Artifacts /\ run' = Ended("done") /\ cache' = cache
      /\ signatures' = signatures
  BY DEF WriteMatrixInputs
<1>2. IsRun(run) /\ Covered(run) /\ Held(run) /\ AllPublished
  BY DEF ResolverInv
<1>3. run.stack = << >>
  BY <1>1, <1>2 DEF IsRun
<1>6. IsRun(run') /\ run'.stack = << >> /\ DOMAIN run'.resolved = {}
  BY <1>1, EndedRun
<1>7. Fetching(run)' /\ Covered(run)'
  BY <1>6 DEF Fetching, Covered
<1>8. Held(run)'
  BY <1>1, <1>2, <1>6 DEF Held
<1>9. AllPublished'
  BY <1>1, <1>2, <1>6 DEF AllPublished, Published, Artifacts
<1> QED BY <1>6, <1>7, <1>8, <1>9 DEF ResolverInv, IsRun

LEMMA ResolverStep ==
  ASSUME ResolverInv, ResolverNext, signatures' = signatures
  PROVE  ResolverInv'
<1>1. CASE \E reqs \in Requests, follow \in BOOLEAN : StartRun(reqs, follow)
  BY <1>1, StartRunStep
<1>2. CASE NextRoot
  BY <1>2, NextRootStep
<1>3. CASE \E answering \in SUBSET DOMAIN Indexes : Enter(answering)
  BY <1>3, EnterStep
<1>4. CASE TakeCached
  BY <1>4, TakeCachedStep
<1>5. CASE \E outcome \in {"whole", "part", "refused"} : Attempt(outcome)
  BY <1>5, AttemptStep
<1>6. CASE Follow
  BY <1>6, FollowStep
<1>7. CASE OpenLockJson
  <2>1. /\ run.stack = << >> /\ run' = [run EXCEPT !.stage = "lock"]
        /\ UNCHANGED <<cache, matrix, signatures, closed>>
    BY <1>7 DEF OpenLockJson
  <2> QED BY <2>1, WritingStep
<1>8. CASE WriteLockJson
  <2>1. /\ run.stack = << >> /\ run' = [run EXCEPT !.stage = "verifier"]
        /\ UNCHANGED <<cache, matrix, signatures, closed>>
    BY <1>8 DEF WriteLockJson, ResolverInv, IsRun
  <2> QED BY <2>1, WritingStep
<1>9. CASE WriteVerifier
  <2>1. /\ run.stack = << >> /\ run' = [run EXCEPT !.stage = "matrix"]
        /\ UNCHANGED <<cache, matrix, signatures, closed>>
    BY <1>9 DEF WriteVerifier, ResolverInv, IsRun
  <2> QED BY <2>1, WritingStep
<1>10. CASE WriteMatrixInputs
  BY <1>10, WriteMatrixInputsStep
<1>11. CASE KillResolver
  <2>1. run' = Ended("killed") /\ UNCHANGED <<cache, matrix, signatures, closed>>
    BY <1>11 DEF KillResolver
  <2> QED BY <2>1, EndingStep
<1> QED BY <1>1, <1>2, <1>3, <1>4, <1>5, <1>6, <1>7, <1>8, <1>9, <1>10, <1>11 DEF ResolverNext

\* Signatures made from the list are of what the list has.
LEMMA SigningStep ==
  ASSUME ResolverInv, SigningNext
  PROVE  ResolverInv'
<1>1. cache' = cache /\ run' = run /\ matrix' = matrix /\ closed' = closed
  BY DEF SigningNext, SignMatrix, SignFiles, resolverVars
<1>2. signatures'.source = "matrix" => \A it \in signatures'.items : Published(it)
  <2>1. CASE SignMatrix
    <3>1. CASE signatures' = SignaturesOf("matrix", matrix)
      BY <3>1 DEF SignaturesOf, ResolverInv, AllPublished, Published
    <3> QED BY <2>1, <3>1 DEF SignMatrix, ResolverInv, AllPublished
  <2>2. CASE \E files \in SUBSET DOMAIN cache : SignFiles(files)
    BY <2>2 DEF SignFiles, SignaturesOf
  <2> QED BY <2>1, <2>2 DEF SigningNext
<1>3. AllPublished'
  BY <1>1, <1>2 DEF ResolverInv, AllPublished, Published
<1> QED BY <1>1, <1>3 DEF ResolverInv, IsRun, Held, Fetching, Covered, Pending, Requires

LEMMA ResolverAlone ==
  ASSUME ResolverInv, UNCHANGED <<resolverVars, signatures>>
  PROVE  ResolverInv'
<1>1. cache' = cache /\ run' = run /\ matrix' = matrix /\ closed' = closed /\ signatures' = signatures
  BY DEF resolverVars
<1> QED BY <1>1
        DEF ResolverInv, IsRun, Held, Fetching, Covered, Pending, Requires, AllPublished, Published

LEMMA ResolverStart ==
  ASSUME ResolverInit, SigningInit
  PROVE  ResolverInv
<1>1. cache = << >> /\ run = Ready /\ matrix = {} /\ closed = TRUE /\ signatures = NoSignatures
  BY DEF ResolverInit, SigningInit
<1>2. IsRun(run) /\ run.stack = << >> /\ DOMAIN run.resolved = {}
  BY <1>1, EndedRun
<1>3. Held(run)
  BY <1>1, <1>2 DEF Held
<1>4. AllPublished
  BY <1>1, <1>2 DEF AllPublished, NoSignatures
<1> QED BY <1>1, <1>2, <1>3, <1>4, EmptyRun DEF ResolverInv

(* The invariant of the resolver, with the cache and the lists it feeds.   *)
THEOREM ResolverIsSound == Spec => []ResolverInv
<1>1. Init => ResolverInv
  BY ResolverStart DEF Init
<1>2. ResolverInv /\ [Next]_vars => ResolverInv'
  <2> SUFFICES ASSUME ResolverInv, [Next]_vars PROVE ResolverInv'
    OBVIOUS
  <2>1. CASE ResolverNext /\ UNCHANGED <<ledgerVars, signatures>>
    BY <2>1, ResolverStep
  <2>2. CASE SigningNext
    BY <2>2, SigningStep
  <2>3. CASE UNCHANGED <<resolverVars, signatures>>
    BY <2>3, ResolverAlone
  <2> QED BY <2>1, <2>2, <2>3 DEF Next, vars
<1> QED BY <1>1, <1>2, PTL DEF Spec

\* It has been tried to download f, and will be again.
TriedAgain(f) ==
  /\ run.stack # << >> /\ run.stack[1].doing = "download" /\ run.stack[1].choice.file = f
  /\ run.tries # Retries + 1

(* While a run is under way, a part in the cache was there when it began or *)
(* is of the download it is about to try again.                             *)
PartsKnown ==
  /\ run.tries \in Int /\ run.tries <= Retries + 1
  /\ run.stage # "ready" =>
       \A f \in DOMAIN cache : cache[f].whole \/ f \in run.broken \/ TriedAgain(f)

\* Most steps leave the cache alone and are not about a download tried before.
LEMMA PartsKept ==
  ASSUME PartsKnown, cache' = cache, run'.tries \in Int, run'.tries <= Retries + 1,
         run'.stage = "ready" \/ (run.stage # "ready" /\ run'.broken = run.broken),
         run'.stage # "ready" => \A f : ~TriedAgain(f)
  PROVE  PartsKnown'
BY DEF PartsKnown

\* Whatever is written at the end, all that is left out was found broken.
LEMMA LeftOutWasBroken ==
  ASSUME ResolverInv, PartsKnown, WriteMatrixInputs
  PROVE  closed' = TRUE
<1>1. run.stage = "matrix" /\ closed' = (run.follow => RequirementsResolved)
  BY DEF WriteMatrixInputs
<1>2. IsRun(run) /\ Covered(run) /\ Held(run)
  BY DEF ResolverInv
<1>3. run.stack = << >>
  BY <1>1, <1>2 DEF IsRun
<1>4. run.follow => RequirementsResolved
  <2> SUFFICES ASSUME run.follow, NEW n \in DOMAIN run.resolved,
                      run.resolved[n].file \notin run.broken,
                      NEW req \in Range(Announced(cache[run.resolved[n].file])), req.applies
               PROVE  req.name \in DOMAIN run.resolved
    BY DEF RequirementsResolved
  <2>1. cache[run.resolved[n].file].whole
    BY <1>1, <1>2, <1>3 DEF PartsKnown, TriedAgain, Held
  <2>2. req \in Range(Requires(cache[run.resolved[n].file]))
    BY <2>1 DEF Requires
  <2>3. Pending(run, req)
    BY <1>2, <2>2 DEF Covered
  <2> QED BY <1>3, <2>3 DEF Pending
<1> QED BY <1>1, <1>4, Zenon

LEMMA PartsAttempt ==
  ASSUME ResolverInv, PartsKnown, NEW outcome, Attempt(outcome)
  PROVE  PartsKnown'
<1> DEFINE choice == Top.choice
           content == IF outcome = "whole" THEN Whole(choice.url) ELSE Part(choice.url)
<1>1. /\ run.stage = "resolving" /\ run.stack # << >> /\ Top.doing = "download"
      /\ cache' = IF outcome = "refused" THEN cache ELSE With(cache, choice.file, content)
      /\ run' = IF outcome = "whole" THEN Kept(choice, content)
                ELSE IF run.tries = 1 THEN Ended("download failed")
                ELSE [run EXCEPT !.tries = @ - 1]
  BY DEF Attempt, Resolving
<1>2. IsRun(run)
  BY DEF ResolverInv
<1>3. Top = run.stack[1]
  BY <1>1, <1>2, Calls
<1>4. \A f \in DOMAIN cache' : f # choice.file => f \in DOMAIN cache /\ cache'[f] = cache[f]
  BY <1>1 DEF With
<1>5. \A f : TriedAgain(f) => f = choice.file
  BY <1>3 DEF TriedAgain
<1>6. CASE outcome = "whole"
  <2>1. run'.stage = "resolving" /\ run'.broken = run.broken /\ run'.tries = run.tries
    BY <1>1, <1>2, <1>6 DEF Kept, IsRun
  <2>2. content.whole
    BY <1>6 DEF Whole
  <2>3. cache'[choice.file] = content
    BY <1>1, <1>6 DEF With
  <2> QED BY <1>1, <1>4, <1>5, <2>1, <2>2, <2>3 DEF PartsKnown
<1>7. CASE run' = Ended("download failed")
  <2>1. run'.stage = "ready" /\ run'.tries = 0
    BY ONLY <1>7 DEF Ended, Ready
  <2> QED BY ONLY <2>1, RetriesAssumption DEF PartsKnown
<1>8. CASE run' = [run EXCEPT !.tries = @ - 1]
  <2>1. /\ run'.stage = "resolving" /\ run'.broken = run.broken /\ run'.tries = run.tries - 1
        /\ run'.stack = run.stack
    BY <1>1, <1>2, <1>8 DEF IsRun
  <2>2. run'.tries \in Int /\ run'.tries < Retries + 1
    BY <2>1, RetriesAssumption DEF PartsKnown
  <2> PICK file : file = choice.file
    OBVIOUS
  <2>3. TriedAgain(file)'
    <3>1. run'.stack # << >> /\ run'.stack[1].doing = "download" /\ run'.stack[1].choice = choice
      <4>1. run.stack # << >> /\ Top.doing = "download"
        BY <1>1
      <4> QED BY ONLY <1>3, <2>1, <4>1
    <3>2. run'.tries # Retries + 1
      BY ONLY <2>2, RetriesAssumption
    <3> QED BY <3>1, <3>2 DEF TriedAgain
  <2>4. \A f \in DOMAIN cache' : cache'[f].whole \/ f \in run'.broken \/ TriedAgain(f)'
    <3>1. run.stage # "ready"
      BY <1>1
    <3>2. \A f \in DOMAIN cache' : f # file => f \in DOMAIN cache /\ cache'[f] = cache[f]
      BY <1>4
    <3>3. \A f : TriedAgain(f) => f = file
      BY <1>5
    <3> QED BY ONLY PartsKnown, <2>1, <2>3, <3>1, <3>2, <3>3 DEF PartsKnown
  <2> QED BY <2>2, <2>4, RetriesAssumption DEF PartsKnown
<1> QED BY <1>1, <1>6, <1>7, <1>8

LEMMA PartsNext ==
  ASSUME ResolverInv, PartsKnown, ResolverNext
  PROVE  PartsKnown' /\ (closed = TRUE => closed' = TRUE)
<1>1. IsRun(run) /\ run.tries \in Int /\ run.tries <= Retries + 1
  BY DEF ResolverInv, PartsKnown
<1>2. ASSUME NEW how, run' = Ended(how), cache' = cache PROVE PartsKnown'
  <2>1. run'.stage = "ready" /\ run'.tries = 0
    BY ONLY <1>2 DEF Ended, Ready
  <2> QED BY ONLY <2>1, RetriesAssumption DEF PartsKnown
<1>3. ASSUME NEW reqs \in Requests, NEW follow, StartRun(reqs, follow) PROVE PartsKnown'
  <2>1. cache' = cache /\ run'.broken = {file \in DOMAIN cache : ~cache[file].whole} /\ run'.tries = 0
    BY <1>3 DEF StartRun, Ready
  <2> QED BY <2>1, RetriesAssumption DEF PartsKnown
<1>4. ASSUME NextRoot PROVE PartsKnown'
  <2>1. /\ run.stage = "resolving" /\ run.stack = << >> /\ cache' = cache
        /\ run'.broken = run.broken /\ run'.tries = run.tries
    BY <1>1, <1>4 DEF NextRoot, IsRun
  <2> QED BY <1>1, <2>1, PartsKept DEF TriedAgain
<1>5. ASSUME NEW answering \in SUBSET DOMAIN Indexes, Enter(answering) PROVE PartsKnown'
  <2>1. run.stage = "resolving" /\ run.stack # << >> /\ Top.doing = "enter" /\ cache' = cache
    BY <1>5 DEF Enter, Resolving
  <2>2. \A f : ~TriedAgain(f)
    BY <1>1, <2>1, Calls DEF TriedAgain
  <2>3. \/ \E how : run' = Ended(how)
        \/ run'.broken = run.broken /\ run'.tries \in {run.tries, Retries + 1}
    BY <1>1, <1>5 DEF Enter, IsRun
  <2> QED BY <1>1, <1>2, <2>1, <2>2, <2>3, PartsKept, RetriesAssumption
<1>6. ASSUME TakeCached PROVE PartsKnown'
  <2>1. /\ run.stage = "resolving" /\ cache' = cache /\ run.tries = Retries + 1
        /\ run'.broken = run.broken /\ run'.tries = run.tries
    BY <1>1, <1>6 DEF TakeCached, Resolving, Kept, IsRun
  <2> QED BY <1>1, <2>1, PartsKept DEF TriedAgain
<1>7. ASSUME \E outcome \in {"whole", "part", "refused"} : Attempt(outcome) PROVE PartsKnown'
  BY <1>7, PartsAttempt
<1>8. ASSUME Follow PROVE PartsKnown'
  <2>1. run.stage = "resolving" /\ run.stack # << >> /\ Top.doing = "follow" /\ cache' = cache
    BY <1>8 DEF Follow, Resolving
  <2>2. \A f : ~TriedAgain(f)
    BY <1>1, <2>1, Calls DEF TriedAgain
  <2>3. run'.broken = run.broken /\ run'.tries = run.tries
    BY <1>1, <1>8 DEF Follow, IsRun
  <2> QED BY <1>1, <2>1, <2>2, <2>3, PartsKept
<1>9. ASSUME OpenLockJson \/ WriteLockJson \/ WriteVerifier PROVE PartsKnown'
  <2>1. /\ run.stage # "ready" /\ cache' = cache /\ run'.broken = run.broken /\ run'.tries = run.tries
        /\ run.stack = << >>
    BY <1>1, <1>9 DEF OpenLockJson, WriteLockJson, WriteVerifier, IsRun
  <2> QED BY <1>1, <2>1, PartsKept DEF TriedAgain
<1>10. CASE WriteMatrixInputs
  BY <1>2, <1>10, LeftOutWasBroken DEF WriteMatrixInputs
<1>11. CASE KillResolver
  BY <1>2, <1>11 DEF KillResolver
<1>12. WriteMatrixInputs \/ closed' = closed
  BY DEF ResolverNext, StartRun, NextRoot, Enter, TakeCached, Attempt, Follow, OpenLockJson,
         WriteLockJson, WriteVerifier, KillResolver
<1>13. PartsKnown'
  BY <1>3, <1>4, <1>5, <1>6, <1>7, <1>8, <1>9, <1>10, <1>11 DEF ResolverNext
<1> QED BY <1>12, <1>13, LeftOutWasBroken

(* For any requests, indexes, metadata and retries, whichever indexes       *)
(* answer, however often runs are killed and however its own downloads      *)
(* break off: a run that ends well has resolved all that the wheels it      *)
(* resolved require, but for wheels of which it found a part in the cache.  *)
THEOREM NothingIsLeftOut == Spec => []NothingLeftOut
<1> DEFINE Inv == PartsKnown /\ closed = TRUE
<1>1. Init => Inv
  <2>1. Init => run = Ready /\ closed = TRUE
    BY DEF Init, ResolverInit
  <2> QED BY <2>1, RetriesAssumption DEF PartsKnown, Ready
<1>2. ResolverInv /\ Inv /\ [Next]_vars => Inv'
  <2> SUFFICES ASSUME ResolverInv, Inv, [Next]_vars PROVE Inv'
    OBVIOUS
  <2>1. CASE ResolverNext
    BY <2>1, PartsNext
  <2>2. CASE UNCHANGED resolverVars
    <3>1. cache' = cache /\ run' = run /\ closed' = closed
      BY <2>2 DEF resolverVars
    <3> QED BY <3>1 DEF PartsKnown, TriedAgain
  <2>3. SigningNext => UNCHANGED resolverVars
    BY DEF SigningNext, SignMatrix, SignFiles
  <2> QED BY <2>1, <2>2, <2>3 DEF Next, vars
<1>3. Inv => NothingLeftOut
  BY DEF NothingLeftOut
<1> QED BY <1>1, <1>2, <1>3, ResolverIsSound, PTL DEF Spec

(* Likewise, signatures made from the resolver's list that verify vouch for *)
(* files as an index has them, where all indexes give the hashes.           *)
THEOREM VerifiedArePublished == Spec => []VerifiedIsPublished
<1>1. ResolverInv => VerifiedIsPublished
  BY DEF ResolverInv, AllPublished, Published, VerifiedIsPublished, Verifies
<1> QED BY <1>1, ResolverIsSound, PTL

-----------------------------------------------------------------------------
(* Replaying the ledger.                                                   *)

\* What the lines say is in the lock, line by line.
IsReplay(lines, f) ==
  f = [i \in 0..Len(lines) |->
        IF i = 0 THEN {}
        ELSE CASE lines[i].op = "add"      -> f[i - 1] \union {lines[i].of}
               [] lines[i].op = "rollback" -> f[Taken(lines, i, lines[i].of)]
               [] OTHER                    -> f[i - 1]]

\* A snapshot was taken before line i.
IsTaken(lines, i, s) == \E j \in 1..(i - 1) : lines[j].op = "snapshot" /\ lines[j].of = s

LastHash(lines) == IF Len(lines) = 0 THEN None ELSE lines[Len(lines)].id
LastNames(lines) == Replayed(lines)[Len(lines)]
SnapLine(lines, s) == Taken(lines, Len(lines) + 1, s)

\* What is in the lock once the line of a command is there.
Resulting(lines, op, of) ==
  CASE op = "add"      -> LastNames(lines) \union {of}
    [] op = "rollback" -> Replayed(lines)[SnapLine(lines, of)]
    [] OTHER           -> LastNames(lines)

\* Every line continues the one it has to.
LinesSound(lines) ==
  /\ \A i \in 1..Len(lines) :
       /\ lines[i].id \in Nat \ {0} /\ lines[i].prev \in Nat
       /\ lines[i].op = "rollback" => IsTaken(lines, i, lines[i].of)
       /\ lines[i].prev = IF lines[i].op = "rollback" THEN lines[Taken(lines, i, lines[i].of)].prev
                          ELSE IF i = 1 THEN None ELSE lines[i - 1].id
  /\ IsReplay(lines, Replayed(lines))

\* A snapshot holds what its line continued.
SnapSound(lines, copy, s) ==
  copy.lock # NoLock =>
    /\ copy.lock.kind # "missing"
    /\ IsTaken(lines, Len(lines) + 1, s)
    /\ copy.state = lines[SnapLine(lines, s)].prev
    /\ copy.lock.kind = "map" => copy.lock.names = Replayed(lines)[SnapLine(lines, s)]

\* state.json names the last line.
StateSound(lines, st) == st = LastHash(lines) \/ (st = Missing /\ Len(lines) = 0)

\* Between two commands
Settled(lines, st, lk, sn) ==
  /\ StateSound(lines, st)
  /\ lk.kind = "map" => lk.names = LastNames(lines)
  /\ \A s \in Snap : SnapSound(lines, sn[s], s)

-----------------------------------------------------------------------------
(* What a command has still to do.                                         *)

\* The commands that do more than append a line, and their steps that change the lock
Special == {"add", "snapshot", "rollback"}
Effect == {"read_lock", "copy_lock_back"}

\* The step after those that ensure state.json and the lock
FirstOf(op) ==
  CASE op = "add"      -> "read_lock"
    [] op = "snapshot" -> "empty_lock_out"
    [] op = "rollback" -> "find_snapshot"
    [] OTHER           -> "read_state"

\* The step after a step
Follows(op, a, b) ==
  CASE a = "upload"          -> b = "ensure_state"
    [] a = "ensure_state"    -> b = "ensure_lock"
    [] a = "ensure_lock"     -> b = FirstOf(op)
    [] a = "read_lock"       -> b = "open_lock"
    [] a = "open_lock"       -> b = "fill_lock"
    [] a = "fill_lock"       -> b = FirstOf(op) \/ (op = "add" /\ b = "read_state")
    [] a = "empty_lock_out"  -> b = "copy_lock_out"
    [] a = "copy_lock_out"   -> b = "empty_state_out"
    [] a = "empty_state_out" -> b = "copy_state_out"
    [] a = "copy_state_out"  -> b = "read_state"
    [] a = "find_snapshot"   -> b = "empty_lock"
    [] a = "empty_lock"      -> b = "copy_lock_back"
    [] a = "copy_lock_back"  -> b = "empty_state"
    [] a = "empty_state"     -> b = "copy_state_back"
    [] a = "copy_state_back" -> b = "read_state"
    [] a = "read_state"      -> b = "append_line"
    [] a = "append_line"     -> b = "open_state"
    [] a = "open_state"      -> b = "fill_state"
    [] a = "fill_state"      -> b = "ensure_lock" \/ (op = "publish" /\ b = "upload")
    [] OTHER                 -> b = "upload_next"

\* The steps of one command only
Belongs(op, do) ==
  /\ do = "upload" => op = "publish"
  /\ do = "upload_next" => op = "publish_all"
  /\ do = "read_lock" => op = "add"
  /\ do \in {"empty_lock_out", "copy_lock_out", "empty_state_out", "copy_state_out"} => op = "snapshot"
  /\ do \in {"find_snapshot", "empty_lock", "copy_lock_back", "empty_state", "copy_state_back"} =>
       op = "rollback"

\* What a command op of a name has still to do: its lock is changed once, before its one line.
Shaped(op, of, t) ==
  /\ \A k \in 1..(Len(t) - 1) : Follows(op, t[k].do, t[k + 1].do)
  /\ t # <<>> => t[Len(t)].do \in {"fill_state", "upload_next"}
  /\ \A k \in 1..Len(t) : Belongs(op, t[k].do)
  /\ op \in Special =>
       /\ \A k \in 1..Len(t) : t[k].do \notin {"open_lock", "fill_lock"} => t[k].of = of
       /\ \A j, k \in 1..Len(t) : t[j].do \in Effect /\ t[k].do \in Effect => j = k
       /\ \A j, k \in 1..Len(t) : t[j].do = "append_line" /\ t[k].do = "append_line" => j = k
       /\ \A j \in 1..Len(t) : t[j].do \in Effect => \E k \in 1..Len(t) : j < k /\ t[k].do = "append_line"

\* One of these steps is still to come.
Has(t, dos) == \E k \in 1..Len(t) : t[k].do \in dos

\* The lock is as the line to come will say, or as the lines say.
Wanted(lines, op, of, t) ==
  IF Has(t, {"append_line"}) /\ ~Has(t, Effect) THEN Resulting(lines, op, of) ELSE LastNames(lines)

\* The steps after the lock has been ensured, and those that enter the line
Looked == {"read_lock", "empty_lock_out", "copy_lock_out", "empty_state_out", "copy_state_out",
           "find_snapshot", "empty_lock", "copy_lock_back", "empty_state", "copy_state_back",
           "read_state", "append_line"}
Entering == {"read_state", "append_line"}

\* Before its next step: what the files hold.
Tells(lines, st, lk, sn, c, of) ==
  LET do == c.todo[1].do
  IN  /\ IF do \in {"open_state", "fill_state"} THEN c.hash = LastHash(lines)
         ELSE IF do \in Entering /\ c.op = "rollback" THEN st = lines[SnapLine(lines, of)].prev
         ELSE do # "copy_state_back" => StateSound(lines, st)
      /\ do \in Looked \union {"ensure_lock", "open_lock", "fill_lock"} /\ do # "copy_state_back" => st >= 0
      /\ IF do \in {"open_lock", "fill_lock"} THEN c.names = Wanted(lines, c.op, of, c.todo)
         ELSE lk.kind = "map" => lk.names = Wanted(lines, c.op, of, c.todo)
      /\ do \in Looked => lk.kind # "missing"
      /\ \A s \in Snap :
           IF c.op = "snapshot" /\ s = of /\ do \in Entering \union {"copy_lock_out", "empty_state_out", "copy_state_out"}
           THEN /\ sn[s].lock.kind # "missing"
                /\ sn[s].lock.kind = "map" => sn[s].lock.names = LastNames(lines)
                /\ do \in Entering => sn[s].state = LastHash(lines)
           ELSE SnapSound(lines, sn[s], s)
      /\ c.op = "rollback" 
           /\ do \in Entering \union {"empty_lock", "copy_lock_back", "empty_state", "copy_state_back"} =>
           sn[of].lock # NoLock
      /\ do = "append_line" => c.prev = st /\ c.hash > 0
      /\ c.op # "add" \/ Has(c.todo, {"read_lock"}) => c.names = {}

\* A command in its course: on one name, in shape, with the files as it needs them
Working(lines, st, lk, sn, c) ==
  \E of \in Subjects :
    /\ c.op \in {"snapshot", "rollback"} => of \in Snap
    /\ Shaped(c.op, of, c.todo) /\ Tells(lines, st, lk, sn, c, of)

\* Commands that run one after the other and to their end
Orderly ==
  clean =>
    /\ LinesSound(ledger)
    /\ lock.kind = "missing" => Len(ledger) = 0
    /\ (\A p \in Cli : Idle(p)) => Settled(ledger, state, lock, snaps)
    /\ \A p \in Cli : ~Idle(p) => /\ \A q \in Cli : q # p => Idle(q)
                                  /\ Working(ledger, state, lock, snaps, cli[p])

\* All of it, with the command that is under way.
Good(lines, st, lk, sn, c) ==
  /\ LinesSound(lines)
  /\ lk.kind = "missing" => Len(lines) = 0
  /\ IF c.todo = <<>> THEN Settled(lines, st, lk, sn) ELSE Working(lines, st, lk, sn, c)

\* A command with a step to do
Moving(lines, st, lk, sn, c, do) ==
  /\ Len(lines) \in Nat /\ st \in Int /\ c.todo \in Todo /\ c.todo # <<>> /\ c.todo[1].do = do
  /\ Good(lines, st, lk, sn, c)

\* A set of naturals has a least one.
LEMMA LeastOf ==
  ASSUME NEW S \in SUBSET Nat, S # {}
  PROVE  \E x \in S : \A y \in S : x <= y
<1> DEFINE R == {ss \in Nat \X Nat : ss[1] < ss[2]}
<1>1. IsWellFoundedOn(R, Nat)
  BY NatLessThanWellFounded DEF OpToRel
<1>2. PICK x \in S : \A y \in S : <<y, x>> \notin R
  BY <1>1, WFMin
<1>3. \A y \in S : x <= y
  <2> TAKE y \in S
  <2>1. x \in Nat /\ y \in Nat /\ <<y, x>> \notin R
    BY <1>2
  <2>2. y < x => <<y, x>> \in R
    BY <2>1
  <2> QED BY <2>1, <2>2
<1> QED BY <1>3

\* The line that took a snapshot, if there is one.
LEMMA TakenLine ==
  ASSUME NEW lines, NEW n \in Nat \ {0}, NEW s, IsTaken(lines, n, s)
  PROVE  /\ Taken(lines, n, s) \in 1 .. n - 1
         /\ lines[Taken(lines, n, s)].op = "snapshot" /\ lines[Taken(lines, n, s)].of = s
<1> DEFINE at == {j \in 1..(n - 1) : lines[j].op = "snapshot" /\ lines[j].of = s}
           m == n - 1
<1>1. m \in Nat /\ at \in SUBSET (1 .. m) /\ at # {}
  BY DEF IsTaken
<1>2. Taken(lines, n, s) = CHOOSE k \in at : \A j \in at : j <= k
  BY DEF Taken
<1>3. \A j \in at : j \in 1 .. n - 1 /\ lines[j].op = "snapshot" /\ lines[j].of = s
  OBVIOUS
<1> HIDE DEF at, m
<1>4. Taken(lines, n, s) \in at
  BY <1>1, <1>2, LastOf
<1> QED BY <1>3, <1>4

\* Only the lines before count.
LEMMA TakenBefore ==
  ASSUME NEW lines, NEW more, NEW i \in Nat, NEW s,
         \A k \in 1 .. i - 1 : more[k] = lines[k]
  PROVE  Taken(more, i, s) = Taken(lines, i, s) /\ (IsTaken(more, i, s) <=> IsTaken(lines, i, s))
<1> DEFINE at == {j \in 1..(i - 1) : lines[j].op = "snapshot" /\ lines[j].of = s}
           now == {j \in 1..(i - 1) : more[j].op = "snapshot" /\ more[j].of = s}
<1>1. at = now
  OBVIOUS
<1>2. Taken(lines, i, s) = (CHOOSE j \in at : \A k \in at : k <= j)
  BY DEF Taken
<1>3. Taken(more, i, s) = (CHOOSE j \in now : \A k \in now : k <= j)
  BY DEF Taken
<1>4. (IsTaken(lines, i, s) <=> at # {}) /\ (IsTaken(more, i, s) <=> now # {})
  BY DEF IsTaken
<1> HIDE DEF at, now
<1> QED BY <1>1, <1>2, <1>3, <1>4

\* A line more is the last one that took its snapshot, or changes none.
LEMMA TakenAfter ==
  ASSUME NEW lines, NEW n \in Nat \ {0}, NEW s
  PROVE  /\ lines[n].op = "snapshot" /\ lines[n].of = s
              => IsTaken(lines, n + 1, s) /\ Taken(lines, n + 1, s) = n
         /\ ~(lines[n].op = "snapshot" /\ lines[n].of = s)
              => /\ Taken(lines, n + 1, s) = Taken(lines, n, s)
                 /\ IsTaken(lines, n + 1, s) <=> IsTaken(lines, n, s)
<1> DEFINE at == {j \in 1..(n - 1) : lines[j].op = "snapshot" /\ lines[j].of = s}
           now == {j \in 1..(n + 1 - 1) : lines[j].op = "snapshot" /\ lines[j].of = s}
<1>1. Taken(lines, n, s) = (CHOOSE j \in at : \A k \in at : k <= j)
  BY DEF Taken
<1>2. Taken(lines, n + 1, s) = (CHOOSE j \in now : \A k \in now : k <= j)
  BY DEF Taken
<1>3. (IsTaken(lines, n, s) <=> at # {}) /\ (IsTaken(lines, n + 1, s) <=> now # {})
  BY DEF IsTaken
<1>4. 1 .. (n + 1 - 1) = 1 .. (n - 1) \union {n}
  OBVIOUS
<1>5. CASE lines[n].op = "snapshot" /\ lines[n].of = s
  <2>1. n \in now /\ \A k \in now : k \in Nat /\ k <= n
    BY <1>4, <1>5
  <2> HIDE DEF now
  <2>2. \A j \in now : (\A k \in now : k <= j) => j = n
    BY <2>1
  <2>3. Taken(lines, n + 1, s) = n
    BY <1>2, <2>1, <2>2
  <2> QED BY <1>3, <1>5, <2>1, <2>3
<1>6. CASE ~(lines[n].op = "snapshot" /\ lines[n].of = s)
  <2>1. now = at
    BY <1>4, <1>6
  <2> HIDE DEF now, at
  <2> QED BY <1>1, <1>2, <1>3, <1>6, <2>1
<1> QED BY <1>5, <1>6

\* There is one replay at most.
LEMMA ReplayUnique ==
  ASSUME NEW lines, Len(lines) \in Nat,
         \A i \in 1 .. Len(lines) : lines[i].op = "rollback" => IsTaken(lines, i, lines[i].of),
         NEW f, IsReplay(lines, f), NEW g, IsReplay(lines, g)
  PROVE  f = g
<1> DEFINE n == Len(lines)
           D == {i \in 0 .. n : f[i] # g[i]}
<1>1. n \in Nat /\ D \in SUBSET Nat
  OBVIOUS
<1>2. \A i \in 0 .. n : f[i] = IF i = 0 THEN {}
                               ELSE CASE lines[i].op = "add"      -> f[i - 1] \union {lines[i].of}
                                      [] lines[i].op = "rollback" -> f[Taken(lines, i, lines[i].of)]
                                      [] OTHER                    -> f[i - 1]
  BY Zenon DEF IsReplay
<1>3. \A i \in 0 .. n : g[i] = IF i = 0 THEN {}
                               ELSE CASE lines[i].op = "add"      -> g[i - 1] \union {lines[i].of}
                                      [] lines[i].op = "rollback" -> g[Taken(lines, i, lines[i].of)]
                                      [] OTHER                    -> g[i - 1]
  BY Zenon DEF IsReplay
<1>4. f = [i \in 0 .. n |-> f[i]] /\ g = [i \in 0 .. n |-> g[i]]
  BY Zenon DEF IsReplay
<1>5. ASSUME D # {} PROVE FALSE
  <2>1. PICK i \in D : \A m \in D : i <= m
    BY <1>1, <1>5, LeastOf
  <2>2. i \in 0 .. n /\ f[i] # g[i] /\ \A k \in 0 .. i - 1 : f[k] = g[k]
    BY <1>1, <2>1
  <2>3. CASE i = 0
    BY <1>2, <1>3, <2>2, <2>3
  <2>4. CASE i # 0
    <3>1. i \in Nat \ {0} /\ i \in 1 .. n /\ i - 1 \in 0 .. i - 1
      BY <1>1, <2>2, <2>4
    <3>2. f[i - 1] = g[i - 1]
      BY <2>2, <3>1
    <3>3. lines[i].op = "rollback" => f[Taken(lines, i, lines[i].of)] = g[Taken(lines, i, lines[i].of)]
      <4> SUFFICES ASSUME lines[i].op = "rollback"
                   PROVE  f[Taken(lines, i, lines[i].of)] = g[Taken(lines, i, lines[i].of)]
        OBVIOUS
      <4>1. IsTaken(lines, i, lines[i].of)
        BY <3>1
      <4>2. Taken(lines, i, lines[i].of) \in 1 .. i - 1
        BY <3>1, <4>1, TakenLine
      <4>3. Taken(lines, i, lines[i].of) \in 0 .. i - 1
        BY <3>1, <4>2
      <4> QED BY <2>2, <4>3
    <3> HIDE DEF n
    <3> QED BY <1>2, <1>3, <2>2, <2>4, <3>2, <3>3
  <2> QED BY <2>3, <2>4
<1> HIDE DEF n
<1>6. \A i \in 0 .. n : f[i] = g[i]
  BY <1>5
<1> QED BY <1>4, <1>6

\* If there is one, it is Replayed.
LEMMA ReplayFound ==
  ASSUME NEW lines, NEW f, IsReplay(lines, f)
  PROVE  IsReplay(lines, Replayed(lines))
<1>1. Replayed(lines) = CHOOSE g : IsReplay(lines, g)
  BY DEF Replayed, IsReplay
<1> QED BY <1>1, Zenon

\* A line is added.
LEMMA ReplayLonger ==
  ASSUME NEW lines, NEW more, NEW n \in Nat, Len(lines) = n, Len(more) = n + 1,
         \A i \in 1 .. n : more[i] = lines[i],
         \A i \in 1 .. n + 1 : more[i].op = "rollback" => IsTaken(more, i, more[i].of),
         IsReplay(lines, Replayed(lines))
  PROVE  /\ IsReplay(more, Replayed(more))
         /\ \A i \in 0 .. n : Replayed(more)[i] = Replayed(lines)[i]
         /\ LastNames(more) = Resulting(lines, more[n + 1].op, more[n + 1].of)
<1> DEFINE f == Replayed(lines)
           last == more[n + 1]
           new == CASE last.op = "add"      -> f[n] \union {last.of}
                    [] last.op = "rollback" -> f[Taken(more, n + 1, last.of)]
                    [] OTHER                -> f[n]
           g == [i \in 0 .. n + 1 |-> IF i = n + 1 THEN new ELSE f[i]]
<1>1. \A i \in 0 .. n : f[i] = IF i = 0 THEN {}
                               ELSE CASE lines[i].op = "add"      -> f[i - 1] \union {lines[i].of}
                                      [] lines[i].op = "rollback" -> f[Taken(lines, i, lines[i].of)]
                                      [] OTHER                    -> f[i - 1]
  BY Zenon DEF IsReplay, f
<1> HIDE DEF f, new
<1>2. \A i \in 0 .. n : g[i] = f[i]
  OBVIOUS
<1>3. g[n + 1] = new
  OBVIOUS
<1>4. g = [i \in 0 .. n + 1 |-> g[i]]
  OBVIOUS
<1>5. \A i \in 1 .. n + 1 : more[i].op = "rollback" => Taken(more, i, more[i].of) \in 0 .. n
  <2> SUFFICES ASSUME NEW i \in 1 .. n + 1, more[i].op = "rollback"
               PROVE  Taken(more, i, more[i].of) \in 0 .. n
    OBVIOUS
  <2>1. i \in Nat \ {0} /\ IsTaken(more, i, more[i].of)
    OBVIOUS
  <2>2. Taken(more, i, more[i].of) \in 1 .. i - 1
    BY <2>1, TakenLine
  <2> QED BY <2>2
<1> HIDE DEF g
<1>6. ASSUME NEW i \in 0 .. n + 1
      PROVE  g[i] = IF i = 0 THEN {}
                    ELSE CASE more[i].op = "add"      -> g[i - 1] \union {more[i].of}
                           [] more[i].op = "rollback" -> g[Taken(more, i, more[i].of)]
                           [] OTHER                   -> g[i - 1]
  <2>1. CASE i = 0
    <3>1. 0 \in 0 .. n
      OBVIOUS
    <3>2. f[0] = {}
      BY <1>1, <3>1
    <3> QED BY <1>2, <2>1, <3>1, <3>2
  <2>2. CASE i \in 1 .. n
    <3>1. i - 1 \in 0 .. n /\ i \in 0 .. n /\ i # 0 /\ i \in Nat /\ \A k \in 1 .. i - 1 : more[k] = lines[k]
      BY <2>2
    <3>2. more[i] = lines[i] /\ Taken(more, i, more[i].of) = Taken(lines, i, lines[i].of)
      BY <2>2, <3>1, TakenBefore
    <3>3. more[i].op = "rollback" => g[Taken(more, i, more[i].of)] = f[Taken(more, i, more[i].of)]
      <4>1. i \in 1 .. n + 1
        BY <2>2
      <4>2. more[i].op = "rollback" => Taken(more, i, more[i].of) \in 0 .. n
        BY <1>5, <4>1
      <4> QED BY <1>2, <4>2
    <3>4. g[i] = f[i] /\ g[i - 1] = f[i - 1]
      BY <1>2, <3>1
    <3> QED BY <1>1, <3>1, <3>2, <3>3, <3>4
  <2>3. CASE i = n + 1
    <3>1. g[n] = f[n] /\ i # 0 /\ i - 1 = n
      BY <1>2, <2>3
    <3>2. last.op = "rollback" => g[Taken(more, i, last.of)] = f[Taken(more, i, last.of)]
      <4>1. n + 1 \in 1 .. n + 1
        OBVIOUS
      <4>2. last.op = "rollback" => Taken(more, n + 1, last.of) \in 0 .. n
        BY <1>5, <4>1
      <4> QED BY <1>2, <2>3, <4>2
    <3>3. more[i] = last /\ g[i] = new
      BY <1>3, <2>3
    <3>4. new = CASE last.op = "add"      -> f[n] \union {last.of}
                  [] last.op = "rollback" -> f[Taken(more, i, last.of)]
                  [] OTHER                -> f[n]
      BY <2>3 DEF new
    <3> HIDE DEF last, new
    <3> QED BY <3>1, <3>2, <3>3, <3>4
  <2> QED BY <2>1, <2>2, <2>3
<1>7. IsReplay(more, g)
  BY <1>4, <1>6, Zenon DEF IsReplay
<1>8. IsReplay(more, Replayed(more))
  BY <1>7, ReplayFound
<1>9. Replayed(more) = g
  <2>1. Len(more) \in Nat /\ \A i \in 1 .. Len(more) : more[i].op = "rollback" => IsTaken(more, i, more[i].of)
    OBVIOUS
  <2> QED BY <1>7, <1>8, <2>1, ReplayUnique
<1>10. LastNames(more) = Resulting(lines, last.op, last.of)
  <2>1. LastNames(more) = new
    BY <1>3, <1>9 DEF LastNames
  <2>2. LastNames(lines) = f[n]
    BY DEF LastNames, f
  <2>3. Taken(more, n + 1, last.of) = SnapLine(lines, last.of)
    <3>1. n + 1 \in Nat /\ \A k \in 1 .. n + 1 - 1 : more[k] = lines[k]
      OBVIOUS
    <3> QED BY <3>1, TakenBefore DEF SnapLine
  <2> QED BY <2>1, <2>2, <2>3 DEF Resulting, new, f
<1> QED BY <1>2, <1>8, <1>9, <1>10 DEF f

\* A line that continues the right one keeps the ledger sound, and the snapshots.
Continued(lines, line, more) ==
  /\ LinesSound(lines) /\ Len(lines) \in Nat /\ Len(more) = Len(lines) + 1
  /\ more[Len(lines) + 1] = line /\ \A i \in 1 .. Len(lines) : more[i] = lines[i]
  /\ line.id \in Nat \ {0} /\ line.prev \in Nat
  /\ line.op = "rollback" => IsTaken(lines, Len(lines) + 1, line.of)
  /\ line.prev = IF line.op = "rollback" THEN lines[SnapLine(lines, line.of)].prev ELSE LastHash(lines)

LEMMA LineAdded ==
  ASSUME NEW lines, NEW line, NEW more, Continued(lines, line, more)
  PROVE  /\ LinesSound(more) /\ LastHash(more) = line.id
         /\ LastNames(more) = Resulting(lines, line.op, line.of)
         /\ \A copy, s : ~(line.op = "snapshot" /\ line.of = s) /\ SnapSound(lines, copy, s)
                           => SnapSound(more, copy, s)
         /\ \A copy, s : /\ line.op = "snapshot" /\ line.of = s
                         /\ copy.lock.kind # "missing" /\ copy.state = line.prev
                         /\ copy.lock.kind = "map" => copy.lock.names = LastNames(lines)
                         => SnapSound(more, copy, s)
<1> DEFINE n == Len(lines)
<1>0. /\ n \in Nat /\ Len(lines) = n /\ Len(more) = n + 1
      /\ \A i \in 1 .. n : more[i] = lines[i]
      /\ more[n + 1] = line
      /\ LinesSound(lines) /\ line.id \in Nat \ {0} /\ line.prev \in Nat
      /\ line.op = "rollback" => IsTaken(lines, n + 1, line.of)
      /\ line.prev = IF line.op = "rollback" THEN lines[SnapLine(lines, line.of)].prev ELSE LastHash(lines)
  BY Zenon DEF Continued
<1> HIDE DEF n
<1> USE <1>0
<1>1. \A i \in 1 .. n : /\ lines[i].id \in Nat \ {0} /\ lines[i].prev \in Nat
                        /\ lines[i].op = "rollback" => IsTaken(lines, i, lines[i].of)
                        /\ lines[i].prev = IF lines[i].op = "rollback" THEN lines[Taken(lines, i, lines[i].of)].prev
                                           ELSE IF i = 1 THEN None ELSE lines[i - 1].id
  BY DEF LinesSound
<1>2. ASSUME NEW i \in 1 .. n + 1, NEW s
      PROVE  Taken(more, i, s) = Taken(lines, i, s) /\ (IsTaken(more, i, s) <=> IsTaken(lines, i, s))
  <2>1. i \in Nat /\ \A k \in 1 .. i - 1 : more[k] = lines[k]
    OBVIOUS
  <2> QED BY <2>1, TakenBefore
<1>3. ASSUME NEW i \in 1 .. n + 1, NEW s, IsTaken(lines, i, s)
      PROVE  Taken(lines, i, s) \in 1 .. n /\ more[Taken(lines, i, s)] = lines[Taken(lines, i, s)]
  <2>1. i \in Nat \ {0}
    OBVIOUS
  <2>2. Taken(lines, i, s) \in 1 .. i - 1
    BY <2>1, <1>3, TakenLine
  <2> QED BY <2>2
<1>4. ASSUME NEW i \in 1 .. n + 1
      PROVE  /\ more[i].id \in Nat \ {0} /\ more[i].prev \in Nat
             /\ more[i].op = "rollback" => IsTaken(more, i, more[i].of)
             /\ more[i].prev = IF more[i].op = "rollback" THEN more[Taken(more, i, more[i].of)].prev
                               ELSE IF i = 1 THEN None ELSE more[i - 1].id
  <2>1. CASE i \in 1 .. n
    <3>1. more[i] = lines[i] /\ i \in 1 .. n
      BY <2>1
    <3>2. i # 1 => more[i - 1] = lines[i - 1]
      BY <2>1
    <3> QED BY <1>1, <1>2, <1>3, <3>1, <3>2
  <2>2. CASE i = n + 1
    <3>1. more[i] = line /\ (i = 1 <=> n = 0) /\ i - 1 = n /\ (n # 0 => n \in 1 .. n)
      BY <2>2
    <3>2. LastHash(lines) = IF i = 1 THEN None ELSE more[i - 1].id
      BY <3>1 DEF LastHash
    <3>3. SnapLine(lines, line.of) = Taken(lines, i, line.of)
      BY <2>2 DEF SnapLine
    <3>4. line.op = "rollback" => IsTaken(lines, i, line.of)
      BY <2>2
    <3> QED BY <1>2, <1>3, <3>1, <3>2, <3>3, <3>4
  <2> QED BY <2>1, <2>2
<1>5. /\ IsReplay(more, Replayed(more))
      /\ \A i \in 0 .. n : Replayed(more)[i] = Replayed(lines)[i]
      /\ LastNames(more) = Resulting(lines, more[n + 1].op, more[n + 1].of)
  <2>1. IsReplay(lines, Replayed(lines))
    BY DEF LinesSound
  <2>2. \A i \in 1 .. n + 1 : more[i].op = "rollback" => IsTaken(more, i, more[i].of)
    BY <1>4
  <2> QED BY <2>1, <2>2, ReplayLonger
<1>6. LinesSound(more) /\ LastHash(more) = line.id
  BY <1>4, <1>5 DEF LinesSound, LastHash
<1>7. ASSUME NEW s
      PROVE  /\ line.op = "snapshot" /\ line.of = s
                  => IsTaken(more, n + 1 + 1, s) /\ SnapLine(more, s) = n + 1
             /\ ~(line.op = "snapshot" /\ line.of = s)
                  => /\ SnapLine(more, s) = SnapLine(lines, s)
                     /\ IsTaken(more, n + 1 + 1, s) <=> IsTaken(lines, n + 1, s)
  <2>1. n + 1 \in Nat \ {0} /\ n + 1 \in 1 .. n + 1
    OBVIOUS
  <2>2. /\ more[n + 1].op = "snapshot" /\ more[n + 1].of = s
             => IsTaken(more, n + 1 + 1, s) /\ Taken(more, n + 1 + 1, s) = n + 1
        /\ ~(more[n + 1].op = "snapshot" /\ more[n + 1].of = s)
             => /\ Taken(more, n + 1 + 1, s) = Taken(more, n + 1, s)
                /\ IsTaken(more, n + 1 + 1, s) <=> IsTaken(more, n + 1, s)
    BY <2>1, TakenAfter
  <2>3. Taken(more, n + 1, s) = Taken(lines, n + 1, s) /\ (IsTaken(more, n + 1, s) <=> IsTaken(lines, n + 1, s))
    BY <1>2, <2>1
  <2> QED BY <2>2, <2>3 DEF SnapLine
<1>8. ASSUME NEW copy, NEW s, ~(line.op = "snapshot" /\ line.of = s), SnapSound(lines, copy, s)
      PROVE  SnapSound(more, copy, s)
  <2> SUFFICES ASSUME copy.lock # NoLock
               PROVE  /\ copy.lock.kind # "missing" /\ IsTaken(more, n + 1 + 1, s)
                      /\ copy.state = more[SnapLine(more, s)].prev
                      /\ copy.lock.kind = "map" => copy.lock.names = Replayed(more)[SnapLine(more, s)]
    BY DEF SnapSound
  <2>1. /\ copy.lock.kind # "missing" /\ IsTaken(lines, n + 1, s)
        /\ copy.state = lines[SnapLine(lines, s)].prev
        /\ copy.lock.kind = "map" => copy.lock.names = Replayed(lines)[SnapLine(lines, s)]
    BY <1>8 DEF SnapSound
  <2>2. SnapLine(more, s) = SnapLine(lines, s) /\ IsTaken(more, n + 1 + 1, s)
    BY <1>7, <1>8, <2>1
  <2>3. SnapLine(lines, s) \in 1 .. n /\ more[SnapLine(lines, s)] = lines[SnapLine(lines, s)]
    <3>1. n + 1 \in 1 .. n + 1
      OBVIOUS
    <3>2. Taken(lines, n + 1, s) \in 1 .. n /\ more[Taken(lines, n + 1, s)] = lines[Taken(lines, n + 1, s)]
      BY <1>3, <2>1, <3>1
    <3> QED BY <3>2 DEF SnapLine
  <2>4. SnapLine(lines, s) \in 0 .. n
    BY <2>3
  <2> QED BY <1>5, <2>1, <2>2, <2>3, <2>4
<1>9. ASSUME NEW copy, NEW s, line.op = "snapshot", line.of = s,
             copy.lock.kind # "missing", copy.state = line.prev,
             copy.lock.kind = "map" => copy.lock.names = LastNames(lines)
      PROVE  SnapSound(more, copy, s)
  <2>1. SnapLine(more, s) = n + 1 /\ IsTaken(more, n + 1 + 1, s)
    BY <1>7, <1>9
  <2>2. Replayed(more)[n + 1] = LastNames(lines)
    BY <1>5, <1>9 DEF LastNames, Resulting
  <2> QED BY <1>9, <2>1, <2>2 DEF SnapSound
<1> QED BY <1>5, <1>6, <1>8, <1>9

-----------------------------------------------------------------------------
(* A command between two steps.                                            *)

\* The length of what is to do, and what is left after the first step.
LEMMA TodoTail ==
  ASSUME NEW t \in Todo, t # <<>>
  PROVE  /\ Len(t) \in Nat \ {0} /\ Head(t) = t[1] /\ Tail(t) \in Todo /\ Len(Tail(t)) = Len(t) - 1
         /\ \A k \in 1 .. Len(t) - 1 : Tail(t)[k] = t[k + 1]
         /\ Tail(t) = <<>> <=> Len(t) = 1
<1>1. /\ Len(t) \in Nat \ {0} /\ Head(t) = t[1] /\ Tail(t) \in Todo /\ Len(Tail(t)) = Len(t) - 1
      /\ \A k \in 1 .. Len(t) - 1 : Tail(t)[k] = t[k + 1]
  BY EmptySeq DEF Todo
<1>2. (Tail(t) = << >>) <=> Len(t) = 1
  BY <1>1, EmptySeq DEF Todo
<1> QED BY <1>1, <1>2

\* What is left has a step if what was to do has it, other than the first.
LEMMA HasTail ==
  ASSUME NEW t \in Todo, t # <<>>, NEW dos
  PROVE  /\ t[1].do \notin dos => (Has(Tail(t), dos) <=> Has(t, dos))
         /\ Has(Tail(t), dos) <=> \E k \in 2 .. Len(t) : t[k].do \in dos
<1> DEFINE u == Tail(t)
           n == Len(t)
<1>1. n \in Nat \ {0} /\ Len(u) = n - 1 /\ \A k \in 1 .. n - 1 : u[k] = t[k + 1]
  BY TodoTail
<1> HIDE DEF u, n
<1>2. ASSUME NEW k \in 1 .. n - 1, u[k].do \in dos PROVE \E j \in 2 .. n : t[j].do \in dos
  <2>1. k + 1 \in 2 .. n /\ t[k + 1].do \in dos
    BY <1>1, <1>2
  <2> QED BY <2>1
<1>3. ASSUME NEW k \in 2 .. n, t[k].do \in dos PROVE \E j \in 1 .. n - 1 : u[j].do \in dos
  <2>1. k - 1 \in 1 .. n - 1 /\ k - 1 + 1 = k
    BY <1>1
  <2>2. u[k - 1] = t[k]
    BY <1>1, <2>1
  <2> QED BY <1>3, <2>1, <2>2
<1>4. Has(u, dos) <=> \E k \in 2 .. n : t[k].do \in dos
  BY <1>1, <1>2, <1>3 DEF Has
<1>5. 1 .. n = {1} \union 2 .. n
  BY <1>1
<1>6. t[1].do \notin dos => (Has(u, dos) <=> Has(t, dos))
  BY <1>4, <1>5 DEF Has, n
<1> QED BY <1>4, <1>6 DEF u, n

\* After a step.
LEMMA ShapedTail ==
  ASSUME NEW op, NEW of, NEW t \in Todo, t # <<>>, Shaped(op, of, t)
  PROVE  /\ Shaped(op, of, Tail(t)) /\ Belongs(op, t[1].do)
         /\ op \in Special /\ t[1].do \notin {"open_lock", "fill_lock"} => t[1].of = of
         /\ IF Tail(t) = <<>> THEN t[1].do \in {"fill_state", "upload_next"}
            ELSE Follows(op, t[1].do, Tail(t)[1].do)
<1> DEFINE u == Tail(t)
           n == Len(t)
<1>1. n \in Nat \ {0} /\ Len(u) = n - 1 /\ u \in Todo
      /\ \A k \in 1 .. n - 1 : u[k] = t[k + 1]
  BY TodoTail
<1>2. (u = << >>) <=> n = 1
  BY TodoTail
<1>3. /\ \A k \in 1 .. n - 1 : Follows(op, t[k].do, t[k + 1].do)
      /\ t[n].do \in {"fill_state", "upload_next"}
      /\ \A k \in 1 .. n : Belongs(op, t[k].do)
  BY DEF Shaped
<1>4. op \in Special =>
        /\ \A k \in 1 .. n : t[k].do \notin {"open_lock", "fill_lock"} => t[k].of = of
        /\ \A j, k \in 1 .. n : t[j].do \in Effect /\ t[k].do \in Effect => j = k
        /\ \A j, k \in 1 .. n : t[j].do = "append_line" /\ t[k].do = "append_line" => j = k
        /\ \A j \in 1 .. n : t[j].do \in Effect => \E k \in 1 .. n : j < k /\ t[k].do = "append_line"
  BY Zenon DEF Shaped, n
<1> HIDE DEF u, n
<1>5. \A k \in 1 .. n - 1 : k + 1 \in 1 .. n
  BY <1>1
<1>6. \A k \in 1 .. n - 1 - 1 : k \in 1 .. n - 1 /\ k + 1 \in 1 .. n - 1
  BY <1>1
<1>7. \A k \in 1 .. n - 1 - 1 : Follows(op, u[k].do, u[k + 1].do)
  <2> TAKE k \in 1 .. n - 1 - 1
  <2>1. u[k] = t[k + 1] /\ u[k + 1] = t[k + 1 + 1] /\ k + 1 \in 1 .. n - 1
    BY <1>1, <1>6
  <2>2. Follows(op, t[k + 1].do, t[k + 1 + 1].do)
    BY <1>3, <2>1
  <2> QED BY <2>1, <2>2
<1>8. u # <<>> => u[n - 1].do \in {"fill_state", "upload_next"}
  <2>1. u # <<>> => n - 1 \in 1 .. n - 1 /\ n - 1 + 1 = n
    BY <1>1, <1>2
  <2>2. u # <<>> => u[n - 1] = t[n - 1 + 1]
    BY <1>1, <2>1
  <2> QED BY <1>3, <2>1, <2>2
<1>9. \A k \in 1 .. n - 1 : Belongs(op, u[k].do)
  BY <1>1, <1>3, <1>5
<1>10. ASSUME op \in Special
       PROVE  /\ \A k \in 1 .. n - 1 : u[k].do \notin {"open_lock", "fill_lock"} => u[k].of = of
              /\ \A j, k \in 1 .. n - 1 : u[j].do \in Effect /\ u[k].do \in Effect => j = k
              /\ \A j, k \in 1 .. n - 1 : u[j].do = "append_line" /\ u[k].do = "append_line" => j = k
              /\ \A j \in 1 .. n - 1 : u[j].do \in Effect => \E k \in 1 .. n - 1 : j < k /\ u[k].do = "append_line"
  <2>1. \A k \in 1 .. n - 1 : u[k].do \notin {"open_lock", "fill_lock"} => u[k].of = of
    BY <1>1, <1>4, <1>5, <1>10
  <2>2. ASSUME NEW j \in 1 .. n - 1, NEW k \in 1 .. n - 1
        PROVE  /\ u[j].do \in Effect /\ u[k].do \in Effect => j = k
               /\ u[j].do = "append_line" /\ u[k].do = "append_line" => j = k
    <3>1. u[j] = t[j + 1] /\ u[k] = t[k + 1] /\ j + 1 \in 1 .. n /\ k + 1 \in 1 .. n
      BY <1>1, <1>5
    <3>2. j + 1 = k + 1 => j = k
      OBVIOUS
    <3> QED BY <1>4, <1>10, <3>1, <3>2
  <2>3. ASSUME NEW j \in 1 .. n - 1, u[j].do \in Effect
        PROVE  \E k \in 1 .. n - 1 : j < k /\ u[k].do = "append_line"
    <3>1. u[j] = t[j + 1] /\ j + 1 \in 1 .. n
      BY <1>1, <1>5
    <3>2. PICK k \in 1 .. n : j + 1 < k /\ t[k].do = "append_line"
      BY <1>4, <1>10, <2>3, <3>1
    <3>3. k - 1 \in 1 .. n - 1 /\ j < k - 1 /\ k - 1 + 1 = k
      BY <1>1, <3>2
    <3>4. u[k - 1] = t[k - 1 + 1]
      BY <1>1, <3>3
    <3> QED BY <3>2, <3>3, <3>4
  <2> QED BY <2>1, <2>2, <2>3
<1>11. Shaped(op, of, u)
  BY <1>1, <1>7, <1>8, <1>9, <1>10, Zenon DEF Shaped
<1>12. 1 \in 1 .. n /\ Belongs(op, t[1].do)
  BY <1>1, <1>3
<1>13. op \in Special /\ t[1].do \notin {"open_lock", "fill_lock"} => t[1].of = of
  BY <1>4, <1>12
<1>14. IF u = <<>> THEN t[1].do \in {"fill_state", "upload_next"} ELSE Follows(op, t[1].do, u[1].do)
  <2>1. CASE u = <<>>
    BY <1>2, <1>3, <2>1
  <2>2. CASE u # <<>>
    <3>1. 1 \in 1 .. n - 1 /\ 1 + 1 = 2
      BY <1>1, <1>2, <2>2
    <3>2. u[1] = t[1 + 1] /\ Follows(op, t[1].do, t[1 + 1].do)
      BY <1>1, <1>3, <3>1
    <3> QED BY <2>2, <3>2
  <2> QED BY <2>1, <2>2
<1> QED BY <1>11, <1>12, <1>13, <1>14 DEF u

\* Only adding a package and rolling back change what the lock holds.
LEMMA PlainResult ==
  ASSUME NEW lines, NEW op, op \notin {"add", "rollback"}, NEW of
  PROVE  Resulting(lines, op, of) = LastNames(lines)
BY DEF Resulting

LEMMA WantedTail ==
  ASSUME NEW op, NEW of, NEW t \in Todo, t # <<>>, Shaped(op, of, t), NEW lines
  PROVE  /\ t[1].do \notin Effect \union {"append_line"} =>
              Wanted(lines, op, of, Tail(t)) = Wanted(lines, op, of, t)
         /\ t[1].do \in Effect => /\ Wanted(lines, op, of, t) = LastNames(lines)
                                  /\ Wanted(lines, op, of, Tail(t)) = Resulting(lines, op, of)
         /\ t[1].do = "append_line" => /\ Wanted(lines, op, of, t) = Resulting(lines, op, of)
                                       /\ Wanted(lines, op, of, Tail(t)) = LastNames(lines)
         /\ t[1].do \in {"ensure_lock", "find_snapshot", "upload", "upload_next"} \/ Tail(t) = <<>> =>
              Wanted(lines, op, of, t) = LastNames(lines)
         /\ t[1].do # "read_lock" => (Has(Tail(t), {"read_lock"}) <=> Has(t, {"read_lock"}))
<1> DEFINE u == Tail(t)
           n == Len(t)
           here == t[1].do
<1>1. n \in Nat \ {0} /\ Len(u) = n - 1 /\ u \in Todo /\ (u = <<>> <=> n = 1) /\ Head(t) = t[1]
  BY TodoTail
<1>2. \A dos : here \notin dos => (Has(u, dos) <=> Has(t, dos))
  BY HasTail
<1>3. \A dos : Has(u, dos) <=> \E k \in 2 .. n : t[k].do \in dos
  BY HasTail
<1>4. /\ Belongs(op, here) /\ Shaped(op, of, u)
      /\ IF u = <<>> THEN here \in {"fill_state", "upload_next"} ELSE Follows(op, here, u[1].do)
  BY ShapedTail
<1>5. here \in Effect => Has(t, Effect)
  BY <1>1 DEF Has
<1>6. op \in Special =>
        /\ \A j, k \in 1 .. n : t[j].do \in Effect /\ t[k].do \in Effect => j = k
        /\ \A j, k \in 1 .. n : t[j].do = "append_line" /\ t[k].do = "append_line" => j = k
        /\ \A j \in 1 .. n : t[j].do \in Effect => \E k \in 1 .. n : j < k /\ t[k].do = "append_line"
  BY Zenon DEF Shaped, n
<1>7. op \notin Special => Resulting(lines, op, of) = LastNames(lines)
  BY PlainResult DEF Special
<1> HIDE DEF u, n, here
<1>8. here \notin Effect \union {"append_line"} => Wanted(lines, op, of, u) = Wanted(lines, op, of, t)
  <2>1. here \notin Effect \union {"append_line"} => here \notin Effect /\ here \notin {"append_line"}
    OBVIOUS
  <2> QED BY <1>2, <2>1 DEF Wanted
<1>9. ASSUME here \in Effect
      PROVE  /\ Wanted(lines, op, of, t) = LastNames(lines)
             /\ Wanted(lines, op, of, u) = Resulting(lines, op, of)
  <2>1. op \in Special
    BY <1>4, <1>9 DEF Effect, Belongs, Special
  <2>2. 1 \in 1 .. n /\ t[1].do \in Effect
    BY <1>1, <1>9 DEF here
  <2>3. PICK k \in 1 .. n : 1 < k /\ t[k].do = "append_line"
    BY <1>6, <2>1, <2>2
  <2>4. k \in 2 .. n
    BY <1>1, <2>3
  <2>5. Has(u, {"append_line"})
    BY <1>3, <2>3, <2>4
  <2>6. \A j \in 2 .. n : j \in 1 .. n /\ j # 1
    BY <1>1
  <2>7. ~Has(u, Effect)
    BY <1>3, <1>6, <2>1, <2>2, <2>6
  <2> QED BY <1>5, <1>9, <2>5, <2>7 DEF Wanted
<1>10. ASSUME here = "append_line"
       PROVE  /\ Wanted(lines, op, of, t) = Resulting(lines, op, of)
              /\ Wanted(lines, op, of, u) = LastNames(lines)
  <2>1. CASE op \in Special
    <3>1. 1 \in 1 .. n /\ t[1].do = "append_line"
      BY <1>1, <1>10 DEF here
    <3>2. \A j \in 2 .. n : j \in 1 .. n /\ j # 1
      BY <1>1
    <3>3. ~Has(u, {"append_line"})
      BY <1>3, <1>6, <2>1, <3>1, <3>2
    <3>4. ASSUME NEW j \in 1 .. n, t[j].do \in Effect PROVE FALSE
      <4>1. PICK k \in 1 .. n : j < k /\ t[k].do = "append_line"
        BY <1>6, <2>1, <3>4
      <4>2. k = 1
        BY <1>6, <2>1, <3>1, <4>1
      <4> QED BY <1>1, <4>1, <4>2
    <3>5. ~Has(t, Effect) /\ Has(t, {"append_line"})
      BY <3>1, <3>4 DEF Has, n
    <3> QED BY <3>3, <3>5 DEF Wanted
  <2>2. CASE op \notin Special
    BY <1>7, <2>2 DEF Wanted
  <2> QED BY <2>1, <2>2
<1>11. u = <<>> => Wanted(lines, op, of, t) = LastNames(lines)
  <2>1. u = <<>> => here # "append_line" /\ n = 1
    BY <1>1, <1>4
  <2>2. ASSUME u = <<>> PROVE ~Has(t, {"append_line"})
    <3>1. \A k \in 1 .. n : t[k].do = here
      BY <2>1, <2>2 DEF here
    <3> QED BY <2>1, <2>2, <3>1 DEF Has, n
  <2> QED BY <2>2 DEF Wanted
<1>12. here \in {"upload", "upload_next"} => Wanted(lines, op, of, t) = LastNames(lines)
  BY <1>4, <1>7 DEF Wanted, Belongs, Special
<1>13. ASSUME NEW w, w \in Todo, w # <<>>, w[1].do \in Effect
       PROVE  Has(w, Effect)
  <2>1. Len(w) \in Nat \ {0}
    BY <1>13, TodoTail
  <2> QED BY <1>13, <2>1 DEF Has
<1>14. ASSUME NEW w, w \in Todo, w # <<>>, Shaped(op, of, w), w[1].do = "find_snapshot"
       PROVE  Has(w, Effect)
  <2>1. /\ Tail(w) # <<>> /\ Follows(op, w[1].do, Tail(w)[1].do) /\ Tail(w) \in Todo
        /\ Shaped(op, of, Tail(w))
    BY <1>14, ShapedTail, TodoTail
  <2>2. Tail(w)[1].do = "empty_lock"
    BY <1>14, <2>1 DEF Follows
  <2>3. Tail(Tail(w)) # <<>> /\ Follows(op, "empty_lock", Tail(Tail(w))[1].do) /\ Tail(Tail(w)) \in Todo
    BY <2>1, <2>2, ShapedTail, TodoTail
  <2>4. Tail(Tail(w))[1].do \in Effect
    BY <2>3 DEF Follows, Effect
  <2>5. Has(Tail(Tail(w)), Effect)
    BY <1>13, <2>3, <2>4
  <2>6. w[1].do \notin Effect /\ Tail(w)[1].do \notin Effect
    BY <1>14, <2>2 DEF Effect
  <2> QED BY <1>14, <2>1, <2>5, <2>6, HasTail
<1>15. here = "find_snapshot" => Wanted(lines, op, of, t) = LastNames(lines)
  <2>1. here = "find_snapshot" => Has(t, Effect)
    BY <1>14 DEF here
  <2> QED BY <2>1 DEF Wanted
<1>16. ASSUME here = "ensure_lock" PROVE Wanted(lines, op, of, t) = LastNames(lines)
  <2>1. u # <<>> /\ u[1].do = FirstOf(op)
    BY <1>4, <1>16 DEF Follows
  <2>2. CASE op \notin {"add", "rollback"}
    BY <2>2, PlainResult DEF Wanted
  <2>3. CASE op \in {"add", "rollback"}
    <3>1. Has(u, Effect)
      <4>1. CASE op = "add"
        BY <1>1, <1>13, <2>1, <4>1 DEF FirstOf, Effect
      <4>2. CASE op = "rollback"
        BY <1>1, <1>4, <1>14, <2>1, <4>2 DEF FirstOf
      <4> QED BY <2>3, <4>1, <4>2
    <3>2. here \notin Effect
      BY <1>16 DEF Effect
    <3> QED BY <1>2, <3>1, <3>2 DEF Wanted
  <2> QED BY <2>2, <2>3
<1>17. here # "read_lock" => (Has(u, {"read_lock"}) <=> Has(t, {"read_lock"}))
  BY <1>2
<1> QED BY <1>8, <1>9, <1>10, <1>11, <1>12, <1>15, <1>16, <1>17 DEF u, here

\* Two steps that open and fill a file are put before the rest.
Prepended(op, of, w, x, a, b, u) ==
  /\ (a = "open_state" /\ b = "fill_state") \/ (a = "open_lock" /\ b = "fill_lock")
  /\ w \in Todo /\ w # <<>> /\ Shaped(op, of, w) /\ x \in Subjects
  /\ Follows(op, b, w[1].do) /\ (op \in Special /\ a = "open_state" => x = of)
  /\ u = Steps(<<a, b>>, x) \o w

LEMMA ShapedFront ==
  ASSUME NEW op, NEW of, NEW w, NEW x, NEW a, NEW b, NEW u, Prepended(op, of, w, x, a, b, u)
  PROVE  /\ Shaped(op, of, u) /\ u # <<>> /\ u[1].do = a
         /\ \A dos : a \notin dos /\ b \notin dos => (Has(u, dos) <=> Has(w, dos))
<1> DEFINE front == Steps(<<a, b>>, x)
           n == Len(w)
<1>0. /\ (a = "open_state" /\ b = "fill_state") \/ (a = "open_lock" /\ b = "fill_lock")
      /\ w \in Todo /\ w # <<>> /\ Shaped(op, of, w) /\ x \in Subjects
      /\ Follows(op, b, w[1].do) /\ (op \in Special /\ a = "open_state" => x = of)
      /\ u = Steps(<<a, b>>, x) \o w
  BY Zenon DEF Prepended
<1> USE <1>0
<1>1. front = <<Step(a, x), Step(b, x)>>
  BY DEF Steps
<1>2. /\ Step(a, x) \in Move /\ Step(b, x) \in Move /\ Step(a, x).do = a /\ Step(b, x).do = b
      /\ Step(a, x).of = x /\ Step(b, x).of = x
  BY DEF Step, Move, Plain
<1>3. /\ front \in Todo /\ Len(front) = 2 /\ front[1].do = a /\ front[2].do = b
      /\ front[1].of = x /\ front[2].of = x
  <2> DEFINE y == Step(a, x)
             z == Step(b, x)
  <2>1. front = <<y, z>> /\ y \in Move /\ z \in Move /\ y.do = a /\ z.do = b /\ y.of = x /\ z.of = x
    BY <1>1, <1>2
  <2> HIDE DEF y, z
  <2>2. <<y, z>> \in Seq(Move) /\ Len(<<y, z>>) = 2
    BY <2>1
  <2>3. <<y, z>>[1] = y /\ <<y, z>>[2] = z
    OBVIOUS
  <2>4. front[1] = y /\ front[2] = z
    BY <2>1, <2>3, Zenon
  <2>5. front \in Todo /\ Len(front) = 2
    BY <2>1, <2>2, Zenon DEF Todo
  <2> QED BY <2>1, <2>4, <2>5
<1> HIDE DEF front
<1>4. /\ n \in Nat \ {0} /\ Len(u) = n + 2 /\ u \in Todo
      /\ \A k \in 1 .. Len(u) : u[k] = IF k <= 2 THEN front[k] ELSE w[k - 2]
  <2>1. /\ front \o w \in Seq(Move) /\ Len(front) \in Nat /\ Len(w) \in Nat
        /\ Len(front \o w) = Len(front) + Len(w)
        /\ \A k \in 1 .. Len(front) + Len(w) :
             (front \o w)[k] = IF k <= Len(front) THEN front[k] ELSE w[k - Len(front)]
    BY <1>3, Joined DEF Todo
  <2>2. u = front \o w
    BY DEF front
  <2>3. n \in Nat \ {0}
    BY TodoTail
  <2>4. /\ u \in Seq(Move) /\ Len(u) = Len(front) + Len(w)
        /\ \A k \in 1 .. Len(front) + Len(w) : u[k] = IF k <= Len(front) THEN front[k] ELSE w[k - Len(front)]
    BY <2>1, <2>2, Zenon
  <2>5. Len(front) + Len(w) = n + 2
    BY <1>3, <2>3
  <2> QED BY <1>3, <2>3, <2>4, <2>5 DEF Todo
<1> HIDE DEF n
<1>a. \A k \in 1 .. n + 2 : u[k] = IF k <= 2 THEN front[k] ELSE w[k - 2]
  BY <1>4
<1>5. u[1].do = a /\ u[2].do = b /\ u[1].of = x /\ u[2].of = x
  <2>1. 1 \in 1 .. n + 2 /\ 2 \in 1 .. n + 2 /\ 1 <= 2 /\ 2 <= 2
    BY <1>4
  <2>2. u[1] = front[1] /\ u[2] = front[2]
    BY <1>a, <2>1
  <2> QED BY <1>3, <2>2
<1>7. \A k \in 3 .. n + 2 : k - 2 \in 1 .. n /\ u[k] = w[k - 2]
  <2> TAKE k \in 3 .. n + 2
  <2>1. k \in 1 .. n + 2 /\ ~(k <= 2) /\ k - 2 \in 1 .. n
    BY <1>4
  <2> QED BY <1>a, <2>1
<1>6. \A k \in 1 .. n : k + 2 \in 1 .. n + 2 /\ u[k + 2] = w[k]
  <2> TAKE k \in 1 .. n
  <2>1. PICK m \in 3 .. n + 2 : m = k + 2
    BY <1>4
  <2>2. u[m] = w[m - 2]
    BY <1>7
  <2>3. m - 2 = k /\ m \in 1 .. n + 2
    BY <1>4, <2>1
  <2> QED BY <2>1, <2>2, <2>3
<1>8. 1 .. n + 2 = {1, 2} \union 3 .. n + 2
  BY <1>4
<1>9. /\ \A k \in 1 .. n - 1 : Follows(op, w[k].do, w[k + 1].do)
      /\ w[n].do \in {"fill_state", "upload_next"}
      /\ \A k \in 1 .. n : Belongs(op, w[k].do)
  BY DEF Shaped, n
<1>10. op \in Special =>
         /\ \A k \in 1 .. n : w[k].do \notin {"open_lock", "fill_lock"} => w[k].of = of
         /\ \A j, k \in 1 .. n : w[j].do \in Effect /\ w[k].do \in Effect => j = k
         /\ \A j, k \in 1 .. n : w[j].do = "append_line" /\ w[k].do = "append_line" => j = k
         /\ \A j \in 1 .. n : w[j].do \in Effect => \E k \in 1 .. n : j < k /\ w[k].do = "append_line"
  BY Zenon DEF Shaped, n
<1>11. a \notin Effect \union {"append_line"} /\ b \notin Effect \union {"append_line"} /\ Follows(op, a, b)
       /\ Belongs(op, a) /\ Belongs(op, b)
  BY DEF Effect, Follows, Belongs
<1>12. ASSUME NEW k \in 1 .. n + 2 - 1 PROVE Follows(op, u[k].do, u[k + 1].do)
  <2>1. CASE k = 1
    <3>1. k + 1 = 2
      BY <2>1
    <3> QED BY <1>5, <1>11, <2>1, <3>1
  <2>2. CASE k = 2
    <3>1. 1 \in 1 .. n
      BY <1>4
    <3>2. 3 \in 3 .. n + 2 /\ 3 - 2 = 1 /\ k + 1 = 3
      BY <1>4, <2>2
    <3>3. u[3] = w[3 - 2]
      BY <1>7, <3>2
    <3> QED BY <1>5, <2>2, <3>2, <3>3
  <2>3. CASE k > 2
    <3>1. k \in 3 .. n + 2 /\ k + 1 \in 3 .. n + 2 /\ k - 2 \in 1 .. n - 1 /\ k + 1 - 2 = k - 2 + 1
      BY <1>4, <2>3
    <3>4. PICK m \in 3 .. n + 2 : m = k + 1
      BY <3>1
    <3>5. u[m] = w[m - 2] /\ m - 2 = k - 2 + 1
      <4>1. u[m] = w[m - 2]
        BY <1>7
      <4>2. m - 2 = k - 2 + 1
        BY <3>4
      <4> QED BY <4>1, <4>2
    <3>2. u[k] = w[k - 2] /\ u[k + 1] = w[k - 2 + 1]
      BY <1>7, <3>1, <3>4, <3>5
    <3> QED BY <1>9, <3>1, <3>2
  <2> QED BY <1>4, <2>1, <2>2, <2>3
<1>13. u[n + 2].do \in {"fill_state", "upload_next"}
  <2>1. n \in 1 .. n
    BY <1>4
  <2>2. u[n + 2] = w[n]
    BY <1>6, <2>1, Zenon
  <2> QED BY <1>9, <2>2
<1>14. \A k \in 1 .. n + 2 : Belongs(op, u[k].do)
  BY <1>5, <1>7, <1>8, <1>9, <1>11
<1>15. ASSUME op \in Special
       PROVE  /\ \A k \in 1 .. n + 2 : u[k].do \notin {"open_lock", "fill_lock"} => u[k].of = of
              /\ \A j, k \in 1 .. n + 2 : u[j].do \in Effect /\ u[k].do \in Effect => j = k
              /\ \A j, k \in 1 .. n + 2 : u[j].do = "append_line" /\ u[k].do = "append_line" => j = k
              /\ \A j \in 1 .. n + 2 : u[j].do \in Effect => \E k \in 1 .. n + 2 : j < k /\ u[k].do = "append_line"
  <2>1. \A k \in 1 .. n + 2 : u[k].do \notin {"open_lock", "fill_lock"} => u[k].of = of
    BY <1>5, <1>7, <1>8, <1>10, <1>15
  <2>2. \A k \in 1 .. n + 2 : u[k].do \in Effect \union {"append_line"} => k \in 3 .. n + 2
    BY <1>5, <1>8, <1>11
  <2>3. ASSUME NEW j \in 3 .. n + 2, NEW k \in 3 .. n + 2
        PROVE  /\ u[j].do \in Effect /\ u[k].do \in Effect => j = k
               /\ u[j].do = "append_line" /\ u[k].do = "append_line" => j = k
    <3>1. u[j] = w[j - 2] /\ u[k] = w[k - 2] /\ j - 2 \in 1 .. n /\ k - 2 \in 1 .. n
      BY <1>7
    <3>2. j - 2 = k - 2 => j = k
      OBVIOUS
    <3> QED BY <1>10, <1>15, <3>1, <3>2
  <2>4. ASSUME NEW j \in 3 .. n + 2, u[j].do \in Effect
        PROVE  \E k \in 1 .. n + 2 : j < k /\ u[k].do = "append_line"
    <3>1. u[j] = w[j - 2] /\ j - 2 \in 1 .. n
      BY <1>7
    <3>2. PICK k \in 1 .. n : j - 2 < k /\ w[k].do = "append_line"
      BY <1>10, <1>15, <2>4, <3>1
    <3>3. k + 2 \in 1 .. n + 2 /\ u[k + 2] = w[k]
      BY <1>6, Zenon
    <3>4. j < k + 2
      BY <3>2
    <3> QED BY <3>2, <3>3, <3>4
  <2> QED BY <2>1, <2>2, <2>3, <2>4
<1>16. Shaped(op, of, u)
  <2>1. Len(u) = n + 2
    BY <1>4
  <2>2. \A k \in 1 .. Len(u) - 1 : Follows(op, u[k].do, u[k + 1].do)
    <3> TAKE k \in 1 .. Len(u) - 1
    <3>1. k \in 1 .. n + 2 - 1
      BY <1>4, <2>1
    <3> QED BY <1>12, <3>1
  <2>3. u[Len(u)].do \in {"fill_state", "upload_next"} /\ \A k \in 1 .. Len(u) : Belongs(op, u[k].do)
    BY <1>13, <1>14, <2>1, Zenon
  <2>4. op \in Special =>
          /\ \A k \in 1 .. Len(u) : u[k].do \notin {"open_lock", "fill_lock"} => u[k].of = of
          /\ \A j, k \in 1 .. Len(u) : u[j].do \in Effect /\ u[k].do \in Effect => j = k
          /\ \A j, k \in 1 .. Len(u) : u[j].do = "append_line" /\ u[k].do = "append_line" => j = k
          /\ \A j \in 1 .. Len(u) : u[j].do \in Effect => \E k \in 1 .. Len(u) : j < k /\ u[k].do = "append_line"
    BY <1>15, <2>1, Zenon
  <2> QED BY <2>2, <2>3, <2>4, Zenon DEF Shaped
<1>17. u # <<>>
  BY <1>4, EmptySeq DEF Todo
<1>18. ASSUME NEW dos, a \notin dos, b \notin dos PROVE Has(u, dos) <=> Has(w, dos)
  <2>1. ASSUME NEW k \in 1 .. n, w[k].do \in dos PROVE \E j \in 1 .. n + 2 : u[j].do \in dos
    <3>1. k + 2 \in 1 .. n + 2 /\ u[k + 2] = w[k]
      BY <1>6
    <3> QED BY <2>1, <3>1
  <2>2. ASSUME NEW k \in 1 .. n + 2, u[k].do \in dos PROVE \E j \in 1 .. n : w[j].do \in dos
    <3>1. k \in 3 .. n + 2
      BY <1>5, <1>8, <1>18, <2>2
    <3>2. k - 2 \in 1 .. n /\ u[k] = w[k - 2]
      BY <1>7, <3>1
    <3> QED BY <2>2, <3>2
  <2> QED BY <1>4, <2>1, <2>2 DEF Has, n
<1> QED BY <1>5, <1>16, <1>17, <1>18

\* What is where in two sequences joined.
LEMMA JoinedAt ==
  ASSUME NEW a \in Seq(Doing), NEW b \in Seq(Doing)
  PROVE  /\ a \o b \in Seq(Doing) /\ Len(a) \in Nat /\ Len(b) \in Nat /\ Len(a \o b) = Len(a) + Len(b)
         /\ \A k \in 1 .. Len(a) : (a \o b)[k] = a[k]
         /\ \A k \in 1 .. Len(b) : (a \o b)[Len(a) + k] = b[k]
<1> DEFINE m == Len(a)
           l == Len(b)
<1>1. /\ a \o b \in Seq(Doing) /\ Len(a \o b) = m + l /\ m \in Nat /\ l \in Nat
      /\ \A k \in 1 .. m + l : (a \o b)[k] = IF k <= m THEN a[k] ELSE b[k - m]
  BY Joined
<1> HIDE DEF m, l
<1>2. \A k \in 1 .. m : (a \o b)[k] = a[k]
  BY <1>1
<1>3. \A k \in 1 .. l : (a \o b)[m + k] = b[k]
  <2> TAKE k \in 1 .. l
  <2>1. m + k \in 1 .. m + l /\ ~(m + k <= m) /\ m + k - m = k
    BY <1>1
  <2> QED BY <1>1, <2>1
<1> QED BY <1>1, <1>2, <1>3 DEF m, l

LEMMA Lists ==
  /\ Ensure \in Seq(Doing) /\ Len(Ensure) = 2 /\ Ensure[1] = "ensure_state" /\ Ensure[2] = "ensure_lock"
  /\ Entry \in Seq(Doing) /\ Len(Entry) = 4 /\ Entry[1] = "read_state" /\ Entry[2] = "append_line"
  /\ Entry[3] = "open_state" /\ Entry[4] = "fill_state"
  /\ Adding \in Seq(Doing) /\ Len(Adding) = 3 /\ Adding[1] = "read_lock" /\ Adding[2] = "open_lock"
  /\ Adding[3] = "fill_lock"
  /\ Snapping \in Seq(Doing) /\ Len(Snapping) = 4 /\ Snapping[1] = "empty_lock_out"
  /\ Snapping[2] = "copy_lock_out" /\ Snapping[3] = "empty_state_out" /\ Snapping[4] = "copy_state_out"
  /\ Restore \in Seq(Doing) /\ Len(Restore) = 5 /\ Restore[1] = "find_snapshot" /\ Restore[2] = "empty_lock"
  /\ Restore[3] = "copy_lock_back" /\ Restore[4] = "empty_state" /\ Restore[5] = "copy_state_back"
  /\ <<"upload">> \in Seq(Doing) /\ Len(<<"upload">>) = 1 /\ <<"upload">>[1] = "upload"
BY DEF Ensure, Entry, Adding, Snapping, Restore, Doing, Plain, Copying

\* A list before the entry of a line
LEMMA BeforeEntry ==
  ASSUME NEW front \in Seq(Doing)
  PROVE  /\ front \o Entry \in Seq(Doing) /\ Len(front \o Entry) = Len(front) + 4
         /\ \A k \in 1 .. Len(front) : (front \o Entry)[k] = front[k]
         /\ (front \o Entry)[Len(front) + 1] = "read_state" /\ (front \o Entry)[Len(front) + 2] = "append_line"
         /\ (front \o Entry)[Len(front) + 3] = "open_state" /\ (front \o Entry)[Len(front) + 4] = "fill_state"
<1>1. /\ Entry \in Seq(Doing) /\ Len(Entry) = 4 /\ Entry[1] = "read_state" /\ Entry[2] = "append_line"
      /\ Entry[3] = "open_state" /\ Entry[4] = "fill_state"
  BY Lists
<1>2. /\ front \o Entry \in Seq(Doing) /\ Len(front \o Entry) = Len(front) + Len(Entry)
      /\ \A k \in 1 .. Len(front) : (front \o Entry)[k] = front[k]
      /\ \A k \in 1 .. Len(Entry) : (front \o Entry)[Len(front) + k] = Entry[k]
  BY <1>1, JoinedAt
<1>3. 1 \in 1 .. 4 /\ 2 \in 1 .. 4 /\ 3 \in 1 .. 4 /\ 4 \in 1 .. 4
  OBVIOUS
<1> QED BY <1>1, <1>2, <1>3, Zenon

\* The scripts step by step
LEMMA ScriptEnsure ==
  ASSUME NEW d, d = Ensure \o Entry
  PROVE  /\ d \in Seq(Doing) /\ Len(d) = 6 /\ d[1] = "ensure_state" /\ d[2] = "ensure_lock"
         /\ d[3] = "read_state" /\ d[4] = "append_line" /\ d[5] = "open_state" /\ d[6] = "fill_state"
<1>1. Ensure \in Seq(Doing) /\ Len(Ensure) = 2 /\ Ensure[1] = "ensure_state" /\ Ensure[2] = "ensure_lock"
  BY Lists
<1>2. /\ d \in Seq(Doing) /\ Len(d) = 2 + 4 /\ \A k \in 1 .. 2 : d[k] = Ensure[k]
      /\ d[2 + 1] = "read_state" /\ d[2 + 2] = "append_line"
      /\ d[2 + 3] = "open_state" /\ d[2 + 4] = "fill_state"
  <2>1. /\ Ensure \o Entry \in Seq(Doing) /\ Len(Ensure \o Entry) = Len(Ensure) + 4
        /\ \A k \in 1 .. Len(Ensure) : (Ensure \o Entry)[k] = Ensure[k]
        /\ (Ensure \o Entry)[Len(Ensure) + 1] = "read_state" /\ (Ensure \o Entry)[Len(Ensure) + 2] = "append_line"
        /\ (Ensure \o Entry)[Len(Ensure) + 3] = "open_state" /\ (Ensure \o Entry)[Len(Ensure) + 4] = "fill_state"
    BY <1>1, BeforeEntry
  <2>2. Len(Ensure) = 2 /\ d = Ensure \o Entry
    BY <1>1
  <2> QED BY <2>1, <2>2, Zenon
<1> QED BY <1>1, <1>2

LEMMA ScriptAdding ==
  ASSUME NEW d, d = Ensure \o Adding \o Entry
  PROVE  /\ d \in Seq(Doing) /\ Len(d) = 9 /\ d[1] = "ensure_state" /\ d[2] = "ensure_lock"
         /\ d[3] = "read_lock" /\ d[4] = "open_lock" /\ d[5] = "fill_lock"
         /\ d[6] = "read_state" /\ d[7] = "append_line" /\ d[8] = "open_state" /\ d[9] = "fill_state"
<1> DEFINE front == Ensure \o Adding
<1>1. /\ Ensure \in Seq(Doing) /\ Len(Ensure) = 2 /\ Ensure[1] = "ensure_state" /\ Ensure[2] = "ensure_lock"
      /\ Adding \in Seq(Doing) /\ Len(Adding) = 3 /\ Adding[1] = "read_lock" /\ Adding[2] = "open_lock"
      /\ Adding[3] = "fill_lock"
  BY Lists
<1>2. d = front \o Entry
  OBVIOUS
<1>3. /\ front \in Seq(Doing) /\ Len(front) = 2 + 3
      /\ \A k \in 1 .. 2 : front[k] = Ensure[k]
      /\ \A k \in 1 .. 3 : front[2 + k] = Adding[k]
  <2>1. /\ Ensure \o Adding \in Seq(Doing) /\ Len(Ensure \o Adding) = Len(Ensure) + Len(Adding)
        /\ \A k \in 1 .. Len(Ensure) : (Ensure \o Adding)[k] = Ensure[k]
        /\ \A k \in 1 .. Len(Adding) : (Ensure \o Adding)[Len(Ensure) + k] = Adding[k]
    BY <1>1, JoinedAt
  <2> QED BY <1>1, <2>1, Zenon
<1> HIDE DEF front
<1>4. /\ front[1] = Ensure[1] /\ front[2] = Ensure[2] /\ front[2 + 1] = Adding[1]
      /\ front[2 + 2] = Adding[2] /\ front[2 + 3] = Adding[3]
  BY <1>3
<1>5. /\ d \in Seq(Doing) /\ Len(d) = 5 + 4 /\ \A k \in 1 .. 5 : d[k] = front[k]
      /\ d[5 + 1] = "read_state" /\ d[5 + 2] = "append_line"
      /\ d[5 + 3] = "open_state" /\ d[5 + 4] = "fill_state"
  <2>1. /\ front \o Entry \in Seq(Doing) /\ Len(front \o Entry) = Len(front) + 4
        /\ \A k \in 1 .. Len(front) : (front \o Entry)[k] = front[k]
        /\ (front \o Entry)[Len(front) + 1] = "read_state" /\ (front \o Entry)[Len(front) + 2] = "append_line"
        /\ (front \o Entry)[Len(front) + 3] = "open_state" /\ (front \o Entry)[Len(front) + 4] = "fill_state"
    BY <1>2, <1>3, BeforeEntry
  <2>2. Len(front) = 5 /\ d = front \o Entry
    BY <1>2, <1>3
  <2> QED BY <2>1, <2>2, Zenon
<1>6. d[1] = front[1] /\ d[2] = front[2] /\ d[3] = front[3] /\ d[4] = front[4] /\ d[5] = front[5]
  <2>1. 1 \in 1 .. 5 /\ 2 \in 1 .. 5 /\ 3 \in 1 .. 5 /\ 4 \in 1 .. 5 /\ 5 \in 1 .. 5
    OBVIOUS
  <2> QED BY <1>5, <2>1, Zenon
<1>7. 2 + 1 = 3 /\ 2 + 2 = 4 /\ 2 + 3 = 5 /\ 5 + 1 = 6 /\ 5 + 2 = 7 /\ 5 + 3 = 8 /\ 5 + 4 = 9
  OBVIOUS
<1> QED BY <1>1, <1>4, <1>5, <1>6, <1>7, Zenon

LEMMA ScriptRestore ==
  ASSUME NEW d, d = Ensure \o Restore \o Entry
  PROVE  /\ d \in Seq(Doing) /\ Len(d) = 11 /\ d[1] = "ensure_state" /\ d[2] = "ensure_lock"
         /\ d[3] = "find_snapshot" /\ d[4] = "empty_lock" /\ d[5] = "copy_lock_back"
         /\ d[6] = "empty_state" /\ d[7] = "copy_state_back"
         /\ d[8] = "read_state" /\ d[9] = "append_line" /\ d[10] = "open_state" /\ d[11] = "fill_state"
<1> DEFINE front == Ensure \o Restore
<1>1. /\ Ensure \in Seq(Doing) /\ Len(Ensure) = 2 /\ Ensure[1] = "ensure_state" /\ Ensure[2] = "ensure_lock"
      /\ Restore \in Seq(Doing) /\ Len(Restore) = 5
      /\ Restore[1] = "find_snapshot" /\ Restore[2] = "empty_lock" /\ Restore[3] = "copy_lock_back"
      /\ Restore[4] = "empty_state" /\ Restore[5] = "copy_state_back"
  BY Lists
<1>2. d = front \o Entry
  OBVIOUS
<1>3. /\ front \in Seq(Doing) /\ Len(front) = 2 + 5
      /\ \A k \in 1 .. 2 : front[k] = Ensure[k]
      /\ \A k \in 1 .. 5 : front[2 + k] = Restore[k]
  <2>1. /\ Ensure \o Restore \in Seq(Doing) /\ Len(Ensure \o Restore) = Len(Ensure) + Len(Restore)
        /\ \A k \in 1 .. Len(Ensure) : (Ensure \o Restore)[k] = Ensure[k]
        /\ \A k \in 1 .. Len(Restore) : (Ensure \o Restore)[Len(Ensure) + k] = Restore[k]
    BY <1>1, JoinedAt
  <2> QED BY <1>1, <2>1, Zenon
<1> HIDE DEF front
<1>4. /\ front[1] = Ensure[1] /\ front[2] = Ensure[2]
      /\ front[2 + 1] = Restore[1] /\ front[2 + 2] = Restore[2] /\ front[2 + 3] = Restore[3]
      /\ front[2 + 4] = Restore[4] /\ front[2 + 5] = Restore[5]
  BY <1>3
<1>5. /\ d \in Seq(Doing) /\ Len(d) = 7 + 4 /\ \A k \in 1 .. 7 : d[k] = front[k]
      /\ d[7 + 1] = "read_state" /\ d[7 + 2] = "append_line"
      /\ d[7 + 3] = "open_state" /\ d[7 + 4] = "fill_state"
  <2>1. /\ front \o Entry \in Seq(Doing) /\ Len(front \o Entry) = Len(front) + 4
        /\ \A k \in 1 .. Len(front) : (front \o Entry)[k] = front[k]
        /\ (front \o Entry)[Len(front) + 1] = "read_state" /\ (front \o Entry)[Len(front) + 2] = "append_line"
        /\ (front \o Entry)[Len(front) + 3] = "open_state" /\ (front \o Entry)[Len(front) + 4] = "fill_state"
    BY <1>2, <1>3, BeforeEntry
  <2>2. Len(front) = 7 /\ d = front \o Entry
    BY <1>2, <1>3
  <2> QED BY <2>1, <2>2, Zenon
<1>6. /\ d[1] = front[1] /\ d[2] = front[2] /\ d[3] = front[3] /\ d[4] = front[4]
      /\ d[5] = front[5] /\ d[6] = front[6] /\ d[7] = front[7]
  <2>1. 1 \in 1 .. 7 /\ 2 \in 1 .. 7 /\ 3 \in 1 .. 7 /\ 4 \in 1 .. 7 /\ 5 \in 1 .. 7 /\ 6 \in 1 .. 7 /\ 7 \in 1 .. 7
    OBVIOUS
  <2> QED BY <1>5, <2>1, Zenon
<1>7. /\ 2 + 1 = 3 /\ 2 + 2 = 4 /\ 2 + 3 = 5 /\ 2 + 4 = 6 /\ 2 + 5 = 7
      /\ 7 + 1 = 8 /\ 7 + 2 = 9 /\ 7 + 3 = 10 /\ 7 + 4 = 11
  OBVIOUS
<1>8. /\ d[1] = "ensure_state" /\ d[2] = "ensure_lock" /\ d[3] = "find_snapshot" /\ d[4] = "empty_lock"
      /\ d[5] = "copy_lock_back" /\ d[6] = "empty_state" /\ d[7] = "copy_state_back"
  BY <1>1, <1>4, <1>6, <1>7, Zenon
<1>9. d[8] = "read_state" /\ d[9] = "append_line" /\ d[10] = "open_state" /\ d[11] = "fill_state"
  BY <1>5, <1>7, Zenon
<1> QED BY <1>5, <1>7, <1>8, <1>9, Zenon

LEMMA ScriptSnapping ==
  ASSUME NEW d, d = Ensure \o Snapping \o Entry
  PROVE  /\ d \in Seq(Doing) /\ Len(d) = 10 /\ d[1] = "ensure_state" /\ d[2] = "ensure_lock"
         /\ d[3] = "empty_lock_out" /\ d[4] = "copy_lock_out" /\ d[5] = "empty_state_out"
         /\ d[6] = "copy_state_out"
         /\ d[7] = "read_state" /\ d[8] = "append_line" /\ d[9] = "open_state" /\ d[10] = "fill_state"
<1> DEFINE front == Ensure \o Snapping
<1>1. /\ Ensure \in Seq(Doing) /\ Len(Ensure) = 2 /\ Ensure[1] = "ensure_state" /\ Ensure[2] = "ensure_lock"
      /\ Snapping \in Seq(Doing) /\ Len(Snapping) = 4
      /\ Snapping[1] = "empty_lock_out" /\ Snapping[2] = "copy_lock_out" /\ Snapping[3] = "empty_state_out"
      /\ Snapping[4] = "copy_state_out"
  BY Lists
<1>2. d = front \o Entry
  OBVIOUS
<1>3. /\ front \in Seq(Doing) /\ Len(front) = 2 + 4
      /\ \A k \in 1 .. 2 : front[k] = Ensure[k]
      /\ \A k \in 1 .. 4 : front[2 + k] = Snapping[k]
  <2>1. /\ Ensure \o Snapping \in Seq(Doing) /\ Len(Ensure \o Snapping) = Len(Ensure) + Len(Snapping)
        /\ \A k \in 1 .. Len(Ensure) : (Ensure \o Snapping)[k] = Ensure[k]
        /\ \A k \in 1 .. Len(Snapping) : (Ensure \o Snapping)[Len(Ensure) + k] = Snapping[k]
    BY <1>1, JoinedAt
  <2> QED BY <1>1, <2>1, Zenon
<1> HIDE DEF front
<1>4. /\ front[1] = Ensure[1] /\ front[2] = Ensure[2]
      /\ front[2 + 1] = Snapping[1] /\ front[2 + 2] = Snapping[2] /\ front[2 + 3] = Snapping[3]
      /\ front[2 + 4] = Snapping[4]
  BY <1>3
<1>5. /\ d \in Seq(Doing) /\ Len(d) = 6 + 4 /\ \A k \in 1 .. 6 : d[k] = front[k]
      /\ d[6 + 1] = "read_state" /\ d[6 + 2] = "append_line"
      /\ d[6 + 3] = "open_state" /\ d[6 + 4] = "fill_state"
  <2>1. /\ front \o Entry \in Seq(Doing) /\ Len(front \o Entry) = Len(front) + 4
        /\ \A k \in 1 .. Len(front) : (front \o Entry)[k] = front[k]
        /\ (front \o Entry)[Len(front) + 1] = "read_state" /\ (front \o Entry)[Len(front) + 2] = "append_line"
        /\ (front \o Entry)[Len(front) + 3] = "open_state" /\ (front \o Entry)[Len(front) + 4] = "fill_state"
    BY <1>2, <1>3, BeforeEntry
  <2>2. Len(front) = 6 /\ d = front \o Entry
    BY <1>2, <1>3
  <2> QED BY <2>1, <2>2, Zenon
<1>6. /\ d[1] = front[1] /\ d[2] = front[2] /\ d[3] = front[3] /\ d[4] = front[4]
      /\ d[5] = front[5] /\ d[6] = front[6]
  <2>1. 1 \in 1 .. 6 /\ 2 \in 1 .. 6 /\ 3 \in 1 .. 6 /\ 4 \in 1 .. 6 /\ 5 \in 1 .. 6 /\ 6 \in 1 .. 6
    OBVIOUS
  <2> QED BY <1>5, <2>1, Zenon
<1>7. /\ 2 + 1 = 3 /\ 2 + 2 = 4 /\ 2 + 3 = 5 /\ 2 + 4 = 6
      /\ 6 + 1 = 7 /\ 6 + 2 = 8 /\ 6 + 3 = 9 /\ 6 + 4 = 10
  OBVIOUS
<1> QED BY <1>1, <1>4, <1>5, <1>6, <1>7, Zenon

LEMMA ScriptPublishing ==
  /\ Len(Publishing) = 7 /\ Publishing[1] = "upload" /\ Publishing[2] = "ensure_state"
  /\ Publishing[3] = "ensure_lock" /\ Publishing[4] = "read_state" /\ Publishing[5] = "append_line"
  /\ Publishing[6] = "open_state" /\ Publishing[7] = "fill_state"
<1> DEFINE one == <<"upload">>
           front == one \o Ensure
           d == Publishing
<1>1. /\ Ensure \in Seq(Doing) /\ Len(Ensure) = 2 /\ Ensure[1] = "ensure_state" /\ Ensure[2] = "ensure_lock"
      /\ one \in Seq(Doing) /\ Len(one) = 1 /\ one[1] = "upload"
  BY Lists
<1>2. d = front \o Entry
  BY DEF Publishing
<1> HIDE DEF one, d
<1>3. /\ front \in Seq(Doing) /\ Len(front) = 1 + 2
      /\ \A k \in 1 .. 1 : front[k] = one[k]
      /\ \A k \in 1 .. 2 : front[1 + k] = Ensure[k]
  <2>1. /\ one \o Ensure \in Seq(Doing) /\ Len(one \o Ensure) = Len(one) + Len(Ensure)
        /\ \A k \in 1 .. Len(one) : (one \o Ensure)[k] = one[k]
        /\ \A k \in 1 .. Len(Ensure) : (one \o Ensure)[Len(one) + k] = Ensure[k]
    BY <1>1, JoinedAt
  <2> QED BY <1>1, <2>1, Zenon
<1> HIDE DEF front
<1>4. front[1] = one[1] /\ front[1 + 1] = Ensure[1] /\ front[1 + 2] = Ensure[2]
  BY <1>3
<1>5. /\ d \in Seq(Doing) /\ Len(d) = 3 + 4 /\ \A k \in 1 .. 3 : d[k] = front[k]
      /\ d[3 + 1] = "read_state" /\ d[3 + 2] = "append_line"
      /\ d[3 + 3] = "open_state" /\ d[3 + 4] = "fill_state"
  <2>1. /\ front \o Entry \in Seq(Doing) /\ Len(front \o Entry) = Len(front) + 4
        /\ \A k \in 1 .. Len(front) : (front \o Entry)[k] = front[k]
        /\ (front \o Entry)[Len(front) + 1] = "read_state" /\ (front \o Entry)[Len(front) + 2] = "append_line"
        /\ (front \o Entry)[Len(front) + 3] = "open_state" /\ (front \o Entry)[Len(front) + 4] = "fill_state"
    BY <1>2, <1>3, BeforeEntry
  <2>2. Len(front) = 3 /\ d = front \o Entry
    BY <1>2, <1>3
  <2> QED BY <2>1, <2>2, Zenon
<1>6. d[1] = front[1] /\ d[2] = front[2] /\ d[3] = front[3]
  <2>1. 1 \in 1 .. 3 /\ 2 \in 1 .. 3 /\ 3 \in 1 .. 3
    OBVIOUS
  <2> QED BY <1>5, <2>1, Zenon
<1>7. 1 + 1 = 2 /\ 1 + 2 = 3 /\ 3 + 1 = 4 /\ 3 + 2 = 5 /\ 3 + 3 = 6 /\ 3 + 4 = 7
  OBVIOUS
<1> QED BY <1>1, <1>4, <1>5, <1>6, <1>7, Zenon DEF d

\* Steps on one name, the e-th of which, if any, changes the lock.
Sequel(op, dos, e) ==
  /\ dos \in Seq(Doing) /\ Len(dos) \in Nat /\ Len(dos) >= 6 /\ e < Len(dos) - 2
  /\ \A k \in 1 .. Len(dos) - 1 : Follows(op, dos[k], dos[k + 1])
  /\ dos[Len(dos)] = "fill_state"
  /\ \A k \in 1 .. Len(dos) : Belongs(op, dos[k])
  /\ \A k \in 1 .. Len(dos) : dos[k] \in Effect => k = e
  /\ \A k \in 1 .. Len(dos) : dos[k] = "append_line" <=> k = Len(dos) - 2

\* Such steps are in shape.
LEMMA ShapedSteps ==
  ASSUME NEW op, NEW of, NEW dos, NEW e \in Nat, Sequel(op, dos, e)
  PROVE  Shaped(op, of, Steps(dos, of)) /\ Steps(dos, of)[1].do = dos[1]
<1> DEFINE n == Len(dos)
<1>0. /\ dos \in Seq(Doing) /\ n \in Nat /\ n >= 6 /\ e < n - 2
      /\ \A k \in 1 .. n - 1 : Follows(op, dos[k], dos[k + 1])
      /\ dos[n] = "fill_state"
      /\ \A k \in 1 .. n : Belongs(op, dos[k])
      /\ \A k \in 1 .. n : dos[k] \in Effect => k = e
      /\ \A k \in 1 .. n : dos[k] = "append_line" <=> k = n - 2
  BY Zenon DEF Sequel
<1>n. Len(dos) = n
  OBVIOUS
<1> HIDE DEF n
<1> USE <1>0, <1>n
<1> DEFINE t == Steps(dos, of)
<1>1. DOMAIN dos = 1 .. n
  OBVIOUS
<1>2. t = [k \in 1 .. n |-> Step(dos[k], of)]
  BY <1>1 DEF Steps
<1>3. \A k \in 1 .. n : t[k].do = dos[k] /\ t[k].of = of
  BY <1>2 DEF Step
<1>4. t \in Seq([do : Doing, of : {of}]) /\ Len(t) = n
  <2>1. \A k \in 1 .. n : Step(dos[k], of) \in [do : Doing, of : {of}]
    BY DEF Step
  <2> HIDE DEF t
  <2> QED BY <1>2, <2>1
<1> HIDE DEF t
<1>5. \A k \in 1 .. n - 1 : Follows(op, t[k].do, t[k + 1].do)
  <2> TAKE k \in 1 .. n - 1
  <2>1. k \in 1 .. n /\ k + 1 \in 1 .. n
    OBVIOUS
  <2>2. t[k].do = dos[k] /\ t[k + 1].do = dos[k + 1]
    BY <1>3, <2>1
  <2> QED BY <2>2
<1>6. n \in 1 .. n /\ 1 \in 1 .. n /\ n - 2 \in 1 .. n
  OBVIOUS
<1>7. t[n].do = "fill_state" /\ t[1].do = dos[1]
  BY <1>3, <1>6
<1>8. \A k \in 1 .. n : Belongs(op, t[k].do)
  BY <1>3
<1>9. /\ \A k \in 1 .. n : t[k].do \notin {"open_lock", "fill_lock"} => t[k].of = of
      /\ \A j, k \in 1 .. n : t[j].do \in Effect /\ t[k].do \in Effect => j = k
      /\ \A j, k \in 1 .. n : t[j].do = "append_line" /\ t[k].do = "append_line" => j = k
      /\ \A j \in 1 .. n : t[j].do \in Effect => \E k \in 1 .. n : j < k /\ t[k].do = "append_line"
  <2>1. \A k \in 1 .. n : (t[k].do \in Effect => k = e) /\ (t[k].do = "append_line" <=> k = n - 2)
    BY <1>3
  <2>2. t[n - 2].do = "append_line"
    BY <1>6, <2>1
  <2>3. \A k \in 1 .. n : t[k].of = of
    BY <1>3
  <2>4. ASSUME NEW j \in 1 .. n, t[j].do \in Effect
        PROVE  \E k \in 1 .. n : j < k /\ t[k].do = "append_line"
    <3>1. j < n - 2
      BY <2>1, <2>4
    <3> QED BY <1>6, <2>2, <3>1
  <2>5. \A j, k \in 1 .. n : t[j].do \in Effect /\ t[k].do \in Effect => j = k
    BY <2>1, Zenon
  <2>6. \A j, k \in 1 .. n : t[j].do = "append_line" /\ t[k].do = "append_line" => j = k
    BY <2>1, Zenon
  <2> QED BY <2>3, <2>4, <2>5, <2>6
<1>10. Shaped(op, of, t)
  BY <1>4, <1>5, <1>7, <1>8, <1>9, Zenon DEF Shaped
<1> QED BY <1>7, <1>10 DEF t

\* The scripts without a loop.
LEMMA ShapedScripts ==
  ASSUME NEW op, op \notin {"publish", "publish_all"}, NEW of
  PROVE  Shaped(op, of, Script(op, of)) /\ Script(op, of)[1].do = "ensure_state"
<1>1. CASE op = "add"
  <2> DEFINE d == Ensure \o Adding \o Entry
             n == 9
  <2>1. /\ d \in Seq(Doing) /\ Len(d) = 9 /\ d[1] = "ensure_state" /\ d[2] = "ensure_lock"
        /\ d[3] = "read_lock" /\ d[4] = "open_lock" /\ d[5] = "fill_lock"
        /\ d[6] = "read_state" /\ d[7] = "append_line" /\ d[8] = "open_state" /\ d[9] = "fill_state"
    BY ScriptAdding
  <2> HIDE DEF d
  <2>2. \A k \in 1 .. 9 : k = 1 \/ k = 2 \/ k = 3 \/ k = 4 \/ k = 5 \/ k = 6 \/ k = 7 \/ k = 8 \/ k = 9
    OBVIOUS
  <2>3. \A k \in 1 .. 9 - 1 : Follows(op, d[k], d[k + 1])
    BY <1>1, <2>1 DEF Follows, FirstOf
  <2>4. \A k \in 1 .. 9 : /\ Belongs(op, d[k]) /\ (d[k] \in Effect => k = 3)
                          /\ d[k] = "append_line" <=> k = 9 - 2
    BY <1>1, <2>1, <2>2 DEF Belongs, Effect
  <2>5. Shaped(op, of, Steps(d, of)) /\ Steps(d, of)[1].do = d[1]
    <3>1. Sequel(op, d, 3)
      BY <2>1, <2>3, <2>4 DEF Sequel
    <3> QED BY <3>1, ShapedSteps
  <2>6. Script(op, of) = Steps(d, of)
    BY <1>1 DEF Script, d
  <2> QED BY <2>1, <2>5, <2>6
<1>2. CASE op = "snapshot"
  <2> DEFINE d == Ensure \o Snapping \o Entry
  <2>1. /\ d \in Seq(Doing) /\ Len(d) = 10 /\ d[1] = "ensure_state" /\ d[2] = "ensure_lock"
        /\ d[3] = "empty_lock_out" /\ d[4] = "copy_lock_out"
        /\ d[5] = "empty_state_out" /\ d[6] = "copy_state_out"
        /\ d[7] = "read_state" /\ d[8] = "append_line" /\ d[9] = "open_state" /\ d[10] = "fill_state"
    BY ScriptSnapping
  <2> HIDE DEF d
  <2>2. \A k \in 1 .. 10 : \/ k = 1 \/ k = 2 \/ k = 3 \/ k = 4 \/ k = 5 \/ k = 6
                       \/ k = 7 \/ k = 8 \/ k = 9 \/ k = 10
    OBVIOUS
  <2>3. \A k \in 1 .. 10 - 1 : Follows(op, d[k], d[k + 1])
    BY <1>2, <2>1 DEF Follows, FirstOf
  <2>4. \A k \in 1 .. 10 : /\ Belongs(op, d[k]) /\ (d[k] \in Effect => k = 0)
                           /\ d[k] = "append_line" <=> k = 10 - 2
    BY <1>2, <2>1, <2>2 DEF Belongs, Effect
  <2>5. Shaped(op, of, Steps(d, of)) /\ Steps(d, of)[1].do = d[1]
    <3>1. Sequel(op, d, 0)
      BY <2>1, <2>3, <2>4 DEF Sequel
    <3> QED BY <3>1, ShapedSteps
  <2>6. Script(op, of) = Steps(d, of)
    BY <1>2 DEF Script, d
  <2> QED BY <2>1, <2>5, <2>6
<1>3. CASE op = "rollback"
  <2> DEFINE d == Ensure \o Restore \o Entry
  <2>1. /\ d \in Seq(Doing) /\ Len(d) = 11 /\ d[1] = "ensure_state" /\ d[2] = "ensure_lock"
        /\ d[3] = "find_snapshot" /\ d[4] = "empty_lock"
        /\ d[5] = "copy_lock_back" /\ d[6] = "empty_state" /\ d[7] = "copy_state_back"
        /\ d[8] = "read_state" /\ d[9] = "append_line" /\ d[10] = "open_state" /\ d[11] = "fill_state"
    BY ScriptRestore
  <2> HIDE DEF d
  <2>2. \A k \in 1 .. 11 : \/ k = 1 \/ k = 2 \/ k = 3 \/ k = 4 \/ k = 5 \/ k = 6
                       \/ k = 7 \/ k = 8 \/ k = 9 \/ k = 10 \/ k = 11
    OBVIOUS
  <2>3. \A k \in 1 .. 11 - 1 : Follows(op, d[k], d[k + 1])
    BY <1>3, <2>1 DEF Follows, FirstOf
  <2>4. \A k \in 1 .. 11 : /\ Belongs(op, d[k]) /\ (d[k] \in Effect => k = 5)
                           /\ d[k] = "append_line" <=> k = 11 - 2
    BY <1>3, <2>1, <2>2 DEF Belongs, Effect
  <2>5. Shaped(op, of, Steps(d, of)) /\ Steps(d, of)[1].do = d[1]
    <3>1. Sequel(op, d, 5)
      BY <2>1, <2>3, <2>4 DEF Sequel
    <3> QED BY <3>1, ShapedSteps
  <2>6. Script(op, of) = Steps(d, of)
    BY <1>3 DEF Script, d
  <2> QED BY <2>1, <2>5, <2>6
<1>4. CASE op \notin {"add", "snapshot", "rollback"}
  <2> DEFINE d == Ensure \o Entry
  <2>1. /\ d \in Seq(Doing) /\ Len(d) = 6 /\ d[1] = "ensure_state" /\ d[2] = "ensure_lock"
        /\ d[3] = "read_state" /\ d[4] = "append_line" /\ d[5] = "open_state" /\ d[6] = "fill_state"
    BY ScriptEnsure
  <2> HIDE DEF d
  <2>2. \A k \in 1 .. 6 : k = 1 \/ k = 2 \/ k = 3 \/ k = 4 \/ k = 5 \/ k = 6
    OBVIOUS
  <2>3. \A k \in 1 .. 6 - 1 : Follows(op, d[k], d[k + 1])
    BY <1>4, <2>1 DEF Follows, FirstOf
  <2>4. \A k \in 1 .. 6 : /\ Belongs(op, d[k]) /\ (d[k] \in Effect => k = 0)
                          /\ d[k] = "append_line" <=> k = 6 - 2
    BY <1>4, <2>1, <2>2 DEF Belongs, Effect
  <2>5. Shaped(op, of, Steps(d, of)) /\ Steps(d, of)[1].do = d[1]
    <3>1. Sequel(op, d, 0)
      BY <2>1, <2>3, <2>4 DEF Sequel
    <3> QED BY <3>1, ShapedSteps
  <2>6. Script(op, of) = Steps(d, of)
    BY <1>4 DEF Script, d
  <2> QED BY <2>1, <2>5, <2>6
<1> QED BY <1>1, <1>2, <1>3, <1>4

\* A loop: the steps of a round follow one another, and the first step the last.
LEMMA RoundsShaped ==
  ASSUME NEW l \in Nat \ {0}, NEW P, NEW W, NEW op, op \notin Special, NEW of,
         \A k \in 1 .. 6 : Follows(op, P[k], P[k + 1]), Follows(op, P[7], P[1]), P[7] = "fill_state",
         \A k \in 1 .. 7 : Belongs(op, P[k]),
         NEW S, S = InRounds(P, W, l), Len(S) = 7 * l
  PROVE  Shaped(op, of, S) /\ S[1].do = P[1]
<1> DEFINE n == 7 * l
           d == [k \in 1 .. n |-> ((k - 1) % 7) + 1]
           w == [k \in 1 .. n |-> (k - 1) \div 7 + 1]
<1>1. n \in Nat /\ n = 7 * l /\ n > 0 /\ Len(S) = n
  OBVIOUS
<1>2. \A k \in 1 .. n : d[k] = ((k - 1) % 7) + 1 /\ w[k] = (k - 1) \div 7 + 1
  OBVIOUS
<1>3. S = [k \in 1 .. n |-> Step(P[d[k]], W[w[k]])]
  BY <1>2 DEF InRounds
<1> HIDE DEF n, d, w
<1>4. \A k \in 1 .. n : d[k] \in 1 .. 7
  BY <1>1, <1>2, Rounds
<1>5. \A k \in 1 .. n - 1 : k \in 1 .. n /\ k + 1 \in 1 .. n
  BY <1>1
<1>6. \A k \in 1 .. n - 1 : d[k + 1] = IF d[k] = 7 THEN 1 ELSE d[k] + 1
  <2> TAKE k \in 1 .. n - 1
  <2>0. k \in 1 .. n /\ k + 1 \in 1 .. n
    BY <1>5
  <2>1. d[k] = ((k - 1) % 7) + 1
    BY <1>2, <2>0
  <2>2. d[k + 1] = ((k + 1 - 1) % 7) + 1
    BY <1>2, <2>0
  <2>3. k \in 1 .. 7 * l
    BY <1>1
  <2>4. ((k + 1 - 1) % 7) + 1 = IF ((k - 1) % 7) + 1 = 7 THEN 1 ELSE ((k - 1) % 7) + 1 + 1
    BY <2>3, Rounds
  <2> QED BY <2>1, <2>2, <2>4
<1>7. n \in 1 .. n /\ 1 \in 1 .. n /\ d[n] = 7 /\ d[1] = 1
  BY <1>1, <1>2
<1>8. \A k \in 1 .. n : S[k].do = P[d[k]]
  <2> TAKE k \in 1 .. n
  <2>1. S[k] = Step(P[d[k]], W[w[k]])
    BY <1>3, Zenon
  <2> QED BY <2>1 DEF Step
<1>9. \A k \in 1 .. n - 1 : Follows(op, S[k].do, S[k + 1].do)
  <2> TAKE k \in 1 .. n - 1
  <2>1. /\ S[k].do = P[d[k]] /\ S[k + 1].do = P[d[k + 1]]
        /\ d[k] \in 1 .. 7 /\ d[k + 1] = IF d[k] = 7 THEN 1 ELSE d[k] + 1
    BY <1>4, <1>5, <1>6, <1>8
  <2>2. CASE d[k] = 7
    <3>1. d[k + 1] = 1
      BY <2>1, <2>2
    <3>2. Follows(op, P[7], P[1])
      OBVIOUS
    <3> QED BY <2>1, <2>2, <3>1, <3>2
  <2>3. CASE d[k] # 7
    <3>1. d[k] \in 1 .. 6 /\ d[k + 1] = d[k] + 1
      BY <2>1, <2>3
    <3>2. Follows(op, P[d[k]], P[d[k] + 1])
      BY <3>1
    <3> QED BY <2>1, <3>1, <3>2
  <2> QED BY <2>2, <2>3
<1>10. S[n].do = "fill_state" /\ S[1].do = P[1]
  BY <1>7, <1>8
<1>11. \A k \in 1 .. n : Belongs(op, S[k].do)
  BY <1>4, <1>8
<1>12. Shaped(op, of, S)
  BY <1>1, <1>9, <1>10, <1>11, Zenon DEF Shaped
<1> QED BY <1>10, <1>12

\* Every command begins with a script in this shape.
LEMMA ScriptShaped ==
  ASSUME NEW call \in Invocations
  PROVE  LET t == Script(call[1], call[2])
         IN  /\ t \in Todo /\ t # <<>> /\ Shaped(call[1], call[2], t)
             /\ t[1].do \in {"ensure_state", "upload", "upload_next"}
             /\ call[2] \in Subjects /\ (call[1] \in {"snapshot", "rollback"} => call[2] \in Snap)
<1> DEFINE op == call[1]
           of == call[2]
           t == Script(op, of)
<1>1. t \in Todo
  BY ScriptPaired
<1>2. of \in Subjects /\ (op \in {"snapshot", "rollback"} => of \in Snap)
  BY DEF Invocations, Subjects
<1>3. CASE op \notin {"publish", "publish_all"}
  <2>1. Shaped(op, of, t) /\ t[1].do = "ensure_state"
    BY <1>3, ShapedScripts
  <2>2. t # << >>
    <3>1. PICK dos : t = Steps(dos, of) /\ dos \in Seq(Doing) /\ Len(dos) >= 6 /\ Len(dos) \in Nat
      <4>1. CASE op = "add"
        <5> DEFINE d == Ensure \o Adding \o Entry
        <5>1. d \in Seq(Doing) /\ Len(d) = 9 /\ t = Steps(d, of)
          BY <4>1, ScriptAdding DEF Script
        <5> HIDE DEF d, t
        <5>2. Len(d) \in Nat /\ Len(d) >= 6
          BY <5>1
        <5> QED BY <5>1, <5>2
      <4>2. CASE op = "snapshot"
        <5> DEFINE d == Ensure \o Snapping \o Entry
        <5>1. d \in Seq(Doing) /\ Len(d) = 10 /\ t = Steps(d, of)
          BY <4>2, ScriptSnapping DEF Script
        <5> HIDE DEF d, t
        <5>2. Len(d) \in Nat /\ Len(d) >= 6
          BY <5>1
        <5> QED BY <5>1, <5>2
      <4>3. CASE op = "rollback"
        <5> DEFINE d == Ensure \o Restore \o Entry
        <5>1. d \in Seq(Doing) /\ Len(d) = 11 /\ t = Steps(d, of)
          BY <4>3, ScriptRestore DEF Script
        <5> HIDE DEF d, t
        <5>2. Len(d) \in Nat /\ Len(d) >= 6
          BY <5>1
        <5> QED BY <5>1, <5>2
      <4>4. CASE op \notin {"add", "snapshot", "rollback"}
        <5> DEFINE d == Ensure \o Entry
        <5>1. d \in Seq(Doing) /\ Len(d) = 6 /\ t = Steps(d, of)
          BY <1>3, <4>4, ScriptEnsure DEF Script
        <5> HIDE DEF d, t
        <5>2. Len(d) \in Nat /\ Len(d) >= 6
          BY <5>1
        <5> QED BY <5>1, <5>2
      <4> QED BY <4>1, <4>2, <4>3, <4>4
    <3>2. DOMAIN dos = 1 .. Len(dos) /\ 1 \in 1 .. Len(dos)
      BY <3>1
    <3>3. DOMAIN Steps(dos, of) = DOMAIN dos
      BY DEF Steps
    <3> HIDE DEF t
    <3>4. 1 \in DOMAIN t
      BY <3>1, <3>2, <3>3
    <3>5. DOMAIN << >> = {}
      OBVIOUS
    <3> QED BY <3>4, <3>5
  <2> QED BY <1>1, <1>2, <2>1, <2>2
<1>4. CASE op = "publish"
  <2> DEFINE m == Len(Publishing)
             l == Len(Wheels)
             P == Publishing
  <2>1. m = 7 /\ P[1] = "upload" /\ P[2] = "ensure_state" /\ P[3] = "ensure_lock" /\ P[4] = "read_state"
        /\ P[5] = "append_line" /\ P[6] = "open_state" /\ P[7] = "fill_state"
    BY ScriptPublishing
  <2>2. t = [k \in 1 .. m * l |-> Step(P[((k - 1) % m) + 1], Wheels[(k - 1) \div m + 1])]
    BY <1>4 DEF Script, InTurn
  <2>3. l \in Nat \ {0} /\ \A k \in 1 .. l : Wheels[k] \in Subjects
    <3>1. \A k \in 1 .. l : Wheels[k] \in Range(Wheels)
      BY WheelsAreOrdered DEF Range
    <3> QED BY <3>1, WheelsAreOrdered DEF Subjects
  <2> HIDE DEF m, l, t, P
  <2>4. t = InRounds(P, Wheels, l)
    BY <2>1, <2>2, Zenon DEF InRounds
  <2>5. \A k \in 1 .. 7 : k = 1 \/ k = 2 \/ k = 3 \/ k = 4 \/ k = 5 \/ k = 6 \/ k = 7
    OBVIOUS
  <2>6. /\ \A k \in 1 .. 6 : Follows(op, P[k], P[k + 1])
        /\ Follows(op, P[7], P[1])
    BY <1>4, <2>1 DEF Follows, FirstOf
  <2>7. \A k \in 1 .. 7 : Belongs(op, P[k])
    BY <1>4, <2>1, <2>5 DEF Belongs
  <2>8. Len(t) = 7 * l
    <3>1. \A k \in 1 .. 7 : P[k] \in Plain /\ (P[k] = "read_state" <=> k = 4) /\ (P[k] = "append_line" <=> k = 5)
      BY <2>1, <2>5 DEF Plain
    <3>2. l \in Nat
      BY <2>3
    <3> QED BY <2>3, <2>4, <3>1, <3>2, RoundsPaired
  <2>9. op \notin Special
    BY <1>4 DEF Special
  <2>10. Shaped(op, of, t) /\ t[1].do = P[1]
    BY <2>1, <2>3, <2>4, <2>6, <2>7, <2>8, <2>9, RoundsShaped
  <2>11. t # << >>
    <3>1. Len(t) > 0
      BY <2>3, <2>8
    <3> QED BY <3>1
  <2> QED BY <1>1, <1>2, <2>1, <2>10, <2>11 DEF t
<1>5. CASE op = "publish_all"
  <2> DEFINE n == Len(Wheels)
  <2>1. t = [i \in DOMAIN Wheels |-> Step("upload_next", Wheels[i])]
    BY <1>5 DEF Script
  <2>2. DOMAIN Wheels = 1 .. n /\ n \in Nat /\ n > 0
    BY WheelsAreOrdered
  <2>3. \A i \in 1 .. n : t[i].do = "upload_next"
    BY <2>1, <2>2 DEF Step
  <2>4. t \in Seq({t[i] : i \in 1 .. n}) /\ Len(t) = n
    <3> HIDE DEF t, n
    <3>1. t = [i \in 1 .. n |-> t[i]]
      BY <2>1, <2>2
    <3> QED BY <2>2, <3>1
  <2> HIDE DEF t, n
  <2>5. /\ \A k \in 1 .. n - 1 : k \in 1 .. n /\ k + 1 \in 1 .. n
        /\ n \in 1 .. n /\ 1 \in 1 .. n
    BY <2>2
  <2>6. \A k \in 1 .. n - 1 : Follows(op, t[k].do, t[k + 1].do)
    BY <2>3, <2>5 DEF Follows
  <2>7. \A k \in 1 .. n : Belongs(op, t[k].do)
    BY <1>5, <2>3 DEF Belongs
  <2>8. t[n].do \in {"fill_state", "upload_next"} /\ t[1].do = "upload_next" /\ op \notin Special
    BY <1>5, <2>3, <2>5 DEF Special
  <2>9. Shaped(op, of, t)
    BY <2>4, <2>6, <2>7, <2>8, Zenon DEF Shaped
  <2>10. t # << >>
    BY <2>2, <2>4
  <2> QED BY <1>1, <1>2, <2>8, <2>9, <2>10 DEF t
<1> QED BY <1>3, <1>4, <1>5

-----------------------------------------------------------------------------
(* The steps of a command that is alone.                                   *)

\* The last hash, and what the lock holds before the first line.
LEMMA LastHashNat ==
  ASSUME NEW lines, Len(lines) \in Nat, LinesSound(lines)
  PROVE  LastHash(lines) \in Nat /\ Replayed(lines)[0] = {} /\ (Len(lines) = 0 => LastNames(lines) = {})
<1> DEFINE n == Len(lines)
<1>1. n # 0 => n \in 1 .. n
  OBVIOUS
<1>2. \A i \in 1 .. n : lines[i].id \in Nat \ {0}
  BY DEF LinesSound
<1>3. IsReplay(lines, Replayed(lines)) /\ 0 \in 0 .. n
  BY DEF LinesSound
<1> HIDE DEF n
<1>4. LastHash(lines) \in Nat
  BY <1>1, <1>2 DEF LastHash, None, n
<1>5. Replayed(lines)[0] = {}
  <2> DEFINE f == Replayed(lines)
  <2>1. f = [i \in 0 .. n |->
               IF i = 0 THEN {}
               ELSE CASE lines[i].op = "add"      -> f[i - 1] \union {lines[i].of}
                      [] lines[i].op = "rollback" -> f[Taken(lines, i, lines[i].of)]
                      [] OTHER                    -> f[i - 1]]
    BY <1>3, Zenon DEF IsReplay, n
  <2> HIDE DEF f
  <2>2. f[0] = IF 0 = 0 THEN {}
               ELSE CASE lines[0].op = "add"      -> f[0 - 1] \union {lines[0].of}
                      [] lines[0].op = "rollback" -> f[Taken(lines, 0, lines[0].of)]
                      [] OTHER                    -> f[0 - 1]
    BY <1>3, <2>1, Zenon
  <2> QED BY <2>2 DEF f
<1> QED BY <1>4, <1>5 DEF LastNames

\* What is known of the command, and of what is left of it after the step.
Told(lines, st, lk, sn, c, do, of) ==
  /\ c.op \in {"snapshot", "rollback"} => of \in Snap
  /\ Shaped(c.op, of, c.todo) /\ Tells(lines, st, lk, sn, c, of)
  /\ Shaped(c.op, of, Tail(c.todo)) /\ Belongs(c.op, do) /\ Tail(c.todo) \in Todo
  /\ c.op \in Special /\ do \notin {"open_lock", "fill_lock"} => c.todo[1].of = of
  /\ IF Tail(c.todo) = <<>> THEN do \in {"fill_state", "upload_next"}
     ELSE Follows(c.op, do, Tail(c.todo)[1].do)
  /\ do \notin Effect \union {"append_line"} =>
       Wanted(lines, c.op, of, Tail(c.todo)) = Wanted(lines, c.op, of, c.todo)
  /\ do \in Effect => /\ Wanted(lines, c.op, of, c.todo) = LastNames(lines)
                      /\ Wanted(lines, c.op, of, Tail(c.todo)) = Resulting(lines, c.op, of)
  /\ do = "append_line" => /\ Wanted(lines, c.op, of, c.todo) = Resulting(lines, c.op, of)
                           /\ \A more : Wanted(more, c.op, of, Tail(c.todo)) = LastNames(more)
  /\ do \in {"ensure_lock", "find_snapshot", "upload", "upload_next"} \/ Tail(c.todo) = <<>> =>
       Wanted(lines, c.op, of, c.todo) = LastNames(lines)
  /\ do # "read_lock" => (Has(Tail(c.todo), {"read_lock"}) <=> Has(c.todo, {"read_lock"}))
  /\ do = "read_lock" => ~Has(Tail(c.todo), {"read_lock"})

\* There is one name that the command is about.
LEMMA Underway ==
  ASSUME NEW lines, NEW st, NEW lk, NEW sn, NEW c, NEW do, Moving(lines, st, lk, sn, c, do)
  PROVE  \E of \in Subjects : Told(lines, st, lk, sn, c, do, of)
<1> DEFINE t == c.todo
<1>1. t \in Todo /\ t # <<>> /\ t[1].do = do
  BY DEF Moving
<1>2. PICK of \in Subjects : /\ c.op \in {"snapshot", "rollback"} => of \in Snap
                             /\ Shaped(c.op, of, t) /\ Tells(lines, st, lk, sn, c, of)
  BY <1>1 DEF Moving, Good, Working
<1> HIDE DEF t
<1>3. /\ Shaped(c.op, of, Tail(t)) /\ Belongs(c.op, do) /\ Tail(t) \in Todo
      /\ c.op \in Special /\ do \notin {"open_lock", "fill_lock"} => t[1].of = of
      /\ IF Tail(t) = <<>> THEN do \in {"fill_state", "upload_next"}
         ELSE Follows(c.op, do, Tail(t)[1].do)
  BY <1>1, <1>2, ShapedTail, TodoTail
<1>4. \A more :
        /\ do \notin Effect \union {"append_line"} =>
             Wanted(more, c.op, of, Tail(t)) = Wanted(more, c.op, of, t)
        /\ do \in Effect => /\ Wanted(more, c.op, of, t) = LastNames(more)
                            /\ Wanted(more, c.op, of, Tail(t)) = Resulting(more, c.op, of)
        /\ do = "append_line" => /\ Wanted(more, c.op, of, t) = Resulting(more, c.op, of)
                                 /\ Wanted(more, c.op, of, Tail(t)) = LastNames(more)
        /\ do \in {"ensure_lock", "find_snapshot", "upload", "upload_next"} \/ Tail(t) = <<>> =>
             Wanted(more, c.op, of, t) = LastNames(more)
        /\ do # "read_lock" => (Has(Tail(t), {"read_lock"}) <=> Has(t, {"read_lock"}))
  BY <1>1, <1>2, WantedTail
<1>5. do = "read_lock" => ~Has(Tail(t), {"read_lock"})
  <2> SUFFICES ASSUME do = "read_lock" PROVE ~Has(Tail(t), {"read_lock"})
    OBVIOUS
  <2>1. c.op \in Special
    BY <1>3 DEF Belongs, Special
  <2>2. \A j, k \in 1 .. Len(t) : t[j].do \in Effect /\ t[k].do \in Effect => j = k
    BY <1>2, <2>1, Zenon DEF Shaped
  <2>3. Has(Tail(t), {"read_lock"}) <=> \E k \in 2 .. Len(t) : t[k].do \in {"read_lock"}
    BY <1>1, HasTail
  <2>4. Len(t) \in Nat \ {0}
    BY <1>1, TodoTail
  <2>5. 1 \in 1 .. Len(t) /\ \A k \in 2 .. Len(t) : k \in 1 .. Len(t) /\ k # 1
    BY <2>4
  <2>6. "read_lock" \in Effect
    BY DEF Effect
  <2> QED BY <1>1, <2>2, <2>3, <2>5, <2>6
<1> QED BY <1>2, <1>3, <1>4, <1>5, Zenon DEF t, Told

\* A command that ends, or goes on with the rest of its steps.
LEMMA Ends ==
  ASSUME NEW lines, NEW st, NEW lk, NEW sn, NEW d, d.todo = <<>>, LinesSound(lines),
         lk.kind = "missing" => Len(lines) = 0, Settled(lines, st, lk, sn)
  PROVE  Good(lines, st, lk, sn, d)
BY DEF Good

LEMMA GoesOn ==
  ASSUME NEW lines, NEW st, NEW lk, NEW sn, NEW d, d.todo # <<>>, LinesSound(lines),
         lk.kind = "missing" => Len(lines) = 0,
         NEW of \in Subjects, d.op \in {"snapshot", "rollback"} => of \in Snap,
         Shaped(d.op, of, d.todo), Tells(lines, st, lk, sn, d, of)
  PROVE  Good(lines, st, lk, sn, d)
BY DEF Good, Working

\* Step by step: what the files hold after each is what the next one relies on.
LEMMA GoodEnsureState ==
  ASSUME NEW lines, NEW st, NEW lk, NEW sn, NEW c, Moving(lines, st, lk, sn, c, "ensure_state"),
         NEW d, d.op = c.op, d.names = c.names,
         st # Missing => d.todo = Tail(c.todo),
         st = Missing => /\ d.todo = Steps(<<"open_state", "fill_state">>, c.todo[1].of) \o Tail(c.todo)
                         /\ d.hash = None,
         c.todo[1].of \in Subjects
  PROVE  Good(lines, st, lk, sn, d)
<1> DEFINE t == c.todo
           u == Tail(t)
           op == c.op
<1>1. PICK of \in Subjects :
        /\ op \in {"snapshot", "rollback"} => of \in Snap
        /\ Tells(lines, st, lk, sn, c, of) /\ Shaped(op, of, u) /\ u \in Todo
        /\ op \in Special => t[1].of = of
        /\ u # <<>> /\ u[1].do = "ensure_lock"
        /\ Wanted(lines, op, of, u) = Wanted(lines, op, of, t)
        /\ Has(u, {"read_lock"}) <=> Has(t, {"read_lock"})
  <2>1. /\ "ensure_state" \notin Effect \union {"append_line"} /\ "ensure_state" # "read_lock"
        /\ "ensure_state" \notin {"open_lock", "fill_lock"} /\ "ensure_state" \notin {"fill_state", "upload_next"}
    BY DEF Effect
  <2>2. \A b : Follows(op, "ensure_state", b) => b = "ensure_lock"
    BY DEF Follows
  <2>3. PICK of \in Subjects : Told(lines, st, lk, sn, c, t[1].do, of)
    BY Underway DEF Moving
  <2> QED BY <2>1, <2>2, <2>3, Zenon DEF Told, Moving
<1>2. t # <<>> /\ t[1].do = "ensure_state" /\ LinesSound(lines) /\ (lk.kind = "missing" => Len(lines) = 0)
      /\ Len(lines) \in Nat /\ st \in Int
  BY DEF Moving, Good
<1> HIDE DEF t, u, op
<1>3. /\ st = LastHash(lines) \/ (st = -2 /\ Len(lines) = 0)
      /\ lk.kind = "map" => lk.names = Wanted(lines, op, of, t)
      /\ \A s \in Snap : SnapSound(lines, sn[s], s)
      /\ op # "add" \/ Has(t, {"read_lock"}) => c.names = {}
  BY <1>1, <1>2 DEF Tells, StateSound, Entering, Missing, op, t
<1>4. CASE st # Missing
  <2>1. st = LastHash(lines) /\ st >= 0
    BY <1>2, <1>3, <1>4, LastHashNat DEF Missing
  <2>2. d.todo = u
    BY <1>4 DEF u, t
  <2>3. Tells(lines, st, lk, sn, d, of)
    BY <1>1, <1>3, <2>1, <2>2 DEF Tells, StateSound, Entering, Looked, op
  <2> QED BY <1>1, <1>2, <2>2, <2>3, GoesOn DEF op
<1>5. CASE st = Missing
  <2> DEFINE w == Steps(<<"open_state", "fill_state">>, t[1].of) \o u
  <2>1. d.todo = w /\ d.hash = None
    BY <1>5 DEF u, t
  <2>2. Follows(op, "fill_state", u[1].do)
    BY <1>1 DEF Follows
  <2>3. t[1].of \in Subjects
    BY DEF t
  <2> HIDE DEF w
  <2>4. /\ Shaped(op, of, w) /\ w # <<>> /\ w[1].do = "open_state"
        /\ \A dos : "open_state" \notin dos /\ "fill_state" \notin dos => (Has(w, dos) <=> Has(u, dos))
    <3>1. Prepended(op, of, u, t[1].of, "open_state", "fill_state", w)
      BY <1>1, <2>2, <2>3 DEF Prepended, w
    <3> QED BY <3>1, ShapedFront
  <2>5. Wanted(lines, op, of, w) = Wanted(lines, op, of, u) /\ (Has(w, {"read_lock"}) <=> Has(u, {"read_lock"}))
    BY <2>4 DEF Wanted, Effect
  <2>6. LastHash(lines) = None
    <3>1. LastHash(lines) # -2
      BY <1>2, LastHashNat
    <3> QED BY <1>3, <1>5, <3>1 DEF LastHash, Missing
  <2>7. Tells(lines, st, lk, sn, d, of)
    BY <1>1, <1>3, <2>1, <2>4, <2>5, <2>6 DEF Tells, Entering, Looked, op
  <2> QED BY <1>1, <1>2, <2>1, <2>4, <2>7, GoesOn DEF op
<1> QED BY <1>4, <1>5

LEMMA GoodEnsureLock ==
  ASSUME NEW lines, NEW st, NEW lk, NEW sn, NEW c, Moving(lines, st, lk, sn, c, "ensure_lock"),
         NEW d, d.op = c.op, d.names = c.names,
         lk.kind # "missing" => d.todo = Tail(c.todo),
         lk.kind = "missing" => d.todo = Steps(<<"open_lock", "fill_lock">>, NotName) \o Tail(c.todo)
  PROVE  Good(lines, st, lk, sn, d)
<1> DEFINE t == c.todo
           u == Tail(t)
           op == c.op
<1>1. PICK of \in Subjects :
        /\ op \in {"snapshot", "rollback"} => of \in Snap
        /\ Tells(lines, st, lk, sn, c, of) /\ Shaped(op, of, u) /\ u \in Todo
        /\ u # <<>> /\ u[1].do = FirstOf(op)
        /\ Wanted(lines, op, of, u) = Wanted(lines, op, of, t)
        /\ Wanted(lines, op, of, t) = LastNames(lines)
        /\ Has(u, {"read_lock"}) <=> Has(t, {"read_lock"})
  <2>1. /\ "ensure_lock" \notin Effect \union {"append_line"} /\ "ensure_lock" # "read_lock"
        /\ "ensure_lock" \notin {"fill_state", "upload_next"}
        /\ "ensure_lock" \in {"ensure_lock", "find_snapshot", "upload", "upload_next"}
    BY DEF Effect
  <2>2. \A b : Follows(op, "ensure_lock", b) => b = FirstOf(op)
    BY DEF Follows
  <2>3. PICK of \in Subjects : Told(lines, st, lk, sn, c, t[1].do, of)
    BY Underway DEF Moving
  <2> QED BY <2>1, <2>2, <2>3, Zenon DEF Told, Moving
<1>2. t # <<>> /\ t[1].do = "ensure_lock" /\ LinesSound(lines) /\ (lk.kind = "missing" => Len(lines) = 0)
      /\ Len(lines) \in Nat /\ st \in Int
  BY DEF Moving, Good
<1> HIDE DEF t, u, op
<1>3. /\ StateSound(lines, st) /\ st >= 0
      /\ lk.kind = "map" => lk.names = LastNames(lines)
      /\ \A s \in Snap : SnapSound(lines, sn[s], s)
      /\ op # "add" \/ Has(t, {"read_lock"}) => c.names = {}
  BY <1>1, <1>2 DEF Tells, Entering, Looked, op, t
<1>4. CASE lk.kind # "missing"
  <2>1. d.todo = u
    BY <1>4 DEF u, t
  <2>2. Tells(lines, st, lk, sn, d, of)
    BY <1>1, <1>3, <1>4, <2>1 DEF Tells, FirstOf, Entering, Looked, op
  <2> QED BY <1>1, <1>2, <2>1, <2>2, GoesOn DEF op
<1>5. CASE lk.kind = "missing"
  <2> DEFINE w == Steps(<<"open_lock", "fill_lock">>, NotName) \o u
  <2>1. d.todo = w
    BY <1>5 DEF u, t
  <2>2. Follows(op, "fill_lock", u[1].do)
    BY <1>1 DEF Follows
  <2>3. NotName \in Subjects
    BY DEF Subjects
  <2> HIDE DEF w
  <2>4. /\ Shaped(op, of, w) /\ w # <<>> /\ w[1].do = "open_lock"
        /\ \A dos : "open_lock" \notin dos /\ "fill_lock" \notin dos => (Has(w, dos) <=> Has(u, dos))
    <3>1. Prepended(op, of, u, NotName, "open_lock", "fill_lock", w)
      BY <1>1, <2>2, <2>3 DEF Prepended, w
    <3> QED BY <3>1, ShapedFront
  <2>5. Wanted(lines, op, of, w) = Wanted(lines, op, of, u) /\ (Has(w, {"read_lock"}) <=> Has(u, {"read_lock"}))
    BY <2>4 DEF Wanted, Effect
  <2>6. LastNames(lines) = {}
    BY <1>2, <1>5, LastHashNat
  <2>7. c.names = {}
    <3>1. CASE op # "add"
      BY <1>3, <3>1
    <3>2. CASE op = "add"
      <4>1. u[1].do = "read_lock" /\ Len(u) \in Nat \ {0}
        BY <1>1, <3>2, TodoTail DEF FirstOf
      <4>2. Has(u, {"read_lock"})
        BY <4>1 DEF Has
      <4> QED BY <1>1, <1>3, <4>2
    <3> QED BY <3>1, <3>2
  <2>8. Tells(lines, st, lk, sn, d, of)
    BY <1>1, <1>3, <1>5, <2>1, <2>4, <2>5, <2>6, <2>7 DEF Tells, Entering, Looked, op
  <2> QED BY <1>1, <1>2, <2>1, <2>4, <2>8, GoesOn DEF op
<1> QED BY <1>4, <1>5

LEMMA GoodReadState ==
  ASSUME NEW lines, NEW st, NEW lk, NEW sn, NEW c, Moving(lines, st, lk, sn, c, "read_state"),
         NEW d, d.op = c.op, d.names = c.names, d.todo = Tail(c.todo), d.prev = st, d.hash > 0
  PROVE  st # Torn /\ Good(lines, st, lk, sn, d)
<1> DEFINE t == c.todo
           u == Tail(t)
           op == c.op
<1>1. PICK of \in Subjects :
        /\ op \in {"snapshot", "rollback"} => of \in Snap
        /\ Tells(lines, st, lk, sn, c, of) /\ Shaped(op, of, u) /\ u \in Todo
        /\ u # <<>> /\ u[1].do = "append_line"
        /\ Wanted(lines, op, of, u) = Wanted(lines, op, of, t)
        /\ Has(u, {"read_lock"}) <=> Has(t, {"read_lock"})
  <2>1. /\ "read_state" \notin Effect \union {"append_line"} /\ "read_state" # "read_lock"
        /\ "read_state" \notin {"fill_state", "upload_next"}
    BY DEF Effect
  <2>2. \A b : Follows(op, "read_state", b) => b = "append_line"
    BY DEF Follows
  <2>3. PICK of \in Subjects : Told(lines, st, lk, sn, c, t[1].do, of)
    BY Underway DEF Moving
  <2> QED BY <2>1, <2>2, <2>3, Zenon DEF Told, Moving
<1>2. t # <<>> /\ t[1].do = "read_state" /\ LinesSound(lines) /\ (lk.kind = "missing" => Len(lines) = 0)
      /\ Len(lines) \in Nat /\ st \in Int
  BY DEF Moving, Good
<1> HIDE DEF t, u, op
<1>3. /\ IF op = "rollback" THEN st = lines[SnapLine(lines, of)].prev ELSE StateSound(lines, st)
      /\ st >= 0 /\ lk.kind # "missing"
      /\ lk.kind = "map" => lk.names = Wanted(lines, op, of, t)
      /\ \A s \in Snap :
           IF op = "snapshot" /\ s = of
           THEN /\ sn[s].lock.kind # "missing"
                /\ sn[s].lock.kind = "map" => sn[s].lock.names = LastNames(lines)
                /\ sn[s].state = LastHash(lines)
           ELSE SnapSound(lines, sn[s], s)
      /\ op = "rollback" => sn[of].lock # NoLock
      /\ op # "add" \/ Has(t, {"read_lock"}) => c.names = {}
  BY <1>1, <1>2 DEF Tells, Entering, Looked, op, t
<1>4. d.todo = u
  BY DEF u, t
<1>5. Tells(lines, st, lk, sn, d, of)
  BY <1>1, <1>3, <1>4 DEF Tells, Entering, Looked, op
<1>6. st # Torn
  BY <1>2, <1>3 DEF Torn
<1> QED BY <1>1, <1>2, <1>4, <1>5, <1>6, GoesOn DEF op

LEMMA GoodAppendLine ==
  ASSUME NEW lines, NEW st, NEW lk, NEW sn, NEW c, Moving(lines, st, lk, sn, c, "append_line"),
         c.hash \in Int, NEW line, line.id = c.hash, line.op = c.op, line.of = c.todo[1].of, line.prev = c.prev,
         NEW more, Len(more) = Len(lines) + 1, more[Len(lines) + 1] = line,
         \A i \in 1 .. Len(lines) : more[i] = lines[i],
         NEW d, d.op = c.op, d.names = c.names, d.todo = Tail(c.todo), d.hash = c.hash
  PROVE  Good(more, st, lk, sn, d)
<1> DEFINE t == c.todo
           u == Tail(t)
           op == c.op
           n == Len(lines)
<1>1. PICK of \in Subjects :
        /\ op \in {"snapshot", "rollback"} => of \in Snap
        /\ Tells(lines, st, lk, sn, c, of) /\ Shaped(op, of, u) /\ u \in Todo
        /\ u # <<>> /\ u[1].do = "open_state"
        /\ op \in Special => t[1].of = of
        /\ Wanted(lines, op, of, t) = Resulting(lines, op, of)
        /\ Wanted(more, op, of, u) = LastNames(more)
        /\ Has(u, {"read_lock"}) <=> Has(t, {"read_lock"})
  <2>1. /\ "append_line" \notin {"fill_state", "upload_next"} /\ "append_line" # "read_lock"
        /\ "append_line" \notin {"open_lock", "fill_lock"}
    OBVIOUS
  <2>2. \A b : Follows(op, "append_line", b) => b = "open_state"
    BY DEF Follows
  <2>3. PICK of \in Subjects : Told(lines, st, lk, sn, c, t[1].do, of)
    BY Underway DEF Moving
  <2> QED BY <2>1, <2>2, <2>3, Zenon DEF Told, Moving
<1>2. t # <<>> /\ t[1].do = "append_line" /\ LinesSound(lines) /\ n \in Nat /\ st \in Int
  BY DEF Moving, Good
<1> HIDE DEF t, u, op
<1>3. /\ IF op = "rollback" THEN st = lines[SnapLine(lines, of)].prev ELSE StateSound(lines, st)
      /\ st >= 0 /\ lk.kind # "missing"
      /\ lk.kind = "map" => lk.names = Wanted(lines, op, of, t)
      /\ \A s \in Snap :
           IF op = "snapshot" /\ s = of
           THEN /\ sn[s].lock.kind # "missing"
                /\ sn[s].lock.kind = "map" => sn[s].lock.names = LastNames(lines)
                /\ sn[s].state = LastHash(lines)
           ELSE SnapSound(lines, sn[s], s)
      /\ op = "rollback" => sn[of].lock # NoLock
      /\ c.prev = st /\ c.hash > 0
      /\ op # "add" \/ Has(t, {"read_lock"}) => c.names = {}
  BY <1>1, <1>2 DEF Tells, Entering, Looked, op, t
<1>4. line.id = c.hash /\ line.op = op /\ (op \in Special => line.of = of) /\ line.prev = st
  BY <1>1, <1>3 DEF op, t
<1>5. Resulting(lines, op, line.of) = Resulting(lines, op, of)
  <2>1. CASE op \in Special
    BY <1>4, <2>1
  <2>2. CASE op \notin Special
    BY <2>2, PlainResult DEF Special
  <2> QED BY <2>1, <2>2
<1>6. op = "rollback" => IsTaken(lines, n + 1, line.of)
  BY <1>1, <1>3, <1>4 DEF SnapSound, Special
<1>7. line.prev = IF op = "rollback" THEN lines[SnapLine(lines, line.of)].prev ELSE LastHash(lines)
  <2>1. op = "rollback" => line.of = of
    BY <1>4 DEF Special
  <2>2. op # "rollback" => st = LastHash(lines)
    BY <1>3 DEF StateSound, Missing
  <2> QED BY <1>3, <1>4, <2>1, <2>2
<1>8. st \in Nat /\ c.hash \in Nat \ {0}
  BY <1>2, <1>3
<1> HIDE DEF n
<1>9. /\ LinesSound(more) /\ LastHash(more) = line.id
      /\ LastNames(more) = Resulting(lines, line.op, line.of)
      /\ \A copy, s : ~(line.op = "snapshot" /\ line.of = s) /\ SnapSound(lines, copy, s)
                        => SnapSound(more, copy, s)
      /\ \A copy, s : /\ line.op = "snapshot" /\ line.of = s
                      /\ copy.lock.kind # "missing" /\ copy.state = line.prev
                      /\ copy.lock.kind = "map" => copy.lock.names = LastNames(lines)
                      => SnapSound(more, copy, s)
  <2>1. Continued(lines, line, more)
    BY <1>2, <1>4, <1>6, <1>7, <1>8 DEF Continued, n
  <2> QED BY <2>1, LineAdded
<1>10. \A s \in Snap : SnapSound(more, sn[s], s)
  <2> TAKE s \in Snap
  <2>1. CASE op = "snapshot" /\ s = of
    <3>1. line.op = "snapshot" /\ line.of = s
      BY <1>4, <2>1 DEF Special
    <3>2. sn[s].lock.kind # "missing" /\ sn[s].state = line.prev
      BY <1>3, <1>4, <1>7, <2>1
    <3>3. sn[s].lock.kind = "map" => sn[s].lock.names = LastNames(lines)
      BY <1>3, <2>1
    <3> QED BY <1>9, <3>1, <3>2, <3>3
  <2>2. CASE ~(op = "snapshot" /\ s = of)
    <3>1. ~(line.op = "snapshot" /\ line.of = s)
      BY <1>4, <2>2 DEF Special
    <3>2. SnapSound(lines, sn[s], s)
      BY <1>3, <2>2
    <3> QED BY <1>9, <3>1, <3>2
  <2> QED BY <2>1, <2>2
<1>11. d.todo = u /\ d.hash = LastHash(more)
  BY <1>4, <1>9 DEF u, t
<1>12. lk.kind = "map" => lk.names = Wanted(more, op, of, u)
  BY <1>1, <1>3, <1>4, <1>5, <1>9
<1>13. Tells(more, st, lk, sn, d, of)
  BY <1>1, <1>3, <1>10, <1>11, <1>12 DEF Tells, Entering, Looked, op
<1> QED BY <1>1, <1>3, <1>9, <1>11, <1>13, GoesOn DEF op

LEMMA GoodOpenState ==
  ASSUME NEW lines, NEW st, NEW lk, NEW sn, NEW c, Moving(lines, st, lk, sn, c, "open_state"),
         NEW d, d.op = c.op, d.names = c.names, d.todo = Tail(c.todo), d.hash = c.hash
  PROVE  Good(lines, Torn, lk, sn, d)
<1> DEFINE t == c.todo
           u == Tail(t)
           op == c.op
<1>1. PICK of \in Subjects :
        /\ op \in {"snapshot", "rollback"} => of \in Snap
        /\ Tells(lines, st, lk, sn, c, of) /\ Shaped(op, of, u)
        /\ u # <<>> /\ u[1].do = "fill_state"
        /\ Wanted(lines, op, of, u) = Wanted(lines, op, of, t)
        /\ Has(u, {"read_lock"}) <=> Has(t, {"read_lock"})
  <2>1. /\ "open_state" \notin Effect \union {"append_line"} /\ "open_state" # "read_lock"
        /\ "open_state" \notin {"fill_state", "upload_next"}
    BY DEF Effect
  <2>2. \A b : Follows(op, "open_state", b) => b = "fill_state"
    BY DEF Follows
  <2>3. PICK of \in Subjects : Told(lines, st, lk, sn, c, t[1].do, of)
    BY Underway DEF Moving
  <2> QED BY <2>1, <2>2, <2>3, Zenon DEF Told, Moving
<1>2. t # <<>> /\ t[1].do = "open_state" /\ LinesSound(lines) /\ (lk.kind = "missing" => Len(lines) = 0)
  BY DEF Moving, Good
<1> HIDE DEF t, u, op
<1>3. /\ c.hash = LastHash(lines)
      /\ lk.kind = "map" => lk.names = Wanted(lines, op, of, t)
      /\ \A s \in Snap : SnapSound(lines, sn[s], s)
      /\ op # "add" \/ Has(t, {"read_lock"}) => c.names = {}
  BY <1>1, <1>2 DEF Tells, Entering, Looked, op, t
<1>4. d.todo = u
  BY DEF u, t
<1>5. Tells(lines, Torn, lk, sn, d, of)
  BY <1>1, <1>3, <1>4 DEF Tells, Entering, Looked, op
<1> QED BY <1>1, <1>2, <1>4, <1>5, GoesOn DEF op

LEMMA GoodFillState ==
  ASSUME NEW lines, NEW st, NEW lk, NEW sn, NEW c, Moving(lines, st, lk, sn, c, "fill_state"),
         NEW d, d.op = c.op, d.names = c.names, d.todo = Tail(c.todo)
  PROVE  Good(lines, c.hash, lk, sn, d)
<1> DEFINE t == c.todo
           u == Tail(t)
           op == c.op
<1>1. PICK of \in Subjects :
        /\ op \in {"snapshot", "rollback"} => of \in Snap
        /\ Tells(lines, st, lk, sn, c, of) /\ Shaped(op, of, u)
        /\ u # <<>> => u[1].do \in {"ensure_lock", "upload"}
        /\ Wanted(lines, op, of, u) = Wanted(lines, op, of, t)
        /\ u = <<>> => Wanted(lines, op, of, t) = LastNames(lines)
        /\ Has(u, {"read_lock"}) <=> Has(t, {"read_lock"})
  <2>1. "fill_state" \notin Effect \union {"append_line"} /\ "fill_state" # "read_lock"
    BY DEF Effect
  <2>2. \A b : Follows(op, "fill_state", b) => b \in {"ensure_lock", "upload"}
    BY DEF Follows
  <2>3. PICK of \in Subjects : Told(lines, st, lk, sn, c, t[1].do, of)
    BY Underway DEF Moving
  <2> QED BY <2>1, <2>2, <2>3, Zenon DEF Told, Moving
<1>2. t # <<>> /\ t[1].do = "fill_state" /\ LinesSound(lines) /\ (lk.kind = "missing" => Len(lines) = 0)
      /\ Len(lines) \in Nat
  BY DEF Moving, Good
<1> HIDE DEF t, u, op
<1>3. /\ c.hash = LastHash(lines)
      /\ lk.kind = "map" => lk.names = Wanted(lines, op, of, t)
      /\ \A s \in Snap : SnapSound(lines, sn[s], s)
      /\ op # "add" \/ Has(t, {"read_lock"}) => c.names = {}
  BY <1>1, <1>2 DEF Tells, Entering, Looked, op, t
<1>4. d.todo = u
  BY DEF u, t
<1>5. c.hash >= 0 /\ StateSound(lines, c.hash)
  BY <1>2, <1>3, LastHashNat DEF StateSound
<1>6. CASE u = <<>>
  BY <1>1, <1>2, <1>3, <1>4, <1>5, <1>6, Ends DEF Settled
<1>7. CASE u # <<>>
  <2>1. Tells(lines, c.hash, lk, sn, d, of)
    BY <1>1, <1>3, <1>4, <1>5, <1>7 DEF Tells, Entering, Looked, op
  <2> QED BY <1>1, <1>2, <1>4, <1>7, <2>1, GoesOn DEF op
<1> QED BY <1>6, <1>7

\* Copies of a file in a snapshot.
LockCopied(sn, tn, x, lk) ==
  \A s \in Snap : IF s = x THEN tn[s].lock = lk ELSE tn[s] = sn[s]
StateCopied(sn, tn, x, st) ==
  \A s \in Snap : IF s = x THEN tn[s].lock = sn[s].lock /\ tn[s].state = st ELSE tn[s] = sn[s]

LEMMA GoodReadLock ==
  ASSUME NEW lines, NEW st, NEW lk, NEW sn, NEW c, Moving(lines, st, lk, sn, c, "read_lock"),
         NEW d, lk.kind # "map" => d.todo = <<>>,
         lk.kind = "map" => d.op = c.op /\ d.names = lk.names \union {c.todo[1].of} /\ d.todo = Tail(c.todo)
  PROVE  Good(lines, st, lk, sn, d)
<1> DEFINE t == c.todo
           u == Tail(t)
           op == c.op
<1>1. PICK of \in Subjects :
        /\ op \in {"snapshot", "rollback"} => of \in Snap
        /\ Tells(lines, st, lk, sn, c, of) /\ Shaped(op, of, u)
        /\ u # <<>> /\ u[1].do = "open_lock" /\ op = "add" /\ t[1].of = of
        /\ Wanted(lines, op, of, t) = LastNames(lines)
        /\ Wanted(lines, op, of, u) = Resulting(lines, op, of)
        /\ ~Has(u, {"read_lock"})
  <2>1. "read_lock" \in Effect /\ "read_lock" \notin {"fill_state", "upload_next"}
        /\ "read_lock" \notin {"open_lock", "fill_lock"} /\ "add" \in Special
    BY DEF Effect, Special
  <2>2. \A b : (Follows(op, "read_lock", b) => b = "open_lock") /\ (Belongs(op, "read_lock") => op = "add")
    BY DEF Follows, Belongs, FirstOf
  <2>3. PICK of \in Subjects : Told(lines, st, lk, sn, c, t[1].do, of)
    BY Underway DEF Moving
  <2> QED BY <2>1, <2>2, <2>3, Zenon DEF Told, Moving
<1>2. t # <<>> /\ t[1].do = "read_lock" /\ LinesSound(lines) /\ (lk.kind = "missing" => Len(lines) = 0)
      /\ Len(lines) \in Nat /\ st \in Int
  BY DEF Moving, Good
<1> HIDE DEF t, u, op
<1>3. /\ StateSound(lines, st) /\ st >= 0
      /\ lk.kind = "map" => lk.names = Wanted(lines, op, of, t)
      /\ \A s \in Snap : SnapSound(lines, sn[s], s)
  BY <1>1, <1>2 DEF Tells, Entering, Looked, op, t
<1>4. CASE lk.kind # "map"
  <2>1. Settled(lines, st, lk, sn)
    BY <1>3, <1>4 DEF Settled
  <2> QED BY <1>2, <1>4, <2>1, Ends
<1>5. CASE lk.kind = "map"
  <2>1. d.todo = u /\ d.op = op /\ d.names = LastNames(lines) \union {of}
    BY <1>1, <1>3, <1>5 DEF u, t, op
  <2>2. d.names = Wanted(lines, op, of, u)
    BY <1>1, <2>1 DEF Resulting
  <2>3. Tells(lines, st, lk, sn, d, of)
    BY <1>1, <1>3, <2>1, <2>2 DEF Tells, Entering, Looked
  <2> QED BY <1>1, <1>2, <2>1, <2>3, GoesOn
<1> QED BY <1>4, <1>5

LEMMA GoodOpenLock ==
  ASSUME NEW lines, NEW st, NEW lk, NEW sn, NEW c, Moving(lines, st, lk, sn, c, "open_lock"),
         NEW d, d.op = c.op, d.names = c.names, d.todo = Tail(c.todo)
  PROVE  Good(lines, st, TornLock, sn, d)
<1> DEFINE t == c.todo
           u == Tail(t)
           op == c.op
<1>1. PICK of \in Subjects :
        /\ op \in {"snapshot", "rollback"} => of \in Snap
        /\ Tells(lines, st, lk, sn, c, of) /\ Shaped(op, of, u)
        /\ u # <<>> /\ u[1].do = "fill_lock"
        /\ Wanted(lines, op, of, u) = Wanted(lines, op, of, t)
        /\ Has(u, {"read_lock"}) <=> Has(t, {"read_lock"})
  <2>1. "open_lock" \notin Effect \union {"append_line"} /\ "open_lock" # "read_lock"
        /\ "open_lock" \notin {"fill_state", "upload_next"}
    BY DEF Effect
  <2>2. \A b : Follows(op, "open_lock", b) => b = "fill_lock"
    BY DEF Follows, Belongs, FirstOf
  <2>3. PICK of \in Subjects : Told(lines, st, lk, sn, c, t[1].do, of)
    BY Underway DEF Moving
  <2> QED BY <2>1, <2>2, <2>3, Zenon DEF Told, Moving
<1>2. t # <<>> /\ t[1].do = "open_lock" /\ LinesSound(lines) /\ (lk.kind = "missing" => Len(lines) = 0)
      /\ Len(lines) \in Nat /\ st \in Int
  BY DEF Moving, Good
<1> HIDE DEF t, u, op
<1>3. /\ StateSound(lines, st) /\ st >= 0 /\ c.names = Wanted(lines, op, of, t)
      /\ \A s \in Snap : SnapSound(lines, sn[s], s)
      /\ op # "add" \/ Has(t, {"read_lock"}) => c.names = {}
  BY <1>1, <1>2 DEF Tells, Entering, Looked, op, t
<1>4. d.todo = u /\ TornLock.kind = "torn"
  BY DEF u, t, TornLock
<1>5. Tells(lines, st, TornLock, sn, d, of)
  BY <1>1, <1>3, <1>4 DEF Tells, Entering, Looked, op
<1> QED BY <1>1, <1>2, <1>4, <1>5, GoesOn DEF op

LEMMA GoodFillLock ==
  ASSUME NEW lines, NEW st, NEW lk, NEW sn, NEW c, Moving(lines, st, lk, sn, c, "fill_lock"),
         NEW d, d.op = c.op, d.names = c.names, d.todo = Tail(c.todo)
  PROVE  Good(lines, st, LockOf("map", c.names), sn, d)
<1> DEFINE t == c.todo
           u == Tail(t)
           op == c.op
<1>1. PICK of \in Subjects :
        /\ op \in {"snapshot", "rollback"} => of \in Snap
        /\ Tells(lines, st, lk, sn, c, of) /\ Shaped(op, of, u)
        /\ u # <<>> /\ u[1].do \in {"read_lock", "empty_lock_out", "find_snapshot", "read_state"}
        /\ (u[1].do = "read_state" => op \notin {"snapshot", "rollback"})
        /\ Wanted(lines, op, of, u) = Wanted(lines, op, of, t)
        /\ Has(u, {"read_lock"}) <=> Has(t, {"read_lock"})
  <2>1. "fill_lock" \notin Effect \union {"append_line"} /\ "fill_lock" # "read_lock"
        /\ "fill_lock" \notin {"fill_state", "upload_next"}
    BY DEF Effect
  <2>2. \A b : Follows(op, "fill_lock", b) =>
              /\ b \in {"read_lock", "empty_lock_out", "find_snapshot", "read_state"}
              /\ b = "read_state" => op \notin {"snapshot", "rollback"}
    BY DEF Follows, Belongs, FirstOf
  <2>3. PICK of \in Subjects : Told(lines, st, lk, sn, c, t[1].do, of)
    BY Underway DEF Moving
  <2> QED BY <2>1, <2>2, <2>3, Zenon DEF Told, Moving
<1>2. t # <<>> /\ t[1].do = "fill_lock" /\ LinesSound(lines) /\ (lk.kind = "missing" => Len(lines) = 0)
      /\ Len(lines) \in Nat /\ st \in Int
  BY DEF Moving, Good
<1> HIDE DEF t, u, op
<1> DEFINE nk == LockOf("map", c.names)
<1>3. /\ StateSound(lines, st) /\ st >= 0 /\ c.names = Wanted(lines, op, of, t)
      /\ \A s \in Snap : SnapSound(lines, sn[s], s)
      /\ op # "add" \/ Has(t, {"read_lock"}) => c.names = {}
  BY <1>1, <1>2 DEF Tells, Entering, Looked, op, t
<1>4. d.todo = u /\ nk.kind = "map" /\ nk.names = c.names
  BY DEF u, t, LockOf
<1> HIDE DEF nk
<1>5. Tells(lines, st, nk, sn, d, of)
  BY <1>1, <1>3, <1>4 DEF Tells, Entering, Looked, op
<1>6. Good(lines, st, nk, sn, d)
  BY <1>1, <1>2, <1>4, <1>5, GoesOn DEF op
<1> QED BY <1>6 DEF nk

LEMMA GoodEmptyLockOut ==
  ASSUME NEW lines, NEW st, NEW lk, NEW sn, NEW c, Moving(lines, st, lk, sn, c, "empty_lock_out"),
         NEW d, d.op = c.op, d.names = c.names, d.todo = Tail(c.todo),
         NEW tn, LockCopied(sn, tn, c.todo[1].of, TornLock)
  PROVE  Good(lines, st, lk, tn, d)
<1> DEFINE t == c.todo
           u == Tail(t)
           op == c.op
<1>1. PICK of \in Subjects :
        /\ op \in {"snapshot", "rollback"} => of \in Snap
        /\ Tells(lines, st, lk, sn, c, of) /\ Shaped(op, of, u)
        /\ u # <<>> /\ u[1].do = "copy_lock_out" /\ op = "snapshot" /\ t[1].of = of
        /\ Wanted(lines, op, of, u) = Wanted(lines, op, of, t)
        /\ Has(u, {"read_lock"}) <=> Has(t, {"read_lock"})
  <2>1. "empty_lock_out" \notin Effect \union {"append_line"} /\ "empty_lock_out" # "read_lock"
        /\ "empty_lock_out" \notin {"fill_state", "upload_next"}
        /\ "empty_lock_out" \notin {"open_lock", "fill_lock"} /\ "snapshot" \in Special
    BY DEF Effect, Special
  <2>2. \A b : (Follows(op, "empty_lock_out", b) => b = "copy_lock_out") /\ (Belongs(op, "empty_lock_out") => op = "snapshot")
    BY DEF Follows, Belongs, FirstOf
  <2>3. PICK of \in Subjects : Told(lines, st, lk, sn, c, t[1].do, of)
    BY Underway DEF Moving
  <2> QED BY <2>1, <2>2, <2>3, Zenon DEF Told, Moving
<1>2. t # <<>> /\ t[1].do = "empty_lock_out" /\ LinesSound(lines) /\ (lk.kind = "missing" => Len(lines) = 0)
      /\ Len(lines) \in Nat /\ st \in Int
  BY DEF Moving, Good
<1> HIDE DEF t, u, op
<1>3. /\ StateSound(lines, st) /\ st >= 0 /\ lk.kind # "missing"
      /\ lk.kind = "map" => lk.names = Wanted(lines, op, of, t)
      /\ \A s \in Snap : SnapSound(lines, sn[s], s)
      /\ c.names = {}
  BY <1>1, <1>2 DEF Tells, Entering, Looked, op, t
<1>4. d.todo = u /\ \A s \in Snap : IF s = of THEN tn[s].lock = TornLock ELSE tn[s] = sn[s]
  BY <1>1 DEF u, t, LockCopied
<1>5. TornLock.kind = "torn"
  BY DEF TornLock
<1>6. Tells(lines, st, lk, tn, d, of)
  BY <1>1, <1>3, <1>4, <1>5 DEF Tells, Entering, Looked, op
<1> QED BY <1>1, <1>2, <1>4, <1>6, GoesOn DEF op

LEMMA GoodCopyLockOut ==
  ASSUME NEW lines, NEW st, NEW lk, NEW sn, NEW c, Moving(lines, st, lk, sn, c, "copy_lock_out"),
         NEW d, d.op = c.op, d.names = c.names, d.todo = Tail(c.todo),
         NEW tn, LockCopied(sn, tn, c.todo[1].of, lk)
  PROVE  Good(lines, st, lk, tn, d)
<1> DEFINE t == c.todo
           u == Tail(t)
           op == c.op
<1>1. PICK of \in Subjects :
        /\ op \in {"snapshot", "rollback"} => of \in Snap
        /\ Tells(lines, st, lk, sn, c, of) /\ Shaped(op, of, u)
        /\ u # <<>> /\ u[1].do = "empty_state_out" /\ op = "snapshot" /\ t[1].of = of
        /\ Wanted(lines, op, of, u) = Wanted(lines, op, of, t)
        /\ Has(u, {"read_lock"}) <=> Has(t, {"read_lock"})
  <2>1. "copy_lock_out" \notin Effect \union {"append_line"} /\ "copy_lock_out" # "read_lock"
        /\ "copy_lock_out" \notin {"fill_state", "upload_next"}
        /\ "copy_lock_out" \notin {"open_lock", "fill_lock"} /\ "snapshot" \in Special
    BY DEF Effect, Special
  <2>2. \A b : (Follows(op, "copy_lock_out", b) => b = "empty_state_out") /\ (Belongs(op, "copy_lock_out") => op = "snapshot")
    BY DEF Follows, Belongs, FirstOf
  <2>3. PICK of \in Subjects : Told(lines, st, lk, sn, c, t[1].do, of)
    BY Underway DEF Moving
  <2> QED BY <2>1, <2>2, <2>3, Zenon DEF Told, Moving
<1>2. t # <<>> /\ t[1].do = "copy_lock_out" /\ LinesSound(lines) /\ (lk.kind = "missing" => Len(lines) = 0)
      /\ Len(lines) \in Nat /\ st \in Int
  BY DEF Moving, Good
<1> HIDE DEF t, u, op
<1>3. /\ StateSound(lines, st) /\ st >= 0 /\ lk.kind # "missing"
      /\ lk.kind = "map" => lk.names = Wanted(lines, op, of, t)
      /\ \A s \in Snap : IF s = of
                         THEN /\ sn[s].lock.kind # "missing"
                              /\ sn[s].lock.kind = "map" => sn[s].lock.names = LastNames(lines)
                         ELSE SnapSound(lines, sn[s], s)
      /\ c.names = {}
  BY <1>1, <1>2 DEF Tells, Entering, Looked, op, t
<1>4. d.todo = u /\ \A s \in Snap : IF s = of THEN tn[s].lock = lk ELSE tn[s] = sn[s]
  BY <1>1 DEF u, t, LockCopied
<1>5. Wanted(lines, op, of, t) = LastNames(lines)
  BY <1>1, PlainResult DEF Wanted
<1>6. Tells(lines, st, lk, tn, d, of)
  BY <1>1, <1>3, <1>4, <1>5 DEF Tells, Entering, Looked, op
<1> QED BY <1>1, <1>2, <1>4, <1>6, GoesOn DEF op

LEMMA GoodEmptyStateOut ==
  ASSUME NEW lines, NEW st, NEW lk, NEW sn, NEW c, Moving(lines, st, lk, sn, c, "empty_state_out"),
         NEW d, d.op = c.op, d.names = c.names, d.todo = Tail(c.todo),
         NEW tn, StateCopied(sn, tn, c.todo[1].of, Torn)
  PROVE  Good(lines, st, lk, tn, d)
<1> DEFINE t == c.todo
           u == Tail(t)
           op == c.op
<1>1. PICK of \in Subjects :
        /\ op \in {"snapshot", "rollback"} => of \in Snap
        /\ Tells(lines, st, lk, sn, c, of) /\ Shaped(op, of, u)
        /\ u # <<>> /\ u[1].do = "copy_state_out" /\ op = "snapshot" /\ t[1].of = of
        /\ Wanted(lines, op, of, u) = Wanted(lines, op, of, t)
        /\ Has(u, {"read_lock"}) <=> Has(t, {"read_lock"})
  <2>1. "empty_state_out" \notin Effect \union {"append_line"} /\ "empty_state_out" # "read_lock"
        /\ "empty_state_out" \notin {"fill_state", "upload_next"}
        /\ "empty_state_out" \notin {"open_lock", "fill_lock"} /\ "snapshot" \in Special
    BY DEF Effect, Special
  <2>2. \A b : (Follows(op, "empty_state_out", b) => b = "copy_state_out") /\ (Belongs(op, "empty_state_out") => op = "snapshot")
    BY DEF Follows, Belongs, FirstOf
  <2>3. PICK of \in Subjects : Told(lines, st, lk, sn, c, t[1].do, of)
    BY Underway DEF Moving
  <2> QED BY <2>1, <2>2, <2>3, Zenon DEF Told, Moving
<1>2. t # <<>> /\ t[1].do = "empty_state_out" /\ LinesSound(lines) /\ (lk.kind = "missing" => Len(lines) = 0)
      /\ Len(lines) \in Nat /\ st \in Int
  BY DEF Moving, Good
<1> HIDE DEF t, u, op
<1>3. /\ StateSound(lines, st) /\ st >= 0 /\ lk.kind # "missing"
      /\ lk.kind = "map" => lk.names = Wanted(lines, op, of, t)
      /\ \A s \in Snap : IF s = of
                         THEN /\ sn[s].lock.kind # "missing"
                              /\ sn[s].lock.kind = "map" => sn[s].lock.names = LastNames(lines)
                         ELSE SnapSound(lines, sn[s], s)
      /\ c.names = {}
  BY <1>1, <1>2 DEF Tells, Entering, Looked, op, t
<1>4. d.todo = u /\ \A s \in Snap : IF s = of THEN tn[s].lock = sn[s].lock ELSE tn[s] = sn[s]
  BY <1>1 DEF u, t, StateCopied
<1>5. Tells(lines, st, lk, tn, d, of)
  BY <1>1, <1>3, <1>4 DEF Tells, Entering, Looked, op
<1> QED BY <1>1, <1>2, <1>4, <1>5, GoesOn DEF op

LEMMA GoodCopyStateOut ==
  ASSUME NEW lines, NEW st, NEW lk, NEW sn, NEW c, Moving(lines, st, lk, sn, c, "copy_state_out"),
         NEW d, d.op = c.op, d.names = c.names, d.todo = Tail(c.todo),
         NEW tn, StateCopied(sn, tn, c.todo[1].of, st)
  PROVE  Good(lines, st, lk, tn, d)
<1> DEFINE t == c.todo
           u == Tail(t)
           op == c.op
<1>1. PICK of \in Subjects :
        /\ op \in {"snapshot", "rollback"} => of \in Snap
        /\ Tells(lines, st, lk, sn, c, of) /\ Shaped(op, of, u)
        /\ u # <<>> /\ u[1].do = "read_state" /\ op = "snapshot" /\ t[1].of = of
        /\ Wanted(lines, op, of, u) = Wanted(lines, op, of, t)
        /\ Has(u, {"read_lock"}) <=> Has(t, {"read_lock"})
  <2>1. "copy_state_out" \notin Effect \union {"append_line"} /\ "copy_state_out" # "read_lock"
        /\ "copy_state_out" \notin {"fill_state", "upload_next"}
        /\ "copy_state_out" \notin {"open_lock", "fill_lock"} /\ "snapshot" \in Special
    BY DEF Effect, Special
  <2>2. \A b : (Follows(op, "copy_state_out", b) => b = "read_state") /\ (Belongs(op, "copy_state_out") => op = "snapshot")
    BY DEF Follows, Belongs, FirstOf
  <2>3. PICK of \in Subjects : Told(lines, st, lk, sn, c, t[1].do, of)
    BY Underway DEF Moving
  <2> QED BY <2>1, <2>2, <2>3, Zenon DEF Told, Moving
<1>2. t # <<>> /\ t[1].do = "copy_state_out" /\ LinesSound(lines) /\ (lk.kind = "missing" => Len(lines) = 0)
      /\ Len(lines) \in Nat /\ st \in Int
  BY DEF Moving, Good
<1> HIDE DEF t, u, op
<1>3. /\ StateSound(lines, st) /\ st >= 0 /\ lk.kind # "missing"
      /\ lk.kind = "map" => lk.names = Wanted(lines, op, of, t)
      /\ \A s \in Snap : IF s = of
                         THEN /\ sn[s].lock.kind # "missing"
                              /\ sn[s].lock.kind = "map" => sn[s].lock.names = LastNames(lines)
                         ELSE SnapSound(lines, sn[s], s)
      /\ c.names = {}
  BY <1>1, <1>2 DEF Tells, Entering, Looked, op, t
<1>4. d.todo = u /\ \A s \in Snap : IF s = of THEN tn[s].lock = sn[s].lock /\ tn[s].state = st ELSE tn[s] = sn[s]
  BY <1>1 DEF u, t, StateCopied
<1>5. st = LastHash(lines)
  BY <1>3 DEF StateSound, Missing
<1>6. Tells(lines, st, lk, tn, d, of)
  BY <1>1, <1>3, <1>4, <1>5 DEF Tells, Entering, Looked, op
<1> QED BY <1>1, <1>2, <1>4, <1>6, GoesOn DEF op

LEMMA GoodFindSnapshot ==
  ASSUME NEW lines, NEW st, NEW lk, NEW sn, NEW c, Moving(lines, st, lk, sn, c, "find_snapshot"),
         NEW d, sn[c.todo[1].of].lock = NoLock => d.todo = <<>>,
         sn[c.todo[1].of].lock # NoLock => d.op = c.op /\ d.names = c.names /\ d.todo = Tail(c.todo)
  PROVE  Good(lines, st, lk, sn, d)
<1> DEFINE t == c.todo
           u == Tail(t)
           op == c.op
<1>1. PICK of \in Subjects :
        /\ op \in {"snapshot", "rollback"} => of \in Snap
        /\ Tells(lines, st, lk, sn, c, of) /\ Shaped(op, of, u)
        /\ u # <<>> /\ u[1].do = "empty_lock" /\ op = "rollback" /\ t[1].of = of
        /\ Wanted(lines, op, of, u) = Wanted(lines, op, of, t)
        /\ Wanted(lines, op, of, t) = LastNames(lines)
  <2>1. "find_snapshot" \notin Effect \union {"append_line"} /\ "find_snapshot" # "read_lock"
        /\ "find_snapshot" \notin {"fill_state", "upload_next"}
        /\ "find_snapshot" \notin {"open_lock", "fill_lock"} /\ "rollback" \in Special
        /\ "find_snapshot" \in {"ensure_lock", "find_snapshot", "upload", "upload_next"}
    BY DEF Effect, Special
  <2>2. \A b : (Follows(op, "find_snapshot", b) => b = "empty_lock") /\ (Belongs(op, "find_snapshot") => op = "rollback")
    BY DEF Follows, Belongs, FirstOf
  <2>3. PICK of \in Subjects : Told(lines, st, lk, sn, c, t[1].do, of)
    BY Underway DEF Moving
  <2> QED BY <2>1, <2>2, <2>3, Zenon DEF Told, Moving
<1>2. t # <<>> /\ t[1].do = "find_snapshot" /\ LinesSound(lines) /\ (lk.kind = "missing" => Len(lines) = 0)
      /\ Len(lines) \in Nat /\ st \in Int
  BY DEF Moving, Good
<1> HIDE DEF t, u, op
<1>3. /\ StateSound(lines, st) /\ st >= 0 /\ lk.kind # "missing"
      /\ lk.kind = "map" => lk.names = Wanted(lines, op, of, t)
      /\ \A s \in Snap : SnapSound(lines, sn[s], s)
      /\ c.names = {}
  BY <1>1, <1>2 DEF Tells, Entering, Looked, op, t
<1>4. CASE sn[of].lock = NoLock
  <2>1. d.todo = <<>>
    BY <1>1, <1>4 DEF t
  <2>2. Settled(lines, st, lk, sn)
    BY <1>1, <1>3 DEF Settled
  <2> QED BY <1>2, <2>1, <2>2, Ends
<1>5. CASE sn[of].lock # NoLock
  <2>1. d.todo = u /\ d.op = op /\ d.names = c.names
    BY <1>1, <1>5 DEF u, t, op
  <2>2. Tells(lines, st, lk, sn, d, of)
    BY <1>1, <1>3, <1>5, <2>1 DEF Tells, Entering, Looked
  <2> QED BY <1>1, <1>2, <2>1, <2>2, GoesOn
<1> QED BY <1>4, <1>5

LEMMA GoodEmptyLock ==
  ASSUME NEW lines, NEW st, NEW lk, NEW sn, NEW c, Moving(lines, st, lk, sn, c, "empty_lock"),
         NEW d, d.op = c.op, d.names = c.names, d.todo = Tail(c.todo)
  PROVE  Good(lines, st, TornLock, sn, d)
<1> DEFINE t == c.todo
           u == Tail(t)
           op == c.op
<1>1. PICK of \in Subjects :
        /\ op \in {"snapshot", "rollback"} => of \in Snap
        /\ Tells(lines, st, lk, sn, c, of) /\ Shaped(op, of, u)
        /\ u # <<>> /\ u[1].do = "copy_lock_back" /\ op = "rollback" /\ t[1].of = of
  <2>1. "empty_lock" \notin Effect \union {"append_line"} /\ "empty_lock" # "read_lock"
        /\ "empty_lock" \notin {"fill_state", "upload_next"}
        /\ "empty_lock" \notin {"open_lock", "fill_lock"} /\ "rollback" \in Special
    BY DEF Effect, Special
  <2>2. \A b : (Follows(op, "empty_lock", b) => b = "copy_lock_back") /\ (Belongs(op, "empty_lock") => op = "rollback")
    BY DEF Follows, Belongs, FirstOf
  <2>3. PICK of \in Subjects : Told(lines, st, lk, sn, c, t[1].do, of)
    BY Underway DEF Moving
  <2> QED BY <2>1, <2>2, <2>3, Zenon DEF Told, Moving
<1>2. t # <<>> /\ t[1].do = "empty_lock" /\ LinesSound(lines) /\ (lk.kind = "missing" => Len(lines) = 0)
      /\ Len(lines) \in Nat /\ st \in Int
  BY DEF Moving, Good
<1> HIDE DEF t, u, op
<1>3. /\ StateSound(lines, st) /\ st >= 0
      /\ \A s \in Snap : SnapSound(lines, sn[s], s)
      /\ sn[of].lock # NoLock /\ c.names = {}
  BY <1>1, <1>2 DEF Tells, Entering, Looked, op, t
<1>4. d.todo = u /\ TornLock.kind = "torn"
  BY DEF u, t, TornLock
<1>5. Tells(lines, st, TornLock, sn, d, of)
  BY <1>1, <1>3, <1>4 DEF Tells, Entering, Looked, op
<1> QED BY <1>1, <1>2, <1>4, <1>5, GoesOn DEF op

LEMMA GoodCopyLockBack ==
  ASSUME NEW lines, NEW st, NEW lk, NEW sn, NEW c, Moving(lines, st, lk, sn, c, "copy_lock_back"),
         NEW d, d.op = c.op, d.names = c.names, d.todo = Tail(c.todo)
  PROVE  Good(lines, st, sn[c.todo[1].of].lock, sn, d)
<1> DEFINE t == c.todo
           u == Tail(t)
           op == c.op
<1>1. PICK of \in Subjects :
        /\ op \in {"snapshot", "rollback"} => of \in Snap
        /\ Tells(lines, st, lk, sn, c, of) /\ Shaped(op, of, u)
        /\ u # <<>> /\ u[1].do = "empty_state" /\ op = "rollback" /\ t[1].of = of
        /\ Wanted(lines, op, of, u) = Resulting(lines, op, of)
  <2>1. "copy_lock_back" \in Effect /\ "copy_lock_back" \notin {"fill_state", "upload_next"}
        /\ "copy_lock_back" \notin {"open_lock", "fill_lock"} /\ "rollback" \in Special
    BY DEF Effect, Special
  <2>2. \A b : (Follows(op, "copy_lock_back", b) => b = "empty_state") /\ (Belongs(op, "copy_lock_back") => op = "rollback")
    BY DEF Follows, Belongs, FirstOf
  <2>3. PICK of \in Subjects : Told(lines, st, lk, sn, c, t[1].do, of)
    BY Underway DEF Moving
  <2> QED BY <2>1, <2>2, <2>3, Zenon DEF Told, Moving
<1>2. t # <<>> /\ t[1].do = "copy_lock_back" /\ LinesSound(lines) /\ (lk.kind = "missing" => Len(lines) = 0)
      /\ Len(lines) \in Nat /\ st \in Int
  BY DEF Moving, Good
<1> HIDE DEF t, u, op
<1> DEFINE nk == sn[of].lock
<1>3. /\ StateSound(lines, st) /\ st >= 0
      /\ \A s \in Snap : SnapSound(lines, sn[s], s)
      /\ nk # NoLock /\ c.names = {}
  BY <1>1, <1>2 DEF Tells, Entering, Looked, op, t
<1>4. d.todo = u /\ sn[c.todo[1].of].lock = nk
  BY <1>1 DEF u, t
<1>5. nk.kind # "missing" /\ (nk.kind = "map" => nk.names = Replayed(lines)[SnapLine(lines, of)])
  BY <1>1, <1>3 DEF SnapSound
<1>6. Resulting(lines, op, of) = Replayed(lines)[SnapLine(lines, of)]
  BY <1>1 DEF Resulting
<1> HIDE DEF nk
<1>7. Tells(lines, st, nk, sn, d, of)
  <2>1. sn[of].lock # NoLock
    BY <1>3 DEF nk
  <2> QED BY <1>1, <1>3, <1>4, <1>5, <1>6, <2>1 DEF Tells, Entering, Looked, op
<1>8. Good(lines, st, nk, sn, d)
  BY <1>1, <1>2, <1>4, <1>5, <1>7, GoesOn DEF op
<1> QED BY <1>4, <1>8

LEMMA GoodEmptyState ==
  ASSUME NEW lines, NEW st, NEW lk, NEW sn, NEW c, Moving(lines, st, lk, sn, c, "empty_state"),
         NEW d, d.op = c.op, d.names = c.names, d.todo = Tail(c.todo)
  PROVE  sn[c.todo[1].of].state # Missing /\ Good(lines, Torn, lk, sn, d)
<1> DEFINE t == c.todo
           u == Tail(t)
           op == c.op
<1>1. PICK of \in Subjects :
        /\ op \in {"snapshot", "rollback"} => of \in Snap
        /\ Tells(lines, st, lk, sn, c, of) /\ Shaped(op, of, u)
        /\ u # <<>> /\ u[1].do = "copy_state_back" /\ op = "rollback" /\ t[1].of = of
        /\ Wanted(lines, op, of, u) = Wanted(lines, op, of, t)
  <2>1. "empty_state" \notin Effect \union {"append_line"} /\ "empty_state" # "read_lock"
        /\ "empty_state" \notin {"fill_state", "upload_next"}
        /\ "empty_state" \notin {"open_lock", "fill_lock"} /\ "rollback" \in Special
    BY DEF Effect, Special
  <2>2. \A b : (Follows(op, "empty_state", b) => b = "copy_state_back") /\ (Belongs(op, "empty_state") => op = "rollback")
    BY DEF Follows, Belongs, FirstOf
  <2>3. PICK of \in Subjects : Told(lines, st, lk, sn, c, t[1].do, of)
    BY Underway DEF Moving
  <2> QED BY <2>1, <2>2, <2>3, Zenon DEF Told, Moving
<1>2. t # <<>> /\ t[1].do = "empty_state" /\ LinesSound(lines) /\ (lk.kind = "missing" => Len(lines) = 0)
      /\ Len(lines) \in Nat /\ st \in Int
  BY DEF Moving, Good
<1> HIDE DEF t, u, op
<1> DEFINE nt == sn[of].state
<1>3. /\ lk.kind # "missing"
      /\ lk.kind = "map" => lk.names = Wanted(lines, op, of, t)
      /\ \A s \in Snap : SnapSound(lines, sn[s], s)
      /\ sn[of].lock # NoLock /\ c.names = {}
  BY <1>1, <1>2 DEF Tells, Entering, Looked, op, t
<1>4. d.todo = u /\ sn[c.todo[1].of].state = nt
  BY <1>1 DEF u, t
<1>5. nt = lines[SnapLine(lines, of)].prev /\ IsTaken(lines, Len(lines) + 1, of)
  BY <1>1, <1>3 DEF SnapSound
<1>6. nt \in Nat
  <2>1. SnapLine(lines, of) \in 1 .. Len(lines) + 1 - 1
    <3>1. Len(lines) + 1 \in Nat \ {0}
      BY <1>2
    <3> QED BY <1>5, <3>1, TakenLine DEF SnapLine
  <2>2. SnapLine(lines, of) \in 1 .. Len(lines)
    BY <1>2, <2>1
  <2> QED BY <1>2, <1>5, <2>2 DEF LinesSound
<1> HIDE DEF nt
<1>7. Tells(lines, Torn, lk, sn, d, of)
  <2>1. lk.kind = "map" => lk.names = Wanted(lines, op, of, u)
    BY <1>1, <1>3
  <2> QED BY <1>1, <1>3, <1>4, <2>1 DEF Tells, Entering, Looked, op
<1>8. Torn \in Int
  BY DEF Torn
<1>9. Good(lines, Torn, lk, sn, d)
  BY <1>1, <1>2, <1>4, <1>7, <1>8, GoesOn DEF op
<1>10. nt # Missing
  BY <1>6 DEF Missing
<1> QED BY <1>4, <1>9, <1>10

LEMMA GoodCopyStateBack ==
  ASSUME NEW lines, NEW st, NEW lk, NEW sn, NEW c, Moving(lines, st, lk, sn, c, "copy_state_back"),
         NEW d, d.op = c.op, d.names = c.names, d.todo = Tail(c.todo)
  PROVE  Good(lines, sn[c.todo[1].of].state, lk, sn, d)
<1> DEFINE t == c.todo
           u == Tail(t)
           op == c.op
<1>1. PICK of \in Subjects :
        /\ op \in {"snapshot", "rollback"} => of \in Snap
        /\ Tells(lines, st, lk, sn, c, of) /\ Shaped(op, of, u)
        /\ u # <<>> /\ u[1].do = "read_state" /\ op = "rollback" /\ t[1].of = of
        /\ Wanted(lines, op, of, u) = Wanted(lines, op, of, t)
  <2>1. "copy_state_back" \notin Effect \union {"append_line"} /\ "copy_state_back" # "read_lock"
        /\ "copy_state_back" \notin {"fill_state", "upload_next"}
        /\ "copy_state_back" \notin {"open_lock", "fill_lock"} /\ "rollback" \in Special
    BY DEF Effect, Special
  <2>2. \A b : (Follows(op, "copy_state_back", b) => b = "read_state") /\ (Belongs(op, "copy_state_back") => op = "rollback")
    BY DEF Follows, Belongs, FirstOf
  <2>3. PICK of \in Subjects : Told(lines, st, lk, sn, c, t[1].do, of)
    BY Underway DEF Moving
  <2> QED BY <2>1, <2>2, <2>3, Zenon DEF Told, Moving
<1>2. t # <<>> /\ t[1].do = "copy_state_back" /\ LinesSound(lines) /\ (lk.kind = "missing" => Len(lines) = 0)
      /\ Len(lines) \in Nat /\ st \in Int
  BY DEF Moving, Good
<1> HIDE DEF t, u, op
<1> DEFINE nt == sn[of].state
<1>3. /\ lk.kind # "missing"
      /\ lk.kind = "map" => lk.names = Wanted(lines, op, of, t)
      /\ \A s \in Snap : SnapSound(lines, sn[s], s)
      /\ sn[of].lock # NoLock /\ c.names = {}
  BY <1>1, <1>2 DEF Tells, Entering, Looked, op, t
<1>4. d.todo = u /\ sn[c.todo[1].of].state = nt
  BY <1>1 DEF u, t
<1>5. nt = lines[SnapLine(lines, of)].prev /\ IsTaken(lines, Len(lines) + 1, of)
  BY <1>1, <1>3 DEF SnapSound
<1>6. nt \in Nat
  <2>1. SnapLine(lines, of) \in 1 .. Len(lines) + 1 - 1
    <3>1. Len(lines) + 1 \in Nat \ {0}
      BY <1>2
    <3> QED BY <1>5, <3>1, TakenLine DEF SnapLine
  <2>2. SnapLine(lines, of) \in 1 .. Len(lines)
    BY <1>2, <2>1
  <2> QED BY <1>2, <1>5, <2>2 DEF LinesSound
<1> HIDE DEF nt
<1>7. Tells(lines, nt, lk, sn, d, of)
  <2>1. nt >= 0
    BY <1>6
  <2>2. /\ IF op = "rollback" THEN nt = lines[SnapLine(lines, of)].prev ELSE StateSound(lines, nt)
        /\ lk.kind = "map" => lk.names = Wanted(lines, op, of, u)
    BY <1>1, <1>3, <1>5
  <2> QED BY <1>1, <1>3, <1>4, <2>1, <2>2 DEF Tells, Entering, Looked, op
<1>8. Good(lines, nt, lk, sn, d)
  BY <1>1, <1>2, <1>4, <1>7, GoesOn DEF op
<1> QED BY <1>4, <1>8

LEMMA GoodUpload ==
  ASSUME NEW lines, NEW st, NEW lk, NEW sn, NEW c, Moving(lines, st, lk, sn, c, "upload"),
         NEW d, d.todo = <<>> \/ (d.op = c.op /\ d.names = c.names /\ d.todo = Tail(c.todo))
  PROVE  Good(lines, st, lk, sn, d)
<1> DEFINE t == c.todo
           u == Tail(t)
           op == c.op
<1>1. PICK of \in Subjects :
        /\ op \in {"snapshot", "rollback"} => of \in Snap
        /\ Tells(lines, st, lk, sn, c, of) /\ Shaped(op, of, u)
        /\ u # <<>> /\ u[1].do = "ensure_state"
        /\ Wanted(lines, op, of, u) = Wanted(lines, op, of, t)
        /\ Wanted(lines, op, of, t) = LastNames(lines)
        /\ Has(u, {"read_lock"}) <=> Has(t, {"read_lock"})
  <2>1. "upload" \notin Effect \union {"append_line"} /\ "upload" # "read_lock"
        /\ "upload" \notin {"fill_state", "upload_next"}
        /\ "upload" \in {"ensure_lock", "find_snapshot", "upload", "upload_next"}
    BY DEF Effect
  <2>2. \A b : Follows(op, "upload", b) => b = "ensure_state"
    BY DEF Follows, Belongs, FirstOf
  <2>3. PICK of \in Subjects : Told(lines, st, lk, sn, c, t[1].do, of)
    BY Underway DEF Moving
  <2> QED BY <2>1, <2>2, <2>3, Zenon DEF Told, Moving
<1>2. t # <<>> /\ t[1].do = "upload" /\ LinesSound(lines) /\ (lk.kind = "missing" => Len(lines) = 0)
      /\ Len(lines) \in Nat /\ st \in Int
  BY DEF Moving, Good
<1> HIDE DEF t, u, op
<1>3. /\ StateSound(lines, st)
      /\ lk.kind = "map" => lk.names = Wanted(lines, op, of, t)
      /\ \A s \in Snap : SnapSound(lines, sn[s], s)
      /\ op # "add" \/ Has(t, {"read_lock"}) => c.names = {}
  BY <1>1, <1>2 DEF Tells, Entering, Looked, op, t
<1>4. CASE d.todo = <<>>
  <2>1. Settled(lines, st, lk, sn)
    BY <1>1, <1>3 DEF Settled
  <2> QED BY <1>2, <1>4, <2>1, Ends
<1>5. CASE d.op = c.op /\ d.names = c.names /\ d.todo = Tail(c.todo)
  <2>1. d.todo = u /\ d.op = op /\ d.names = c.names
    BY <1>5 DEF u, t, op
  <2>2. Tells(lines, st, lk, sn, d, of)
    BY <1>1, <1>3, <2>1 DEF Tells, Entering, Looked
  <2> QED BY <1>1, <1>2, <2>1, <2>2, GoesOn
<1> QED BY <1>4, <1>5

LEMMA GoodUploadNext ==
  ASSUME NEW lines, NEW st, NEW lk, NEW sn, NEW c, Moving(lines, st, lk, sn, c, "upload_next"),
         NEW d, d.op = c.op, d.names = c.names, d.todo = Tail(c.todo)
  PROVE  Good(lines, st, lk, sn, d)
<1> DEFINE t == c.todo
           u == Tail(t)
           op == c.op
<1>1. PICK of \in Subjects :
        /\ op \in {"snapshot", "rollback"} => of \in Snap
        /\ Tells(lines, st, lk, sn, c, of) /\ Shaped(op, of, u)
        /\ u # <<>> => u[1].do = "upload_next"
        /\ Wanted(lines, op, of, u) = Wanted(lines, op, of, t)
        /\ Wanted(lines, op, of, t) = LastNames(lines)
        /\ Has(u, {"read_lock"}) <=> Has(t, {"read_lock"})
  <2>1. "upload_next" \notin Effect \union {"append_line"} /\ "upload_next" # "read_lock"
        /\ "upload_next" \in {"ensure_lock", "find_snapshot", "upload", "upload_next"}
    BY DEF Effect
  <2>2. \A b : Follows(op, "upload_next", b) => b = "upload_next"
    BY DEF Follows, Belongs, FirstOf
  <2>3. PICK of \in Subjects : Told(lines, st, lk, sn, c, t[1].do, of)
    BY Underway DEF Moving
  <2> QED BY <2>1, <2>2, <2>3, Zenon DEF Told, Moving
<1>2. t # <<>> /\ t[1].do = "upload_next" /\ LinesSound(lines) /\ (lk.kind = "missing" => Len(lines) = 0)
      /\ Len(lines) \in Nat /\ st \in Int
  BY DEF Moving, Good
<1> HIDE DEF t, u, op
<1>3. /\ StateSound(lines, st)
      /\ lk.kind = "map" => lk.names = Wanted(lines, op, of, t)
      /\ \A s \in Snap : SnapSound(lines, sn[s], s)
      /\ op # "add" \/ Has(t, {"read_lock"}) => c.names = {}
  BY <1>1, <1>2 DEF Tells, Entering, Looked, op, t
<1>4. d.todo = u
  BY DEF u, t
<1>5. CASE u = <<>>
  <2>1. Settled(lines, st, lk, sn)
    BY <1>1, <1>3 DEF Settled
  <2> QED BY <1>2, <1>4, <1>5, <2>1, Ends
<1>6. CASE u # <<>>
  <2>1. Tells(lines, st, lk, sn, d, of)
    BY <1>1, <1>3, <1>4, <1>6 DEF Tells, Entering, Looked, op
  <2> QED BY <1>1, <1>2, <1>4, <1>6, <2>1, GoesOn DEF op
<1> QED BY <1>5, <1>6

\* A lock that somebody else writes tells nothing.
LEMMA GoodElsewhere ==
  ASSUME NEW lines, NEW st, NEW lk, NEW sn, NEW c, Good(lines, st, lk, sn, c),
         NEW other, other.kind \notin {"missing", "map"}
  PROVE  Good(lines, st, other, sn, c)
<1>1. CASE c.todo = <<>>
  BY <1>1 DEF Good, Settled
<1>2. CASE c.todo # <<>>
  <2>1. PICK of \in Subjects : /\ c.op \in {"snapshot", "rollback"} => of \in Snap
                               /\ Shaped(c.op, of, c.todo) /\ Tells(lines, st, lk, sn, c, of)
    BY <1>2 DEF Good, Working
  <2>2. Tells(lines, st, other, sn, c, of)
    BY <2>1 DEF Tells
  <2>3. LinesSound(lines)
    BY DEF Good
  <2> QED BY <1>2, <2>1, <2>2, <2>3, GoesOn
<1> QED BY <1>1, <1>2

\* A command that begins when all is settled.
LEMMA GoodBegun ==
  ASSUME NEW lines, NEW st, NEW lk, NEW sn, LinesSound(lines), lk.kind = "missing" => Len(lines) = 0,
         Settled(lines, st, lk, sn), NEW call \in Invocations,
         NEW d, d.op = call[1], d.todo = Script(call[1], call[2]), d.names = {}
  PROVE  Good(lines, st, lk, sn, d)
<1> DEFINE op == call[1]
           of == call[2]
           t == Script(op, of)
<1>1. /\ t \in Todo /\ t # <<>> /\ Shaped(op, of, t)
      /\ t[1].do \in {"ensure_state", "upload", "upload_next"}
      /\ of \in Subjects /\ (op \in {"snapshot", "rollback"} => of \in Snap)
  BY ScriptShaped
<1>2. d.op = op /\ d.todo = t
  OBVIOUS
<1> HIDE DEF op, of, t
<1>3. /\ t[1].do \notin Effect \union {"append_line"} => Wanted(lines, op, of, Tail(t)) = Wanted(lines, op, of, t)
      /\ t[1].do \in {"ensure_lock", "find_snapshot", "upload", "upload_next"} \/ Tail(t) = <<>> =>
           Wanted(lines, op, of, t) = LastNames(lines)
  BY <1>1, WantedTail
<1>4. Wanted(lines, op, of, t) = LastNames(lines)
  <2>1. CASE t[1].do \in {"upload", "upload_next"}
    BY <1>3, <2>1
  <2>2. CASE t[1].do = "ensure_state"
    <3> DEFINE w == Tail(t)
    <3>1. /\ Shaped(op, of, w) /\ w \in Todo
          /\ IF w = <<>> THEN t[1].do \in {"fill_state", "upload_next"} ELSE Follows(op, t[1].do, w[1].do)
      <4>1. t \in Todo /\ t # <<>> /\ Shaped(op, of, t)
        BY <1>1
      <4> QED BY <4>1, ShapedTail, TodoTail
    <3> HIDE DEF w
    <3>2. w # <<>> /\ w[1].do = "ensure_lock"
      BY <2>2, <3>1 DEF Follows
    <3>3. Wanted(lines, op, of, w) = LastNames(lines)
      <4>1. w[1].do \in {"ensure_lock", "find_snapshot", "upload", "upload_next"}
        BY <3>2
      <4> QED BY <3>1, <3>2, <4>1, WantedTail
    <3>4. t[1].do \notin Effect \union {"append_line"}
      BY <2>2 DEF Effect
    <3> QED BY <1>3, <3>3, <3>4 DEF w
  <2> QED BY <1>1, <2>1, <2>2
<1>5. Tells(lines, st, lk, sn, d, of)
  BY <1>1, <1>2, <1>4 DEF Tells, Settled, Entering, Looked
<1> QED BY <1>1, <1>2, <1>5, GoesOn

-----------------------------------------------------------------------------
(* The steps of the project.                                               *)

\* What is known before a step of a command.
LEMMA Alone ==
  ASSUME LedgerInv, Orderly, clean, NEW p \in Cli, NEW do, At(p, do)
  PROVE  /\ Moving(ledger, state, lock, snaps, cli[p], do) /\ IsCommand(cli[p])
         /\ Subject(p) = cli[p].todo[1].of /\ Subject(p) \in Subjects
         /\ do \in Copying => Subject(p) \in Snap
<1>1. /\ IsCommand(cli[p]) /\ cli[p].todo # << >> /\ Head(cli[p].todo).do = do
      /\ cli[p].todo \in Todo
      /\ Subject(p) \in Subjects /\ (do \in Copying => Subject(p) \in Snap)
  BY Having
<1>2. Head(cli[p].todo) = cli[p].todo[1]
  BY <1>1, TodoTail
<1>3. Len(ledger) \in Nat /\ state \in Int
  BY DEF LedgerInv, LedgerTyped
<1>4. Good(ledger, state, lock, snaps, cli[p])
  BY <1>1 DEF Orderly, Good, Idle
<1> QED BY <1>1, <1>2, <1>3, <1>4 DEF Moving, Subject

\* The one command that is under way takes a step, or ends.
LEMMA Proceeds ==
  ASSUME LedgerInv, Orderly, clean, NEW p \in Cli, ~Idle(p), NEW c, cli' = [cli EXCEPT ![p] = c],
         Good(ledger', state', lock', snaps', c)
  PROVE  Orderly'
<1>1. \A q \in Cli : q # p => Idle(q)
  BY DEF Orderly
<1>2. \A q \in Cli : cli'[q] = IF q = p THEN c ELSE cli[q]
  BY DEF LedgerInv, LedgerTyped
<1>3. \A q \in Cli : q # p => Idle(q)'
  BY <1>1, <1>2 DEF Idle
<1>4. Idle(p)' <=> c.todo = <<>>
  BY <1>2 DEF Idle
<1>5. LinesSound(ledger') /\ (lock'.kind = "missing" => Len(ledger') = 0)
  BY DEF Good
<1>6. (\A q \in Cli : Idle(q)') => Settled(ledger', state', lock', snaps')
  BY <1>4 DEF Good
<1>7. ASSUME NEW q \in Cli, ~Idle(q)'
      PROVE  /\ \A r \in Cli : r # q => Idle(r)'
             /\ Working(ledger', state', lock', snaps', cli'[q])
  <2>1. q = p /\ c.todo # <<>> /\ cli'[q] = c
    BY <1>2, <1>3, <1>4, <1>7
  <2> QED BY <1>3, <2>1 DEF Good
<1> QED BY <1>5, <1>6, <1>7 DEF Orderly

\* The fields of a command that goes on.
LEMMA Fields ==
  ASSUME NEW c, IsCommand(c), NEW d, d = [c EXCEPT !.todo = Tail(@)]
  PROVE  /\ d.op = c.op /\ d.todo = Tail(c.todo) /\ d.prev = c.prev /\ d.hash = c.hash
         /\ d.names = c.names /\ d.failed = c.failed
<1>1. d = [op |-> c.op, todo |-> Tail(c.todo), prev |-> c.prev, hash |-> c.hash, names |-> c.names,
           failed |-> c.failed]
  BY DEF IsCommand
<1> QED BY <1>1

\* A command goes on with what it has noted; or it ends.
LEMMA Continues ==
  ASSUME LedgerInv, Orderly, clean, NEW p \in Cli, ~Idle(p), NEW more, IsCommand(more),
         Onward(p, more),
         NEW d, d = [more EXCEPT !.todo = Tail(@)], Good(ledger', state', lock', snaps', d)
  PROVE  Orderly'
BY Proceeds DEF Onward

LEMMA GivesUp ==
  ASSUME LedgerInv, Orderly, clean, NEW p \in Cli, ~Idle(p), GiveUp(p),
         Good(ledger', state', lock', snaps', NoCommand)
  PROVE  Orderly'
BY Proceeds DEF GiveUp

\* Step by step: the actions of the ledger.
LEMMA EnsureStateInOrder ==
  ASSUME LedgerInv, Orderly, clean, NEW p \in Cli, EnsureState(p)
  PROVE  Orderly'
<1> DEFINE t == cli[p].todo
           u == Steps(<<"open_state", "fill_state">>, Subject(p)) \o Tail(t)
<1>1. At(p, "ensure_state") /\ ledger' = ledger /\ state' = state /\ lock' = lock /\ snaps' = snaps
  BY DEF EnsureState
<1>2. Moving(ledger, state, lock, snaps, cli[p], "ensure_state") /\ IsCommand(cli[p])
      /\ Subject(p) = cli[p].todo[1].of /\ Subject(p) \in Subjects
  BY <1>1, Alone
<1>3. ~Idle(p)
  BY <1>1 DEF At
<1>4. CASE state # Missing
  <2> DEFINE d == [cli[p] EXCEPT !.todo = Tail(@)]
  <2>1. Onward(p, cli[p])
    BY <1>4 DEF EnsureState
  <2>2. d.op = cli[p].op /\ d.todo = Tail(cli[p].todo) /\ d.names = cli[p].names
    BY <1>2, Fields
  <2> HIDE DEF d
  <2>3. Good(ledger', state', lock', snaps', d)
    BY <1>1, <1>2, <1>4, <2>2, GoodEnsureState
  <2> QED BY <1>2, <1>3, <2>1, <2>3, Continues DEF d
<1>5. CASE state = Missing
  <2> DEFINE d == [cli[p] EXCEPT !.todo = u, !.hash = None]
  <2>1. cli' = [cli EXCEPT ![p].todo = u, ![p].hash = None]
    BY <1>5 DEF EnsureState
  <2>2. cli[p] = [op |-> cli[p].op, todo |-> cli[p].todo, prev |-> cli[p].prev, hash |-> cli[p].hash,
                  names |-> cli[p].names, failed |-> cli[p].failed]
    BY <1>2 DEF IsCommand
  <2>3. u = Steps(<<"open_state", "fill_state">>, cli[p].todo[1].of) \o Tail(cli[p].todo)
    BY <1>2
  <2> HIDE DEF u, t
  <2>4. cli' = [cli EXCEPT ![p] = d]
    BY <2>1 DEF LedgerInv, LedgerTyped
  <2>5. d.op = cli[p].op /\ d.todo = u /\ d.names = cli[p].names /\ d.hash = None
    <3> DEFINE e == [cli[p] EXCEPT !.todo = u]
    <3>1. e = [op |-> cli[p].op, todo |-> u, prev |-> cli[p].prev, hash |-> cli[p].hash,
               names |-> cli[p].names, failed |-> cli[p].failed]
      BY <2>2
    <3>2. d = [e EXCEPT !.hash = None]
      BY <2>2
    <3> HIDE DEF e, d
    <3> QED BY <3>1, <3>2
  <2> HIDE DEF d
  <2>6. Good(ledger', state', lock', snaps', d)
    BY <1>1, <1>2, <1>5, <2>3, <2>5, GoodEnsureState
  <2> QED BY <1>3, <2>4, <2>6, Proceeds
<1> QED BY <1>4, <1>5

LEMMA EnsureLockInOrder ==
  ASSUME LedgerInv, Orderly, clean, NEW p \in Cli, EnsureLock(p)
  PROVE  Orderly'
<1> DEFINE t == cli[p].todo
           u == Steps(<<"open_lock", "fill_lock">>, NotName) \o Tail(t)
<1>1. At(p, "ensure_lock") /\ ledger' = ledger /\ state' = state /\ lock' = lock /\ snaps' = snaps
  BY DEF EnsureLock
<1>2. Moving(ledger, state, lock, snaps, cli[p], "ensure_lock") /\ IsCommand(cli[p])
  BY <1>1, Alone
<1>3. ~Idle(p)
  BY <1>1 DEF At
<1>4. CASE lock.kind # "missing"
  <2> DEFINE d == [cli[p] EXCEPT !.todo = Tail(@)]
  <2>1. Onward(p, cli[p])
    BY <1>4 DEF EnsureLock
  <2>2. d.op = cli[p].op /\ d.todo = Tail(cli[p].todo) /\ d.names = cli[p].names
    BY <1>2, Fields
  <2> HIDE DEF d
  <2>3. Good(ledger', state', lock', snaps', d)
    BY <1>1, <1>2, <1>4, <2>2, GoodEnsureLock
  <2> QED BY <1>2, <1>3, <2>1, <2>3, Continues DEF d
<1>5. CASE lock.kind = "missing"
  <2> DEFINE d == [cli[p] EXCEPT !.todo = u]
  <2>1. cli' = [cli EXCEPT ![p].todo = u]
    BY <1>5 DEF EnsureLock
  <2>2. cli[p] = [op |-> cli[p].op, todo |-> cli[p].todo, prev |-> cli[p].prev, hash |-> cli[p].hash,
                  names |-> cli[p].names, failed |-> cli[p].failed]
    BY <1>2 DEF IsCommand
  <2>3. u = Steps(<<"open_lock", "fill_lock">>, NotName) \o Tail(cli[p].todo)
    OBVIOUS
  <2> HIDE DEF u, t
  <2>4. cli' = [cli EXCEPT ![p] = d]
    BY <2>1 DEF LedgerInv, LedgerTyped
  <2>5. d.op = cli[p].op /\ d.todo = u /\ d.names = cli[p].names
    BY <2>2
  <2> HIDE DEF d
  <2>6. Good(ledger', state', lock', snaps', d)
    BY <1>1, <1>2, <1>5, <2>3, <2>5, GoodEnsureLock
  <2> QED BY <1>3, <2>4, <2>6, Proceeds
<1> QED BY <1>4, <1>5

LEMMA ReadStateInOrder ==
  ASSUME LedgerInv, Orderly, clean, NEW p \in Cli, ReadState(p)
  PROVE  Orderly'
<1> DEFINE more == [cli[p] EXCEPT !.prev = state, !.hash = minted + 1]
           d == [more EXCEPT !.todo = Tail(@)]
<1>1. At(p, "read_state") /\ ledger' = ledger /\ state' = state /\ lock' = lock /\ snaps' = snaps
  BY DEF ReadState
<1>2. Moving(ledger, state, lock, snaps, cli[p], "read_state") /\ IsCommand(cli[p])
  BY <1>1, Alone
<1>3. ~Idle(p) /\ minted \in Nat /\ state \in Int
  BY <1>1 DEF At, LedgerInv, LedgerTyped
<1>4. cli[p] = [op |-> cli[p].op, todo |-> cli[p].todo, prev |-> cli[p].prev, hash |-> cli[p].hash,
                names |-> cli[p].names, failed |-> cli[p].failed] /\ cli[p].todo \in Todo /\ Paired(cli[p].todo)
  BY <1>2 DEF IsCommand
<1>5. more = [op |-> cli[p].op, todo |-> cli[p].todo, prev |-> state, hash |-> minted + 1,
              names |-> cli[p].names, failed |-> cli[p].failed]
  <2> DEFINE e == [cli[p] EXCEPT !.prev = state]
  <2>1. e = [op |-> cli[p].op, todo |-> cli[p].todo, prev |-> state, hash |-> cli[p].hash,
             names |-> cli[p].names, failed |-> cli[p].failed]
    BY <1>4
  <2>2. more = [e EXCEPT !.hash = minted + 1]
    BY <1>4
  <2> HIDE DEF e, more
  <2> QED BY <2>1, <2>2
<1> HIDE DEF more
<1>7. IsCommand(more) /\ more.op = cli[p].op /\ more.todo = cli[p].todo /\ more.names = cli[p].names
      /\ more.prev = state /\ more.hash = minted + 1
  BY <1>3, <1>4, <1>5 DEF IsCommand
<1>8. d.op = cli[p].op /\ d.todo = Tail(cli[p].todo) /\ d.names = cli[p].names /\ d.prev = state /\ d.hash = minted + 1
  BY <1>7, Fields
<1> HIDE DEF d
<1>9. d.hash > 0
  BY <1>3, <1>8
<1>10. state # Torn /\ Good(ledger, state, lock, snaps, d)
  BY <1>2, <1>8, <1>9, GoodReadState
<1>11. Good(ledger', state', lock', snaps', d)
  BY <1>1, <1>10
<1>12. Onward(p, more)
  BY <1>10 DEF ReadState, more
<1> QED BY <1>3, <1>7, <1>11, <1>12, Continues DEF d

LEMMA AppendLineInOrder ==
  ASSUME LedgerInv, Orderly, clean, NEW p \in Cli, AppendLine(p)
  PROVE  Orderly'
<1> DEFINE line == [id |-> cli[p].hash, op |-> cli[p].op, of |-> Subject(p), prev |-> cli[p].prev]
           d == [cli[p] EXCEPT !.todo = Tail(@)]
           n == Len(ledger)
<1>1. At(p, "append_line") /\ ledger' = Append(ledger, line) /\ Onward(p, cli[p])
      /\ state' = state /\ snaps' = snaps /\ lock' = lock
  BY DEF AppendLine
<1>2. Moving(ledger, state, lock, snaps, cli[p], "append_line") /\ IsCommand(cli[p])
      /\ Subject(p) = cli[p].todo[1].of
  BY <1>1, Alone
<1>3. /\ d.op = cli[p].op /\ d.todo = Tail(cli[p].todo) /\ d.hash = cli[p].hash /\ d.names = cli[p].names
  BY <1>2, Fields
<1>4. ~Idle(p) /\ cli[p].hash \in Int
  BY <1>1, <1>2 DEF At, IsCommand
<1>5. ledger = [i \in 1 .. n |-> ledger[i]] /\ n \in Nat
  BY DEF LedgerInv, LedgerTyped
<1>6. line.id = cli[p].hash /\ line.op = cli[p].op /\ line.of = cli[p].todo[1].of /\ line.prev = cli[p].prev
  BY <1>2
<1> HIDE DEF line, d
<1>7. Len(ledger') = n + 1 /\ ledger'[n + 1] = line /\ \A i \in 1 .. n : ledger'[i] = ledger[i]
  <2> DEFINE D == {ledger[i] : i \in 1 .. n} \union {line}
  <2>1. ledger \in Seq(D) /\ line \in D
    BY <1>5
  <2> HIDE DEF D
  <2> QED BY <1>1, <2>1
<1>8. Good(ledger', state, lock, snaps, d)
  BY <1>2, <1>3, <1>4, <1>6, <1>7, GoodAppendLine
<1>9. Good(ledger', state', lock', snaps', d)
  BY <1>1, <1>8
<1> QED BY <1>1, <1>2, <1>4, <1>9, Continues DEF d

LEMMA OpenStateInOrder ==
  ASSUME LedgerInv, Orderly, clean, NEW p \in Cli, OpenState(p)
  PROVE  Orderly'
<1> DEFINE d == [cli[p] EXCEPT !.todo = Tail(@)]
<1>1. At(p, "open_state") /\ Onward(p, cli[p]) /\ ledger' = ledger /\ state' = Torn /\ lock' = lock /\ snaps' = snaps
  BY DEF OpenState
<1>2. Moving(ledger, state, lock, snaps, cli[p], "open_state") /\ IsCommand(cli[p]) /\ Subject(p) = cli[p].todo[1].of
  BY <1>1, Alone
<1>3. /\ d.op = cli[p].op /\ d.todo = Tail(cli[p].todo) /\ d.prev = cli[p].prev /\ d.hash = cli[p].hash
      /\ d.names = cli[p].names
  BY <1>2, Fields
<1>4. ~Idle(p)
  BY <1>1 DEF At
<1> HIDE DEF d
<1>5. Good(ledger', state', lock', snaps', d)
  BY <1>1, <1>2, <1>3, GoodOpenState
<1> QED BY <1>1, <1>2, <1>4, <1>5, Continues DEF d

LEMMA FillStateInOrder ==
  ASSUME LedgerInv, Orderly, clean, NEW p \in Cli, FillState(p)
  PROVE  Orderly'
<1> DEFINE d == [cli[p] EXCEPT !.todo = Tail(@)]
<1>1. At(p, "fill_state") /\ Onward(p, cli[p]) /\ ledger' = ledger /\ state' = cli[p].hash /\ lock' = lock /\ snaps' = snaps
  BY DEF FillState
<1>2. Moving(ledger, state, lock, snaps, cli[p], "fill_state") /\ IsCommand(cli[p]) /\ Subject(p) = cli[p].todo[1].of
  BY <1>1, Alone
<1>3. /\ d.op = cli[p].op /\ d.todo = Tail(cli[p].todo) /\ d.prev = cli[p].prev /\ d.hash = cli[p].hash
      /\ d.names = cli[p].names
  BY <1>2, Fields
<1>4. ~Idle(p)
  BY <1>1 DEF At
<1> HIDE DEF d
<1>5. Good(ledger', state', lock', snaps', d)
  BY <1>1, <1>2, <1>3, GoodFillState
<1> QED BY <1>1, <1>2, <1>4, <1>5, Continues DEF d

LEMMA ReadLockInOrder ==
  ASSUME LedgerInv, Orderly, clean, NEW p \in Cli, ReadLock(p)
  PROVE  Orderly'
<1> DEFINE names == lock.names \union {Subject(p)}
           more == [cli[p] EXCEPT !.names = names]
           d == [more EXCEPT !.todo = Tail(@)]
<1>1. At(p, "read_lock") /\ ledger' = ledger /\ state' = state /\ lock' = lock /\ snaps' = snaps
  BY DEF ReadLock
<1>2. Moving(ledger, state, lock, snaps, cli[p], "read_lock") /\ IsCommand(cli[p])
      /\ Subject(p) = cli[p].todo[1].of
  BY <1>1, Alone
<1>3. ~Idle(p)
  BY <1>1 DEF At
<1>4. CASE lock.kind # "map"
  <2>1. GiveUp(p)
    BY <1>4 DEF ReadLock
  <2>2. NoCommand.todo = <<>>
    BY DEF NoCommand
  <2>3. Good(ledger', state', lock', snaps', NoCommand)
    BY <1>1, <1>2, <1>4, <2>2, GoodReadLock
  <2> QED BY <1>3, <2>1, <2>3, GivesUp
<1>5. CASE lock.kind = "map"
  <2>1. Onward(p, more)
    BY <1>5 DEF ReadLock
  <2>2. cli[p] = [op |-> cli[p].op, todo |-> cli[p].todo, prev |-> cli[p].prev, hash |-> cli[p].hash,
                  names |-> cli[p].names, failed |-> cli[p].failed]
    BY <1>2 DEF IsCommand
  <2>3. names = lock.names \union {cli[p].todo[1].of}
    BY <1>2
  <2> HIDE DEF names
  <2>4. more = [op |-> cli[p].op, todo |-> cli[p].todo, prev |-> cli[p].prev, hash |-> cli[p].hash,
                names |-> names, failed |-> cli[p].failed]
    BY <2>2
  <2> HIDE DEF more
  <2>5. IsCommand(more) /\ more.op = cli[p].op /\ more.todo = cli[p].todo /\ more.names = names
    BY <1>2, <2>4 DEF IsCommand
  <2>6. d.op = cli[p].op /\ d.todo = Tail(cli[p].todo) /\ d.names = names
    BY <2>5, Fields
  <2> HIDE DEF d
  <2>7. Good(ledger', state', lock', snaps', d)
    BY <1>1, <1>2, <1>5, <2>3, <2>6, GoodReadLock
  <2> QED BY <1>3, <2>1, <2>5, <2>7, Continues DEF d
<1> QED BY <1>4, <1>5

LEMMA OpenLockInOrder ==
  ASSUME LedgerInv, Orderly, clean, NEW p \in Cli, OpenLock(p)
  PROVE  Orderly'
<1> DEFINE d == [cli[p] EXCEPT !.todo = Tail(@)]
<1>1. At(p, "open_lock") /\ Onward(p, cli[p]) /\ ledger' = ledger /\ state' = state /\ lock' = TornLock /\ snaps' = snaps
  BY DEF OpenLock
<1>2. Moving(ledger, state, lock, snaps, cli[p], "open_lock") /\ IsCommand(cli[p]) /\ Subject(p) = cli[p].todo[1].of
  BY <1>1, Alone
<1>3. /\ d.op = cli[p].op /\ d.todo = Tail(cli[p].todo) /\ d.prev = cli[p].prev /\ d.hash = cli[p].hash
      /\ d.names = cli[p].names
  BY <1>2, Fields
<1>4. ~Idle(p)
  BY <1>1 DEF At
<1> HIDE DEF d
<1>5. Good(ledger', state', lock', snaps', d)
  BY <1>1, <1>2, <1>3, GoodOpenLock
<1> QED BY <1>1, <1>2, <1>4, <1>5, Continues DEF d

LEMMA FillLockInOrder ==
  ASSUME LedgerInv, Orderly, clean, NEW p \in Cli, FillLock(p)
  PROVE  Orderly'
<1> DEFINE d == [cli[p] EXCEPT !.todo = Tail(@)]
<1>1. At(p, "fill_lock") /\ Onward(p, cli[p]) /\ ledger' = ledger /\ state' = state /\ lock' = LockOf("map", cli[p].names) /\ snaps' = snaps
  BY DEF FillLock
<1>2. Moving(ledger, state, lock, snaps, cli[p], "fill_lock") /\ IsCommand(cli[p]) /\ Subject(p) = cli[p].todo[1].of
  BY <1>1, Alone
<1>3. /\ d.op = cli[p].op /\ d.todo = Tail(cli[p].todo) /\ d.prev = cli[p].prev /\ d.hash = cli[p].hash
      /\ d.names = cli[p].names
  BY <1>2, Fields
<1>4. ~Idle(p)
  BY <1>1 DEF At
<1> HIDE DEF d
<1>5. Good(ledger', state', lock', snaps', d)
  BY <1>1, <1>2, <1>3, GoodFillLock
<1> QED BY <1>1, <1>2, <1>4, <1>5, Continues DEF d

LEMMA EmptyLockOutInOrder ==
  ASSUME LedgerInv, Orderly, clean, NEW p \in Cli, EmptyLockOut(p)
  PROVE  Orderly'
<1> DEFINE s == Subject(p)
           d == [cli[p] EXCEPT !.todo = Tail(@)]
<1>1. At(p, "empty_lock_out") /\ Onward(p, cli[p]) /\ ledger' = ledger /\ state' = state /\ lock' = lock
      /\ snaps' = [snaps EXCEPT ![s].lock = TornLock]
  BY DEF EmptyLockOut
<1>2. Moving(ledger, state, lock, snaps, cli[p], "empty_lock_out") /\ IsCommand(cli[p]) /\ s = cli[p].todo[1].of
  BY <1>1, Alone
<1>3. d.op = cli[p].op /\ d.todo = Tail(cli[p].todo) /\ d.names = cli[p].names
  BY <1>2, Fields
<1>4. ~Idle(p)
  BY <1>1 DEF At
<1> HIDE DEF d, s
<1>5. \A r \in Snap : IF r = s THEN snaps'[r].lock = TornLock ELSE snaps'[r] = snaps[r]
  BY <1>1 DEF LedgerInv, LedgerTyped
<1>6. LockCopied(snaps, snaps', cli[p].todo[1].of, TornLock)
  BY <1>2, <1>5 DEF LockCopied
<1>7. Good(ledger', state', lock', snaps', d)
  BY <1>1, <1>2, <1>3, <1>6, GoodEmptyLockOut
<1> QED BY <1>1, <1>2, <1>4, <1>7, Continues DEF d

LEMMA CopyLockOutInOrder ==
  ASSUME LedgerInv, Orderly, clean, NEW p \in Cli, CopyLockOut(p)
  PROVE  Orderly'
<1> DEFINE s == Subject(p)
           d == [cli[p] EXCEPT !.todo = Tail(@)]
<1>1. At(p, "copy_lock_out") /\ Onward(p, cli[p]) /\ ledger' = ledger /\ state' = state /\ lock' = lock
      /\ snaps' = [snaps EXCEPT ![s].lock = lock]
  BY DEF CopyLockOut
<1>2. Moving(ledger, state, lock, snaps, cli[p], "copy_lock_out") /\ IsCommand(cli[p]) /\ s = cli[p].todo[1].of
  BY <1>1, Alone
<1>3. d.op = cli[p].op /\ d.todo = Tail(cli[p].todo) /\ d.names = cli[p].names
  BY <1>2, Fields
<1>4. ~Idle(p)
  BY <1>1 DEF At
<1> HIDE DEF d, s
<1>5. \A r \in Snap : IF r = s THEN snaps'[r].lock = lock ELSE snaps'[r] = snaps[r]
  BY <1>1 DEF LedgerInv, LedgerTyped
<1>6. LockCopied(snaps, snaps', cli[p].todo[1].of, lock)
  BY <1>2, <1>5 DEF LockCopied
<1>7. Good(ledger', state', lock', snaps', d)
  BY <1>1, <1>2, <1>3, <1>6, GoodCopyLockOut
<1> QED BY <1>1, <1>2, <1>4, <1>7, Continues DEF d

LEMMA EmptyStateOutInOrder ==
  ASSUME LedgerInv, Orderly, clean, NEW p \in Cli, EmptyStateOut(p)
  PROVE  Orderly'
<1> DEFINE s == Subject(p)
           d == [cli[p] EXCEPT !.todo = Tail(@)]
<1>1. At(p, "empty_state_out") /\ Onward(p, cli[p]) /\ ledger' = ledger /\ state' = state /\ lock' = lock
      /\ snaps' = [snaps EXCEPT ![s].state = Torn]
  BY DEF EmptyStateOut
<1>2. Moving(ledger, state, lock, snaps, cli[p], "empty_state_out") /\ IsCommand(cli[p]) /\ s = cli[p].todo[1].of
  BY <1>1, Alone
<1>3. d.op = cli[p].op /\ d.todo = Tail(cli[p].todo) /\ d.names = cli[p].names
  BY <1>2, Fields
<1>4. ~Idle(p)
  BY <1>1 DEF At
<1> HIDE DEF d, s
<1>5. \A r \in Snap : IF r = s THEN snaps'[r].lock = snaps[r].lock /\ snaps'[r].state = Torn ELSE snaps'[r] = snaps[r]
  BY <1>1 DEF LedgerInv, LedgerTyped
<1>6. StateCopied(snaps, snaps', cli[p].todo[1].of, Torn)
  BY <1>2, <1>5 DEF StateCopied
<1>7. Good(ledger', state', lock', snaps', d)
  BY <1>1, <1>2, <1>3, <1>6, GoodEmptyStateOut
<1> QED BY <1>1, <1>2, <1>4, <1>7, Continues DEF d

LEMMA CopyStateOutInOrder ==
  ASSUME LedgerInv, Orderly, clean, NEW p \in Cli, CopyStateOut(p)
  PROVE  Orderly'
<1> DEFINE s == Subject(p)
           d == [cli[p] EXCEPT !.todo = Tail(@)]
<1>1. At(p, "copy_state_out") /\ Onward(p, cli[p]) /\ ledger' = ledger /\ state' = state /\ lock' = lock
      /\ snaps' = [snaps EXCEPT ![s].state = state]
  BY DEF CopyStateOut
<1>2. Moving(ledger, state, lock, snaps, cli[p], "copy_state_out") /\ IsCommand(cli[p]) /\ s = cli[p].todo[1].of
  BY <1>1, Alone
<1>3. d.op = cli[p].op /\ d.todo = Tail(cli[p].todo) /\ d.names = cli[p].names
  BY <1>2, Fields
<1>4. ~Idle(p)
  BY <1>1 DEF At
<1> HIDE DEF d, s
<1>5. \A r \in Snap : IF r = s THEN snaps'[r].lock = snaps[r].lock /\ snaps'[r].state = state ELSE snaps'[r] = snaps[r]
  BY <1>1 DEF LedgerInv, LedgerTyped
<1>6. StateCopied(snaps, snaps', cli[p].todo[1].of, state)
  BY <1>2, <1>5 DEF StateCopied
<1>7. Good(ledger', state', lock', snaps', d)
  BY <1>1, <1>2, <1>3, <1>6, GoodCopyStateOut
<1> QED BY <1>1, <1>2, <1>4, <1>7, Continues DEF d

LEMMA FindSnapshotInOrder ==
  ASSUME LedgerInv, Orderly, clean, NEW p \in Cli, FindSnapshot(p)
  PROVE  Orderly'
<1> DEFINE d == [cli[p] EXCEPT !.todo = Tail(@)]
<1>1. At(p, "find_snapshot") /\ ledger' = ledger /\ state' = state /\ lock' = lock /\ snaps' = snaps
  BY DEF FindSnapshot
<1>2. Moving(ledger, state, lock, snaps, cli[p], "find_snapshot") /\ IsCommand(cli[p])
      /\ Subject(p) = cli[p].todo[1].of
  BY <1>1, Alone
<1>3. ~Idle(p)
  BY <1>1 DEF At
<1>4. CASE snaps[Subject(p)].lock = NoLock
  <2>1. GiveUp(p)
    BY <1>4 DEF FindSnapshot
  <2>2. NoCommand.todo = <<>>
    BY DEF NoCommand
  <2>3. Good(ledger', state', lock', snaps', NoCommand)
    BY <1>1, <1>2, <1>4, <2>2, GoodFindSnapshot
  <2> QED BY <1>3, <2>1, <2>3, GivesUp
<1>5. CASE snaps[Subject(p)].lock # NoLock
  <2>1. Onward(p, cli[p])
    BY <1>5 DEF FindSnapshot
  <2>2. d.op = cli[p].op /\ d.todo = Tail(cli[p].todo) /\ d.names = cli[p].names
    BY <1>2, Fields
  <2> HIDE DEF d
  <2>3. Good(ledger', state', lock', snaps', d)
    BY <1>1, <1>2, <1>5, <2>2, GoodFindSnapshot
  <2> QED BY <1>2, <1>3, <2>1, <2>3, Continues DEF d
<1> QED BY <1>4, <1>5

LEMMA EmptyLockInOrder ==
  ASSUME LedgerInv, Orderly, clean, NEW p \in Cli, EmptyLock(p)
  PROVE  Orderly'
<1> DEFINE d == [cli[p] EXCEPT !.todo = Tail(@)]
<1>1. At(p, "empty_lock") /\ Onward(p, cli[p]) /\ ledger' = ledger /\ state' = state /\ lock' = TornLock /\ snaps' = snaps
  BY DEF EmptyLock
<1>2. Moving(ledger, state, lock, snaps, cli[p], "empty_lock") /\ IsCommand(cli[p]) /\ Subject(p) = cli[p].todo[1].of
  BY <1>1, Alone
<1>3. /\ d.op = cli[p].op /\ d.todo = Tail(cli[p].todo) /\ d.prev = cli[p].prev /\ d.hash = cli[p].hash
      /\ d.names = cli[p].names
  BY <1>2, Fields
<1>4. ~Idle(p)
  BY <1>1 DEF At
<1> HIDE DEF d
<1>5. Good(ledger', state', lock', snaps', d)
  BY <1>1, <1>2, <1>3, GoodEmptyLock
<1> QED BY <1>1, <1>2, <1>4, <1>5, Continues DEF d

LEMMA CopyLockBackInOrder ==
  ASSUME LedgerInv, Orderly, clean, NEW p \in Cli, CopyLockBack(p)
  PROVE  Orderly'
<1> DEFINE d == [cli[p] EXCEPT !.todo = Tail(@)]
<1>1. At(p, "copy_lock_back") /\ Onward(p, cli[p]) /\ ledger' = ledger /\ state' = state /\ lock' = snaps[Subject(p)].lock /\ snaps' = snaps
  BY DEF CopyLockBack
<1>2. Moving(ledger, state, lock, snaps, cli[p], "copy_lock_back") /\ IsCommand(cli[p]) /\ Subject(p) = cli[p].todo[1].of
  BY <1>1, Alone
<1>3. /\ d.op = cli[p].op /\ d.todo = Tail(cli[p].todo) /\ d.prev = cli[p].prev /\ d.hash = cli[p].hash
      /\ d.names = cli[p].names
  BY <1>2, Fields
<1>4. ~Idle(p)
  BY <1>1 DEF At
<1> HIDE DEF d
<1>5. Good(ledger', state', lock', snaps', d)
  BY <1>1, <1>2, <1>3, GoodCopyLockBack
<1> QED BY <1>1, <1>2, <1>4, <1>5, Continues DEF d

LEMMA EmptyStateInOrder ==
  ASSUME LedgerInv, Orderly, clean, NEW p \in Cli, EmptyState(p)
  PROVE  Orderly'
<1> DEFINE d == [cli[p] EXCEPT !.todo = Tail(@)]
<1>1. At(p, "empty_state") /\ ledger' = ledger /\ lock' = lock /\ snaps' = snaps
  BY DEF EmptyState
<1>2. Moving(ledger, state, lock, snaps, cli[p], "empty_state") /\ IsCommand(cli[p])
      /\ Subject(p) = cli[p].todo[1].of
  BY <1>1, Alone
<1>3. d.op = cli[p].op /\ d.todo = Tail(cli[p].todo) /\ d.names = cli[p].names
  BY <1>2, Fields
<1>4. ~Idle(p)
  BY <1>1 DEF At
<1> HIDE DEF d
<1>5. snaps[Subject(p)].state # Missing /\ Good(ledger, Torn, lock, snaps, d)
  BY <1>2, <1>3, GoodEmptyState
<1>6. state' = Torn /\ Onward(p, cli[p])
  BY <1>5 DEF EmptyState
<1>7. Good(ledger', state', lock', snaps', d)
  BY <1>1, <1>5, <1>6
<1> QED BY <1>2, <1>4, <1>6, <1>7, Continues DEF d

LEMMA CopyStateBackInOrder ==
  ASSUME LedgerInv, Orderly, clean, NEW p \in Cli, CopyStateBack(p)
  PROVE  Orderly'
<1> DEFINE d == [cli[p] EXCEPT !.todo = Tail(@)]
<1>1. At(p, "copy_state_back") /\ Onward(p, cli[p]) /\ ledger' = ledger /\ lock' = lock /\ snaps' = snaps
      /\ state' = snaps[Subject(p)].state
  BY DEF CopyStateBack
<1>2. Moving(ledger, state, lock, snaps, cli[p], "copy_state_back") /\ IsCommand(cli[p])
      /\ Subject(p) = cli[p].todo[1].of
  BY <1>1, Alone
<1>3. d.op = cli[p].op /\ d.todo = Tail(cli[p].todo) /\ d.names = cli[p].names
  BY <1>2, Fields
<1>4. ~Idle(p)
  BY <1>1 DEF At
<1> HIDE DEF d
<1>5. Good(ledger', state', lock', snaps', d)
  BY <1>1, <1>2, <1>3, GoodCopyStateBack
<1> QED BY <1>1, <1>2, <1>4, <1>5, Continues DEF d

LEMMA UploadInOrder ==
  ASSUME LedgerInv, Orderly, clean, NEW p \in Cli, NEW answer, Upload(p, answer)
  PROVE  Orderly'
<1> DEFINE d == [cli[p] EXCEPT !.todo = Tail(@)]
<1>1. At(p, "upload") /\ ledger' = ledger /\ state' = state /\ lock' = lock /\ snaps' = snaps
      /\ (Onward(p, cli[p]) \/ GiveUp(p))
  BY DEF Upload
<1>2. Moving(ledger, state, lock, snaps, cli[p], "upload") /\ IsCommand(cli[p])
  BY <1>1, Alone
<1>3. ~Idle(p)
  BY <1>1 DEF At
<1>4. d.op = cli[p].op /\ d.todo = Tail(cli[p].todo) /\ d.names = cli[p].names
  BY <1>2, Fields
<1>5. NoCommand.todo = <<>>
  BY DEF NoCommand
<1> HIDE DEF d
<1>6. Good(ledger', state', lock', snaps', NoCommand) /\ Good(ledger', state', lock', snaps', d)
  BY <1>1, <1>2, <1>4, <1>5, GoodUpload
<1>7. CASE GiveUp(p)
  BY <1>3, <1>6, <1>7, GivesUp
<1>8. CASE Onward(p, cli[p])
  BY <1>2, <1>3, <1>6, <1>8, Continues DEF d
<1> QED BY <1>1, <1>7, <1>8

LEMMA UploadNextInOrder ==
  ASSUME LedgerInv, Orderly, clean, NEW p \in Cli, NEW answer, UploadNext(p, answer)
  PROVE  Orderly'
<1> DEFINE failed == cli[p].failed \/ answer # "accepted"
           more == [cli[p] EXCEPT !.failed = failed]
           d == [more EXCEPT !.todo = Tail(@)]
<1>1. At(p, "upload_next") /\ Onward(p, more)
      /\ ledger' = ledger /\ state' = state /\ lock' = lock /\ snaps' = snaps
  BY DEF UploadNext
<1>2. Moving(ledger, state, lock, snaps, cli[p], "upload_next") /\ IsCommand(cli[p])
  BY <1>1, Alone
<1>3. ~Idle(p)
  BY <1>1 DEF At
<1> HIDE DEF failed
<1>4. more = [op |-> cli[p].op, todo |-> cli[p].todo, prev |-> cli[p].prev, hash |-> cli[p].hash,
              names |-> cli[p].names, failed |-> failed]
  BY <1>2 DEF IsCommand
<1> HIDE DEF more
<1>5. IsCommand(more) /\ more.op = cli[p].op /\ more.todo = cli[p].todo /\ more.names = cli[p].names
  BY <1>2, <1>4 DEF IsCommand
<1>6. d.op = cli[p].op /\ d.todo = Tail(cli[p].todo) /\ d.names = cli[p].names
  BY <1>5, Fields
<1> HIDE DEF d
<1>7. Good(ledger', state', lock', snaps', d)
  BY <1>1, <1>2, <1>6, GoodUploadNext
<1> QED BY <1>1, <1>3, <1>5, <1>7, Continues DEF d

\* The resolver writes to the lock nothing that is a map of packages.
LEMMA LockElsewhere ==
  ASSUME ResolverNext
  PROVE  lock' = lock \/ lock'.kind \notin {"missing", "map"}
<1>1. CASE OpenLockJson
  BY <1>1 DEF OpenLockJson, TornLock
<1>2. CASE WriteLockJson
  <2> DEFINE names == DOMAIN run.resolved
  <2>1. lock' = LockOf("list", names)
    BY <1>2 DEF WriteLockJson
  <2> HIDE DEF names
  <2> QED BY <2>1 DEF LockOf
<1>3. CASE \E reqs \in Requests, follow \in BOOLEAN : StartRun(reqs, follow)
  BY <1>3 DEF StartRun
<1>4. CASE \E answering \in SUBSET DOMAIN Indexes : Enter(answering)
  BY <1>4 DEF Enter
<1>5. CASE \E outcome \in {"whole", "part", "refused"} : Attempt(outcome)
  BY <1>5 DEF Attempt
<1>6. CASE NextRoot \/ TakeCached \/ Follow \/ WriteVerifier \/ WriteMatrixInputs \/ KillResolver
  BY <1>6 DEF NextRoot, TakeCached, Follow, WriteVerifier, WriteMatrixInputs, KillResolver
<1> QED BY <1>1, <1>2, <1>3, <1>4, <1>5, <1>6 DEF ResolverNext

\* A command begins; it is in order only if no other is under way.
LEMMA BeginInOrder ==
  ASSUME LedgerInv, Orderly, NEW p \in Cli, NEW call \in Invocations, Begin(p, call[1], call[2])
  PROVE  Orderly'
<1> DEFINE op == call[1]
           of == call[2]
           n == NoCommand
           t == Script(op, of)
           d == [n EXCEPT !.op = op, !.todo = t]
<1>1. /\ Idle(p) /\ cli' = [cli EXCEPT ![p] = d] /\ clean' = (clean /\ \A q \in Cli : Idle(q))
      /\ ledger' = ledger /\ state' = state /\ lock' = lock /\ snaps' = snaps
  BY DEF Begin
<1>2. SUFFICES ASSUME clean' PROVE Orderly'
  BY DEF Orderly
<1>3. clean /\ \A q \in Cli : Idle(q)
  BY <1>1, <1>2
<1>4. /\ LinesSound(ledger) /\ (lock.kind = "missing" => Len(ledger) = 0)
      /\ Settled(ledger, state, lock, snaps)
  BY <1>3 DEF Orderly
<1>5. /\ n = [op |-> n.op, todo |-> n.todo, prev |-> n.prev, hash |-> n.hash,
             names |-> n.names, failed |-> n.failed]
      /\ n.names = {}
  BY DEF NoCommand
<1>6. t = Script(call[1], call[2]) /\ op = call[1]
  OBVIOUS
<1> HIDE DEF t, op, of, n
<1>7. d = [op |-> op, todo |-> t, prev |-> n.prev, hash |-> n.hash, names |-> n.names, failed |-> n.failed]
  <2> DEFINE e == [n EXCEPT !.op = op]
  <2>1. e = [op |-> op, todo |-> n.todo, prev |-> n.prev, hash |-> n.hash,
             names |-> n.names, failed |-> n.failed]
    BY <1>5
  <2>2. d = [e EXCEPT !.todo = t]
    BY <1>5
  <2> HIDE DEF d, e
  <2> QED BY <2>1, <2>2
<1> HIDE DEF d
<1>8. d.op = call[1] /\ d.todo = Script(call[1], call[2]) /\ d.names = {}
  BY <1>5, <1>6, <1>7
<1>9. Good(ledger, state, lock, snaps, d)
  BY <1>4, <1>8, GoodBegun
<1>10. Good(ledger', state', lock', snaps', d)
  BY <1>1, <1>9
<1>11. t # <<>> /\ d.todo = t
  BY <1>6, <1>8, ScriptShaped
<1>12. \A q \in Cli : cli'[q] = IF q = p THEN d ELSE cli[q]
  BY <1>1 DEF LedgerInv, LedgerTyped
<1>13. ~Idle(p)' /\ \A q \in Cli : q # p => Idle(q)'
  BY <1>3, <1>11, <1>12 DEF Idle
<1>14. Working(ledger', state', lock', snaps', cli'[p]) /\ LinesSound(ledger')
       /\ (lock'.kind = "missing" => Len(ledger') = 0)
  BY <1>10, <1>11, <1>12 DEF Good
<1> QED BY <1>13, <1>14 DEF Orderly

\* Other work on the project leaves the ledger alone; what it writes to the lock
\* is no map.
LEMMA ElsewhereInOrder ==
  ASSUME Orderly, UNCHANGED ledgerVars, lock' = lock \/ lock'.kind \notin {"missing", "map"}
  PROVE  Orderly'
<1>1. ledger' = ledger /\ state' = state /\ snaps' = snaps /\ cli' = cli /\ clean' = clean
  BY DEF ledgerVars
<1>2. \A q \in Cli : Idle(q)' <=> Idle(q)
  BY <1>1 DEF Idle
<1>3. SUFFICES ASSUME clean PROVE Orderly'
  BY <1>1 DEF Orderly
<1>4. LinesSound(ledger) /\ (lock.kind = "missing" => Len(ledger) = 0)
  BY <1>3 DEF Orderly
<1>5. LinesSound(ledger') /\ (lock'.kind = "missing" => Len(ledger') = 0)
  BY <1>1, <1>4
<1>6. ASSUME \A q \in Cli : Idle(q) PROVE Settled(ledger', state', lock', snaps')
  <2>1. Settled(ledger, state, lock, snaps)
    BY <1>3, <1>6 DEF Orderly
  <2> QED BY <1>1, <2>1 DEF Settled
<1>7. ASSUME NEW q \in Cli, ~Idle(q) PROVE Working(ledger', state', lock', snaps', cli'[q])
  <2>1. Working(ledger, state, lock, snaps, cli[q]) /\ cli[q].todo # <<>>
    BY <1>3, <1>7 DEF Orderly, Idle
  <2>2. Good(ledger, state, lock, snaps, cli[q])
    BY <1>4, <2>1 DEF Good
  <2>3. Good(ledger, state, lock', snaps, cli[q])
    BY <2>2, GoodElsewhere
  <2> QED BY <1>1, <2>1, <2>3 DEF Good
<1>8. \A q \in Cli : ~Idle(q) => \A r \in Cli : r # q => Idle(r)
  BY <1>3 DEF Orderly
<1> QED BY <1>1, <1>2, <1>5, <1>6, <1>7, <1>8 DEF Orderly

\* At the start the ledger is empty, and every step keeps it in order.
LEMMA OrderlyStart ==
  ASSUME FilesInit, LedgerInit
  PROVE  Orderly
<1>1. /\ ledger = << >> /\ state = Missing /\ lock = NoLock /\ clean = TRUE
      /\ snaps = [s \in Snap |-> [lock |-> NoLock, state |-> Missing]]
      /\ \A p \in Cli : cli[p] = NoCommand
  BY DEF LedgerInit, FilesInit
<1>2. Len(ledger) = 0 /\ \A p \in Cli : Idle(p)
  BY <1>1 DEF Idle, NoCommand
<1>3. \E f : IsReplay(ledger, f)
  <2> DEFINE g == [i \in 0 .. 0 |-> {}]
  <2>1. g[0] = {}
    OBVIOUS
  <2>2. g = [i \in 0 .. Len(ledger) |->
              IF i = 0 THEN {}
              ELSE CASE ledger[i].op = "add"      -> g[i - 1] \union {ledger[i].of}
                     [] ledger[i].op = "rollback" -> g[Taken(ledger, i, ledger[i].of)]
                     [] OTHER                     -> g[i - 1]]
    <3>1. \A i \in 0 .. 0 : i = 0
      OBVIOUS
    <3>2. 0 .. Len(ledger) = 0 .. 0
      BY <1>2
    <3> QED BY <3>1, <3>2
  <2> QED BY <2>2 DEF IsReplay
<1>4. IsReplay(ledger, Replayed(ledger))
  BY <1>3, ReplayFound
<1>5. LinesSound(ledger)
  BY <1>2, <1>4 DEF LinesSound
<1>6. NoLock.kind = "missing"
  BY DEF NoLock
<1>7. Settled(ledger, state, lock, snaps)
  BY <1>1, <1>2, <1>6 DEF Settled, StateSound, SnapSound
<1> QED BY <1>2, <1>5, <1>7 DEF Orderly

LEMMA OrderlyStep ==
  ASSUME LedgerInv, Orderly, LedgerNext
  PROVE  Orderly'
<1>1. PICK p \in Cli : (\E call \in Invocations : Begin(p, call[1], call[2])) \/ CliStep(p) \/ Kill(p)
  BY DEF LedgerNext
<1>2. CASE \E call \in Invocations : Begin(p, call[1], call[2])
  BY <1>2, BeginInOrder
<1>3. CASE CliStep(p)
  <2>1. CASE clean
    BY <1>3, <2>1, EnsureStateInOrder, EnsureLockInOrder, ReadStateInOrder, AppendLineInOrder,
       OpenStateInOrder, FillStateInOrder, ReadLockInOrder, OpenLockInOrder, FillLockInOrder,
       EmptyLockOutInOrder, CopyLockOutInOrder, EmptyStateOutInOrder, CopyStateOutInOrder,
       FindSnapshotInOrder, EmptyLockInOrder, CopyLockBackInOrder, EmptyStateInOrder,
       CopyStateBackInOrder, UploadInOrder, UploadNextInOrder DEF CliStep
  <2>2. CASE ~clean
    <3>1. clean' = clean
      BY <1>3 DEF CliStep, EnsureState, EnsureLock, ReadState, AppendLine, OpenState, FillState, ReadLock,
         OpenLock, FillLock, EmptyLockOut, CopyLockOut, EmptyStateOut, CopyStateOut, FindSnapshot,
         EmptyLock, CopyLockBack, EmptyState, CopyStateBack,
         Upload, UploadNext
    <3> QED BY <2>2, <3>1 DEF Orderly
  <2> QED BY <2>1, <2>2
<1>4. CASE Kill(p)
  BY <1>4 DEF Kill, Orderly
<1> QED BY <1>1, <1>2, <1>3, <1>4

(* Commands that run one after the other and to their end: the invariant   *)
(* that explains what state.json, the lock and the snapshots hold, between *)
(* two commands and before each step of the one that is under way.         *)
THEOREM CommandsAreOrderly == Spec => [](LedgerInv /\ Orderly)
<1>1. Init => LedgerInv /\ Orderly
  BY LedgerStart, OrderlyStart DEF Init
<1>2. LedgerInv /\ Orderly /\ [Next]_vars => LedgerInv' /\ Orderly'
  <2> SUFFICES ASSUME LedgerInv, Orderly, [Next]_vars PROVE LedgerInv' /\ Orderly'
    OBVIOUS
  <2>1. CASE LedgerNext
    BY <2>1, LedgerStep, OrderlyStep
  <2>2. CASE ResolverNext /\ UNCHANGED <<ledgerVars, signatures>>
    <3>1. UNCHANGED ledgerVars
      BY <2>2
    <3>2. lock' = lock \/ lock'.kind \notin {"missing", "map"}
      BY <2>2, LockElsewhere
    <3> QED BY <3>1, <3>2, LedgerAlone, ElsewhereInOrder
  <2>3. CASE SigningNext /\ UNCHANGED ledgerVars
    <3>1. UNCHANGED ledgerVars /\ lock' = lock
      BY <2>3 DEF SigningNext, SignMatrix, SignFiles
    <3> QED BY <3>1, LedgerAlone, ElsewhereInOrder
  <2>4. CASE UNCHANGED vars
    <3>1. UNCHANGED ledgerVars /\ lock' = lock
      BY <2>4 DEF vars, filesVars
    <3> QED BY <3>1, LedgerAlone, ElsewhereInOrder
  <2> QED BY <2>1, <2>2, <2>3, <2>4 DEF Next
<1> QED BY <1>1, <1>2, PTL DEF Spec

(* While commands run one after the other and to their end, the ledger is  *)
(* one chain but for rollbacks, whose line continues what the line of the  *)
(* snapshot continues, and after the last command state.json names the     *)
(* last line; for any number of lines, packages, snapshots and wheels, and *)
(* whatever the resolver and the signer do meanwhile.                      *)
THEOREM TheChainIsExplained == Spec => []ChainIsExplained
<1>1. LedgerInv /\ Orderly => ChainIsExplained
  <2> SUFFICES ASSUME LedgerInv, Orderly, clean PROVE ChainIsExplained
    BY DEF ChainIsExplained
  <2> DEFINE n == Len(ledger)
  <2>1. ledger = [i \in 1 .. n |-> ledger[i]] /\ n \in Nat /\ LinesSound(ledger)
    BY DEF LedgerInv, LedgerTyped, Orderly
  <2>2. DOMAIN ledger = 1 .. n
    BY <2>1
  <2>3. ASSUME \A p \in Cli : Idle(p), ledger # <<>> PROVE state = Last(ledger).id
    <3>1. StateSound(ledger, state)
      BY <2>3 DEF Orderly, Settled
    <3>2. n # 0
      <4>1. 1 .. 0 = {}
        OBVIOUS
      <4> HIDE DEF n
      <4>2. n = 0 => ledger = <<>>
        BY <2>1, <4>1
      <4> QED BY <2>3, <4>2
    <3> QED BY <3>1, <3>2 DEF StateSound, LastHash, Last
  <2> QED BY <2>2, <2>1, <2>3 DEF ChainIsExplained, LinesSound
<1> QED BY <1>1, CommandsAreOrderly, PTL

(* While commands run one after the other and to their end, replaying the  *)
(* ledger gives the packages of the lock file: no add is lost, and a       *)
(* rollback brings back what the snapshot held.                            *)
THEOREM TheLockIsExplained == Spec => []LockIsExplained
<1>1. LedgerInv /\ Orderly => LockIsExplained
  BY DEF LockIsExplained, Orderly, Settled, LastNames
<1> QED BY <1>1, CommandsAreOrderly, PTL
=============================================================================
