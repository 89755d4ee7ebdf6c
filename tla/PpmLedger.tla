------------------------------ MODULE PpmLedger ------------------------------
(***************************************************************************)
(* The PPM command line: a lock file, snapshots of it, and a hash-chained  *)
(* ledger of the commands (.ppm/ledger.jsonl) whose newest hash is kept in *)
(* a second file (.ppm/state.json).  Several command lines may run on one  *)
(* project, and each may be killed between any two of its steps.           *)
(*                                                                         *)
(* A command is the list of the file operations it has still to do         *)
(* (cli[p].todo); each operation is an action.  The hash of an entry is    *)
(* its number: it covers a fresh uuid, so no two entries share one.        *)
(***************************************************************************)
EXTENDS PpmFiles, SequencesExt

CONSTANTS
  Cli,         \* processes that may run a command
  Addable,     \* packages that users add by hand
  Snap,        \* snapshot names
  Wheels       \* the .whl files of the wheelhouse, in their sorted order

None    == 0   \* "last_hash": null
Torn    == -1  \* truncated, not yet filled
Missing == -2  \* no such file
NotName == "-" \* the argument of a command that takes none

ASSUME AddableArePackages == Addable \subseteq Package
ASSUME WheelsAreOrdered == Wheels \in Seq(STRING) /\ Len(Wheels) > 0

VARIABLES
  ledger,      \* lines [id, op, of, prev]
  state,       \* state.json: the hash it holds, None, Torn or Missing
  snaps,       \* snapshot -> copies of the two files [lock, state]
  minted,      \* entries made so far: the next hash is one more
  cli,         \* process -> [op, todo, prev, hash, names, failed]
  clean        \* history: no two commands overlapped and none was killed

ledgerVars == <<ledger, state, snaps, minted, cli, clean>>

NoCommand == [op |-> NotName, todo |-> <<>>, prev |-> None, hash |-> None,
              names |-> {}, failed |-> FALSE]

LedgerInit ==
  /\ ledger = <<>> /\ state = Missing /\ minted = 0 /\ clean = TRUE
  /\ snaps = [s \in Snap |-> [lock |-> NoLock, state |-> Missing]]
  /\ cli = [p \in Cli |-> NoCommand]

---------------------------------------------------------------------------
(* The commands as lists of steps.                                         *)
Step(do, of) == [do |-> do, of |-> of]
Steps(dos, of) == [i \in DOMAIN dos |-> Step(dos[i], of)]
\* The steps for the first name, then the same steps for the next one, ...
InTurn(dos, ofs) ==
  [k \in 1 .. Len(dos) * Len(ofs) |->
     Step(dos[((k - 1) % Len(dos)) + 1], ofs[((k - 1) \div Len(dos)) + 1])]

Ensure == <<"ensure_state", "ensure_lock">>

\* Fault for the mutants: the new hash is saved before the line it names.
EntryStateFirst == <<"read_state", "open_state", "fill_state", "append_line">>
\* append_entry
Entry == <<"read_state", "append_line", "open_state", "fill_state">>

\* Fault for the mutants: a rollback that leaves state.json as it is.
RestoreLockOnly == <<"find_snapshot", "empty_lock", "copy_lock_back">>
\* Fault for the mutants: a rollback that leaves lock.json as it is.
RestoreStateOnly == <<"find_snapshot", "empty_state", "copy_state_back">>
\* restore_snapshot
Restore == <<"find_snapshot", "empty_lock", "copy_lock_back", "empty_state", "copy_state_back">>

Adding == <<"read_lock", "open_lock", "fill_lock">>
Snapping == <<"empty_lock_out", "copy_lock_out", "empty_state_out", "copy_state_out">>
\* What cmd_publish does with each wheel
Publishing == <<"upload">> \o Ensure \o Entry

Script(op, of) ==
  CASE op = "add"       -> Steps(Ensure \o Adding \o Entry, of)
    [] op = "snapshot"  -> Steps(Ensure \o Snapping \o Entry, of)
    [] op = "rollback"  -> Steps(Ensure \o Restore \o Entry, of)
    [] op = "publish"   -> InTurn(Publishing, Wheels)
    [] op = "publish_all" -> [i \in DOMAIN Wheels |-> Step("upload_next", Wheels[i])]
    [] OTHER            -> Steps(Ensure \o Entry, of)   \* init, attest, apply

Invocations ==
  {<<"init", NotName>>, <<"attest", NotName>>, <<"publish", NotName>>, <<"publish_all", NotName>>}
    \union ({"add"} \X Addable) \union ({"snapshot", "rollback"} \X Snap)

Idle(p) == cli[p].todo = <<>>
At(p, do) == ~Idle(p) /\ Head(cli[p].todo).do = do
Subject(p) == Head(cli[p].todo).of

\* The step is over: go on with the next, having noted more.
Onward(p, more) == cli' = [cli EXCEPT ![p] = [more EXCEPT !.todo = Tail(@)]]
\* An exception or SystemExit ends the command.
GiveUp(p) == cli' = [cli EXCEPT ![p] = NoCommand]

Begin(p, op, of) ==
  /\ Idle(p)
  /\ IF \A q \in Cli : Idle(q) THEN Spend({"commands"}) ELSE Spend({"commands", "overlaps"})
  /\ cli' = [cli EXCEPT ![p] = [NoCommand EXCEPT !.op = op, !.todo = Script(op, of)]]
  /\ clean' = (clean /\ \A q \in Cli : Idle(q))
  /\ UNCHANGED <<ledger, state, snaps, minted, lock>>

---------------------------------------------------------------------------
(* ensure_init, in two looks: the file may appear after the look.          *)
EnsureState(p) ==
  /\ At(p, "ensure_state")
  /\ IF state = Missing
     THEN cli' = [cli EXCEPT ![p].todo = Steps(<<"open_state", "fill_state">>, Subject(p)) \o Tail(@),
                             ![p].hash = None]
     ELSE Onward(p, cli[p])
  /\ UNCHANGED <<ledger, state, snaps, minted, clean, lock, budget>>

EnsureLock(p) ==
  /\ At(p, "ensure_lock")
  /\ IF lock.kind = "missing"
     THEN cli' = [cli EXCEPT ![p].todo = Steps(<<"open_lock", "fill_lock">>, NotName) \o Tail(@)]
     ELSE Onward(p, cli[p])
  /\ UNCHANGED <<ledger, state, snaps, minted, clean, lock, budget>>

(* append_entry: the entry is made from what state.json says, appended to  *)
(* the ledger, and only then made the newest one.                          *)
ReadState(p) ==
  /\ At(p, "read_state")
  /\ IF state = Torn
     THEN GiveUp(p) /\ UNCHANGED minted
     ELSE /\ minted' = minted + 1
          /\ Onward(p, [cli[p] EXCEPT !.prev = state, !.hash = minted + 1])
  /\ UNCHANGED <<ledger, state, snaps, clean, lock, budget>>

AppendLine(p) ==
  /\ At(p, "append_line")
  /\ ledger' = Append(ledger, [id |-> cli[p].hash, op |-> cli[p].op, of |-> Subject(p),
                               prev |-> cli[p].prev])
  /\ Onward(p, cli[p])
  /\ UNCHANGED <<state, snaps, minted, clean, lock, budget>>

OpenState(p) ==
  /\ At(p, "open_state") /\ state' = Torn
  /\ Onward(p, cli[p])
  /\ UNCHANGED <<ledger, snaps, minted, clean, lock, budget>>

FillState(p) ==
  /\ At(p, "fill_state") /\ state' = cli[p].hash
  /\ Onward(p, cli[p])
  /\ UNCHANGED <<ledger, snaps, minted, clean, lock, budget>>

(* cmd_add: a lock whose packages are a list cannot be indexed by a name.  *)
ReadLock(p) ==
  /\ At(p, "read_lock")
  /\ IF lock.kind = "map"
     THEN Onward(p, [cli[p] EXCEPT !.names = lock.names \union {Subject(p)}])
     ELSE GiveUp(p)
  /\ UNCHANGED <<ledger, state, snaps, minted, clean, lock, budget>>

OpenLock(p) ==
  /\ At(p, "open_lock") /\ lock' = TornLock
  /\ Onward(p, cli[p])
  /\ UNCHANGED <<ledger, state, snaps, minted, clean, budget>>

FillLock(p) ==
  /\ At(p, "fill_lock") /\ lock' = LockOf("map", cli[p].names)
  /\ Onward(p, cli[p])
  /\ UNCHANGED <<ledger, state, snaps, minted, clean, budget>>

(* create_snapshot: the lock first, the state next; a name may be reused.  *)
(* shutil.copy2 empties its target before it copies.                       *)
EmptyLockOut(p) ==
  /\ At(p, "empty_lock_out")
  /\ snaps' = [snaps EXCEPT ![Subject(p)].lock = TornLock]
  /\ Onward(p, cli[p])
  /\ UNCHANGED <<ledger, state, minted, clean, lock, budget>>

CopyLockOut(p) ==
  /\ At(p, "copy_lock_out")
  /\ snaps' = [snaps EXCEPT ![Subject(p)].lock = lock]
  /\ Onward(p, cli[p])
  /\ UNCHANGED <<ledger, state, minted, clean, lock, budget>>

EmptyStateOut(p) ==
  /\ At(p, "empty_state_out")
  /\ snaps' = [snaps EXCEPT ![Subject(p)].state = Torn]
  /\ Onward(p, cli[p])
  /\ UNCHANGED <<ledger, state, minted, clean, lock, budget>>

CopyStateOut(p) ==
  /\ At(p, "copy_state_out")
  /\ snaps' = [snaps EXCEPT ![Subject(p)].state = state]
  /\ Onward(p, cli[p])
  /\ UNCHANGED <<ledger, state, minted, clean, lock, budget>>

(* restore_snapshot: the same order; the copy of a file that the snapshot  *)
(* lacks fails before it empties, with the files before it restored.       *)
FindSnapshot(p) ==
  /\ At(p, "find_snapshot")
  /\ IF snaps[Subject(p)].lock = NoLock THEN GiveUp(p) ELSE Onward(p, cli[p])
  /\ UNCHANGED <<ledger, state, snaps, minted, clean, lock, budget>>

EmptyLock(p) ==
  /\ At(p, "empty_lock") /\ lock' = TornLock
  /\ Onward(p, cli[p])
  /\ UNCHANGED <<ledger, state, snaps, minted, clean, budget>>

CopyLockBack(p) ==
  /\ At(p, "copy_lock_back") /\ lock' = snaps[Subject(p)].lock
  /\ Onward(p, cli[p])
  /\ UNCHANGED <<ledger, state, snaps, minted, clean, budget>>

EmptyState(p) ==
  /\ At(p, "empty_state")
  /\ IF snaps[Subject(p)].state = Missing
     THEN GiveUp(p) /\ UNCHANGED state
     ELSE state' = Torn /\ Onward(p, cli[p])
  /\ UNCHANGED <<ledger, snaps, minted, clean, lock, budget>>

CopyStateBack(p) ==
  /\ At(p, "copy_state_back") /\ state' = snaps[Subject(p)].state
  /\ Onward(p, cli[p])
  /\ UNCHANGED <<ledger, snaps, minted, clean, lock, budget>>

---------------------------------------------------------------------------
(* Publishing.  The registry accepts a wheel or not, or its answer is lost, *)
(* which the client sees as an error.                                      *)
Answers == {"accepted", "refused", "lost"}

(* cmd_publish of Ppm-cli.py: any failure ends the command, the wheels     *)
(* before it published and recorded.                                       *)
Upload(p, answer) ==
  /\ At(p, "upload")
  /\ IF answer = "accepted" THEN Onward(p, cli[p]) ELSE GiveUp(p)
  /\ UNCHANGED <<ledger, state, snaps, minted, clean, lock, budget>>

(* cmd_publish of ppm_cli.py: goes on after a failure, and its exit status *)
(* at the end says whether there was one.  Nothing is recorded.            *)
UploadNext(p, answer) ==
  /\ At(p, "upload_next")
  /\ Onward(p, [cli[p] EXCEPT !.failed = @ \/ answer # "accepted"])
  /\ UNCHANGED <<ledger, state, snaps, minted, clean, lock, budget>>

(* A command line is killed: its files stay as they are.                   *)
Kill(p) ==
  /\ ~Idle(p) /\ Spend({"crashes"})
  /\ GiveUp(p)
  /\ clean' = FALSE
  /\ UNCHANGED <<ledger, state, snaps, minted, lock>>

CliStep(p) ==
  \/ EnsureState(p) \/ EnsureLock(p)
  \/ ReadState(p) \/ AppendLine(p) \/ OpenState(p) \/ FillState(p)
  \/ ReadLock(p) \/ OpenLock(p) \/ FillLock(p)
  \/ EmptyLockOut(p) \/ CopyLockOut(p) \/ EmptyStateOut(p) \/ CopyStateOut(p)
  \/ FindSnapshot(p)
  \/ EmptyLock(p) \/ CopyLockBack(p) \/ EmptyState(p) \/ CopyStateBack(p)
  \/ \E answer \in Answers : Upload(p, answer) \/ UploadNext(p, answer)

LedgerNext ==
  \E p \in Cli :
    \/ \E call \in Invocations : Begin(p, call[1], call[2])
    \/ CliStep(p)
    \/ Kill(p)

---------------------------------------------------------------------------
Ids == {ledger[i].id : i \in DOMAIN ledger}

(* Whatever is killed and whatever overlaps, a hash that a file holds, and *)
(* the previous hash of a line, names a line that is in the ledger: the    *)
(* line is written before the hash (append_entry, Ppm-cli.py:104-106), and *)
(* snapshots and rollbacks only copy it.                                   *)
HashesNameLines ==
  /\ state > None => state \in Ids
  /\ \A s \in Snap : snaps[s].state > None => snaps[s].state \in Ids
  /\ \A i \in DOMAIN ledger :
       ledger[i].prev > None => \E j \in 1..(i - 1) : ledger[j].id = ledger[i].prev

\* The last line before line i that took snapshot s.
Taken(lines, i, s) ==
  LET at == {j \in 1..(i - 1) : lines[j].op = "snapshot" /\ lines[j].of = s}
  IN  CHOOSE j \in at : \A k \in at : k <= j

(* While commands run one after the other and to their end, the ledger is  *)
(* one chain, but for rollbacks: the line of a rollback continues what the *)
(* snapshot had seen, which is what the line of the snapshot continues     *)
(* (restore_snapshot brings back state.json).  After the last command      *)
(* state.json names the last line.                                         *)
ChainIsExplained ==
  clean =>
    /\ \A i \in DOMAIN ledger :
         ledger[i].prev = IF ledger[i].op = "rollback" THEN ledger[Taken(ledger, i, ledger[i].of)].prev
                          ELSE IF i = 1 THEN None ELSE ledger[i - 1].id
    /\ (\A p \in Cli : Idle(p)) /\ ledger # <<>> => state = Last(ledger).id

\* The packages that the first i lines say are in the lock, for each i.
Replayed(lines) ==
  LET names[i \in 0..Len(lines)] ==
        IF i = 0 THEN {}
        ELSE CASE lines[i].op = "add"      -> names[i - 1] \union {lines[i].of}
               [] lines[i].op = "rollback" -> names[Taken(lines, i, lines[i].of)]
               [] OTHER                    -> names[i - 1]
  IN  names

(* While commands run one after the other and to their end, replaying the  *)
(* ledger gives the packages of the lock file: no add is lost, and a       *)
(* rollback brings back what the snapshot held.  (A lock the resolver      *)
(* wrote is not the ledger's.)                                             *)
LockIsExplained ==
  clean /\ (\A p \in Cli : Idle(p)) /\ lock.kind = "map" => lock.names = Replayed(ledger)[Len(ledger)]
=============================================================================
