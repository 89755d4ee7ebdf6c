------------------------------ MODULE PpmFiles ------------------------------
(***************************************************************************)
(* What the PPM command line (Ppm-lib/Ppm-cli.py) and the import resolver  *)
(* (Resolver-lib/Importresolver.py) share: the file .ppm/lock.json of a    *)
(* project.  Nothing locks it.  A writer opens it, which truncates it, and *)
(* fills it in a later step; a reader in between, or after the writer was  *)
(* killed there, finds no JSON and gives up.                               *)
(***************************************************************************)
EXTENDS Integers, Sequences, FiniteSets

CONSTANTS
  Package,     \* names of packages
  Budgets      \* bounds: records
               \* [commands, overlaps, crashes, resolves, signings]

VARIABLES
  lock,        \* [kind, names]: see LockFile
  budget       \* what is left of the chosen bounds

filesVars == <<lock, budget>>

(* "map" is the {"packages": {...}} of the command line, "list" the        *)
(* {"packages": [...]} of the resolver: each reads only its own.           *)
LockFile == [kind : {"missing", "torn", "map", "list"}, names : SUBSET Package]

NoLock == [kind |-> "missing", names |-> {}]
TornLock == [kind |-> "torn", names |-> {}]
LockOf(kind, names) == [kind |-> kind, names |-> names]

FilesInit == lock = NoLock /\ budget \in Budgets

Spend(kinds) ==
  /\ \A kind \in kinds : budget[kind] > 0
  /\ budget' = [kind \in DOMAIN budget |-> IF kind \in kinds THEN budget[kind] - 1 ELSE budget[kind]]
=============================================================================
