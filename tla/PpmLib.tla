-------------------------------- MODULE PpmLib --------------------------------
(***************************************************************************)
(* What src/Ppm-lib brings: the package manager's project (PpmProject) and   *)
(* the memory pool server (PmllPool).  They share no state: a behaviour runs *)
(* one of them.                                                              *)
(***************************************************************************)
EXTENDS PpmProject, PmllPool

VARIABLE running

libVars == <<vars, poolVars, running>>

LibInit ==
  /\ running \in {"project", "pool"}
  /\ Init /\ PoolInit
  /\ running = "pool" => budget = CHOOSE b \in Budgets : TRUE

LibNext ==
  /\ UNCHANGED running
  /\ \/ running = "project" /\ Next /\ UNCHANGED poolVars
     \/ running = "pool" /\ PoolNext /\ UNCHANGED vars

LibSpec == LibInit /\ [][LibNext]_libVars
=============================================================================
