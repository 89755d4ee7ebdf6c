------------------------------- MODULE Agents -------------------------------
(***************************************************************************)
(* The game agents of src/lattice/scripts: persistence_self_talk.py          *)
(* (SelfTalk), and persistence_in_memory.py with pmll_merge_ascend.py        *)
(* (TraceMemory).  They write to directories of their own and share no       *)
(* state: a behaviour runs one kind.                                         *)
(***************************************************************************)
EXTENDS SelfTalk, TraceMemory

VARIABLE running

agentsVars == <<vars, traceVars, running>>

\* What does not run has nothing to choose.
AgentsInit ==
  /\ running \in {"self_talk", "traces"}
  /\ Init /\ TraceInit
  /\ running = "traces" =>
       file = NoFile /\ ~limited /\ deadly = {} /\ bounds = CHOOSE b \in Bounds : TRUE

AgentsNext ==
  /\ UNCHANGED running
  /\ \/ running = "self_talk" /\ Next /\ UNCHANGED traceVars
     \/ running = "traces" /\ TraceNext /\ UNCHANGED vars

\* Every request of the self-talk agent is answered or given up in the end.
AgentsSpec == AgentsInit /\ [][AgentsNext]_agentsVars /\ WF_vars(Play)
=============================================================================
