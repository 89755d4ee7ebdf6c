---------------------------- MODULE MCMcpServer ----------------------------
(* McpServer on a small instance: one thread stores and looks, the other     *)
(* opens, closes and maintains.  Values and identities are interchangeable.  *)
EXTENDS McpServer, TLC

CONSTANTS t1, t2

MCTools(t) == IF t = t1 THEN {"set", "peek", "context"}
              ELSE {"init", "flush", "status", "upsert", "promote", "prune"}

Symmetry == Permutations(StoreId) \union Permutations(Value)
=============================================================================
