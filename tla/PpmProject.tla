------------------------------ MODULE PpmProject ------------------------------
(***************************************************************************)
(* One project directory and all that works on it: command lines, the      *)
(* resolver and the signer, in any interleaving of their file operations.  *)
(***************************************************************************)
EXTENDS PpmLedger, PpmSigning

vars == <<filesVars, ledgerVars, resolverVars, signatures>>

Init == FilesInit /\ LedgerInit /\ ResolverInit /\ SigningInit

Next ==
  \/ LedgerNext /\ UNCHANGED <<resolverVars, signatures>>
  \/ ResolverNext /\ UNCHANGED <<ledgerVars, signatures>>
  \/ SigningNext /\ UNCHANGED ledgerVars

Spec == Init /\ [][Next]_vars
=============================================================================
