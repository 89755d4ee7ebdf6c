------------------------------ MODULE PpmSigning ------------------------------
(***************************************************************************)
(* Signing and verifying what the resolver cached (Resolver-lib/Pep.py).   *)
(* The key pair is one and is kept; a signature is the content it signs.   *)
(***************************************************************************)
EXTENDS PpmResolver

VARIABLE
  signatures   \* signatures.json: [source, items], items [file, sha, signed]

NoSignatures == [source |-> "none", items |-> {}]
SigningInit == signatures = NoSignatures

SignaturesOf(source, pairs) ==
  [source |-> source,
   items |-> {[file |-> it.file, sha |-> it.sha, signed |-> cache[it.file]] : it \in pairs}]

(* sign_artifacts without file names: the list of the resolver, with its   *)
(* hashes.  It stops at a file that is not cached, before it writes.       *)
SignMatrix ==
  /\ Spend({"signings"}) /\ matrix # {}
  /\ signatures' = IF \A it \in matrix : it.file \in DOMAIN cache
                   THEN SignaturesOf("matrix", matrix) ELSE signatures
  /\ UNCHANGED <<lock, resolverVars>>

\* collect_from_cache
Collected(files) == {[file |-> f, sha |-> cache[f]] : f \in files}

(* sign_artifacts with file names: their hashes are those of the cache.    *)
SignFiles(files) ==
  /\ Spend({"signings"}) /\ files # {} /\ files \subseteq DOMAIN cache
  /\ signatures' = SignaturesOf("files", Collected(files))
  /\ UNCHANGED <<lock, resolverVars>>

SigningNext == SignMatrix \/ \E files \in SUBSET DOMAIN cache : SignFiles(files)

---------------------------------------------------------------------------
(* verify_signatures with no invalid signature and no mismatch.            *)
Verifies ==
  \A it \in signatures.items :
    it.file \in DOMAIN cache /\ cache[it.file] = it.sha /\ cache[it.file] = it.signed

(* Signatures made from the resolver's list and found valid vouch for what *)
(* the indexes publish: a file whose hash the indexes give is in the cache *)
(* as one of them has it, and is not the part that an earlier, broken      *)
(* download left there (Pep.py:100-114 and 202-205, Importresolver.py:353  *)
(* and 449).                                                               *)
VerifiedIsPublished ==
  signatures.source = "matrix" /\ Verifies =>
    \A it \in signatures.items :
      (\A c \in Listed(it.file) : c.hashed) =>
        \E c \in Listed(it.file) : cache[it.file] = Whole(c.url)
=============================================================================
