----------------------------- MODULE PpmResolver -----------------------------
(***************************************************************************)
(* The import resolver (Resolver-lib/Importresolver.py): it picks for each *)
(* requirement the newest version an index lists, downloads its artifact   *)
(* into .ppm/cache, follows the requirements of the wheel it downloaded,   *)
(* and at the end writes the lock, a verifier script and the list of files *)
(* that Pep.py signs.  One resolver runs at a time; it may be killed at    *)
(* any step, and what it had cached stays for the next one.                *)
(*                                                                         *)
(* A content is the url it came from and whether all of it arrived; its    *)
(* SHA-256 is the content itself, for no two contents share one.           *)
(***************************************************************************)
EXTENDS PpmFiles, SequencesExt

CONSTANTS
  Requests,    \* what users ask to resolve: sequences of requirements
  Indexes,     \* the package indexes, in order: package -> sequence of candidates
  Metadata,    \* url -> the Requires-Dist of that wheel
  PreReleases, \* the versions (numbers) that are pre-releases
  Retries      \* --retries

(* A requirement is [name, specified, versions, pre, applies]: whether it  *)
(* has a specifier, the versions that contains, whether that names         *)
(* pre-releases, and what its marker says in this environment.  A          *)
(* candidate is [file, url, version, wheel, rank, hashed]: rank is the     *)
(* place of its tag among the environment's, and hashed tells whether the  *)
(* index gives the SHA-256.                                                *)

Required == UNION {Range(list) : list \in Requests \union Range(Metadata)}
ASSUME RetriesAssumption == Retries \in Nat
ASSUME RequirementsAreLists == \A list \in Requests \union Range(Metadata) : list \in Seq(Required)

VARIABLES
  cache,       \* file -> content, of the files in .ppm/cache
  run,         \* the resolver: see Ready
  matrix,      \* matrix_inputs.txt: set of [file, sha]
  verifier,    \* the generated resolver.py: set of [file, sha] it looks at
  closed       \* history: what the last finished run left undone

resolverVars == <<cache, run, matrix, verifier, closed>>

\* The function with this value at x.
With(f, x, value) == [k \in DOMAIN f \union {x} |-> IF k = x THEN value ELSE f[k]]

Whole(url) == [url |-> url, whole |-> TRUE]
Part(url) == [url |-> url, whole |-> FALSE]

(* stage: "ready", "resolving", or a step of the writing at the end; due:  *)
(* requirements still to resolve; stack: calls of _resolve_one under way,  *)
(* innermost first; tries: downloads left; end: how the last run ended;    *)
(* follow: not --no-transitives; broken: history, the files of which the   *)
(* run found only a part in the cache when it began.                       *)
Ready == [stage |-> "ready", follow |-> TRUE, due |-> <<>>, stack |-> <<>>, resolved |-> <<>>, seen |-> {},
          tries |-> 0, end |-> "none", broken |-> {}]
Ended(how) == [Ready EXCEPT !.end = how]

ResolverInit ==
  /\ cache = <<>> /\ run = Ready /\ matrix = {} /\ verifier = {} /\ closed = TRUE

---------------------------------------------------------------------------
(* Choosing an artifact.                                                   *)

(* _gather_candidates: where the candidates of a name are, <<index, place  *)
(* in its list>>.  An index that does not answer is passed over.           *)
Offered(name, answering) ==
  UNION {{<<i, k>> : k \in DOMAIN Indexes[i][name]} :
           i \in {i \in answering : name \in DOMAIN Indexes[i]}}
Candidate(name, at) == Indexes[at[1]][name][at[2]]

\* In the order in which they are gathered
Earlier(at, b) == at[1] < b[1] \/ (at[1] = b[1] /\ at[2] < b[2])

\* What all indexes list, and what of it has this file name
Candidates == UNION {Range(list) : list \in UNION {Range(index) : index \in Range(Indexes)}}
Listed(file) == {c \in Candidates : c.file = file}

\* A file that is a wheel by its name is one (the metadata is read from there).
ASSUME WheelsAreNamed ==
  \A c \in Candidates : c.url \in DOMAIN Metadata => \A d \in Listed(c.file) : d.wheel

\* preferred_versions
Preferred(req, versions) ==
  LET viable == {v \in versions : req.specified => v \in req.versions /\ (v \in PreReleases => req.pre)}
  IN  IF req.pre \/ viable \subseteq PreReleases THEN viable ELSE viable \ PreReleases

\* pick_artifact: the first wheel of the best rank, or else the first sdist.
Picked(name, ats) ==
  LET wheels == {at \in ats : Candidate(name, at).wheel}
      best == {at \in wheels : \A b \in wheels : Candidate(name, at).rank <= Candidate(name, b).rank}
      first(of) == {at \in of : \A b \in of : at = b \/ Earlier(at, b)}
  IN  IF wheels # {} THEN first(best) ELSE first(ats)

NoChoice == [file |-> "-"]

\* The choice among the candidates: one of the newest version, or none at all.
Chosen(req, answering) ==
  LET offered == Offered(req.name, answering)
      version(at) == Candidate(req.name, at).version
      viable == Preferred(req, {version(at) : at \in offered})
      newest == {at \in offered : version(at) \in viable /\ \A v \in viable : v <= version(at)}
  IN  {Candidate(req.name, at) : at \in Picked(req.name, newest)}

---------------------------------------------------------------------------
Top == Head(run.stack)
Resolving(doing) == run.stage = "resolving" /\ run.stack # <<>> /\ Top.doing = doing

\* A call of _resolve_one: requirement, chosen artifact, transitives to do.
Call(req) == [req |-> req, doing |-> "enter", choice |-> NoChoice, due |-> <<>>]
TopIs(call) == <<call>> \o Tail(run.stack)

\* What the wheel a content comes from requires, all of it arrived or a part.
Announced(content) == IF content.url \in DOMAIN Metadata THEN Metadata[content.url] ELSE <<>>

\* parse_requires_from_wheel: of a wheel cut short, which is no zip, the exception
\* is swallowed (Importresolver.py:191) and no requirement is read.
Requires(content) == IF content.whole THEN Announced(content) ELSE <<>>

StartRun(reqs, follow) ==
  /\ run.stage = "ready" /\ Spend({"resolves"})
  /\ run' = [Ready EXCEPT !.stage = "resolving", !.due = reqs, !.follow = follow,
                          !.broken = {file \in DOMAIN cache : ~cache[file].whole}]
  /\ UNCHANGED <<cache, matrix, verifier, closed, lock>>

(* resolve_all: the next requirement of the user whose marker applies.     *)
NextRoot ==
  /\ run.stage = "resolving" /\ run.stack = <<>> /\ run.due # <<>>
  /\ run' = [run EXCEPT !.due = Tail(@),
                        !.stack = IF Head(run.due).applies THEN <<Call(Head(run.due))>> ELSE <<>>]
  /\ UNCHANGED <<cache, matrix, verifier, closed, lock, budget>>

(* _resolve_one up to the download.                                        *)
Enter(answering) ==
  /\ Resolving("enter")
  /\ LET name    == Top.req.name
         choices == Chosen(Top.req, answering)
     IN  IF name \in DOMAIN run.resolved THEN run' = [run EXCEPT !.stack = Tail(@)]
         ELSE IF name \in run.seen THEN run' = Ended("cyclic")
         ELSE IF choices = {} THEN run' = Ended("none to choose")
         ELSE \E choice \in choices :
                run' = [run EXCEPT !.seen = @ \union {name}, !.tries = Retries + 1,
                                   !.stack = TopIs([Top EXCEPT !.doing = "download", !.choice = choice])]
  /\ UNCHANGED <<cache, matrix, verifier, closed, lock, budget>>

\* Fault for the mutants: the hash of what is in the cache is preferred.
ShaOfCached(choice, content) == content
\* chosen.sha256 = chosen.sha256 or digest
Sha(choice, content) == IF choice.hashed THEN Whole(choice.url) ELSE content

(* _resolve_one after the download: the package is resolved, and what its  *)
(* wheel requires is to be followed.                                       *)
Kept(choice, content) ==
  [run EXCEPT
     !.resolved = With(@, Top.req.name, [file |-> choice.file, sha |-> Sha(choice, content)]),
     !.stack = TopIs([Top EXCEPT !.doing = "follow",
                                 !.due = IF run.follow /\ choice.wheel THEN Requires(content) ELSE <<>>])]

\* Fault for the mutants: the cache is looked at before every attempt.
TakeCachedAnyTry ==
  /\ Resolving("download") /\ Top.choice.file \in DOMAIN cache
  /\ run' = Kept(Top.choice, cache[Top.choice.file])
  /\ UNCHANGED <<cache, matrix, verifier, closed, lock, budget>>

(* _download: a file of that name in the cache is taken as it is.          *)
TakeCached ==
  /\ Resolving("download") /\ Top.choice.file \in DOMAIN cache
  /\ run.tries = Retries + 1
  /\ run' = Kept(Top.choice, cache[Top.choice.file])
  /\ UNCHANGED <<cache, matrix, verifier, closed, lock, budget>>

(* One attempt: the whole file arrives, a part of it does (and stays), or  *)
(* the request fails before the file is opened.  The last failure ends the *)
(* run.                                                                    *)
Attempt(outcome) ==
  /\ Resolving("download")
  /\ run.tries = Retries + 1 => Top.choice.file \notin DOMAIN cache
  /\ LET choice == Top.choice
         content == IF outcome = "whole" THEN Whole(choice.url) ELSE Part(choice.url)
     IN  /\ cache' = IF outcome = "refused" THEN cache ELSE With(cache, choice.file, content)
         /\ run' = IF outcome = "whole" THEN Kept(choice, content)
                   ELSE IF run.tries = 1 THEN Ended("download failed")
                   ELSE [run EXCEPT !.tries = @ - 1]
  /\ UNCHANGED <<matrix, verifier, closed, lock, budget>>

(* The transitives in turn; the call returns after the last.               *)
Follow ==
  /\ Resolving("follow")
  /\ LET next == Head(Top.due)
         rest == [Top EXCEPT !.due = Tail(@)]
     IN  run' = IF Top.due = <<>> THEN [run EXCEPT !.stack = Tail(@)]
                ELSE IF next.applies /\ next.name \notin DOMAIN run.resolved
                THEN [run EXCEPT !.stack = <<Call(next)>> \o TopIs(rest)]
                ELSE [run EXCEPT !.stack = TopIs(rest)]
  /\ UNCHANGED <<cache, matrix, verifier, closed, lock, budget>>

---------------------------------------------------------------------------
(* The end of main: lock.json, then pylock.toml and the verifier script,   *)
(* then matrix_inputs.txt, which lists what Pep.py is to sign.             *)
Artifacts == {run.resolved[name] : name \in DOMAIN run.resolved}

\* The requirements of a resolved wheel, as it is published, are resolved; not
\* those of a wheel of which an earlier run had left only a part.
RequirementsResolved ==
  \A name \in DOMAIN run.resolved :
    LET file == run.resolved[name].file
    IN  \/ file \in run.broken
        \/ \A req \in Range(Announced(cache[file])) : req.applies => req.name \in DOMAIN run.resolved

OpenLockJson ==
  /\ run.stage = "resolving" /\ run.stack = <<>> /\ run.due = <<>>
  /\ lock' = TornLock
  /\ run' = [run EXCEPT !.stage = "lock"]
  /\ UNCHANGED <<cache, matrix, verifier, closed, budget>>

WriteLockJson ==
  /\ run.stage = "lock"
  /\ lock' = LockOf("list", DOMAIN run.resolved)
  /\ run' = [run EXCEPT !.stage = "verifier"]
  /\ UNCHANGED <<cache, matrix, verifier, closed, budget>>

WriteVerifier ==
  /\ run.stage = "verifier"
  /\ verifier' = Artifacts
  /\ run' = [run EXCEPT !.stage = "matrix"]
  /\ UNCHANGED <<cache, matrix, closed, lock, budget>>

WriteMatrixInputs ==
  /\ run.stage = "matrix"
  /\ matrix' = Artifacts
  /\ run' = Ended("done")
  /\ closed' = (run.follow => RequirementsResolved)
  /\ UNCHANGED <<cache, verifier, lock, budget>>

KillResolver ==
  /\ run.stage # "ready" /\ Spend({"crashes"})
  /\ run' = Ended("killed")
  /\ UNCHANGED <<cache, matrix, verifier, closed, lock>>

ResolverNext ==
  \/ \E reqs \in Requests, follow \in BOOLEAN : StartRun(reqs, follow)
  \/ NextRoot
  \/ \E answering \in SUBSET DOMAIN Indexes : Enter(answering)
  \/ TakeCached
  \/ \E outcome \in {"whole", "part", "refused"} : Attempt(outcome)
  \/ Follow
  \/ OpenLockJson \/ WriteLockJson \/ WriteVerifier \/ WriteMatrixInputs
  \/ KillResolver

---------------------------------------------------------------------------
(* A run that ended well left no requirement of a wheel it resolved        *)
(* unresolved, in whichever order the requirements came, from whichever    *)
(* index the wheel was taken and however its own downloads broke off on    *)
(* the way (Importresolver.py:357-369 and 463-475).  The exception is a    *)
(* wheel of which the run found a part in the cache: the code takes the    *)
(* part as it is (353) and loses the requirements.                         *)
NothingLeftOut == closed
=============================================================================
