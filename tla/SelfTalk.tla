------------------------------ MODULE SelfTalk ------------------------------
(***************************************************************************)
(* The self-talk agent: play_game keeps falsifiable claims about a game it *)
(* plays over HTTP, and a tracker of GAME_OVERs tells an action limit (the *)
(* same number of actions since the reset or the last level-up) from an    *)
(* action that kills.  Claims of one run can warm-start the next.          *)
(*                                                                         *)
(* A thing is what a claim is about: an action key, or a colour the player *)
(* touches.  Claims of kind effect, move and static, and the contra count  *)
(* of goals, only weigh the choice of an action, which is left open here.  *)
(***************************************************************************)
EXTENDS Integers, Sequences, FiniteSets, SequencesExt

CONSTANTS
  Ekey,        \* effect keys: key:A1, click:c9, ...
  Touch,       \* touch:c2, ...: colours the player may touch
  PriorFiles,  \* claims_final files a first run may find
  PriorWeight, \* --prior-weight
  MinSupport,  \* LETHAL_MIN_SUPPORT
  IdleLimit,   \* 40 in the code: steps on known frames before a reset
  Limit,       \* the server's action limit
  WinLevel,    \* levels of the game
  Bounds       \* [budget, runs, losses, board]: actions per game (--budget), runs
               \* of the script, replies lost in a run, colours there to touch

Thing == Ekey \cup Touch
NoFile == [lethal |-> <<>>, goals |-> {}]

Counts == [s : Nat, c : Nat]

IsFile(f) ==
  /\ DOMAIN f.lethal \subseteq Thing /\ f.lethal \in [DOMAIN f.lethal -> Counts]
  /\ f.goals \subseteq Thing

ASSUME ThingsApart == Ekey \cap Touch = {}
ASSUME FilesAssumption == \A f \in PriorFiles : IsFile(f)
ASSUME WeightAssumption == PriorWeight \in Nat /\ MinSupport \in Nat /\ MinSupport >= 2
ASSUME LoopAssumption == IdleLimit \in Nat \ {0} /\ \A b \in Bounds : b.budget \in Int
ASSUME BoardsAssumption == \A b \in Bounds : b.board \subseteq Touch

VARIABLES
  lethal,      \* claims of kind lethal: thing -> [s, c]
  goals,       \* things whose goal claim has support
  prior,       \* history: the lethal claims the run was seeded with
  sinceReset, sinceLevel, events, periods,   \* GameOverTracker
  data,        \* the last answer [state, lv]
  idle, steps, pc,
  file,        \* claims_final.json: [lethal, goals] of the confirmed claims
  server,      \* the game: [state, lv, n], n actions since reset or level-up
  limited, deadly, \* what ends a life there: a limit, the things that kill
  bounds,      \* the element of Bounds chosen
  runs, lost   \* runs started; replies lost in this one

memory  == <<lethal, goals>>
tracker == <<sinceReset, sinceLevel, events, periods>>
loop    == <<data, idle, steps, pc>>
rules   == <<limited, deadly, bounds>>
vars == <<memory, prior, tracker, loop, file, server, rules, runs, lost>>

---------------------------------------------------------------------------
(* ClaimMemory                                                             *)

\* observe: one more for or against, making the claim when it is new
Observed(claims, k, ok) ==
  LET old == IF k \in DOMAIN claims THEN claims[k] ELSE [s |-> 0, c |-> 0]
      new == IF ok THEN [old EXCEPT !.s = @ + 1] ELSE [old EXCEPT !.c = @ + 1]
  IN  [x \in DOMAIN claims \cup {k} |-> IF x = k THEN new ELSE claims[x]]

\* is_confirmed for a lethal claim: conf >= 0.5 is s >= c
Confirmed(claim) == claim.s >= MinSupport /\ claim.s >= claim.c

\* round(n / d), halves to even
Rounded(n, d) ==
  LET q == n \div d
      r == 2 * (n % d)
  IN  IF r > d \/ (r = d /\ q % 2 = 1) THEN q + 1 ELSE q

\* load_priors for one row of counts, tot = s + c > 0; the two rounded counts
\* exceed the cap by one at most, and then one of them gives way.
Scaled(s, c, weight) ==
  LET tot == s + c
      cap == IF tot < weight THEN tot ELSE weight
      ps  == IF s > 0 /\ Rounded(s * cap, tot) = 0 THEN 1 ELSE Rounded(s * cap, tot)
      pc0 == Rounded(c * cap, tot)
  IN  IF ps + pc0 <= cap THEN [s |-> ps, c |-> pc0]
      ELSE IF pc0 > 0 /\ (pc0 >= ps \/ ps <= 1) THEN [s |-> ps, c |-> pc0 - 1]
      ELSE [s |-> ps - 1, c |-> pc0]

\* Fault for the mutants: lethal priors keep their support.
DiscountedNot(s) == s
\* prepare_priors: support <= 1
Discounted(s) == IF s < 1 THEN s ELSE 1

\* prepare_priors, load_priors: a lethal row naming a goal's thing is dropped
Seeded(rows) ==
  LET kept == {k \in DOMAIN rows.lethal \ rows.goals :
                 Discounted(rows.lethal[k].s) + rows.lethal[k].c > 0}
  IN  [k \in kept |-> Scaled(Discounted(rows.lethal[k].s), rows.lethal[k].c, PriorWeight)]

---------------------------------------------------------------------------
(* GameOverTracker, with tol = 0                                           *)

\* Fault for the mutants: both counts must agree.
MatchesBoth(e, r, l) == e.r = r /\ e.l = l
\* classify: the same count on either measure
Matches(e, r, l) == e.r = r \/ e.l = l

Matching(r, l) == {i \in DOMAIN events : Matches(events[i], r, l)}

\* classify: a known period of the same counter, or an earlier event
Periodic(r, l) ==
  \/ \E p \in periods : p = <<"r", r>> \/ p = <<"l", l>>
  \/ Matching(r, l) # {}

Learned(r, l) ==
  periods \cup {IF events[i].r = r THEN <<"r", r>> ELSE <<"l", events[i].l>> : i \in Matching(r, l)}

\* Fault for the mutants: a retracted event keeps its credit and loses it again.
UncreditedNot(e) == e
\* retract_lethal: e["credited"] = []
Uncredited(e) == [e EXCEPT !.credited = {}]

Credits(evs, k) == {i \in DOMAIN evs : k \in evs[i].credited}

\* retract_lethal: one support less for every credit of a matching event
Retracted(claims, matching) ==
  [k \in DOMAIN claims |->
     LET credits == Cardinality(Credits(events, k) \cap matching)
     IN  [claims[k] EXCEPT !.s = IF @ >= credits THEN @ - credits ELSE 0]]

Marked(matching) ==
  [i \in DOMAIN events |->
     IF i \in matching THEN Uncredited([events[i] EXCEPT !.periodic = TRUE]) ELSE events[i]]

---------------------------------------------------------------------------
(* update: what one action teaches about goals and lethal things           *)

ClaimedNext(claims, e, touched, over) ==
  LET heard == {k \in {e} \cup touched : over \/ k \in DOMAIN claims}
  IN  [x \in DOMAIN claims \cup heard |->
         IF x \in heard THEN Observed(claims, x, over)[x] ELSE claims[x]]

RaisedNext(e, touched, levelUp) == IF levelUp THEN goals \cup {e} \cup touched ELSE goals

(***************************************************************************)
(* The server, as the code uses it: an action may raise the level; one of  *)
(* deadly, or the last the limit allows, ends the life.                    *)
(***************************************************************************)
Fresh(lv) == [state |-> "NOT_FINISHED", lv |-> lv, n |-> 0]

Played(srv, e, up) ==
  IF srv.state # "NOT_FINISHED" THEN srv
  ELSE IF up /\ srv.lv < WinLevel
       THEN [Fresh(srv.lv + 1) EXCEPT !.state = IF srv.lv + 1 = WinLevel THEN "WIN" ELSE @]
       ELSE [srv EXCEPT !.n = @ + 1,
                        !.state = IF e \in deadly \/ (limited /\ srv.n + 1 >= Limit)
                                  THEN "GAME_OVER" ELSE @]

Answer(srv) == [state |-> srv.state, lv |-> srv.lv]
Refusal     == [state |-> "http400", lv |-> 0]
NotPlayed(srv) == [state |-> "NOT_PLAYED", lv |-> srv.lv]

---------------------------------------------------------------------------
Init ==
  /\ lethal = <<>> /\ goals = {} /\ prior = <<>>
  /\ sinceReset = 0 /\ sinceLevel = 0 /\ events = <<>> /\ periods = {}
  /\ data = Refusal /\ idle = 0 /\ steps = 0 /\ pc = "off"
  /\ file \in PriorFiles
  /\ server = Fresh(0) /\ bounds \in Bounds
  /\ limited \in BOOLEAN /\ deadly \in {{}} \cup {{e} : e \in Ekey}
  /\ runs = 0 /\ lost = 0

\* Fault for the mutants: the count of idle steps survives a reset.
AfterResetIdle == idle
\* play_game: idle = 0
AfterReset == 0

\* on_reset
OnReset == sinceReset' = 0 /\ sinceLevel' = 0

\* The server's answer to RESET
ResetAnswer ==
  \/ server' = Fresh(server.lv) /\ data' = Answer(server')
  \/ UNCHANGED server /\ data' \in {Refusal, NotPlayed(server)}

\* play_game up to its first RESET, cold or warm
Start(warm) ==
  /\ pc = "off" /\ runs < bounds.runs
  /\ runs' = runs + 1 /\ pc' = "first"
  /\ prior' = IF warm /\ PriorWeight > 0 THEN Seeded(file) ELSE <<>>
  /\ lethal' = prior'
  /\ goals' = IF warm /\ PriorWeight > 0 THEN file.goals ELSE {}
  /\ UNCHANGED <<tracker, data, idle, steps, file, server, rules, lost>>

\* The first RESET, whose refusal the loop sees
FirstReset ==
  /\ pc = "first" /\ pc' = "loop"
  /\ ResetAnswer
  /\ OnReset
  /\ UNCHANGED <<memory, prior, events, periods, idle, steps, file, rules, runs, lost>>

Playing == pc = "loop" /\ steps < bounds.budget /\ data.state # "WIN"
MustReset == data.state \in {"http400", "GAME_OVER"} \/ idle >= IdleLimit

\* A life ends, a request was refused or nothing new is seen: RESET is sent
Reset ==
  /\ Playing /\ MustReset /\ pc' = "reset"
  /\ UNCHANGED <<memory, prior, tracker, data, idle, steps, file, server, rules, runs, lost>>

\* Its answer, a refusal being the end
ResetDone ==
  /\ pc = "reset"
  /\ ResetAnswer
  /\ idle' = AfterReset
  /\ OnReset
  /\ pc' = IF data'.state \in {"http400", "NOT_PLAYED"} THEN "over" ELSE "loop"
  /\ UNCHANGED <<memory, prior, events, periods, steps, file, rules, runs, lost>>

\* The action reaches the server once, or again when its reply was lost, or is refused
Served(e, up, again, refused) ==
  /\ again => lost < bounds.losses
  /\ refused => ~up /\ ~again
  /\ lost' = IF again THEN lost + 1 ELSE lost
  /\ server' = IF refused THEN server
               ELSE IF again THEN Played(Played(server, e, up), e, FALSE)
               ELSE Played(server, e, up)
  /\ data' = IF refused THEN Refusal ELSE Answer(server')

\* on_step, classify, retract_lethal and update, on the counts r and l
Taught(e, touched, levelUp, over, r, l) ==
  \E periodic \in {over /\ Periodic(r, l)}, matching \in {IF over THEN Matching(r, l) ELSE {}} :
    /\ sinceReset' = r /\ sinceLevel' = l
    /\ periods' = IF periodic THEN Learned(r, l) ELSE periods
    /\ lethal' = IF periodic THEN Retracted(lethal, matching)
                 ELSE ClaimedNext(lethal, e, touched, over)
    /\ events' = IF ~over THEN events
                 ELSE Append(Marked(matching),
                             [r |-> r, l |-> l, periodic |-> periodic,
                              credited |-> IF periodic THEN {} ELSE {e} \cup touched])
    /\ goals' = RaisedNext(e, touched, levelUp)

\* One action of the loop: it is sent, and its answer teaches
Act(e, touched) ==
  /\ Playing /\ ~MustReset
  /\ \E up, again, refused, known \in BOOLEAN :
       /\ Served(e, up, again, refused)
       /\ \E levelUp \in {data'.lv > data.lv}, over \in {data'.state = "GAME_OVER"} :
            /\ Taught(e, touched, levelUp, over, sinceReset + 1, IF levelUp THEN 0 ELSE sinceLevel + 1)
            /\ idle' = IF ~levelUp /\ known THEN idle + 1 ELSE 0
  /\ steps' = steps + 1
  /\ UNCHANGED <<prior, pc, file, rules, runs>>

\* The budget is spent, or the game won
Stop ==
  /\ pc = "loop" /\ (steps >= bounds.budget \/ data.state = "WIN")
  /\ pc' = "over"
  /\ UNCHANGED <<memory, prior, tracker, data, idle, steps, file, server, rules, runs, lost>>

\* Ten tries without an answer, or an unexpected status: the game ends with an error
Fail ==
  /\ pc \in {"first", "loop", "reset"} /\ pc' = "over"
  /\ UNCHANGED <<memory, prior, tracker, data, idle, steps, file, server, rules, runs, lost>>

ConfirmedRows ==
  [lethal |-> [k \in {x \in DOMAIN lethal : Confirmed(lethal[x])} |-> lethal[k]], goals |-> goals]

\* What a process held is gone with it.
Exit ==
  /\ pc' = "off"
  /\ lethal' = <<>> /\ goals' = {} /\ prior' = <<>>
  /\ sinceReset' = 0 /\ sinceLevel' = 0 /\ events' = <<>> /\ periods' = {}
  /\ data' = Refusal /\ idle' = 0 /\ steps' = 0 /\ lost' = 0
  /\ server' = Fresh(0)
  /\ UNCHANGED <<rules, runs>>

\* All games are played: claims_final.json is written
WriteFinal == pc = "over" /\ file' = ConfirmedRows /\ Exit

\* The script is killed: its claims were in memory only
Kill == pc # "off" /\ Exit /\ UNCHANGED file

\* What the script does once it is started
Play ==
  \/ FirstReset \/ Reset \/ ResetDone \/ Stop \/ Fail \/ WriteFinal
  \/ \E e \in Ekey, touched \in SUBSET bounds.board : Act(e, touched)

Next == Play \/ Kill \/ \E warm \in BOOLEAN : Start(warm)

\* Every request is answered or given up in the end.
Spec == Init /\ [][Next]_vars /\ WF_vars(Play)

---------------------------------------------------------------------------
TypeOK ==
  /\ DOMAIN lethal \subseteq Thing /\ lethal \in [DOMAIN lethal -> Counts]
  /\ DOMAIN prior \subseteq Thing /\ prior \in [DOMAIN prior -> Counts]
  /\ goals \subseteq Thing
  /\ sinceReset \in Nat /\ sinceLevel \in Nat
  /\ events \in Seq([r : Nat, l : Nat, periodic : BOOLEAN, credited : SUBSET Thing])
  /\ IsFile(file) /\ bounds \in Bounds
  /\ pc \in {"off", "first", "loop", "reset", "over"}

Support(claims, k) == IF k \in DOMAIN claims THEN claims[k].s ELSE 0

(* The support of a lethal claim is what its prior brought and one for     *)
(* every GAME_OVER credited to it and not since found periodic: however    *)
(* crediting and retracting alternate, nothing is lost or taken back twice.*)
SupportIsAccounted ==
  \A k \in Thing : Support(lethal, k) = Support(prior, k) + Cardinality(Credits(events, k))

(* Two GAME_OVERs that keep their credit happened after different numbers  *)
(* of actions, counted from the reset and from the level-up alike.         *)
KeptCreditsDiffer ==
  \A i, j \in DOMAIN events :
    i # j /\ events[i].credited # {} /\ events[j].credited # {} =>
      events[i].r # events[j].r /\ events[i].l # events[j].l

(* A lethal claim that penalizes an action rests on a GAME_OVER of this    *)
(* run, whatever the files of earlier runs said.                           *)
OnlyFreshEvidencePenalizes ==
  \A k \in DOMAIN lethal : lethal[k].s >= MinSupport => Credits(events, k) # {}

(* A run ends: resets, which the budget does not count, never repeat for   *)
(* ever without an action between them.                                    *)
GameEnds == pc = "loop" ~> pc \in {"over", "off"}
=============================================================================
