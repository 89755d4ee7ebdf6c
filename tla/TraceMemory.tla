---------------------------- MODULE TraceMemory ----------------------------
(***************************************************************************)
(* The agents of persistence_in_memory.py ("memory") and                    *)
(* pmll_merge_ascend.py ("merge").  Both log their actions to a trace, and  *)
(* learn from the traces in the directory when they start: the actions that *)
(* raised a level become recipes, and merge-ascend also remembers which     *)
(* action led from which frame to which.  A Silo keeps the recipes and the  *)
(* actions tried in this life.                                              *)
(*                                                                         *)
(* One game.  Frames stand for their hashes, which tell every two apart; a  *)
(* signature keeps the colours and drops where they are, so that different  *)
(* frames share one.  Which points of a frame are worth a click, and the    *)
(* counts that rank the edges, are open.                                    *)
(* falsify is called by nobody, so the fail count of an edge stays 0 and    *)
(* every edge is trusted: edges carry no counts here.                       *)
(***************************************************************************)
EXTENDS Naturals, Sequences, FiniteSets, SequencesExt

CONSTANTS
  Frame, FirstFrame,
  Signature,     \* the signature of each frame
  Keys, Clicks,  \* the actions of the keyboard, and ACTION6 with its points
  Seeds,         \* SEED_RECIPES
  Offers,        \* the sets of actions a game may make available
  RecipeTries,   \* RECIPE_TRIES, 6 in the code
  MostRecipes,   \* 8 in the code
  Budget,        \* budgets: [turns, stall, more, cap], more being 120 in the code
  TopLevel,      \* levels of the game
  NoAction,
  MaxPlays,      \* bound on the games played
  MaxActions     \* bound on the actions sent in all of them

Agents  == {"memory", "merge"}
Actions == Keys \union Clicks

ASSUME ActionsApart == Keys \intersect Clicks = {} /\ NoAction \notin Actions
ASSUME SeedsAreActions == Seeds \in Seq(Actions) /\ Offers \subseteq SUBSET Actions
ASSUME FirstFrameAssumption == FirstFrame \in Frame /\ "empty" \notin Frame
ASSUME SignatureAssumption == DOMAIN Signature = Frame

ASSUME MostAssumption == MostRecipes \in Nat

VARIABLES
  traces,      \* of each agent, its trace: [action, sig, levels, up] per action
  agent, stage, plays, pass, acts,
  recipes, progress, tried, recipeTries,  \* Silo
  edges, levelEdge,                       \* WorldModel
  reply, lastLevels, stall, turns, allowed, resets, \* play_game
  game,        \* the server: [frame, levels, state]
  offer,       \* the actions the game makes available
  took,        \* history: what the actions really did, as edges, and in "looks" whether
               \* the signature changed
  first,       \* history: nothing has been sent since the last RESET
  doubtful     \* history: [sig, action] of the actions first after a RESET, with the
               \* signature of the frame they left and the one in the row before them

silo  == <<recipes, progress, tried, recipeTries>>
model == <<edges, levelEdge>>
turn  == <<reply, lastLevels, stall, turns, allowed, resets>>
past  == <<took, first, doubtful>>
traceVars == <<traces, agent, stage, plays, pass, acts, silo, model, turn, game, offer, past>>

-----------------------------------------------------------------------------
Signatures == {Signature[f] : f \in Frame}

\* signature: a reply without a grid has "empty"
SignatureOf(frame) == IF frame = "empty" THEN "empty" ELSE Signature[frame]

(* Learning from traces *)

\* The members of a set of numbers in increasing order: a set of one sequence.
Ascending(S) ==
  {f \in [1 .. Cardinality(S) -> S] :
     Range(f) = S /\ \A i, j \in 1 .. Cardinality(S) : i < j => f[i] < f[j]}

\* Silo.add_recipe, one after the other: the first of equal actions stays.
Added(list) ==
  {[n \in DOMAIN at |-> list[at[n]]] :
     at \in Ascending({k \in DOMAIN list : \A j \in 1 .. k - 1 : list[j] # list[k]})}

LevelsBefore(rows, i) == IF i = 1 THEN 0 ELSE rows[i - 1].levels

\* Fault for the mutants: a row that keeps the level is taken for one that raises it.
RaisesOrKeeps(rows, i) == rows[i].levels >= LevelsBefore(rows, i)
\* More levels than in the row before
Raises(rows, i) == rows[i].levels > LevelsBefore(rows, i)

\* The actions of the rows at some places, in their order
Chosen(rows, places) == {[n \in DOMAIN at |-> rows[at[n]].action] : at \in Ascending(places)}

Clicked(rows) == Chosen(rows, {i \in DOMAIN rows : rows[i].action \in Clicks /\ Raises(rows, i)})

\* persistence_in_memory.ingest_jsonl: the clicks that raised a level, in the
\* order of the files and rows, then SEED_RECIPES.
IngestedRecipes(files) ==
  UNION {Added(one \o other \o Seeds) : one \in Clicked(files[1]), other \in Clicked(files[2])}

Edge(sig, action, up, change) == [sig |-> sig, action |-> action, up |-> up, change |-> change]

\* WorldModel.remember: level_edge
Remembered(list, action) == IF action \in ToSet(list) THEN list ELSE <<action>> \o list

RaisesFrom(rows, i) == i > 1 /\ (rows[i].up \/ Raises(rows, i))

\* WorldModel.ingest_jsonl: an action is held to lead from the frame of the row
\* before it to its own, and to change it if their signatures differ.
IngestedEdges(rows) ==
  {Edge(rows[i - 1].sig, rows[i].action, RaisesFrom(rows, i), rows[i].sig # rows[i - 1].sig) :
     i \in 2 .. Len(rows)}

Rising(rows) == Chosen(rows, {i \in DOMAIN rows : RaisesFrom(rows, i)})

\* Each remembered once, the latest in front
IngestedLevelEdge(files) ==
  {Reverse(list) : list \in UNION {Added(one \o other) : one \in Rising(files[1]), other \in Rising(files[2])}}

-----------------------------------------------------------------------------
(* The choice of an action *)

Untried(action) == <<reply.frame, action>> \notin tried

Choice(action, take, recipe) == [action |-> action, take |-> take, recipe |-> recipe]

\* The first recipe that can be taken, as long as there are tries left;
\* merge-ascend does not ask whether a key is available.
RecipeAt ==
  {i \in DOMAIN recipes :
     /\ recipeTries < RecipeTries /\ Untried(recipes[i])
     /\ recipes[i] \in offer \/ (agent = "merge" /\ recipes[i] \in Keys)}

RecipeChoice ==
  {Choice(recipes[i], TRUE, TRUE) : i \in {i \in RecipeAt : \A j \in RecipeAt : i <= j}}

\* The last action that raised a level from a frame of this signature, available or not.
ProgressChoice ==
  {Choice(a, TRUE, FALSE) :
     a \in {a \in {progress[SignatureOf(reply.frame)]} \ {NoAction} : Untried(a)}}

\* WorldModel.plan: an edge from here that raised a level, else the newest
\* action that did anywhere, else an edge that changed the frame.
Planned ==
  LET here == {e \in edges : e.sig = SignatureOf(reply.frame)}
      ups  == {e \in here : e.up}
      chg  == {e \in here : e.change}
  IN  IF ups # {} THEN {e.action : e \in ups}
      ELSE IF levelEdge # <<>> THEN {levelEdge[1]}
      ELSE {e.action : e \in chg}

PlanChoice == {Choice(a, TRUE, FALSE) : a \in {a \in Planned \intersect offer : Untried(a)}}

New(actions) == {Choice(a, TRUE, FALSE) : a \in {a \in actions \intersect offer : Untried(a)}}
Whatever(actions) == {Choice(a, FALSE, FALSE) : a \in actions \intersect offer}

\* A click at a point of interest not tried yet, else a new key, else anything;
\* which points are of interest is open.  Where there are clicks, merge-ascend
\* explores by clicking only.
Exploring ==
  IF offer \intersect Clicks = {}
  THEN IF New(Keys) # {} THEN New(Keys) ELSE Whatever(Keys)
  ELSE IF agent = "merge" THEN New(Clicks) \union Whatever(Clicks)
  ELSE New(Clicks) \union (IF New(Keys) # {} THEN New(Keys) ELSE Whatever(Clicks))

First(a, b) == IF a # {} THEN a ELSE b

\* choose of persistence_in_memory.py
MemoryChoice == First(RecipeChoice, First(ProgressChoice, Exploring))

\* choose of pmll_merge_ascend.py: what is planned but cannot be taken is passed
\* over, and so is one of several planned that another one outranks.
MergeChoice ==
  PlanChoice \union
    (IF Planned # {} /\ \A a \in Planned : a \in offer /\ Untried(a) THEN {}
     ELSE First(RecipeChoice, Exploring))

NextActions == IF agent = "memory" THEN MemoryChoice ELSE MergeChoice

-----------------------------------------------------------------------------
(* The server, as the code uses it: an action may raise the level or end     *)
(* the life; RESET starts the level again.                                  *)

Refused == [frame |-> "empty", levels |-> 0, state |-> "http400"]

Running ==
  [frame : Frame, levels : {game.levels}, state : {"NOT_FINISHED"}] \union
    {[frame |-> FirstFrame, levels |-> game.levels, state |-> "GAME_OVER"]}

Raised ==
  IF game.levels = TopLevel THEN {}
  ELSE [frame : Frame, levels : {game.levels + 1},
        state : {IF game.levels + 1 = TopLevel THEN "WIN" ELSE "NOT_FINISHED"}]

Restarted == [frame |-> FirstFrame, levels |-> game.levels, state |-> "NOT_FINISHED"]

ResetReply ==
  \/ game' = Restarted /\ reply' = Restarted
  \/ UNCHANGED game /\ reply' \in {Refused, [Restarted EXCEPT !.state = "NOT_PLAYED"]}

-----------------------------------------------------------------------------
(* main and play_game *)

NoRecipes == [sig \in Signatures |-> NoAction]

\* Silo.reset_episode
ResetEpisode == tried' = {} /\ recipeTries' = 0 /\ first' = TRUE

\* The order in which the directory lists the traces
Orders == {<<"memory", "merge">>, <<"merge", "memory">>}

Own(who, rows) == [traces EXCEPT ![who] = rows]

\* main: each agent empties its own trace; merge-ascend has learned its edges
\* from it by then, the recipes are taken from what is left.
Launch(who) ==
  /\ stage = "off" /\ plays < MaxPlays
  /\ agent' = who /\ stage' = "first" /\ plays' = plays + 1 /\ pass' = 1
  /\ traces' = Own(who, <<>>)
  /\ \E order \in Orders :
       /\ recipes' \in IngestedRecipes([n \in 1 .. 2 |-> traces'[order[n]]])
       /\ IF who = "memory" THEN edges' = {} /\ levelEdge' = <<>>
          ELSE /\ edges' = UNION {IngestedEdges(traces[a]) : a \in Agents}
               /\ levelEdge' \in IngestedLevelEdge([n \in 1 .. 2 |-> traces[order[n]]])
  /\ progress' = NoRecipes
  /\ game' = [frame |-> FirstFrame, levels |-> 0, state |-> "NOT_FINISHED"]
  /\ offer' \in Offers
  /\ UNCHANGED <<tried, recipeTries, turn, past, acts>>

\* play_game up to its first RESET, whose refusal the loop sees
Enter ==
  /\ stage = "first" /\ stage' = "loop"
  /\ ResetReply /\ ResetEpisode
  /\ lastLevels' = reply'.levels
  /\ stall' = 0 /\ turns' = 0 /\ allowed' = Budget.turns /\ resets' = 1
  /\ UNCHANGED <<traces, agent, plays, pass, acts, recipes, progress, model, offer, took, doubtful>>

Looping  == stage = "loop" /\ turns < allowed /\ reply.state # "WIN"
NeedsReset == reply.state \in {"http400", "GAME_OVER", "NOT_PLAYED"} \/ stall >= Budget.stall

\* A RESET that is not played ends the game at the third, one that is refused
\* at once; merge-ascend sends the refused one again until its time is over.
Restart ==
  /\ Looping /\ NeedsReset
  /\ ResetReply /\ ResetEpisode
  /\ stall' = 0
  /\ resets' = IF resets < 3 THEN resets + 1 ELSE resets
  /\ stage' = IF \/ reply'.state = "http400" /\ agent = "memory"
                 \/ reply'.state = "NOT_PLAYED" /\ resets' > 2
              THEN "over" ELSE "loop"
  /\ UNCHANGED <<traces, agent, plays, pass, acts, recipes, progress, model, lastLevels, turns, allowed,
                 offer, took, doubtful>>

\* Silo.note_progress: the newest first, the oldest go
Noted(action) ==
  LET list == IF action \in ToSet(recipes) THEN recipes ELSE <<action>> \o recipes
  IN  IF Len(list) > MostRecipes THEN SubSeq(list, 1, MostRecipes) ELSE list

\* choose.take
Taken(c) == IF c.take THEN tried \union {<<reply.frame, c.action>>} ELSE tried

\* What an action did, for the history
Deed(action) ==
  [sig |-> SignatureOf(reply.frame), action |-> action,
   up |-> reply' # Refused /\ reply'.levels > game.levels,
   change |-> reply'.frame # reply.frame,
   looks |-> SignatureOf(reply'.frame) # SignatureOf(reply.frame)]

\* What is sent is logged with its reply, and learned from: play_game compares the
\* hashes of the two frames, and remembers the change with the signature of the first.
Sent(c) ==
  /\ reply' \in {Refused} \union (IF game.state = "NOT_FINISHED" THEN Running \union Raised ELSE {})
  /\ game' = IF reply' = Refused THEN game ELSE reply'
  /\ tried' = Taken(c)
  /\ recipeTries' = IF c.recipe THEN recipeTries + 1 ELSE recipeTries
  /\ turns' = turns + 1
  /\ traces' = Own(agent, Append(traces[agent],
                          [action |-> c.action, sig |-> SignatureOf(reply'.frame),
                           levels |-> reply'.levels, up |-> reply'.levels > lastLevels]))
  /\ \E up \in {reply'.levels > lastLevels}, sig \in {SignatureOf(reply.frame)} :
       /\ lastLevels' = IF up THEN reply'.levels ELSE lastLevels
       /\ stall' = IF up THEN 0 ELSE stall + 1
       /\ allowed' = IF ~up THEN allowed
                     ELSE IF allowed + Budget.more < Budget.cap THEN allowed + Budget.more
                     ELSE Budget.cap
       /\ recipes' = IF up THEN Noted(c.action) ELSE recipes
       /\ progress' = IF up THEN [progress EXCEPT ![sig] = c.action] ELSE progress
       /\ IF agent = "memory" THEN UNCHANGED model
          ELSE /\ edges' = edges \union
                    {Edge(sig, c.action, up, reply'.frame # reply.frame)}
               /\ levelEdge' = IF up THEN Remembered(levelEdge, c.action) ELSE levelEdge
  /\ took' = took \union {Deed(c.action)}
  /\ first' = FALSE
  /\ doubtful' = IF ~first THEN doubtful
                 ELSE doubtful \union {<<sig, c.action>> : sig \in
                        {SignatureOf(reply.frame)} \union
                          {traces[agent][i].sig : i \in {Len(traces[agent])} \ {0}}}
  /\ UNCHANGED <<agent, stage, plays, pass, resets, offer>>

\* One action of the loop
Send == Looping /\ ~NeedsReset /\ acts < MaxActions /\ acts' = acts + 1 /\ \E c \in NextActions : Sent(c)

\* The turns are used up, the game is won, or the time is over
Finish ==
  /\ stage = "loop" /\ stage' = "over"
  /\ UNCHANGED <<traces, agent, plays, pass, acts, silo, model, turn, game, offer, past>>

\* A reply is lost, or the rate limit lasts: the game ends with an error.  The
\* action has reached the server, or not, and is in no trace.
Abort ==
  /\ stage \in {"first", "loop"} /\ stage' = "over"
  /\ game' \in {game} \union (IF stage = "loop" /\ game.state = "NOT_FINISHED" THEN Raised ELSE {})
  /\ UNCHANGED <<traces, agent, plays, pass, acts, silo, model, turn, offer, past>>

\* main: the games nothing was achieved in are played once more, with what the
\* silo holds by now.
Revisit ==
  /\ stage = "over" /\ agent = "memory" /\ pass = 1 /\ plays < MaxPlays
  /\ lastLevels = 0 /\ offer \intersect Clicks # {}
  /\ stage' = "first" /\ plays' = plays + 1 /\ pass' = 2
  /\ UNCHANGED <<traces, agent, acts, silo, model, turn, game, offer, past>>

Quiet == [frame |-> FirstFrame, levels |-> 0, state |-> "NOT_FINISHED"]

\* The process ends, or is killed: only the traces are left.  What main writes
\* at its end, silo.json and world_model.json, nobody reads.
Quit ==
  /\ stage # "off" /\ stage' = "off"
  /\ recipes' = <<>> /\ progress' = NoRecipes /\ tried' = {} /\ recipeTries' = 0
  /\ edges' = {} /\ levelEdge' = <<>>
  /\ reply' = Quiet /\ game' = Quiet /\ lastLevels' = 0 /\ stall' = 0 /\ turns' = 0
  /\ allowed' = 0 /\ resets' = 0 /\ first' = TRUE /\ offer' = {} /\ pass' = 1
  /\ UNCHANGED <<traces, agent, plays, acts, took, doubtful>>

TraceInit ==
  /\ traces = [a \in Agents |-> <<>>]
  /\ agent = "memory" /\ stage = "off" /\ plays = 0 /\ pass = 1 /\ acts = 0
  /\ recipes = <<>> /\ progress = NoRecipes /\ tried = {} /\ recipeTries = 0
  /\ edges = {} /\ levelEdge = <<>>
  /\ reply = Quiet /\ game = Quiet /\ lastLevels = 0 /\ stall = 0 /\ turns = 0
  /\ allowed = 0 /\ resets = 0
  /\ offer = {} /\ took = {} /\ first = TRUE /\ doubtful = {}

TraceNext ==
  \/ \E who \in Agents : Launch(who)
  \/ Enter \/ Restart \/ Send \/ Finish \/ Abort \/ Revisit \/ Quit

TraceSpec == TraceInit /\ [][TraceNext]_traceVars
-----------------------------------------------------------------------------
(* What an agent has learned it has seen, in this run or an earlier one: a  *)
(* recipe that is not a seed raised a level; and an edge of the world model *)
(* was taken from a frame of its signature, raised a level if it says so    *)
(* and only then, and changed the frame if it says so.  It may miss a       *)
(* change that kept the signature, never one that did not.  Only the action *)
(* after a RESET may be misread, because the trace does not show the RESET  *)
(* (ingest_jsonl, note_progress, remember).                                 *)
Told(e, deed) ==
  /\ e.sig = deed.sig /\ e.action = deed.action /\ e.up = deed.up
  /\ deed.looks => e.change
  /\ e.change => deed.change

LearnedIsSeen ==
  /\ \A i \in DOMAIN recipes :
       \/ recipes[i] \in ToSet(Seeds)
       \/ \E e \in took : e.up /\ e.action = recipes[i]
       \/ \E d \in doubtful : d[2] = recipes[i]
  /\ \A e \in edges : (\E deed \in took : Told(e, deed)) \/ <<e.sig, e.action>> \in doubtful

=============================================================================
