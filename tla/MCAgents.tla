------------------------------- MODULE MCAgents -------------------------------
EXTENDS Agents, TLC

\* No file yet, or one of an earlier run: b killed thrice, a raised a level.
MCPriorFiles == {NoFile, [lethal |-> [k \in {"b"} |-> [s |-> 3, c |-> 2]], goals |-> {"a"}]}

\* One long game with a lost reply, a shorter one with contacts, two short ones.
MCBounds ==
  {[budget |-> 5, runs |-> 1, losses |-> 1, board |-> {}],
   [budget |-> 4, runs |-> 1, losses |-> 0, board |-> {"t"}],
   [budget |-> 3, runs |-> 2, losses |-> 0, board |-> {"t"}]}

\* A game of keys, and one of a key and two clicks, of which one is a seed.
MCOffers == {{"up", "down"}, {"up", "click", "other"}}

\* Something moved: another frame of the same signature.
MCSignature == [f \in {"start", "moved", "grown"} |-> IF f = "grown" THEN "large" ELSE "small"]

MCSeeds == <<"click">>

MCBudget == [turns |-> 2, stall |-> 2, more |-> 1, cap |-> 3]

(* Priors within their weight, over every count up to 9: nothing exceeds   *)
(* the cap, and a support is never rounded away (claim_memory.py:151).     *)
ASSUME PriorsFit ==
  \A s, c \in 0..9 : \A w \in 1..4 :
    s + c > 0 =>
      LET p == Scaled(s, c, w)
      IN  p.s + p.c <= w /\ p.s + p.c <= s + c /\ (s > 0 => p.s >= 1) /\ (c = 0 => p.c = 0)
=============================================================================
