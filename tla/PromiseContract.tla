--------------------------- MODULE PromiseContract --------------------------
(***************************************************************************)
(* What src/Q_promise_lib/qpromise.h and its README promise about promises:  *)
(* each settles at most once; a continuation attached before or after that   *)
(* runs once, in the order of attachment, only after it settled; and a       *)
(* promise is not freed while a continuation waits to run.                   *)
(*                                                                           *)
(* One call may touch several promises (a settlement frees what is no longer *)
(* referenced), so a step lets each promise make at most one move.           *)
(***************************************************************************)
EXTENDS Naturals

CONSTANTS
  Promise,
  Outcomes, \* the ways a promise may settle
  Unborn, Pending, Freed

VARIABLES
  outcome,   \* per promise: Unborn, Pending, one of Outcomes, or Freed
  attached,  \* the number of continuations attached so far
  ran        \* how many of them, from the first on, have run

vars == <<outcome, attached, ran>>

Alive(p) == outcome[p] \in {Pending} \union Outcomes

Init ==
  /\ outcome = [p \in Promise |-> Unborn]
  /\ attached = [p \in Promise |-> 0]
  /\ ran = [p \in Promise |-> 0]

\* The call that returns the promise; it may be born settled.
Born(p) ==
  /\ outcome[p] = Unborn
  /\ outcome'[p] \in {Pending} \union Outcomes
  /\ attached'[p] = attached[p] /\ ran'[p] = ran[p]

\* One continuation, or the pair through which another promise adopts p.
Attach(p) ==
  /\ Alive(p)
  /\ attached'[p] \in {attached[p] + 1, attached[p] + 2}
  /\ outcome'[p] = outcome[p] /\ ran'[p] = ran[p]

Settle(p) ==
  /\ outcome[p] = Pending
  /\ outcome'[p] \in Outcomes
  /\ attached'[p] = attached[p] /\ ran'[p] = ran[p]

Run(p) ==
  /\ outcome[p] \in Outcomes
  /\ ran[p] < attached[p]
  /\ ran'[p] = ran[p] + 1
  /\ outcome'[p] = outcome[p] /\ attached'[p] = attached[p]

\* The last reference is dropped: never while a continuation waits to run.
Free(p) ==
  /\ Alive(p)
  /\ outcome[p] \in Outcomes => ran[p] = attached[p]
  /\ outcome'[p] = Freed /\ attached'[p] = 0 /\ ran'[p] = 0

Rest(p) ==
  outcome'[p] = outcome[p] /\ attached'[p] = attached[p] /\ ran'[p] = ran[p]

Move(p) == Born(p) \/ Attach(p) \/ Settle(p) \/ Run(p) \/ Free(p)

Next == \A p \in Promise : Move(p) \/ Rest(p)

Spec == Init /\ [][Next]_vars

\* Every continuation of a settled promise runs.
Progress ==
  \A p \in Promise :
    (outcome[p] \in Outcomes /\ ran[p] < attached[p]) ~> ran[p] = attached[p]

FairSpec == Spec /\ Progress

=============================================================================
