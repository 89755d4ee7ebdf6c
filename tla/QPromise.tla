------------------------------ MODULE QPromise ------------------------------
(***************************************************************************)
(* The C promise library src/Q_promise_lib/qpromise.c: promises with        *)
(* reference counts, continuations, the internal job queue and the drain    *)
(* loop, adoption of a promise returned by a handler, and allocation        *)
(* failures.                                                                *)
(*                                                                          *)
(* The library is single-threaded, so the interleaving that matters is the  *)
(* one between the drain loop and the application: the application calls    *)
(* the API at top level and also from inside a handler the drain loop is    *)
(* running.  Each API call is one action; the drain loop is one action per  *)
(* continuation, with a handler call split into its invocation (FireNext)   *)
(* and its return (HandlerReturns), between which any API call may happen.  *)
(***************************************************************************)
EXTENDS Integers, Sequences, FiniteSets

CONSTANTS
  Promise,      \* the promise objects the program may ever allocate
  Value,        \* what the application resolves with (None for NULL)
  Error,        \* what it rejects with
  LibraryError, \* the library's own error texts ("oom", "rejected", ...)
  None,         \* the C NULL
  Attached,     \* the kinds of continuation it attaches: subset of Kind
  MaxHeld,      \* bound on the references the application holds on a promise
  Failing       \* allocations that may fail: subset of AllocationSites

AllocationSites == {"job", "cont", "string"}

ASSUME NoneAssumption == None \notin Promise \union Error \union {LibraryError}
ASSUME FailingAssumption == Failing \subseteq AllocationSites
ASSUME AttachedAssumption == Attached \subseteq {"THEN", "CATCH", "FINALLY"}
ASSUME PromiseAssumption == IsFiniteSet(Promise)
ASSUME MaxHeldAssumption == MaxHeld \in Nat \ {0}

VARIABLES
  heap,       \* the struct qpromise of every promise
  jobs,       \* the job list, g_job_head first
  draining,   \* g_draining
  current,    \* the promise p of the job being run by qpromise_drain
  cursor,     \* the index in p->conts the loop of qp_fire_conts stands at
  inHandler,  \* a handler called by qp_fire_conts has not returned yet
  held        \* references owned by the application, per promise

vars == <<heap, jobs, draining, current, cursor, inHandler, held>>

-----------------------------------------------------------------------------
(* Promises and continuations *)

Settled == {"RESOLVED", "REJECTED", "CANCELLED"}
Live    == {"PENDING"} \union Settled
State   == Live \union {"unborn", "freed"}
Payload == Value \union Error \union {LibraryError, None}
Kind    == {"THEN", "CATCH", "FINALLY"}

\* adopt: then_fn/catch_fn is qp_adopt_on_then/qp_adopt_on_catch
Continuation == [kind : Kind, adopt : BOOLEAN, child : Promise, fired : BOOLEAN]

PromiseObject ==
  [state     : State,
   payload   : Payload,           \* value if RESOLVED, error if REJECTED
   refcount  : Int,
   conts     : Seq(Continuation),
   following : Promise \union {None}]

Blank(s) == [state |-> s, payload |-> None, refcount |-> 0,
             conts |-> << >>, following |-> None]

NewPromise(s, v) == [state |-> s, payload |-> v, refcount |-> 1,
                     conts |-> << >>, following |-> None]

NewCont(k, isAdopt, child) ==
  [kind |-> k, adopt |-> isAdopt, child |-> child, fired |-> FALSE]

TypeOK ==
  /\ heap \in [Promise -> PromiseObject]
  /\ jobs \in Seq(Promise)
  /\ draining \in BOOLEAN
  /\ current \in Promise \union {None}
  /\ cursor \in Nat
  /\ inHandler \in BOOLEAN
  /\ held \in [Promise -> Nat]

-----------------------------------------------------------------------------
(* Reference counts *)

\* The references the objects of S hold on q: children and adopted promises.
ContRefs(h, S, q) ==
  {x \in UNION {{p} \X DOMAIN h[p].conts : p \in S} :
     h[x[1]].conts[x[2]].child = q}

FollowRefs(h, S, q) == {p \in S : h[p].following = q}

RefsFrom(h, S, q) ==
  Cardinality(ContRefs(h, S, q)) + Cardinality(FollowRefs(h, S, q))

\* The objects qp_destroy(p) frees: p, and every object whose last references
\* are held by objects it frees (the least such set).
Destroyed(h, p) ==
  LET Closed(S) == /\ p \in S
                   /\ \A q \in Promise :
                        RefsFrom(h, S, q) > 0 /\ h[q].refcount <= RefsFrom(h, S, q)
                           => q \in S
  IN  {q \in Promise : \A S \in SUBSET Promise : Closed(S) => q \in S}

Ref(h, p) == [h EXCEPT ![p].refcount = @ + 1]

\* qp_cont_new and qp_cont_append: the continuation holds a reference on child.
AppendCont(h, p, k, isAdopt, child) ==
  Ref([h EXCEPT ![p].conts = Append(@, NewCont(k, isAdopt, child))], child)

\* qpromise_unref: a NULL argument is ignored.
Unref(h, p) ==
  IF p = None THEN h
  ELSE IF h[p].refcount > 1 THEN [h EXCEPT ![p].refcount = @ - 1]
  ELSE LET gone == Destroyed(h, p)
       IN  [q \in Promise |->
              IF q \in gone THEN Blank("freed")
              ELSE [h[q] EXCEPT !.refcount = @ - RefsFrom(h, gone, q)]]

-----------------------------------------------------------------------------
(* Settling, and the outcome a child receives *)

\* The values a call of malloc at this site may return, as "it succeeded".
Alloc(site) == IF site \in Failing THEN BOOLEAN ELSE {TRUE}

\* qp_settle_resolved, qp_settle_rejected and qpromise_cancel up to the
\* enqueueing: the new state, and following dropped (qp_drop_following).
Settle(h, p, o) ==
  Unref([h EXCEPT ![p].state = o.state, ![p].payload = o.payload,
                  ![p].following = None],
        h[p].following)

\* Settle p with outcome o if it is pending, enqueue its job (qp_enqueue_fire
\* gives up silently when the job cannot be allocated), then drop the
\* reference the caller passed in, if any.
SettleAndEnqueue(h, p, o, handed) ==
  IF h[p].state # "PENDING"
  THEN /\ heap' = Unref(h, handed)
       /\ UNCHANGED jobs
  ELSE \E queued \in Alloc("job") :
         IF queued
         THEN /\ heap' = Unref(Ref(Settle(h, p, o), p), handed)
              /\ jobs' = Append(jobs, p)
         ELSE /\ heap' = Unref(Settle(h, p, o), handed)
              /\ UNCHANGED jobs

Resolved(v) == [state |-> "RESOLVED", payload |-> v]
Rejected(e) == [state |-> "REJECTED", payload |-> e]
Cancelled   == [state |-> "CANCELLED", payload |-> None]

\* The error a promise gets when the copy of its error text could not be made.
\* qp_settle_rejected then tries the literal "rejected".
RejectedUncopied == {Rejected(LibraryError), Rejected(None)}

\* The outcome p has settled with.
Outcome(h, p) == [state |-> h[p].state, payload |-> h[p].payload]

CopiedRejection(e) ==
  {Rejected(IF e = None THEN LibraryError ELSE e)} \union
  (IF "string" \in Failing THEN RejectedUncopied ELSE {})

\* Seeded fault: a cancelled parent rejects its children.
PassThroughRejecting(h, p) ==
  IF h[p].state = "RESOLVED" THEN {Resolved(h[p].payload)}
  ELSE {Rejected(LibraryError)}

\* qp_pass_through: the outcomes a child may get from its settled parent.
PassThrough(h, p) ==
  CASE h[p].state = "RESOLVED" ->
         {Resolved(h[p].payload)} \union
         (IF "string" \in Failing /\ h[p].payload # None
          THEN RejectedUncopied ELSE {})
    [] h[p].state = "REJECTED"  -> CopiedRejection(h[p].payload)
    [] OTHER -> {Cancelled}

\* qp_adopt_on_then, and the settled cases of qp_adopt_follow: the outcomes of
\* a promise that adopts settled promise r.  A value whose copy cannot be
\* allocated becomes NULL.
Adopted(h, r) ==
  CASE h[r].state = "RESOLVED" ->
         {Resolved(h[r].payload)} \union
         (IF "string" \in Failing THEN {Resolved(None)} ELSE {})
    [] h[r].state = "REJECTED" -> CopiedRejection(h[r].payload)
    [] OTHER -> {Cancelled}

\* qp_adopt_on_catch: the error is copied into out_error; without memory
\* out_error stays NULL and qp_apply_result resolves the child with NULL.
AdoptedOnCatch(h, r) ==
  {Rejected(IF h[r].payload = None THEN LibraryError ELSE h[r].payload)} \union
  (IF "string" \in Failing THEN {Resolved(None)} ELSE {})

-----------------------------------------------------------------------------
(* API calls of the application *)

\* The application runs at top level, or in a handler the drain loop called.
AppRuns == draining => inHandler

Owned(p) == held[p] > 0

drainVars == <<draining, current, cursor, inHandler>>

\* qpromise_create, qpromise_resolved, qpromise_rejected: a settled promise is
\* born without a job, for it has no continuation yet.
Create(p, o) ==
  /\ AppRuns
  /\ heap[p].state = "unborn"
  /\ heap' = [heap EXCEPT ![p] = NewPromise(o.state, o.payload)]
  /\ held' = [held EXCEPT ![p] = 1]
  /\ UNCHANGED <<jobs, drainVars>>

\* Seeded faults: no job for a continuation attached to a settled promise;
\* qp_cont_append puts the continuation first.
AttachWithoutJob(p, k, child) ==
  /\ AppRuns /\ Owned(p)
  /\ heap[child].state = "unborn"
  /\ held' = [held EXCEPT ![child] = 1]
  /\ heap' = AppendCont([heap EXCEPT ![child] = NewPromise("PENDING", None)],
                        p, k, FALSE, child)
  /\ UNCHANGED <<jobs, drainVars>>

AttachFirst(p, k, child) ==
  /\ AppRuns /\ Owned(p)
  /\ heap[child].state = "unborn"
  /\ held' = [held EXCEPT ![child] = 1]
  /\ heap' = Ref(Ref([heap EXCEPT ![child] = NewPromise("PENDING", None),
                                  ![p].conts = <<NewCont(k, FALSE, child)>> \o @], child), p)
  /\ jobs' = Append(jobs, p)
  /\ UNCHANGED drainVars

\* qpromise_then, qpromise_catch, qpromise_finally: the caller and the
\* continuation each hold a reference on the child.  A call that runs out of
\* memory before the append undoes itself and is a stuttering step.
Attach(p, k, child) ==
  LET attached == AppendCont([heap EXCEPT ![child] = NewPromise("PENDING", None)],
                             p, k, FALSE, child)
  IN  /\ AppRuns /\ Owned(p)
      /\ heap[child].state = "unborn"
      /\ held' = [held EXCEPT ![child] = 1]
      /\ \E queued \in Alloc("job") :
           IF heap[p].state # "PENDING" /\ queued
           THEN /\ heap' = Ref(attached, p)
                /\ jobs' = Append(jobs, p)
           ELSE /\ heap' = attached
                /\ UNCHANGED jobs
      /\ UNCHANGED drainVars

\* qpromise_resolve, qpromise_reject, qpromise_cancel on a pending promise; on
\* any other they return -1 and change nothing.
SettleCall(p, o) ==
  /\ AppRuns /\ Owned(p)
  /\ heap[p].state = "PENDING"
  /\ SettleAndEnqueue(heap, p, o, None)
  /\ UNCHANGED <<held, drainVars>>

\* qpromise_ref
RefCall(p) ==
  /\ AppRuns /\ Owned(p)
  /\ held[p] < MaxHeld
  /\ heap' = Ref(heap, p)
  /\ held' = [held EXCEPT ![p] = @ + 1]
  /\ UNCHANGED <<jobs, drainVars>>

\* qpromise_unref
UnrefCall(p) ==
  /\ AppRuns /\ Owned(p)
  /\ heap' = Unref(heap, p)
  /\ held' = [held EXCEPT ![p] = @ - 1]
  /\ UNCHANGED <<jobs, drainVars>>

-----------------------------------------------------------------------------
(* The drain loop *)

\* qpromise_drain at top level.  From inside a handler the call returns at
\* once, for g_draining is set: a stuttering step.
BeginDrain ==
  /\ ~draining
  /\ draining' = TRUE
  /\ UNCHANGED <<heap, jobs, current, cursor, inHandler, held>>

\* Take the first job off the list and enter qp_fire_conts (a job is queued
\* only for a settled promise, so its pending check does not return).
TakeJob ==
  /\ draining /\ current = None
  /\ jobs # << >>
  /\ current' = Head(jobs)
  /\ jobs' = Tail(jobs)
  /\ cursor' = 1
  /\ UNCHANGED <<heap, draining, inHandler, held>>

EndDrain ==
  /\ draining /\ current = None
  /\ jobs = << >>
  /\ draining' = FALSE
  /\ UNCHANGED <<heap, jobs, current, cursor, inHandler, held>>

\* The loop of qp_fire_conts stands at continuation c of current.
AtContinuation ==
  current # None /\ ~inHandler /\ cursor \in DOMAIN heap[current].conts

AtCursor == heap[current].conts[cursor]

MarkFired(h) == [h EXCEPT ![current].conts[cursor].fired = TRUE]

SkipFired ==
  /\ AtContinuation
  /\ AtCursor.fired
  /\ cursor' = cursor + 1
  /\ UNCHANGED <<heap, jobs, draining, current, inHandler, held>>

\* The function of this kind qp_fire_conts calls for a promise in this state.
Calls(kind, state) ==
  \/ kind = "THEN" /\ state = "RESOLVED"
  \/ kind = "CATCH" /\ state = "REJECTED"
  \/ kind = "FINALLY"

\* A handler of the application is called: it runs until HandlerReturns.
CallHandler ==
  /\ AtContinuation
  /\ ~AtCursor.fired /\ ~AtCursor.adopt
  /\ Calls(AtCursor.kind, heap[current].state)
  /\ heap' = MarkFired(heap)
  /\ inHandler' = TRUE
  /\ UNCHANGED <<jobs, draining, current, cursor, held>>

\* No handler of the application is called: the child gets the outcome of the
\* settled promise through qp_pass_through, a cancellation, or the adoption
\* handlers.
FireNext ==
  /\ AtContinuation
  /\ ~AtCursor.fired
  /\ AtCursor.adopt \/ ~Calls(AtCursor.kind, heap[current].state)
  /\ \E o \in IF ~Calls(AtCursor.kind, heap[current].state)
              THEN PassThrough(heap, current)
              ELSE IF AtCursor.kind = "THEN" THEN Adopted(heap, current)
              ELSE AdoptedOnCatch(heap, current) :
       SettleAndEnqueue(MarkFired(heap), AtCursor.child, o, None)
  /\ cursor' = cursor + 1
  /\ UNCHANGED <<draining, current, inHandler, held>>

\* Seeded fault: qpromise_drain keeps the job's reference.
FinishJobKeepingRef ==
  /\ current # None /\ ~inHandler
  /\ cursor \notin DOMAIN heap[current].conts
  /\ current' = None
  /\ UNCHANGED <<heap, jobs, draining, cursor, inHandler, held>>

\* The loop of qp_fire_conts is done: qpromise_drain drops the job's reference.
FinishJob ==
  /\ current # None /\ ~inHandler
  /\ cursor \notin DOMAIN heap[current].conts
  /\ heap' = Unref(heap, current)
  /\ current' = None
  /\ UNCHANGED <<jobs, draining, cursor, inHandler, held>>

-----------------------------------------------------------------------------
(* Return of a handler *)

\* qp_adopt_follow with a pending promise r: what child followed before is
\* dropped, and child holds a reference on r.
Following(h, child, r) ==
  Ref([Unref(h, h[child].following) EXCEPT ![child].following = r], r)

\* Seeded fault: child refers to r, but no continuation is appended to r.
FollowUnlinked(h, child, r) == Unref(Following(h, child, r), r)

\* Then two continuations of child are appended to r, and the reference the
\* handler handed over is dropped.
Follow(h, child, r) ==
  LET linked == AppendCont(Following(h, child, r), r, "THEN", TRUE, child)
  IN  Unref(AppendCont(linked, r, "CATCH", TRUE, child), r)

\* Seeded fault: the child was settled by the application meanwhile, and the
\* reference the handler handed over is forgotten.
AdoptKeepingRef(child, r) ==
  IF heap[child].state # "PENDING" THEN UNCHANGED <<heap, jobs>>
  ELSE IF heap[r].state # "PENDING"
  THEN \E o \in Adopted(heap, r) : SettleAndEnqueue(heap, child, o, r)
  ELSE heap' = Follow(heap, child, r) /\ UNCHANGED jobs

\* qp_apply_result after a then or catch handler returned promise r.
Adopt(child, r) ==
  IF heap[child].state # "PENDING" THEN /\ heap' = Unref(heap, r)
                                        /\ UNCHANGED jobs
  ELSE IF heap[r].state # "PENDING"
  THEN \E o \in Adopted(heap, r) : SettleAndEnqueue(heap, child, o, r)
  ELSE \E linked \in Alloc("cont") :
         IF linked THEN /\ heap' = Follow(heap, child, r)
                        /\ UNCHANGED jobs
         ELSE \E o \in CopiedRejection(LibraryError) :
                SettleAndEnqueue(Following(heap, child, r), child, o, r)

Returns ==
  /\ inHandler' = FALSE
  /\ cursor' = cursor + 1
  /\ UNCHANGED <<draining, current>>

\* A then or catch handler sets *out_value, or *out_error, or neither.
ReturnResult(o) ==
  /\ inHandler /\ AtCursor.kind # "FINALLY"
  /\ SettleAndEnqueue(heap, AtCursor.child, o, None)
  /\ Returns
  /\ UNCHANGED held

\* A then or catch handler returns a promise, handing over a reference it owns.
ReturnPromise(r) ==
  /\ inHandler /\ AtCursor.kind # "FINALLY"
  /\ Owned(r)
  /\ Adopt(AtCursor.child, r)
  /\ held' = [held EXCEPT ![r] = @ - 1]
  /\ Returns

\* Seeded fault: the child of a finally continuation is left alone.
ReturnFinallyOnly ==
  /\ inHandler /\ AtCursor.kind = "FINALLY"
  /\ Returns
  /\ UNCHANGED <<heap, jobs, held>>

\* A finally handler returns: its child gets the outcome of the promise.
ReturnFinally ==
  /\ inHandler /\ AtCursor.kind = "FINALLY"
  /\ \E o \in PassThrough(heap, current) :
       SettleAndEnqueue(heap, AtCursor.child, o, None)
  /\ Returns
  /\ UNCHANGED held

-----------------------------------------------------------------------------
(* The specification *)

AppOutcomes == {Resolved(v) : v \in Value} \union {Rejected(e) : e \in Error}

Init ==
  /\ heap = [p \in Promise |-> Blank("unborn")]
  /\ jobs = << >>
  /\ draining = FALSE
  /\ current = None
  /\ cursor = 0
  /\ inHandler = FALSE
  /\ held = [p \in Promise |-> 0]

Application ==
  \E p \in Promise :
    \/ \E o \in AppOutcomes \union {[state |-> "PENDING", payload |-> None]} : Create(p, o)
    \/ \E k \in Attached, child \in Promise : Attach(p, k, child)
    \/ \E o \in AppOutcomes \union {Cancelled} : SettleCall(p, o)
    \/ RefCall(p)
    \/ UnrefCall(p)

HandlerReturns ==
  \/ \E o \in AppOutcomes : ReturnResult(o)
  \/ \E r \in Promise : ReturnPromise(r)
  \/ ReturnFinally

DrainLoop == TakeJob \/ EndDrain \/ SkipFired \/ CallHandler \/ FireNext \/ FinishJob

Next == Application \/ HandlerReturns \/ BeginDrain \/ DrainLoop

Spec == Init /\ [][Next]_vars

\* The application drains again and again and its handlers return: without
\* either no continuation ever runs, and the library leaves both to the
\* application.  The loop itself is plain code.
Fairness == WF_vars(BeginDrain) /\ WF_vars(DrainLoop) /\ WF_vars(HandlerReturns)

FairSpec == Spec /\ Fairness

-----------------------------------------------------------------------------
(* Safety *)

IsLive(p) == heap[p].state \in Live
IsSettled(p) == heap[p].state \in Settled

\* The references on p from outside the heap: the application's, one per queued
\* job, the drain loop's.
JobRefs(p) == Cardinality({i \in DOMAIN jobs : jobs[i] = p})

External(p) == held[p] + JobRefs(p) + (IF current = p THEN 1 ELSE 0)

\* Reference counting is exact: the count of a promise that is alive is the
\* number of references on it and is positive, and nothing refers to a promise
\* that was freed.  Fails when a path of qpromise.c drops a reference twice,
\* forgets one, or uses an object after its last reference is gone.
RefcountsExact ==
  \A p \in Promise : /\ heap[p].refcount = External(p) + RefsFrom(heap, Promise, p)
                     /\ IsLive(p) <=> heap[p].refcount > 0

\* No lost wake-up: a continuation of a settled promise that has not fired is
\* ahead of the drain loop's cursor or has a job queued for its promise.
NoLostWakeup ==
  \A p \in Promise : \A i \in DOMAIN heap[p].conts :
    IsSettled(p) /\ ~heap[p].conts[i].fired =>
      \/ \E j \in DOMAIN jobs : jobs[j] = p
      \/ current = p /\ cursor <= i

\* When a drain has emptied the job list, every continuation of every settled
\* promise has fired, and its child is settled or waits for a promise that is
\* pending.
DrainedMeansDelivered ==
  ~draining /\ jobs = << >> =>
    \A p \in Promise : \A i \in DOMAIN heap[p].conts :
      IsSettled(p) =>
        LET c == heap[p].conts[i]
        IN  /\ c.fired
            /\ \/ IsSettled(c.child)
               \/ /\ heap[c.child].following # None
                  /\ heap[heap[c.child].following].state = "PENDING"

\* Once the application holds no reference and the queue is drained, every
\* promise is freed, unless an adoption tied promises into a cycle of references.
ReleasedMeansFreed ==
  (/\ ~draining /\ jobs = << >>
   /\ \A p \in Promise :
        /\ held[p] = 0
        /\ \A i \in DOMAIN heap[p].conts : ~heap[p].conts[i].adopt)
  => \A p \in Promise : ~IsLive(p)

-----------------------------------------------------------------------------
(* Action properties *)

\* A promise settles at most once: its outcome never changes afterwards, until
\* the object is freed.
SettlesOnce ==
  [][\A p \in Promise : IsSettled(p) =>
       Outcome(heap, p)' = Outcome(heap, p) \/ heap'[p].state = "freed"]_vars

\* A handler runs at most once: a call is made for a continuation that had not
\* fired, the call marks it, and a mark is never removed.  Fails when a job run
\* later, or the rest of a list that a handler extended, calls it again.
HandlersRunOnce ==
  [][/\ inHandler' /\ ~inHandler => ~AtCursor.fired /\ AtCursor'.fired
     /\ \A p \in Promise : heap'[p].state # "freed" =>
          \A i \in DOMAIN heap[p].conts :
            /\ i \in DOMAIN heap'[p].conts
            /\ heap[p].conts[i].fired => heap'[p].conts[i].fired]_vars

\* What the drain loop settles without a handler's result gets the outcome of
\* the promise the loop is at: rejection and cancellation propagate, and a
\* promise takes the eventual state of the one it adopted.
DerivedOutcome ==
  [][~AppRuns =>
       \A p \in Promise : heap[p].state = "PENDING" /\ IsSettled(p)' =>
         Outcome(heap', p) = Outcome(heap, current)]_vars

-----------------------------------------------------------------------------
(* Liveness *)

Adopting(p) ==
  heap[p].following # None /\ IsSettled(heap[p].following)

\* A promise that adopted another one settles once the adopted one has settled.
AdoptersSettle ==
  \A p \in Promise : Adopting(p) ~> heap[p].state # "PENDING"

-----------------------------------------------------------------------------
(* Refinement: every promise keeps the contract of qpromise.h *)

NoOutcome(s) == [state |-> s, payload |-> None]

\* The continuations that have fired, none before them waiting: a promise that
\* fires them out of the order of attachment does not keep its contract.
FiredPrefix(p) ==
  {i \in DOMAIN heap[p].conts : \A j \in 1 .. i : heap[p].conts[j].fired}

Contract == INSTANCE PromiseContract WITH
  Outcomes <- [state : Settled, payload : Payload],
  Unborn   <- NoOutcome("unborn"),
  Pending  <- NoOutcome("PENDING"),
  Freed    <- NoOutcome("freed"),
  outcome  <- [p \in Promise |-> Outcome(heap, p)],
  attached <- [p \in Promise |-> Len(heap[p].conts)],
  ran      <- [p \in Promise |-> Cardinality(FiredPrefix(p))]

\* Each promise settles once, runs each continuation once and in order after
\* it settled, and is not freed while one waits.
KeepsContract == Contract!Spec

\* ... and if the application keeps draining, runs every continuation: the job
\* list forgets nothing and the drain loop gets to every job.
FulfilsContract == Contract!FairSpec

=============================================================================
