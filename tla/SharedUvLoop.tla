---------------------------- MODULE SharedUvLoop ----------------------------
(***************************************************************************)
(* RefCountedUvLoop, its AsyncClosure and AsyncCallback (shared_uv_loop.cc, *)
(* shared_uv_loop-inl.h) and RefCountedFuture (shared_future.cc).          *)
(*                                                                         *)
(* A work runs its thread_work on a thread of uv's pool and then its       *)
(* on_work in the loop's thread.  Here every on_work is user code with a   *)
(* closure of a future, which it runs last.  Wait runs the loop until all  *)
(* the closures of its future have run.  An on_work may itself start works *)
(* and, if WaitsInCallbacks, wait: the variable stack holds the calls of   *)
(* Wait and the callbacks of the loop's thread, the running one last.  uv, *)
(* which is external, takes the finished works out of its queue in batches *)
(* and delivers a batch only in the call of uv_run that took it.           *)
(***************************************************************************)
EXTENDS Integers, Sequences, FiniteSets

CONSTANTS
  Works,             \* the calls of AsyncClosure and AsyncCallback
  Futures,           \* the futures that are ever created
  Threads,           \* the size of uv's thread pool
  WaitsInCallbacks   \* whether an on_work calls Wait

ASSUME LoopAssumption ==
  /\ IsFiniteSet(Works) /\ IsFiniteSet(Futures)
  /\ Threads \in Nat \ {0} /\ WaitsInCallbacks \in BOOLEAN

VARIABLES
  state,        \* of each work: "new", "queued", "working", "worked",
                \* "delivering" or "gone" (the context is deleted)
  threadWork,   \* the works whose thread_work_ is not null
  onWork,       \* the works whose on_work_ is not null
  target,       \* the future whose closure a work's on_work runs
  pending,      \* each future's pending_count_
  futureRefs,   \* each future's reference count
  futureHeld,   \* the futures the user holds
  loopRefs,     \* the loop's reference count
  loopHeld,     \* the user holds the loop
  loopDeleted,  \* ~RefCountedUvLoop has run
  finished,     \* the works whose completion uv has not taken, in order
  stack         \* the calls of Wait and on_work that have not returned

workVars == <<state, threadWork, onWork, target>>
refVars  == <<futureRefs, futureHeld, loopRefs, loopHeld, loopDeleted>>
vars     == <<workVars, pending, refVars, finished, stack>>

Init ==
  /\ state = [w \in Works |-> "new"]
  /\ threadWork = {} /\ onWork = {}
  /\ target \in [Works -> Futures]
  /\ pending = [f \in Futures |-> 0]
  /\ futureRefs = [f \in Futures |-> 0] /\ futureHeld = {}
  /\ loopRefs = 1 /\ loopHeld = TRUE /\ loopDeleted = FALSE
  /\ finished = <<>> /\ stack = <<>>

Waiting(f, batch) == [at |-> "wait", of |-> f, batch |-> batch]
Delivering(w)     == [at |-> "work", of |-> w, batch |-> <<>>]

Running == stack[Len(stack)]
Callers == SubSeq(stack, 1, Len(stack) - 1)

InWait == stack # <<>> /\ Running.at = "wait"

\* User code runs in the loop's thread.
InUserCode == ~InWait

NestedWait == \E i, j \in 1 .. Len(stack) : i < j /\ stack[i].at = "wait" /\ stack[j].at = "wait"

Waits(f) == \E i \in 1 .. Len(stack) : stack[i].at = "wait" /\ stack[i].of = f

-----------------------------------------------------------------------------
(* References.                                                             *)

\* Mutant of Unref: a future that is destroyed keeps its reference to the loop.
UnrefLeaks(f, n) ==
  /\ futureRefs' = [futureRefs EXCEPT ![f] = @ - 1]
  /\ loopRefs' = loopRefs - n
  /\ loopDeleted' = (loopRefs' = 0)

\* A reference to f and n references to the loop go; a destroyed future drops
\* its own reference to the loop.
Unref(f, n) ==
  /\ futureRefs' = [futureRefs EXCEPT ![f] = @ - 1]
  /\ loopRefs' = loopRefs - n - (IF futureRefs[f] = 1 THEN 1 ELSE 0)
  /\ loopDeleted' = (loopRefs' = 0)

-----------------------------------------------------------------------------
(* The user.                                                               *)

CreateFuture(f) ==
  /\ InUserCode /\ loopHeld /\ futureRefs[f] = 0
  /\ futureRefs' = [futureRefs EXCEPT ![f] = 1]
  /\ futureHeld' = futureHeld \cup {f}
  /\ loopRefs' = loopRefs + 1
  /\ UNCHANGED <<workVars, pending, loopHeld, loopDeleted, finished, stack>>

\* CreateClosure, then AsyncClosure or AsyncCallback, whose context holds the
\* loop.
AsyncProcess(w) ==
  /\ InUserCode /\ loopHeld /\ state[w] = "new" /\ target[w] \in futureHeld
  /\ state' = [state EXCEPT ![w] = "queued"]
  /\ threadWork' = threadWork \cup {w} /\ onWork' = onWork \cup {w}
  /\ pending' = [pending EXCEPT ![target[w]] = @ + 1]
  /\ futureRefs' = [futureRefs EXCEPT ![target[w]] = @ + 1]
  /\ loopRefs' = loopRefs + 1
  /\ UNCHANGED <<target, futureHeld, loopHeld, loopDeleted, finished, stack>>

Wait(f) ==
  /\ InUserCode /\ f \in futureHeld
  /\ stack = <<>> \/ WaitsInCallbacks
  /\ stack' = Append(stack, Waiting(f, <<>>))
  /\ UNCHANGED <<workVars, pending, refVars, finished>>

\* The user lets go of a future it is not waiting for.
ReleaseFuture(f) ==
  /\ InUserCode /\ f \in futureHeld /\ ~Waits(f)
  /\ futureHeld' = futureHeld \ {f}
  /\ Unref(f, 0)
  /\ UNCHANGED <<workVars, pending, loopHeld, finished, stack>>

ReleaseLoop ==
  /\ InUserCode /\ loopHeld
  /\ loopHeld' = FALSE
  /\ loopRefs' = loopRefs - 1
  /\ loopDeleted' = (loopRefs' = 0)
  /\ UNCHANGED <<workVars, pending, futureRefs, futureHeld, finished, stack>>

-----------------------------------------------------------------------------
(* The pool.                                                               *)

\* A free thread takes a queued work and resets thread_work_ to run it.
StaticThreadWork(w) ==
  /\ state[w] = "queued"
  /\ Cardinality({v \in Works : state[v] = "working"}) < Threads
  /\ state' = [state EXCEPT ![w] = "working"]
  /\ threadWork' = threadWork \ {w}
  /\ UNCHANGED <<onWork, target, pending, refVars, finished, stack>>

ThreadWorkReturns(w) ==
  /\ state[w] = "working"
  /\ state' = [state EXCEPT ![w] = "worked"]
  /\ finished' = Append(finished, w)
  /\ UNCHANGED <<threadWork, onWork, target, pending, refVars, stack>>

-----------------------------------------------------------------------------
(* The loop.                                                               *)

\* Mutant of WaitTest: off by one.
WaitTestOffByOne(f) == pending[f] <= 1

\* The condition on which Wait's loop ends.
WaitTest(f) == pending[f] = 0

\* Wait calls uv_run, which takes the finished works.
RunOnce ==
  /\ InWait /\ Running.batch = <<>>
  /\ ~WaitTest(Running.of) /\ finished # <<>>
  /\ stack' = Append(Callers, Waiting(Running.of, finished))
  /\ finished' = <<>>
  /\ UNCHANGED <<workVars, pending, refVars>>

WaitReturns ==
  /\ InWait /\ Running.batch = <<>>
  /\ WaitTest(Running.of)
  /\ stack' = Callers
  /\ UNCHANGED <<workVars, pending, refVars, finished>>

\* uv_run calls the next work of its batch, which resets on_work_ to run it.
StaticOnWork ==
  /\ InWait /\ Running.batch # <<>>
  /\ LET w == Head(Running.batch)
     IN  /\ state' = [state EXCEPT ![w] = "delivering"]
         /\ onWork' = onWork \ {w}
         /\ stack' = Callers \o <<Waiting(Running.of, Tail(Running.batch)),
                                  Delivering(w)>>
  /\ UNCHANGED <<threadWork, target, pending, refVars, finished>>

\* Mutant of OnWorkReturns: the closure is destroyed before it has run.
OnWorkReturnsUnrun ==
  /\ stack # <<>> /\ Running.at = "work"
  /\ LET w == Running.of
     IN  /\ state' = [state EXCEPT ![w] = "gone"]
         /\ Unref(target[w], 1)
  /\ stack' = Callers
  /\ UNCHANGED <<threadWork, onWork, target, pending, futureHeld, loopHeld, finished>>

\* on_work runs its closure (OnClosure) and returns; the closure is destroyed,
\* and then the context.
OnWorkReturns ==
  /\ stack # <<>> /\ Running.at = "work"
  /\ LET w == Running.of
     IN  /\ pending' = [pending EXCEPT ![target[w]] = @ - 1]
         /\ state' = [state EXCEPT ![w] = "gone"]
         /\ Unref(target[w], 1)
  /\ stack' = Callers
  /\ UNCHANGED <<threadWork, onWork, target, futureHeld, loopHeld, finished>>

-----------------------------------------------------------------------------

Pool == \E w \in Works : StaticThreadWork(w) \/ ThreadWorkReturns(w)

Loop == RunOnce \/ WaitReturns \/ StaticOnWork \/ OnWorkReturns

Next ==
  \/ \E f \in Futures : CreateFuture(f) \/ Wait(f) \/ ReleaseFuture(f)
  \/ \E w \in Works : AsyncProcess(w)
  \/ ReleaseLoop
  \/ Pool
  \/ Loop

Spec == Init /\ [][Next]_vars

\* Each work's thread_work ends, the pool serves every work, and the loop's
\* thread goes on.  The user need not start, wait or let go.
Fairness == WF_vars(Pool) /\ WF_vars(Loop)

FairSpec == Spec /\ Fairness

-----------------------------------------------------------------------------
(* Properties.                                                             *)

Contexts == {w \in Works : state[w] \notin {"new", "gone"}}

\* Every reference is counted: the loop's by the user, the contexts and the
\* futures, a future's by the user and the closures that have not returned.  So the
\* loop is deleted when nobody uses it any more, and never under a call of Wait, a
\* work or a future.
RefsExact ==
  /\ loopRefs = (IF loopHeld THEN 1 ELSE 0) + Cardinality(Contexts)
                  + Cardinality({f \in Futures : futureRefs[f] > 0})
  /\ \A f \in Futures :
       futureRefs[f] = (IF f \in futureHeld THEN 1 ELSE 0)
                         + Cardinality({w \in Contexts : target[w] = f})
  /\ loopDeleted <=> ~loopHeld /\ stack = <<>> /\ Contexts = {}
                        /\ \A f \in Futures : futureRefs[f] = 0

\* The checks of OnClosure (a closure is owed), of ~RefCountedFuture (none is)
\* and of ~AsyncClosureContext (both closures have run) never fail.
AssertionsHold ==
  /\ \A f \in Futures : futureRefs[f] = 0 => pending[f] = 0
  /\ \A w \in Works :
       /\ state[w] = "delivering" => pending[target[w]] > 0
       /\ state[w] = "gone" => w \notin threadWork \cup onWork

\* When Wait returns every work started for its future has ended, also those
\* started while it waited, whatever the callbacks did on the stack above it.
WaitMeansDone ==
  [][\A f \in Futures :
       InWait /\ Running.of = f /\ Len(stack') < Len(stack) =>
         \A w \in Works : target[w] = f => state[w] \in {"new", "gone"}]_vars

\* If no callback waits, every call of Wait returns.  (A callback that waits may wait
\* for work whose completion an outer call of uv_run has taken, for ever.)
WaitEnds == []~NestedWait => (stack # <<>> ~> stack = <<>>)
=============================================================================
