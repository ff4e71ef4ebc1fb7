------------------------------ MODULE Pipeline ------------------------------
(***************************************************************************)
(* Fan-out and fan-in of internal/pipeline: one goroutine feeds tasks to   *)
(* an unbuffered channel, workers put results on a channel with one slot   *)
(* per worker, another goroutine closes it, and the caller's goroutine     *)
(* yields the results until its consumer has enough.                       *)
(*                                                                         *)
(* The state of the channels is where each task is.  Results leave their   *)
(* channel in any order: workers race to fill it.                          *)
(***************************************************************************)
EXTENDS Naturals, FiniteSets

CONSTANTS Tasks,    \* what the task iterator yields
          Workers   \* the worker goroutines

ASSUME PipelineAssumption ==
    /\ IsFiniteSet(Workers)
    /\ Workers # {}
    /\ Workers \cap {"iter", "offered", "queued", "yielded", "dropped"} = {}

VARIABLES
    place,    \* where each task is: with the iterator, offered on taskQ, at a
              \* worker, queued on resultQ, yielded to the caller, or dropped
    feeding,  \* the feeding goroutine runs; it closes taskQ when it ends
    worker,   \* what each worker is about to do
    open,     \* resultQ is open
    caller,   \* results: in its loop "range", about to close cancel "leave", then
              \* "drain", then "done"
    stopped   \* yield returned false

vars == <<place, feeding, worker, open, caller, stopped>>

At(p) == {t \in Tasks : place[t] = p}

\* close(cancel) has run.
Cancelled == caller \in {"drain", "done"}

Init ==
    /\ place = [t \in Tasks |-> "iter"]
    /\ feeding = TRUE
    /\ worker = [w \in Workers |-> "receive"]
    /\ open = TRUE
    /\ caller = "range"
    /\ stopped = FALSE

\* The feeder takes a task from the iterator and blocks in its select.
Offer(t) ==
    /\ feeding
    /\ At("offered") = {}
    /\ place[t] = "iter"
    /\ place' = [place EXCEPT ![t] = "offered"]
    /\ UNCHANGED <<feeding, worker, open, caller, stopped>>

\* The iterator is exhausted, ...
FeederEnds ==
    /\ feeding
    /\ At("offered") = {}
    /\ At("iter") = {}
    /\ feeding' = FALSE
    /\ UNCHANGED <<place, worker, open, caller, stopped>>

\* ... or the select finds cancel closed.
FeederCancelled(t) ==
    /\ feeding
    /\ place[t] = "offered"
    /\ Cancelled
    /\ place' = [place EXCEPT ![t] = "dropped"]
    /\ feeding' = FALSE
    /\ UNCHANGED <<worker, open, caller, stopped>>

\* A worker receives the offered task.
Receive(w, t) ==
    /\ worker[w] = "receive"
    /\ place[t] = "offered"
    /\ place' = [place EXCEPT ![t] = w]
    /\ worker' = [worker EXCEPT ![w] = "check"]
    /\ UNCHANGED <<feeding, open, caller, stopped>>

\* Mutant: the worker does not look at cancel before it works.
CheckNothing(w) ==
    /\ worker[w] = "check"
    /\ worker' = [worker EXCEPT ![w] = "work"]
    /\ UNCHANGED <<place, feeding, open, caller, stopped>>

\* The select finds cancel open: the worker is going to call workFn, ...
Check(w) ==
    /\ worker[w] = "check"
    /\ ~Cancelled
    /\ worker' = [worker EXCEPT ![w] = "work"]
    /\ UNCHANGED <<place, feeding, open, caller, stopped>>

\* ... which it does whether or not cancel was closed since.
Work(w) ==
    /\ worker[w] = "work"
    /\ worker' = [worker EXCEPT ![w] = "send"]
    /\ UNCHANGED <<place, feeding, open, caller, stopped>>

\* Cancelled: the worker drops the task.
Skip(w, t) ==
    /\ worker[w] = "check"
    /\ Cancelled
    /\ place[t] = w
    /\ place' = [place EXCEPT ![t] = "dropped"]
    /\ worker' = [worker EXCEPT ![w] = "receive"]
    /\ UNCHANGED <<feeding, open, caller, stopped>>

\* The result goes to resultQ, which blocks when full.
Send(w, t) ==
    /\ worker[w] = "send"
    /\ place[t] = w
    /\ Cardinality(At("queued")) < Cardinality(Workers)
    /\ place' = [place EXCEPT ![t] = "queued"]
    /\ worker' = [worker EXCEPT ![w] = "receive"]
    /\ UNCHANGED <<feeding, open, caller, stopped>>

\* taskQ is closed: the worker's loop ends.
WorkerEnds(w) ==
    /\ worker[w] = "receive"
    /\ ~feeding
    /\ worker' = [worker EXCEPT ![w] = "done"]
    /\ UNCHANGED <<place, feeding, open, caller, stopped>>

\* Mutant: resultQ is closed when the first worker is done.
CloseResultsEarly ==
    /\ open
    /\ \E w \in Workers : worker[w] = "done"
    /\ open' = FALSE
    /\ UNCHANGED <<place, feeding, worker, caller, stopped>>

\* wg.Wait returns and resultQ is closed.
CloseResults ==
    /\ open
    /\ \A w \in Workers : worker[w] = "done"
    /\ open' = FALSE
    /\ UNCHANGED <<place, feeding, worker, caller, stopped>>

\* The caller yields a result; more tells whether its consumer wants another.
Yield(t, more) ==
    /\ caller = "range"
    /\ place[t] = "queued"
    /\ place' = [place EXCEPT ![t] = "yielded"]
    /\ stopped' = ~more
    /\ caller' = IF more THEN "range" ELSE "leave"
    /\ UNCHANGED <<feeding, worker, open>>

\* Mutant: the loop ends with the channel closed but not empty.
RangeEndsEarly ==
    /\ caller = "range"
    /\ ~open
    /\ caller' = "leave"
    /\ UNCHANGED <<place, feeding, worker, open, stopped>>

\* resultQ is closed and empty: the loop ends.
RangeEnds ==
    /\ caller = "range"
    /\ ~open
    /\ At("queued") = {}
    /\ caller' = "leave"
    /\ UNCHANGED <<place, feeding, worker, open, stopped>>

\* The deferred function closes cancel, ...
Cancel ==
    /\ caller = "leave"
    /\ caller' = "drain"
    /\ UNCHANGED <<place, feeding, worker, open, stopped>>

\* Mutant: results are not drained after an early exit.
DrainNothing(t) == FALSE /\ place[t] = "queued" /\ UNCHANGED vars

\* ... throws away the results that are still sent, ...
Drain(t) ==
    /\ caller = "drain"
    /\ place[t] = "queued"
    /\ place' = [place EXCEPT ![t] = "dropped"]
    /\ UNCHANGED <<feeding, worker, open, caller, stopped>>

\* ... and ends with resultQ closed and empty: results returns.
Return ==
    /\ caller = "drain"
    /\ ~open
    /\ At("queued") = {}
    /\ caller' = "done"
    /\ UNCHANGED <<place, feeding, worker, open, stopped>>

Next ==
    \/ \E t \in Tasks : Offer(t) \/ FeederCancelled(t) \/ Drain(t)
    \/ FeederEnds
    \/ \E w \in Workers : Check(w) \/ Work(w) \/ WorkerEnds(w)
    \/ \E w \in Workers, t \in Tasks : Receive(w, t) \/ Skip(w, t) \/ Send(w, t)
    \/ \E t \in Tasks, more \in BOOLEAN : Yield(t, more)
    \/ CloseResults
    \/ RangeEnds
    \/ Cancel
    \/ Return

Spec == Init /\ [][Next]_vars

\* Goroutines that can proceed are scheduled.
FairSpec == Spec /\ WF_vars(Next)

-----------------------------------------------------------------------------
(* Properties *)

\* When results returns, every goroutine it started has ended: nothing goes on
\* reading files or feeding tasks behind the caller's back.
NoGoroutineLeft ==
    caller = "done" => ~feeding /\ \A w \in Workers : worker[w] = "done"

\* A consumer that never stops the iteration gets the result of every task.
EveryResultYielded ==
    Cancelled /\ ~stopped => At("yielded") = Tasks

\* workFn was not called, and is not about to be called, with t.
Unworked(t) ==
    /\ place[t] \notin {"queued", "yielded"}
    /\ \A w \in Workers : place[t] = w => worker[w] = "check"

\* "If the yield function of the returned iterator returns false, task processing
\* is stopped and no new tasks are received" (pipeline.go).  A task that no worker
\* had taken when cancel was closed is never worked on, although the feeder, whose
\* select may prefer the task channel, can still hand it to a worker.  A worker that
\* had looked at cancel before finishes the one task it holds.
NoNewWork ==
    \A t \in Tasks :
        [](Cancelled /\ place[t] \in {"iter", "offered"} => []Unworked(t))

\* Iteration ends, whether the consumer stops it early or not.
Terminates == <>(caller = "done")
=============================================================================
