--------------------------- MODULE PipelineProofs ---------------------------
(***************************************************************************)
(* What holds of the pipeline for any tasks and any number of workers.     *)
(***************************************************************************)
EXTENDS Pipeline, TLAPS

TypeInv ==
    /\ place \in [Tasks -> Workers \cup {"iter", "offered", "queued", "yielded", "dropped"}]
    /\ feeding \in BOOLEAN
    /\ worker \in [Workers -> {"receive", "check", "work", "send", "done"}]
    /\ open \in BOOLEAN
    /\ caller \in {"range", "leave", "drain", "done"}
    /\ stopped \in BOOLEAN

\* The goroutines end one after the other: feeder, workers, closer, caller.
EndOrder ==
    /\ \A w \in Workers : worker[w] = "done" => ~feeding
    /\ ~open => \A w \in Workers : worker[w] = "done"
    /\ caller = "done" => ~open

\* A worker that is not waiting for a task holds exactly one.
Holding ==
    \A t \in Tasks, w \in Workers : place[t] = w =>
        /\ worker[w] \in {"check", "work", "send"}
        /\ \A u \in Tasks : place[u] = w => u = t

\* Without an early stop nothing is dropped, and the ends of the feeder and of
\* the caller's loop mean what they seem to mean.
NothingLost ==
    /\ stopped => caller # "range"
    /\ ~stopped => \A t \in Tasks : place[t] # "dropped"
    /\ ~stopped /\ ~feeding => \A t \in Tasks : place[t] \notin {"iter", "offered"}
    /\ ~stopped /\ caller # "range" => ~open /\ \A t \in Tasks : place[t] # "queued"

PipelineInv == TypeInv /\ EndOrder /\ Holding /\ NothingLost

\* No worker has the name of one of the other places of a job.
LEMMA NotPlaces ==
    \A w \in Workers : w \notin {"iter", "offered", "queued", "yielded", "dropped"}
BY PipelineAssumption

\* The invariant holds before the pipeline starts.
LEMMA PipelineInit == Init => PipelineInv
BY NotPlaces DEF Init, PipelineInv, TypeInv, EndOrder, Holding, NothingLost, Cancelled

\* Once the caller's loop ended by itself, every goroutine but the caller is done.
LEMMA LoopEndedLast ==
    ASSUME PipelineInv, caller # "range", ~stopped
    PROVE  ~open /\ ~feeding /\ \A w \in Workers : worker[w] = "done"
BY PipelineAssumption DEF PipelineInv, EndOrder, NothingLost

\* Every step of the producer, a worker, the closer or the consumer keeps it.
LEMMA PipelineNext == PipelineInv /\ [Next]_vars => PipelineInv'
<1> SUFFICES ASSUME PipelineInv, [Next]_vars PROVE PipelineInv'
  OBVIOUS
<1> USE DEF PipelineInv
<1>1. ASSUME NEW t \in Tasks, Offer(t) PROVE PipelineInv'
  BY <1>1, NotPlaces DEF Offer, TypeInv, EndOrder, Holding, NothingLost, Cancelled
<1>2. CASE FeederEnds
  <2>1. TypeInv' /\ EndOrder'
    BY <1>2 DEF FeederEnds, TypeInv, EndOrder
  <2>2. Holding'
    BY <1>2 DEF FeederEnds, Holding
  <2>3. \A t \in Tasks : place[t] \notin {"iter", "offered"}
    BY <1>2 DEF FeederEnds, At
  <2>4. NothingLost'
    BY <1>2, <2>3 DEF FeederEnds, NothingLost, Cancelled
  <2> QED BY <2>1, <2>2, <2>4
<1>3. ASSUME NEW t \in Tasks, FeederCancelled(t) PROVE PipelineInv'
  <2>1. stopped
    BY <1>3, LoopEndedLast DEF FeederCancelled, Cancelled
  <2>2. TypeInv' /\ EndOrder'
    BY <1>3 DEF FeederCancelled, TypeInv, EndOrder
  <2>3. Holding'
    BY <1>3, NotPlaces DEF FeederCancelled, TypeInv, Holding
  <2>4. NothingLost'
    BY <1>3, <2>1 DEF FeederCancelled, NothingLost, Cancelled
  <2> QED BY <2>2, <2>3, <2>4
<1>4. ASSUME NEW w \in Workers, NEW t \in Tasks, Receive(w, t) PROVE PipelineInv'
  <2>1. TypeInv' /\ EndOrder'
    BY <1>4 DEF Receive, TypeInv, EndOrder
  <2>2. Holding'
    BY <1>4 DEF Receive, TypeInv, Holding
  <2>3. NothingLost'
    BY <1>4, NotPlaces DEF Receive, TypeInv, NothingLost, Cancelled
  <2> QED BY <2>1, <2>2, <2>3
<1>5. ASSUME NEW w \in Workers, Check(w) \/ Work(w) PROVE PipelineInv'
  BY <1>5 DEF Check, Work, TypeInv, EndOrder, Holding, NothingLost, Cancelled
<1>6. ASSUME NEW w \in Workers, NEW t \in Tasks, Skip(w, t) PROVE PipelineInv'
  <2>1. stopped
    BY <1>6, LoopEndedLast DEF Skip, Cancelled
  <2>2. TypeInv' /\ EndOrder'
    BY <1>6 DEF Skip, TypeInv, EndOrder
  <2>3. Holding'
    BY <1>6, NotPlaces DEF Skip, TypeInv, Holding
  <2>4. NothingLost'
    BY <1>6, <2>1 DEF Skip, NothingLost, Cancelled
  <2> QED BY <2>2, <2>3, <2>4
<1>7. ASSUME NEW w \in Workers, NEW t \in Tasks, Send(w, t) PROVE PipelineInv'
  <2>1. stopped \/ caller = "range"
    BY <1>7, LoopEndedLast DEF Send
  <2>2. TypeInv' /\ EndOrder'
    BY <1>7 DEF Send, TypeInv, EndOrder
  <2>3. Holding'
    BY <1>7, NotPlaces DEF Send, TypeInv, Holding
  <2>4. NothingLost'
    BY <1>7, <2>1 DEF Send, TypeInv, NothingLost, Cancelled
  <2> QED BY <2>2, <2>3, <2>4
<1>8. ASSUME NEW w \in Workers, WorkerEnds(w) PROVE PipelineInv'
  BY <1>8 DEF WorkerEnds, TypeInv, EndOrder, Holding, NothingLost, Cancelled
<1>9. CASE CloseResults
  BY <1>9 DEF CloseResults, TypeInv, EndOrder, Holding, NothingLost, Cancelled
<1>10. ASSUME NEW t \in Tasks, NEW more \in BOOLEAN, Yield(t, more) PROVE PipelineInv'
  <2>1. TypeInv' /\ EndOrder'
    BY <1>10 DEF Yield, TypeInv, EndOrder
  <2>2. Holding'
    BY <1>10, NotPlaces DEF Yield, TypeInv, Holding
  <2>3. NothingLost'
    BY <1>10 DEF Yield, TypeInv, NothingLost, Cancelled
  <2> QED BY <2>1, <2>2, <2>3
<1>11. CASE RangeEnds \/ Cancel
  BY <1>11 DEF RangeEnds, Cancel, At, TypeInv, EndOrder, Holding, NothingLost, Cancelled
<1>12. ASSUME NEW t \in Tasks, Drain(t) PROVE PipelineInv'
  <2>1. stopped
    BY <1>12 DEF Drain, NothingLost, Cancelled
  <2> QED BY <1>12, <2>1, NotPlaces DEF Drain, TypeInv, EndOrder, Holding, NothingLost,
                                        Cancelled
<1>13. CASE Return
  BY <1>13 DEF Return, TypeInv, EndOrder, Holding, NothingLost, Cancelled
<1>14. CASE UNCHANGED vars
  BY <1>14 DEF vars, TypeInv, EndOrder, Holding, NothingLost, Cancelled
<1> QED BY <1>1, <1>2, <1>3, <1>4, <1>5, <1>6, <1>7, <1>8, <1>9, <1>10, <1>11, <1>12,
           <1>13, <1>14 DEF Next

\* So it holds throughout.
LEMMA PipelineInvariant == Spec => []PipelineInv
BY PipelineInit, PipelineNext, PTL DEF Spec

\* When the iterator function returns to its caller, the feeder and every worker
\* have ended, for any number of workers.
THEOREM NoGoroutineLeftBehind == Spec => []NoGoroutineLeft
<1>1. PipelineInv => NoGoroutineLeft
  BY PipelineAssumption DEF PipelineInv, EndOrder, NoGoroutineLeft
<1> QED BY <1>1, PipelineInvariant, PTL

\* A consumer that does not stop the iteration has been given the result of
\* every task when the loop over the result channel ends.
THEOREM EveryResultIsYielded == Spec => []EveryResultYielded
<1>1. PipelineInv => EveryResultYielded
  <2> SUFFICES ASSUME PipelineInv, Cancelled, ~stopped, NEW t \in Tasks
               PROVE  place[t] = "yielded"
    BY DEF EveryResultYielded, At
  <2>1. ~feeding /\ \A w \in Workers : worker[w] = "done"
    BY LoopEndedLast DEF Cancelled
  <2>2. place[t] \notin Workers
    BY <2>1 DEF PipelineInv, Holding
  <2>3. place[t] \notin {"iter", "offered", "queued", "dropped"}
    BY <2>1 DEF PipelineInv, NothingLost, Cancelled
  <2> QED BY <2>2, <2>3 DEF PipelineInv, TypeInv
<1> QED BY <1>1, PipelineInvariant, PTL

\* Task t was not taken by a worker when cancel was closed: since then it is left
\* where it was, dropped, or held by a worker that is about to look at cancel.
TooLate(t) ==
    /\ Cancelled
    /\ \/ place[t] \in {"iter", "offered", "dropped"}
       \/ \E w \in Workers : place[t] = w /\ worker[w] = "check"

\* Such a task stays so: a step of the worker that holds it can only drop it, and a
\* step of another worker does not touch it.
LEMMA TooLateStays ==
    ASSUME NEW t \in Tasks, PipelineInv, TooLate(t), [Next]_vars
    PROVE  TooLate(t)'
<1>1. Cancelled'
  BY DEF TooLate, Cancelled, Next, vars, Offer, FeederEnds, FeederCancelled, Receive, Check,
         Work, Skip, Send, WorkerEnds, CloseResults, Yield, RangeEnds, Cancel, Drain, Return
<1>2. CASE place[t] \in {"iter", "offered", "dropped"}
  <2>1. place' = place \/ \E u \in Tasks, p \in Workers \cup {"offered", "dropped", "queued", "yielded"} :
                             /\ place' = [place EXCEPT ![u] = p]
                             /\ p \in {"queued", "yielded"} => place[u] \notin {"iter", "offered", "dropped"}
                             /\ p \in Workers => worker'[p] = "check"
    BY NotPlaces DEF PipelineInv, TypeInv, Next, vars, Offer, FeederEnds, FeederCancelled, Receive,
         Check, Work, Skip, Send, WorkerEnds, CloseResults, Yield, RangeEnds, Cancel, Drain, Return
  <2> QED BY <1>1, <1>2, <2>1 DEF TooLate, PipelineInv, TypeInv
<1>3. ASSUME NEW w \in Workers, place[t] = w, worker[w] = "check"
      PROVE  TooLate(t)'
  <2>1. \A u \in Tasks : place[u] = w => u = t
    BY <1>3 DEF PipelineInv, Holding
  <2>2. ASSUME Skip(w, t) PROVE TooLate(t)'
    BY <1>1, <2>2 DEF Skip, TooLate, PipelineInv, TypeInv
  <2>3. ASSUME ~Skip(w, t) PROVE place'[t] = place[t] /\ worker'[w] = worker[w]
    BY <1>3, <2>1, <2>3, NotPlaces
       DEF TooLate, PipelineInv, TypeInv, Next, vars, Offer, FeederEnds, FeederCancelled,
           Receive, Check, Work, Skip, Send, WorkerEnds, CloseResults, Yield, RangeEnds, Cancel,
           Drain, Return
  <2> QED BY <1>1, <1>3, <2>2, <2>3 DEF TooLate
<1> QED BY <1>2, <1>3 DEF TooLate

\* Workers hold tasks in turn, so no step after cancel was closed brings a task that
\* was still with the feeder to workFn, for any number of workers and tasks.
THEOREM StopsTakingWork == Spec => NoNewWork
<1>1. ASSUME NEW t \in Tasks
      PROVE  Spec => [](Cancelled /\ place[t] \in {"iter", "offered"} => []Unworked(t))
  <2>1. Cancelled /\ place[t] \in {"iter", "offered"} => TooLate(t)
    BY DEF TooLate
  <2>2. PipelineInv /\ TooLate(t) /\ [Next]_vars => TooLate(t)'
    BY TooLateStays
  <2>3. TooLate(t) => Unworked(t)
    BY NotPlaces DEF TooLate, Unworked
  <2> QED BY <2>1, <2>2, <2>3, PipelineInvariant, PTL DEF Spec
<1> QED BY <1>1 DEF NoNewWork
=============================================================================
