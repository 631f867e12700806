------------------------ MODULE ExperimentQueueProofs ------------------------
(***************************************************************************)
(* No experiment with something left to do is ever without a wake-up: the  *)
(* safety half of EventuallyOver, for every duration, pause and bound.     *)
(***************************************************************************)
EXTENDS ExperimentReconcilerProofs

-----------------------------------------------------------------------------
(* The inductive invariant.                                                *)

\* The informer has the stored version, or is about to receive it.
InFlight == exp \in watch \/ (watch = {} /\ cache = exp)

\* As long as the key has not been queued again, the copy a call started with
\* is the informer's.
ReadIsCurrent == pc = "read" /\ ~queued => loc = cache

Remembered == Inductive /\ InFlight /\ ReadIsCurrent /\ NeverForgotten

\* What each step has to establish.
Kept == InFlight /\ ReadIsCurrent /\ NeverForgotten

-----------------------------------------------------------------------------
(* How a call ends.                                                        *)

\* While a scenario runs the poll delay is never zero, which would mean no
\* requeue at all.
LEMMA PollDelayPositive ==
  ASSUME NEW o \in Experiment, WithinDuration(o)
  PROVE  PollDelay(o) \in Nat \ {0}
<1>1. o.injectedAt \in Nat /\ InScenario(o)
  BY TimeAssumption DEF WithinDuration, Experiment, Age
<1>2. /\ o.spec.duration[o.index] \in Nat
      /\ ~(o.injectedAt >= o.spec.duration[o.index])
  BY <1>1, InScenarioType, TimeAssumption DEF WithinDuration, Elapsed, Age
<1>3. PollInterval \in Nat /\ PollInterval # 0
  BY TimeAssumption
<1>4. QED
  BY <1>1, <1>2, <1>3 DEF PollDelay

\* A positive delay leaves a delayed entry of the key.
LEMMA DelayedEntry ==
  ASSUME TypeOK, NEW d \in Nat \ {0}, RequeueAfter(d)
  PROVE  timer' # None
BY NoneAssumption DEF RequeueAfter

\* A write is on its way to the informer, or has left everything as it was.
LEMMA WriteInFlight ==
  ASSUME InFlight, NEW o, Accepted(o) \/ Errs(o) \/ Unanswered(o) \/ Refused
  PROVE  InFlight' /\ (Accepted(o) \/ Unanswered(o) => watch' # {})
BY DEF InFlight, Accepted, Errs, Unanswered, Refused, Commit, objects

\* A call that ends with a write is followed by its watch event or, when the
\* write failed, by the rate-limited key.
LEMMA WriteRemembers ==
  ASSUME Remembered, NEW o, pc' \notin {"read"},
         \/ Accepted(o)
         \/ Unanswered(o)
         \/ (Errs(o) \/ Refused) /\ ReturnError
  PROVE  Kept'
<1>1. InFlight' /\ (Accepted(o) \/ Unanswered(o) => watch' # {})
  BY WriteInFlight DEF Remembered, Errs
<1>2. (Errs(o) \/ Refused) /\ ReturnError => queued'
  BY DEF ReturnError
<1>3. QED
  BY <1>1, <1>2 DEF Kept, ReadIsCurrent, NeverForgotten

\* The shapes in which a call ends with a write.
LEMMA UpdateRemembers ==
  ASSUME Remembered, NEW o, NEW d, UpdateAndRequeue(o, d) \/ UpdateAndReturn(o) \/ Finish(o)
  PROVE  Kept'
<1>1. pc' = "idle"
  BY EndsIdle
<1>2. Accepted(o) \/ (Errs(o) /\ ReturnError)
  BY DEF UpdateAndRequeue, UpdateAndReturn, Finish
<1>3. QED
  BY <1>1, <1>2, WriteRemembers

-----------------------------------------------------------------------------
(* The steps.                                                              *)

\* A step of Reconcile forgets nothing.
LEMMA ReconcileRemembers ==
  ASSUME Remembered, Reconcile
  PROVE  Kept'
<1>t. TypeOK /\ loc \in Experiment
  BY DEF Remembered, Inductive, TypeOK
<1>o. UNCHANGED objects => InFlight'
  BY DEF Remembered, InFlight, objects
<1>1. CASE Get
  <2>1. UNCHANGED objects /\ pc' = "read" /\ loc' = cache'
    BY <1>1 DEF Get, objects
  <2>2. QED
    BY <1>o, <2>1 DEF Kept, ReadIsCurrent, NeverForgotten
<1>2. CASE NothingToDo
  <2>1. /\ pc = "read" /\ pc' = "idle" /\ Settled(loc)
        /\ UNCHANGED objects /\ UNCHANGED <<queued, timer>>
    BY <1>2 DEF NothingToDo, Return, queue
  <2>2. ~queued /\ watch = {} => loc = exp
    BY <2>1 DEF Remembered, InFlight, ReadIsCurrent
  <2>3. exp' = exp /\ watch' = watch
    BY <2>1 DEF objects
  <2>4. Settled(exp') \/ queued' \/ watch' # {}
    BY <2>1, <2>2, <2>3
  <2>5. QED
    BY <1>o, <2>1, <2>4 DEF Kept, ReadIsCurrent, NeverForgotten
<1>3. CASE Inject \/ InjectFails
  <2>1. UNCHANGED objects /\ pc' \notin {"idle", "read"}
    BY <1>3 DEF Inject, InjectFails
  <2>2. QED
    BY <1>o, <2>1 DEF Kept, ReadIsCurrent, NeverForgotten
<1>4. CASE Poll
  <2>1. UNCHANGED objects /\ pc' = "idle"
    BY <1>4 DEF Poll, RequeueAfter
  <2>2. timer' # None
    BY <1>4, <1>t, PollDelayPositive, DelayedEntry DEF Poll
  <2>3. QED
    BY <1>o, <2>1, <2>2 DEF Kept, ReadIsCurrent, NeverForgotten
<1>5. CASE ProbeFails
  <2>1. UNCHANGED objects /\ pc' = "idle" /\ queued'
    BY <1>5 DEF ProbeFails, ReturnError
  <2>2. QED
    BY <1>o, <2>1 DEF Kept, ReadIsCurrent, NeverForgotten
<1>6. CASE Halt
  <2>1. pc' # "read" /\ (Accepted(Halted(loc)) \/ (Errs(Halted(loc)) /\ ReturnError))
    BY <1>6 DEF Halt, ReturnError
  <2>2. QED
    BY <2>1, WriteRemembers
<1>7. CASE Advance
  <2>1. /\ pc' = "idle"
        /\ \/ Accepted(NextScenario(loc)) \/ Unanswered(NextScenario(loc))
           \/ Refused /\ ReturnError
    BY <1>7 DEF Advance, RequeueAfter, ReturnError
  <2>2. QED
    BY <2>1, WriteRemembers
<1>8. CASE RemoveFinalizer \/ AddFinalizer \/ ClearHalt \/ Start
  BY <1>8, UpdateRemembers DEF RemoveFinalizer, AddFinalizer, ClearHalt, Start
<1>9. CASE Complete \/ RecordInject \/ FailExperiment \/ Recover
  BY <1>9, UpdateRemembers DEF Complete, RecordInject, FailExperiment, Recover
<1>10. QED
  BY <1>1, <1>2, <1>3, <1>4, <1>5, <1>6, <1>7, <1>8, <1>9 DEF Reconcile

\* The last version delivered is the stored one.
LEMMA DeliverInFlight ==
  ASSUME Remembered, Deliver
  PROVE  InFlight'
<1>1. PICK v \in watch : /\ \A w \in watch : v.rv <= w.rv
                         /\ cache' = v /\ watch' = watch \ {v} /\ exp' = exp
  BY DEF Deliver
<1>2. exp \in watch
  BY <1>1 DEF Remembered, InFlight
<1>3. CASE v # exp
  BY <1>1, <1>2, <1>3 DEF InFlight
<1>4. CASE v = exp
  <2>1. ASSUME NEW w \in watch PROVE w = exp
    <3>1. w.rv <= exp.rv /\ (w.rv = exp.rv => w = exp)
      BY <2>1 DEF Remembered, Inductive, Coherent, Past
    <3>2. exp.rv <= w.rv
      BY <1>1, <1>4
    <3>3. w.rv \in Nat /\ exp.rv \in Nat
      BY DEF Remembered, Inductive, TypeOK, Experiment
    <3>4. QED
      BY <3>1, <3>2, <3>3
  <2>2. watch' = {} /\ cache' = exp'
    BY <1>1, <1>4, <2>1
  <2>3. QED
    BY <2>2 DEF InFlight
<1>5. QED
  BY <1>3, <1>4

\* One second later nothing is forgotten.
LEMMA TickRemembers ==
  ASSUME Remembered, Tick
  PROVE  Kept'
<1>1. /\ exp' = Aged(exp) /\ cache' = Aged(cache) /\ loc' = Aged(loc)
      /\ watch' = {Aged(v) : v \in watch} /\ pc' = pc /\ queued' = queued
      /\ timer' = IF timer \in {None, 0} THEN timer ELSE timer - 1
  BY DEF Tick
<1>2. InFlight'
  BY <1>1 DEF Remembered, InFlight
<1>3. ReadIsCurrent'
  BY <1>1 DEF Remembered, ReadIsCurrent
<1>4. timer # None => timer' # None
  <2>1. timer \in Nat \cup {None} /\ None \notin Int
    BY NoneAssumption DEF Remembered, Inductive, TypeOK
  <2>2. QED
    BY <1>1, <2>1
<1>5. Settled(exp) => Settled(exp')
  <2>1. exp \in Experiment
    BY DEF Remembered, Inductive, TypeOK
  <2>2. /\ exp'.present = exp.present /\ exp'.deleting = exp.deleting
        /\ exp'.finalizer = exp.finalizer /\ exp'.halt = exp.halt
        /\ exp'.phase = exp.phase
    BY <1>1, <2>1 DEF Aged, Experiment
  <2>3. QED
    BY <2>2 DEF Settled, Live
<1>6. watch # {} => watch' # {}
  BY <1>1
<1>7. NeverForgotten'
  BY <1>1, <1>4, <1>5, <1>6 DEF Remembered, NeverForgotten
<1>8. QED
  BY <1>2, <1>3, <1>7 DEF Kept

\* The informer, the timer, the clock and the other actors forget nothing.
LEMMA OutsideRemembers ==
  ASSUME Remembered, Deliver \/ TimerFires \/ Tick \/ Environment
  PROVE  Kept'
<1>1. CASE Deliver
  BY <1>1, DeliverInFlight DEF Deliver, Kept, ReadIsCurrent, NeverForgotten
<1>2. CASE TimerFires
  <2>1. UNCHANGED objects /\ queued'
    BY <1>2 DEF TimerFires
  <2>2. QED
    BY <2>1 DEF Remembered, InFlight, objects, Kept, ReadIsCurrent, NeverForgotten
<1>3. ASSUME NEW o, Commit(o), UNCHANGED worker, UNCHANGED queue
      PROVE  Kept'
  <2>1. exp' \in watch' /\ cache' = cache /\ UNCHANGED <<pc, loc, queued>>
    BY <1>3 DEF Commit, worker, queue
  <2>2. QED
    BY <2>1 DEF Remembered, InFlight, Kept, ReadIsCurrent, NeverForgotten
<1>4. CASE \E r \in Reasons : WatcherHalt(r)
  BY <1>3, <1>4 DEF WatcherHalt
<1>5. CASE \E s \in Specs : UserEdit(s)
  BY <1>3, <1>5 DEF UserEdit
<1>6. CASE UserDelete
  BY <1>3, <1>6 DEF UserDelete
<1>7. CASE Crash
  <2>1. watch' = {} /\ cache' = exp' /\ queued'
    BY <1>7 DEF Crash
  <2>2. QED
    BY <2>1 DEF InFlight, Kept, ReadIsCurrent, NeverForgotten
<1>8. QED
  BY <1>1, <1>2, <1>4, <1>5, <1>6, <1>7, TickRemembers DEF Environment

\* It holds initially, and every step keeps it.
LEMMA RememberedInductive == /\ Init => Remembered
                             /\ Remembered /\ [Next]_vars => Remembered'
<1>1. Init => Remembered
  BY InitInductive DEF Init, Remembered, InFlight, ReadIsCurrent, NeverForgotten
<1>2. ASSUME Remembered, [Next]_vars PROVE Remembered'
  <2>1. Inductive'
    BY <1>2, NextInductive DEF Remembered
  <2>2. CASE UNCHANGED vars
    <3>1. UNCHANGED <<exp, cache, watch, pc, loc, queued, timer>>
      BY <2>2 DEF vars, objects, worker, queue
    <3>2. Kept'
      BY <1>2, <3>1 DEF Remembered, Kept, InFlight, ReadIsCurrent, NeverForgotten
    <3>3. QED
      BY <2>1, <3>2 DEF Kept, Remembered
  <2>3. QED
    BY <1>2, <2>1, <2>2, ReconcileRemembers, OutsideRemembers DEF Next, Kept, Remembered
<1>3. QED
  BY <1>1, <1>2

\* An experiment that is not settled is always in a worker's hands, in the
\* queue, or about to be queued, whatever the durations and pauses, zero
\* included, and whatever is refused, lost or restarted.
THEOREM AlwaysRemembered == Spec => []NeverForgotten
<1>1. Remembered => NeverForgotten
  BY DEF Remembered
<1>2. Spec => []Remembered
  BY RememberedInductive, PTL DEF Spec
<1>3. QED
  BY <1>1, <1>2, PTL

=============================================================================
