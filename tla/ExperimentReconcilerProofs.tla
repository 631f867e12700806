--------------------- MODULE ExperimentReconcilerProofs ---------------------
(***************************************************************************)
(* Theorems about ExperimentReconciler, for every spec an experiment is    *)
(* created with or changed to, and every bound on crashes, failed          *)
(* requests, halts, edits and deletions.                                   *)
(***************************************************************************)
EXTENDS ExperimentReconciler, TLAPS

-----------------------------------------------------------------------------
(* Types of the pieces.                                                    *)

\* The zero value and a created object are experiments.
LEMMA CreatedType == Created \in Experiment /\ Blank \in Experiment
<1>1. 0 \in 0..N
  BY SpecAssumption
<1>2. Created \in Experiment
  BY <1>1, SpecAssumption DEF Created, Experiment, Phases
<1>3. Blank \in Experiment
  BY <1>2 DEF Blank, Experiment
<1>4. QED
  BY <1>2, <1>3

\* A copy in a scenario is in one of the list.
LEMMA InScenarioType ==
  ASSUME NEW o \in Experiment, InScenario(o)
  PROVE  /\ o.index \in Index
         /\ o.spec.duration[o.index] \in Age
         /\ o.spec.count[o.index] \in Nat \ {0}
<1>1. o.index \in 0..N /\ o.spec \in ExperimentSpec /\ o.index < o.spec.len
  BY DEF InScenario, Experiment
<1>2. o.spec.len \in 1..N /\ N \in Nat
  BY <1>1, SpecAssumption DEF ExperimentSpec
<1>3. o.index \in Index
  BY <1>1, <1>2 DEF Index
<1>4. QED
  BY <1>1, <1>3 DEF ExperimentSpec

\* A committed version is an experiment, and the informer's copy stays.
LEMMA CommitType ==
  ASSUME TypeOK, NEW o \in Experiment, Commit(o)
  PROVE  exp' \in Experiment /\ watch' \subseteq Experiment /\ cache' = cache
<1>1. exp' \in Experiment
  BY DEF Commit, TypeOK, Experiment
<1>2. QED
  BY <1>1 DEF Commit, TypeOK

\* A write, accepted or not, keeps the types of what it touches.
LEMMA WriteType ==
  ASSUME TypeOK, NEW o \in Experiment,
         Accepted(o) \/ Errs(o) \/ Unanswered(o) \/ Refused
  PROVE  /\ exp' \in Experiment /\ watch' \subseteq Experiment
         /\ cache' = cache
         /\ errors' \in 0..MaxErrors
<1>1. CASE Accepted(o)
  BY <1>1, CommitType DEF Accepted, TypeOK
<1>2. CASE Unanswered(o)
  BY <1>2, CommitType, BoundAssumption DEF Unanswered, TypeOK
<1>3. CASE Refused
  BY <1>3, BoundAssumption DEF Refused, objects, TypeOK
<1>4. QED
  BY <1>1, <1>2, <1>3 DEF Errs

\* Every way a call returns leaves an idle worker and a well-formed queue.
LEMMA ReturnType ==
  ASSUME TypeOK, NEW d \in Nat, Return \/ RequeueAfter(d) \/ ReturnError
  PROVE  /\ pc' = "idle" /\ loc' = Blank
         /\ queued' \in BOOLEAN /\ timer' \in Nat \cup {None}
<1>1. CASE Return
  BY <1>1 DEF Return, queue, TypeOK
<1>2. CASE RequeueAfter(d)
  BY <1>2 DEF RequeueAfter, TypeOK
<1>3. CASE ReturnError
  BY <1>3 DEF ReturnError, TypeOK
<1>4. QED
  BY <1>1, <1>2, <1>3

\* One second later a copy is still an experiment, and only its age moved.
LEMMA AgedType ==
  ASSUME NEW o \in Experiment
  PROVE  /\ Aged(o) \in Experiment
         /\ Aged(o) = [o EXCEPT !.injectedAt = Older(o.injectedAt)]
         /\ Older(o.injectedAt) = None <=> o.injectedAt = None
<1>1. /\ Older(o.injectedAt) \in Age \cup {None}
      /\ Older(o.injectedAt) = None <=> o.injectedAt = None
  BY TimeAssumption, NoneAssumption DEF Older, Age, Experiment
<1>2. QED
  BY <1>1 DEF Aged, Experiment

\* The poll delay is a natural number while the scenario runs.
LEMMA PollDelayType ==
  ASSUME NEW o \in Experiment, WithinDuration(o)
  PROVE  PollDelay(o) \in Nat
<1>1. o.injectedAt \in Nat
  BY TimeAssumption DEF WithinDuration, Experiment, Age
<1>2. o.spec.duration[o.index] \in Nat /\ ~(o.injectedAt >= o.spec.duration[o.index])
  BY InScenarioType, TimeAssumption DEF WithinDuration, Elapsed, Age
<1>3. QED
  BY <1>1, <1>2, TimeAssumption DEF PollDelay

\* The mean recovery time of non-negative recovery times is non-negative.
LEMMA NextScenarioType ==
  ASSUME NEW o \in Experiment, PastDuration(o)
  PROVE  NextScenario(o) \in Experiment
<1>1. o.index \in Nat /\ o.index + 1 \in 0..N
  BY InScenarioType, SpecAssumption DEF PastDuration, Index
<1>2. ASSUME o.recoveredAt # None
      PROVE  MeanRecovery(o.meanRecovery, o.index, o.recoveredAt) \in Nat
  <2>1. o.recoveredAt \in Nat /\ o.recoveredAt * Scale \in Nat
    BY <1>2, TimeAssumption DEF Experiment, Age
  <2>2. ASSUME o.meanRecovery # None
        PROVE  (o.meanRecovery * o.index + o.recoveredAt * Scale) \div (o.index + 1) \in Nat
    <3>1. o.meanRecovery \in Nat
      BY <2>2 DEF Experiment
    <3>2. o.meanRecovery * o.index + o.recoveredAt * Scale \in Nat
      BY <1>1, <2>1, <3>1
    <3>3. QED
      BY <1>1, <3>2
  <2>3. QED
    BY <2>1, <2>2 DEF MeanRecovery
<1>3. QED
  BY <1>1, <1>2 DEF NextScenario, Experiment

-----------------------------------------------------------------------------
(* Type correctness.                                                       *)

\* The part of TypeOK the writes and returns touch, and the rest.
StateOK ==
  /\ exp \in Experiment /\ cache \in Experiment /\ loc \in Experiment
  /\ watch \subseteq Experiment
  /\ pc \in Stages
  /\ queued \in BOOLEAN
  /\ timer \in Nat \cup {None}
  /\ errors \in 0..MaxErrors

HistoryOK ==
  /\ faults \subseteq Index \X Targets
  /\ lost \subseteq Losses
  /\ deleted \in 0..MaxDeleted
  /\ sinceAdvance \in Age \cup {None}
  /\ recoveries \in [Index -> Age \cup {None}]
  /\ haltedTotal \in Nat /\ finishedTotal \in Nat
  /\ halts \in 0..MaxHalts /\ crashes \in 0..MaxCrashes
  /\ edits \in 0..MaxEdits

\* TypeOK splits into its two parts.
LEMMA TypeParts == /\ TypeOK <=> StateOK /\ HistoryOK
                   /\ TypeOK' <=> StateOK' /\ HistoryOK'
BY DEF TypeOK, StateOK, HistoryOK

\* A write followed by a return keeps the types.
LEMMA WriteReturnType ==
  ASSUME TypeOK, NEW o \in Experiment, NEW d \in Nat,
         Accepted(o) \/ Errs(o) \/ Unanswered(o) \/ Refused,
         Return \/ RequeueAfter(d) \/ ReturnError
  PROVE  StateOK'
BY WriteType, ReturnType, CreatedType DEF StateOK, TypeOK, Stages

\* The same for the two shapes in which a call ends with a write.
LEMMA UpdateType ==
  ASSUME TypeOK, NEW o \in Experiment, NEW d \in Nat,
         UpdateAndRequeue(o, d) \/ UpdateAndReturn(o) \/ Finish(o)
  PROVE  StateOK'
<1>1. Accepted(o) \/ Errs(o)
  BY DEF UpdateAndRequeue, UpdateAndReturn, Finish
<1>2. Return \/ RequeueAfter(d) \/ ReturnError
  BY DEF UpdateAndRequeue, UpdateAndReturn, Finish
<1>3. QED
  BY <1>1, <1>2, WriteReturnType

\* Reverting only removes faults.
LEMMA RevertSubset ==
  ASSUME NEW o
  PROVE  RevertIfActive(o) \subseteq faults /\ Revert(o) \subseteq faults
BY DEF RevertIfActive, Revert

\* An injection hits one of the scenarios of the experiment.
LEMMA HitType ==
  ASSUME TypeOK, WouldInject(loc), Hit(loc)
  PROVE  faults' \subseteq Index \X Targets /\ deleted' \in 0..MaxDeleted
<1>1. loc \in Experiment /\ InScenario(loc)
  BY DEF TypeOK, WouldInject
<1>2. loc.index \in Index /\ loc.spec.count[loc.index] \in Nat
  BY <1>1, InScenarioType
<1>3. loc.spec.target \in Targets
  BY <1>1 DEF Hit, Experiment, ExperimentSpec
<1>4. Current(loc) \in Index \X Targets
  BY <1>2, <1>3 DEF Current
<1>5. PICK d \in 1..loc.spec.count[loc.index] :
        deleted' = IF deleted + d < MaxDeleted THEN deleted + d ELSE MaxDeleted
  BY DEF Hit
<1>6. deleted' \in 0..MaxDeleted
  <2>1. d \in Nat /\ deleted \in Nat /\ MaxDeleted \in Nat
    BY <1>2, <1>5, BoundAssumption DEF TypeOK
  <2>2. QED
    BY <1>5, <2>1
<1>7. QED
  BY <1>4, <1>6 DEF TypeOK, Hit

\* A step of Reconcile keeps the types.
LEMMA ReconcileType ==
  ASSUME TypeOK, Reconcile
  PROVE  TypeOK'
<1> USE DEF history, budget, objects, queue, worker
<1>1. CASE Get
  BY <1>1 DEF Get, TypeOK, Stages
<1>2. CASE NothingToDo
  <2>1. StateOK'
    BY <1>2, ReturnType, CreatedType DEF NothingToDo, StateOK, TypeOK, Stages
  <2>2. QED
    BY <1>2, <2>1, TypeParts DEF NothingToDo, HistoryOK
<1>3. CASE RemoveFinalizer
  <2>1. Deleted([loc EXCEPT !.finalizer = FALSE]) \in Experiment
    <3>1. loc \in Experiment
      BY DEF TypeOK
    <3>2. QED
      BY <3>1 DEF Deleted, Experiment
  <2>2. StateOK'
    BY <1>3, <2>1, UpdateType, 0 \in Nat DEF RemoveFinalizer
  <2>3. HistoryOK'
    BY <1>3, RevertSubset, TypeParts DEF RemoveFinalizer, HistoryOK
  <2>4. QED
    BY <2>2, <2>3, TypeParts
<1>4. CASE AddFinalizer
  <2>1. [loc EXCEPT !.finalizer = TRUE] \in Experiment
    BY DEF TypeOK, Experiment
  <2>2. StateOK'
    BY <1>4, <2>1, UpdateType, TimeAssumption DEF AddFinalizer
  <2>3. QED
    BY <1>4, <2>2, TypeParts DEF AddFinalizer, HistoryOK
<1>5. CASE Halt
  <2>1. Halted(loc) \in Experiment
    BY DEF TypeOK, Halted, Experiment, Phases
  <2>2. StateOK'
    <3>1. CASE Accepted(Halted(loc)) /\ loc' = exp' /\ pc' = "halted" /\ UNCHANGED queue
      BY <3>1, <2>1, WriteType DEF StateOK, TypeOK, Stages
    <3>2. CASE Errs(Halted(loc)) /\ ReturnError
      BY <3>2, <2>1, WriteReturnType, 0 \in Nat
    <3>3. QED
      BY <1>5, <3>1, <3>2 DEF Halt
  <2>3. HistoryOK'
    BY <1>5, RevertSubset, TypeParts DEF Halt, HistoryOK
  <2>4. QED
    BY <2>2, <2>3, TypeParts
<1>6. CASE ClearHalt
  <2>1. [loc EXCEPT !.halt = None] \in Experiment
    BY DEF TypeOK, Experiment
  <2>2. StateOK'
    BY <1>6, <2>1, UpdateType, 0 \in Nat DEF ClearHalt
  <2>3. QED
    BY <1>6, <2>2, TypeParts DEF ClearHalt, HistoryOK
<1>7. CASE Start
  <2>1. [loc EXCEPT !.phase = "Running"] \in Experiment
    BY DEF TypeOK, Experiment, Phases
  <2>2. StateOK'
    BY <1>7, <2>1, UpdateType, TimeAssumption DEF Start
  <2>3. QED
    BY <1>7, <2>2, TypeParts DEF Start, HistoryOK
<1>8. CASE Complete
  <2>1. [loc EXCEPT !.phase = "Completed"] \in Experiment
    BY DEF TypeOK, Experiment, Phases
  <2>2. StateOK'
    BY <1>8, <2>1, UpdateType, 0 \in Nat DEF Complete
  <2>3. HistoryOK'
    BY <1>8, TypeParts DEF Complete, Finish, HistoryOK
  <2>4. QED
    BY <2>2, <2>3, TypeParts
<1>9. CASE Inject
  <2>1. faults' \subseteq Index \X Targets /\ deleted' \in 0..MaxDeleted
    BY <1>9, HitType DEF Inject
  <2>2. loc' \in Experiment
    <3>1. loc.podsKilled + loc.spec.count[loc.index] \in Nat
      BY <1>9, InScenarioType DEF Inject, WouldInject, TypeOK, Experiment
    <3>2. 0 \in Age
      BY TimeAssumption DEF Age
    <3>3. QED
      BY <1>9, <3>1, <3>2 DEF Inject, TypeOK, Experiment
  <2>3. QED
    BY <1>9, <2>1, <2>2 DEF Inject, TypeOK, Stages
<1>10. CASE InjectFails
  <2>1. faults' \subseteq Index \X Targets /\ deleted' \in 0..MaxDeleted
    BY <1>10, HitType DEF InjectFails, TypeOK
  <2>2. QED
    BY <1>10, <2>1 DEF InjectFails, TypeOK, Stages
<1>11. CASE RecordInject
  <2>1. StateOK'
    BY <1>11, UpdateType, TimeAssumption DEF RecordInject, TypeOK
  <2>2. QED
    BY <1>11, <2>1, TypeParts DEF RecordInject, HistoryOK
<1>12. CASE FailExperiment
  <2>1. [loc EXCEPT !.phase = "Failed"] \in Experiment
    BY DEF TypeOK, Experiment, Phases
  <2>2. StateOK'
    BY <1>12, <2>1, UpdateType, 0 \in Nat DEF FailExperiment
  <2>3. HistoryOK'
    BY <1>12, TypeParts DEF FailExperiment, Finish, HistoryOK
  <2>4. QED
    BY <2>2, <2>3, TypeParts
<1>13. CASE Recover
  <2>1. [loc EXCEPT !.recoveredAt = loc.injectedAt] \in Experiment
    BY DEF TypeOK, Experiment
  <2>2. PollDelay(loc) \in Nat
    BY <1>13, PollDelayType DEF Recover, TypeOK
  <2>3. StateOK'
    BY <1>13, <2>1, <2>2, UpdateType DEF Recover
  <2>4. QED
    BY <1>13, <2>3, TypeParts DEF Recover, HistoryOK
<1>14. CASE Poll
  <2>1. PollDelay(loc) \in Nat
    BY <1>14, PollDelayType DEF Poll, TypeOK
  <2>2. StateOK'
    BY <1>14, <2>1, ReturnType, CreatedType DEF Poll, StateOK, TypeOK, Stages
  <2>3. QED
    BY <1>14, <2>2, TypeParts DEF Poll, HistoryOK
<1>15. CASE ProbeFails
  <2>1. StateOK'
    BY <1>15, ReturnType, 0 \in Nat, CreatedType DEF ProbeFails, StateOK, TypeOK, Stages
  <2>2. QED
    BY <1>15, <2>1, TypeParts DEF ProbeFails, HistoryOK
<1>16. CASE Advance
  <2>1. NextScenario(loc) \in Experiment
    BY <1>16, NextScenarioType DEF Advance, TypeOK
  <2>2. StateOK'
    <3>1. loc.spec.pause \in Nat
      BY TimeAssumption DEF TypeOK, Experiment, ExperimentSpec, Age
    <3>2. QED
      BY <1>16, <2>1, <3>1, WriteReturnType DEF Advance
  <2>3. sinceAdvance' \in Age \cup {None} /\ recoveries' \in [Index -> Age \cup {None}]
    BY <1>16, TimeAssumption DEF Advance, Contribute, TypeOK, Experiment, Age
  <2>4. HistoryOK'
    BY <1>16, <2>3, RevertSubset, TypeParts DEF Advance, HistoryOK
  <2>5. QED
    BY <2>2, <2>4, TypeParts
<1>17. QED
  BY <1>1, <1>2, <1>3, <1>4, <1>5, <1>6, <1>7, <1>8, <1>9, <1>10, <1>11, <1>12,
     <1>13, <1>14, <1>15, <1>16 DEF Reconcile

\* The informer, the timer, the clock and the other actors keep the types.
LEMMA OutsideType ==
  ASSUME TypeOK, Deliver \/ TimerFires \/ Tick \/ Environment
  PROVE  TypeOK'
<1> USE DEF history, budget, objects, queue, worker
<1>1. CASE Deliver
  BY <1>1 DEF Deliver, TypeOK
<1>2. CASE TimerFires
  BY <1>2 DEF TimerFires, TypeOK
<1>3. CASE Tick
  <2>1. exp' \in Experiment /\ cache' \in Experiment /\ loc' \in Experiment
    BY <1>3, AgedType DEF Tick, TypeOK
  <2>2. watch' \subseteq Experiment
    BY <1>3, AgedType DEF Tick, TypeOK
  <2>3. timer' \in Nat \cup {None}
    BY <1>3 DEF Tick, TypeOK
  <2>4. sinceAdvance' \in Age \cup {None}
    BY <1>3, TimeAssumption, NoneAssumption DEF Tick, TypeOK, Older, Age
  <2>5. QED
    BY <1>3, <2>1, <2>2, <2>3, <2>4 DEF Tick, TypeOK
<1>4. ASSUME NEW r \in Reasons, WatcherHalt(r)
      PROVE  TypeOK'
  <2>1. [exp EXCEPT !.halt = r] \in Experiment
    BY DEF TypeOK, Experiment
  <2>2. halts' \in 0..MaxHalts
    BY <1>4, BoundAssumption DEF WatcherHalt, TypeOK
  <2>3. QED
    BY <1>4, <2>1, <2>2, CommitType DEF WatcherHalt, TypeOK
<1>5. ASSUME NEW s \in Specs, UserEdit(s)
      PROVE  TypeOK'
  <2>1. [exp EXCEPT !.spec = s] \in Experiment
    BY SpecAssumption DEF TypeOK, Experiment
  <2>2. edits' \in 0..MaxEdits
    BY <1>5, BoundAssumption DEF UserEdit, TypeOK
  <2>3. lost' \subseteq Losses
    BY <1>5 DEF UserEdit, TypeOK, Losses
  <2>4. QED
    BY <1>5, <2>1, <2>2, <2>3, CommitType DEF UserEdit, TypeOK
<1>6. CASE UserDelete
  <2>1. Deleted(exp) \in Experiment
    BY DEF TypeOK, Deleted, Experiment
  <2>2. QED
    BY <1>6, <2>1, CommitType DEF UserDelete, TypeOK
<1>7. CASE Crash
  <2>1. crashes' \in 0..MaxCrashes
    BY <1>7, BoundAssumption DEF Crash, TypeOK
  <2>2. QED
    BY <1>7, <2>1, CreatedType DEF Crash, TypeOK, Stages
<1>8. QED
  BY <1>1, <1>2, <1>3, <1>4, <1>5, <1>6, <1>7 DEF Environment

\* The initial state is well typed.
LEMMA InitType == Init => TypeOK
<1> SUFFICES ASSUME Init PROVE TypeOK
  OBVIOUS
<1>1. StateOK
  BY CreatedType, BoundAssumption DEF Init, StateOK, Stages
<1>2. HistoryOK
  BY BoundAssumption DEF Init, HistoryOK
<1>3. QED
  BY <1>1, <1>2, TypeParts

\* Every step keeps the types.
LEMMA NextType == TypeOK /\ [Next]_vars => TypeOK'
<1>1. ASSUME TypeOK, UNCHANGED vars
      PROVE  TypeOK'
  BY <1>1 DEF TypeOK, vars, objects, worker, queue, history, budget
<1>2. QED
  BY <1>1, ReconcileType, OutsideType DEF Next

\* The reconciler keeps every copy of the object, its queue entry and the
\* history well typed: poll delays are never negative, the index never passes
\* the number of scenarios, the mean recovery time is never negative.
THEOREM TypeCorrect == Spec => []TypeOK
BY InitType, NextType, PTL DEF Spec

-----------------------------------------------------------------------------
(* Coherence of the copies.                                                *)

\* What Coherent says of the informer, and of the worker's copy.
InformerCoherent ==
  /\ Past(cache)
  /\ \A v \in watch : Past(v) /\ cache.rv < v.rv
  /\ \A v, w \in watch : v.rv = w.rv => v = w

WorkerCoherent ==
  /\ pc \in {"read", "injectFailed", "halted"} => Past(loc)
  /\ pc \in {"read", "injected", "injectFailed"} => loc.rv <= cache.rv
  /\ pc = "injected" =>
       /\ loc.injectedAt # None
       /\ loc.rv = exp.rv =>
            /\ WouldInject(exp)
            /\ loc = [exp EXCEPT !.injectedAt = loc.injectedAt,
                                 !.podsKilled = loc.podsKilled]
  /\ pc = "injectFailed" => WouldInject(loc)
  /\ pc = "halted" => loc.phase = "Halted"

\* Coherent splits into its two parts.
LEMMA CoherentParts ==
  /\ Coherent <=> InformerCoherent /\ WorkerCoherent
  /\ Coherent' <=> InformerCoherent' /\ WorkerCoherent'
BY DEF Coherent, InformerCoherent, WorkerCoherent

\* A commit makes every earlier version a past one.
LEMMA CommitCoherent ==
  ASSUME TypeOK, InformerCoherent, NEW o \in Experiment, Commit(o)
  PROVE  /\ InformerCoherent'
         /\ exp'.rv = exp.rv + 1
<1>1. exp'.rv = exp.rv + 1 /\ cache' = cache /\ watch' = watch \cup {exp'}
  BY DEF Commit, TypeOK, Experiment
<1>2. exp.rv \in Nat /\ cache.rv \in Nat /\ \A v \in watch : v.rv \in Nat
  BY DEF TypeOK, Experiment
<1>3. QED
  BY <1>1, <1>2 DEF InformerCoherent, Past

\* A write either commits from the version it was read at, or changes nothing.
LEMMA WriteCases ==
  ASSUME NEW o, Accepted(o) \/ Errs(o) \/ Unanswered(o) \/ Refused
  PROVE  \/ Commit(o) /\ loc.rv = exp.rv
         \/ UNCHANGED objects
BY DEF Accepted, Errs, Unanswered, Refused

\* At an accepted write computed in this call the informer is up to date.
LEMMA Synced ==
  ASSUME TypeOK, Coherent, pc \in {"read", "injected", "injectFailed"},
         loc.rv = exp.rv
  PROVE  cache = exp /\ watch = {}
<1>1. exp.rv \in Nat /\ cache.rv \in Nat /\ \A v \in watch : v.rv \in Nat
  BY DEF TypeOK, Experiment
<1>2. cache.rv = exp.rv
  BY <1>1 DEF Coherent, Past
<1>3. QED
  BY <1>1, <1>2 DEF Coherent, Past

\* A write that ends the call keeps the copies coherent.
LEMMA WriteCoherent ==
  ASSUME TypeOK, Coherent, NEW o \in Experiment,
         Accepted(o) \/ Errs(o) \/ Unanswered(o) \/ Refused,
         pc' = "idle"
  PROVE  Coherent'
<1>1. InformerCoherent'
  BY WriteCases, CommitCoherent, CoherentParts
  DEF objects, InformerCoherent, Past
<1>2. WorkerCoherent'
  BY DEF WorkerCoherent
<1>3. QED
  BY <1>1, <1>2, CoherentParts

\* A write from outside keeps the copies coherent.
LEMMA OutsideWriteCoherent ==
  ASSUME TypeOK, Coherent, NEW o \in Experiment, Commit(o), UNCHANGED worker
  PROVE  Coherent'
<1>1. InformerCoherent' /\ exp'.rv = exp.rv + 1
  BY CommitCoherent, CoherentParts
<1>2. exp.rv \in Nat /\ loc.rv \in Nat /\ cache.rv \in Nat
  BY DEF TypeOK, Experiment
<1>3. cache' = cache /\ pc' = pc /\ loc' = loc
  BY DEF Commit, worker
<1>4. pc # "idle" => loc.rv <= exp.rv
  BY <1>2 DEF Coherent, Past, TypeOK, Stages
<1>5. pc # "idle" => loc'.rv < exp'.rv
  BY <1>1, <1>2, <1>3, <1>4
<1>6. WorkerCoherent'
  BY <1>1, <1>2, <1>3, <1>5, CoherentParts DEF WorkerCoherent, Past, WouldInject, InScenario, Running, Live
<1>7. QED
  BY <1>1, <1>6, CoherentParts

\* One second later the copies are still coherent.
LEMMA TickCoherent ==
  ASSUME TypeOK, Coherent, Tick
  PROVE  Coherent'
<1>1. /\ exp' = Aged(exp) /\ cache' = Aged(cache) /\ loc' = Aged(loc)
      /\ watch' = {Aged(v) : v \in watch} /\ pc' = pc
  BY DEF Tick
<1>2. \A v \in Experiment :
        /\ Aged(v).rv = v.rv /\ Aged(v).phase = v.phase
        /\ Aged(v).injectedAt = None <=> v.injectedAt = None
        /\ WouldInject(v) => WouldInject(Aged(v))
  BY AgedType DEF Experiment, WouldInject, InScenario, Running, Live
<1>3. InformerCoherent'
  BY <1>1, <1>2, CoherentParts DEF InformerCoherent, Past, TypeOK
<1>4. WorkerCoherent'
  <2>1. pc = "injected" /\ loc.rv = exp.rv =>
          loc' = [exp' EXCEPT !.injectedAt = loc'.injectedAt,
                              !.podsKilled = loc'.podsKilled]
    <3> SUFFICES ASSUME pc = "injected", loc.rv = exp.rv
                 PROVE  loc' = [exp' EXCEPT !.injectedAt = loc'.injectedAt,
                                            !.podsKilled = loc'.podsKilled]
      OBVIOUS
    <3>1. loc = [exp EXCEPT !.injectedAt = loc.injectedAt, !.podsKilled = loc.podsKilled]
      BY DEF Coherent
    <3>2. /\ exp' = [exp EXCEPT !.injectedAt = Older(exp.injectedAt)]
          /\ loc' = [loc EXCEPT !.injectedAt = Older(loc.injectedAt)]
      BY <1>1, AgedType DEF TypeOK
    <3>3. /\ loc'.injectedAt = Older(loc.injectedAt)
          /\ loc'.podsKilled = loc.podsKilled
      BY <3>2 DEF TypeOK, Experiment
    <3>4. QED
      BY <3>1, <3>2, <3>3 DEF TypeOK, Experiment
  <2>2. QED
    BY <1>1, <1>2, <2>1, CoherentParts DEF WorkerCoherent, Past, TypeOK
<1>5. QED
  BY <1>3, <1>4, CoherentParts
-----------------------------------------------------------------------------
(* What the copies know, the faults and the counters.                      *)

\* An accepted write overwrites the object the worker's copy was taken from.
LEMMA AtWrite ==
  ASSUME TypeOK, Coherent, pc # "idle", loc.rv = exp.rv
  PROVE  /\ pc # "injected" => loc = exp
         /\ loc.index = exp.index /\ loc.phase = exp.phase /\ loc.halt = exp.halt
         /\ loc.present = exp.present /\ loc.spec = exp.spec
         /\ loc.haltReason = exp.haltReason
<1>1. pc # "injected" => loc = exp
  BY DEF Coherent, Past, TypeOK, Stages
<1>2. pc = "injected" => loc = [exp EXCEPT !.injectedAt = loc.injectedAt,
                                           !.podsKilled = loc.podsKilled]
  BY DEF Coherent
<1>3. QED
  BY <1>1, <1>2 DEF TypeOK, Experiment

\* A commit that keeps the target and the index, and that halts only what
\* every copy knows to be halted or asked to halt, keeps what the copies know.
LEMMA CommitKnown ==
  ASSUME TypeOK, HaltKnown, IndexKnown, TargetKnown, NEW o \in Experiment, Commit(o),
         Copies' \subseteq Copies \cup {exp'}, lost \subseteq lost',
         o.spec.target = exp.spec.target \/ "target" \in lost',
         o.phase = "Halted" =>
           exp.phase = "Halted" \/ \A v \in Copies : v.halt # None,
         \/ o.index = exp.index
         \/ /\ o.index = exp.index + 1
            /\ \A v \in Copies : v.index = exp.index /\ v.injectedAt # None
  PROVE  HaltKnown' /\ IndexKnown' /\ TargetKnown'
<1>1. exp'.phase = o.phase /\ exp'.index = o.index /\ exp'.spec = o.spec
  BY DEF Commit, Experiment
<1>2. HaltKnown'
  BY <1>1 DEF HaltKnown
<1>3. IndexKnown'
  BY <1>1 DEF IndexKnown, TypeOK, Experiment
<1>4. TargetKnown'
  BY <1>1 DEF TargetKnown
<1>5. QED
  BY <1>2, <1>3, <1>4

\* A write that ends the call and keeps the index keeps the invariant but for
\* the counters.
LEMMA EndingWrite ==
  ASSUME Inductive, NEW o \in Experiment, pc # "idle",
         Accepted(o) \/ Errs(o) \/ Unanswered(o) \/ Refused,
         pc' = "idle", faults' \subseteq faults, lost' = lost,
         loc.rv = exp.rv =>
           /\ o.index = loc.index /\ o.spec = loc.spec
           /\ o.phase = "Halted" =>
                loc.phase = "Halted" \/ \A v \in Copies : v.halt # None
  PROVE  Coherent' /\ HaltKnown' /\ IndexKnown' /\ TargetKnown' /\ OnlyCurrentFault'
<1>1. Coherent'
  BY WriteCoherent DEF Inductive
<1>2. CASE Commit(o) /\ loc.rv = exp.rv
  <2>1. loc.index = exp.index /\ loc.phase = exp.phase /\ loc.spec = exp.spec
    BY <1>2, AtWrite DEF Inductive
  <2>2. Copies' \subseteq Copies \cup {exp'}
    BY <1>2 DEF Copies, Commit
  <2>3. HaltKnown' /\ IndexKnown' /\ TargetKnown'
    BY <1>2, <2>1, <2>2, CommitKnown DEF Inductive
  <2>4. exp'.index = exp.index /\ exp'.spec = exp.spec
    BY <1>2, <2>1 DEF Commit, Experiment
  <2>5. QED
    BY <1>1, <2>3, <2>4 DEF Inductive, OnlyCurrentFault, Current
<1>3. CASE UNCHANGED objects
  <2>1. Copies' \subseteq Copies
    BY <1>3 DEF Copies, objects
  <2>2. QED
    BY <1>1, <1>3, <2>1 DEF objects, Inductive, HaltKnown, IndexKnown, TargetKnown, OnlyCurrentFault, Current
<1>4. QED
  BY <1>2, <1>3, WriteCases

\* The counters after a write that leaves them alone.
LEMMA CountedKept ==
  ASSUME Inductive, NEW o \in Experiment, pc # "idle",
         Accepted(o) \/ Errs(o) \/ Unanswered(o) \/ Refused,
         loc.rv = exp.rv =>
           \/ o.phase = loc.phase
           \/ loc.phase \notin Terminal
           \/ o.phase = "Halted",
         UNCHANGED <<haltedTotal, finishedTotal>>
  PROVE  Counted'
<1>1. CASE Commit(o) /\ loc.rv = exp.rv
  <2>1. loc.phase = exp.phase /\ exp'.phase = o.phase
    BY <1>1, AtWrite DEF Inductive, Commit, Experiment
  <2>2. QED
    BY <1>1, <2>1 DEF Counted, Inductive, Terminal
<1>2. CASE UNCHANGED objects
  BY <1>2 DEF Counted, Inductive, objects
<1>3. QED
  BY <1>1, <1>2, WriteCases

\* The counters after the write that ends a running experiment.
LEMMA FinishCounted ==
  ASSUME Inductive, NEW o \in Experiment, pc # "idle", Finish(o),
         loc.phase = "Running", o.phase \in Terminal, UNCHANGED haltedTotal
  PROVE  Counted'
<1>1. CASE Accepted(o) /\ finishedTotal' = finishedTotal + 1
  <2>1. loc.phase = exp.phase /\ exp'.phase = o.phase
    BY <1>1, AtWrite DEF Inductive, Accepted, Commit, Experiment
  <2>2. QED
    BY <1>1, <2>1 DEF Counted, Inductive, Terminal
<1>2. CASE Errs(o) /\ UNCHANGED finishedTotal
  BY <1>2, CountedKept DEF Terminal
<1>3. QED
  BY <1>1, <1>2 DEF Finish

\* A call that writes nothing and returns.
LEMMA QuietReturn ==
  ASSUME Inductive, UNCHANGED objects, UNCHANGED history, pc' = "idle"
  PROVE  Coherent' /\ HaltKnown' /\ IndexKnown' /\ TargetKnown' /\ OnlyCurrentFault' /\ Counted'
<1>1. InformerCoherent'
  BY CoherentParts DEF objects, InformerCoherent, Past, Inductive
<1>2. WorkerCoherent'
  BY DEF WorkerCoherent
<1>3. Copies' \subseteq Copies
  BY DEF Copies, objects
<1>4. HaltKnown' /\ IndexKnown' /\ TargetKnown'
  BY <1>3 DEF HaltKnown, IndexKnown, TargetKnown, Inductive, objects, history
<1>5. OnlyCurrentFault' /\ Counted'
  BY DEF OnlyCurrentFault, Current, Counted, Inductive, objects, history
<1>6. QED
  BY <1>1, <1>2, <1>4, <1>5, CoherentParts

\* How each action ends the call: an idle worker, on every path.
LEMMA EndsIdle ==
  ASSUME NEW o, NEW d, UpdateAndRequeue(o, d) \/ UpdateAndReturn(o) \/ Finish(o)
  PROVE  pc' = "idle" /\ (Accepted(o) \/ Errs(o))
BY DEF UpdateAndRequeue, UpdateAndReturn, Finish, Return, RequeueAfter, ReturnError

\* The invariant after an injection, complete or partial, of a copy's scenario.
LEMMA HitInductive ==
  ASSUME Inductive, pc = "read", WouldInject(loc), faults' \subseteq faults \cup {Current(loc)},
         UNCHANGED objects, UNCHANGED <<lost, haltedTotal, finishedTotal>>, pc' # "read"
  PROVE  HaltKnown' /\ IndexKnown' /\ TargetKnown' /\ OnlyCurrentFault' /\ Counted'
<1>1. Copies' \subseteq Copies
  BY DEF Copies, objects
<1>2. HaltKnown' /\ IndexKnown' /\ TargetKnown'
  BY <1>1 DEF HaltKnown, IndexKnown, TargetKnown, Inductive, objects
<1>3. loc.index = exp.index
  BY DEF Inductive, IndexKnown, Copies, WouldInject
<1>4. "target" \notin lost => loc.spec.target = exp.spec.target
  BY DEF Inductive, TargetKnown, Copies
<1>5. QED
  BY <1>2, <1>3, <1>4 DEF OnlyCurrentFault, Current, Counted, Inductive, objects

\* A step of Reconcile keeps the invariant.
LEMMA ReconcileInductive ==
  ASSUME Inductive, Reconcile
  PROVE  Coherent' /\ HaltKnown' /\ IndexKnown' /\ TargetKnown' /\ OnlyCurrentFault' /\ Counted'
<1> USE DEF history, budget
<1>t. TypeOK /\ loc \in Experiment
  BY DEF Inductive, TypeOK
<1>1. CASE Get
  <2>1. pc' = "read" /\ loc' = cache /\ UNCHANGED objects
    BY <1>1 DEF Get
  <2>2. InformerCoherent'
    BY <2>1, CoherentParts DEF objects, InformerCoherent, Past, Inductive
  <2>3. WorkerCoherent'
    BY <2>1, <2>2, <1>t DEF WorkerCoherent, InformerCoherent, objects, TypeOK, Experiment
  <2>4. Copies' \subseteq Copies
    BY <2>1 DEF Copies, objects
  <2>5. HaltKnown' /\ IndexKnown' /\ TargetKnown'
    BY <1>1, <2>1, <2>4 DEF Get, HaltKnown, IndexKnown, TargetKnown, Inductive, objects
  <2>6. OnlyCurrentFault' /\ Counted'
    BY <1>1, <2>1 DEF Get, OnlyCurrentFault, Current, Counted, Inductive, objects
  <2>7. QED
    BY <2>2, <2>3, <2>5, <2>6, CoherentParts
<1>2. CASE NothingToDo
  BY <1>2, QuietReturn DEF NothingToDo, Return
<1>3. CASE RemoveFinalizer
  <2> DEFINE o == Deleted([loc EXCEPT !.finalizer = FALSE])
  <2>1. o \in Experiment /\ o.index = loc.index /\ o.phase = loc.phase /\ o.spec = loc.spec
    BY <1>t DEF Deleted, Experiment
  <2>2. pc' = "idle" /\ (Accepted(o) \/ Errs(o)) /\ pc # "idle"
    BY <1>3, EndsIdle DEF RemoveFinalizer
  <2>3. faults' \subseteq faults /\ UNCHANGED <<lost, haltedTotal, finishedTotal>>
    BY <1>3, RevertSubset DEF RemoveFinalizer
  <2> HIDE DEF o
  <2>4. QED
    BY <2>1, <2>2, <2>3, EndingWrite, CountedKept
<1>4. CASE AddFinalizer
  <2> DEFINE o == [loc EXCEPT !.finalizer = TRUE]
  <2>1. o \in Experiment /\ o.index = loc.index /\ o.phase = loc.phase /\ o.spec = loc.spec
    BY <1>t DEF Experiment
  <2>2. pc' = "idle" /\ (Accepted(o) \/ Errs(o)) /\ pc # "idle"
    BY <1>4, EndsIdle DEF AddFinalizer
  <2>3. faults' \subseteq faults /\ UNCHANGED <<lost, haltedTotal, finishedTotal>>
    BY <1>4 DEF AddFinalizer
  <2> HIDE DEF o
  <2>4. QED
    BY <2>1, <2>2, <2>3, EndingWrite, CountedKept
<1>5. CASE Halt
  <2> DEFINE o == Halted(loc)
  <2>1. o \in Experiment /\ o.index = loc.index /\ o.phase = "Halted" /\ o.spec = loc.spec
    BY <1>t DEF Halted, Experiment, Phases
  <2>2. pc = "read" /\ loc.halt # None /\ loc.phase # "Halted" /\ faults' \subseteq faults
    BY <1>5, RevertSubset DEF Halt, HaltRequested
  <2>3. loc.rv = exp.rv => \A v \in Copies : v.halt # None
    BY <2>2, Synced, AtWrite DEF Inductive, Copies
  <2>4. CASE Errs(o) /\ ReturnError /\ UNCHANGED <<lost, haltedTotal, finishedTotal>>
    <3>1. pc' = "idle"
      BY <2>4 DEF ReturnError
    <3> HIDE DEF o
    <3>2. QED
      BY <2>1, <2>2, <2>3, <2>4, <3>1, EndingWrite, CountedKept
  <2>5. CASE /\ Accepted(o) /\ loc' = exp' /\ pc' = "halted"
             /\ haltedTotal' = haltedTotal + 1 /\ UNCHANGED <<lost, finishedTotal>>
    <3> HIDE DEF o
    <3>1. Commit(o) /\ loc.rv = exp.rv
      BY <2>5 DEF Accepted
    <3>2. loc.index = exp.index /\ loc.phase = exp.phase /\ loc.spec = exp.spec
      BY <2>2, <3>1, AtWrite DEF Inductive
    <3>3. exp'.index = exp.index /\ exp'.spec = exp.spec /\ exp'.phase = "Halted" /\ exp'.rv \in Nat
      BY <2>1, <3>1, <3>2, <1>t DEF Commit, TypeOK, Experiment
    <3>4. InformerCoherent'
      BY <2>1, <3>1, <1>t, CommitCoherent, CoherentParts DEF Inductive
    <3>5. WorkerCoherent'
      BY <2>5, <3>3 DEF WorkerCoherent, Past
    <3>6. Copies' \subseteq Copies \cup {exp'}
      BY <2>5, <3>1 DEF Copies, Commit
    <3>7. HaltKnown' /\ IndexKnown' /\ TargetKnown'
      BY <2>1, <2>3, <2>5, <3>1, <3>2, <3>6, CommitKnown DEF Inductive
    <3>8. OnlyCurrentFault'
      BY <2>2, <2>5, <3>3 DEF OnlyCurrentFault, Current, Inductive
    <3>9. Counted'
      BY <2>2, <2>5, <3>2, <3>3 DEF Counted, Inductive, Terminal
    <3>10. QED
      BY <3>4, <3>5, <3>7, <3>8, <3>9, CoherentParts
  <2>6. QED
    BY <1>5, <2>4, <2>5 DEF Halt
<1>6. CASE ClearHalt
  <2> DEFINE o == [loc EXCEPT !.halt = None]
  <2>1. o \in Experiment /\ o.index = loc.index /\ o.phase = loc.phase /\ o.spec = loc.spec
    BY <1>t DEF Experiment
  <2>2. pc' = "idle" /\ (Accepted(o) \/ Errs(o)) /\ pc # "idle"
    BY <1>6, EndsIdle DEF ClearHalt
  <2>3. faults' \subseteq faults /\ UNCHANGED <<lost, haltedTotal, finishedTotal>>
    BY <1>6 DEF ClearHalt
  <2> HIDE DEF o
  <2>4. QED
    BY <2>1, <2>2, <2>3, EndingWrite, CountedKept
<1>7. CASE Start
  <2> DEFINE o == [loc EXCEPT !.phase = "Running"]
  <2>1. o \in Experiment /\ o.index = loc.index /\ o.phase = "Running" /\ o.spec = loc.spec
    BY <1>t DEF Experiment, Phases
  <2>2. pc' = "idle" /\ (Accepted(o) \/ Errs(o)) /\ pc # "idle" /\ loc.phase \notin Terminal
    BY <1>7, EndsIdle DEF Start, Terminal
  <2>3. faults' \subseteq faults /\ UNCHANGED <<lost, haltedTotal, finishedTotal>>
    BY <1>7 DEF Start
  <2> HIDE DEF o
  <2>4. QED
    BY <2>1, <2>2, <2>3, EndingWrite, CountedKept
<1>8. CASE Complete
  <2> DEFINE o == [loc EXCEPT !.phase = "Completed"]
  <2>1. o \in Experiment /\ o.index = loc.index /\ o.phase = "Completed" /\ o.spec = loc.spec
    BY <1>t DEF Experiment, Phases
  <2>2. pc' = "idle" /\ (Accepted(o) \/ Errs(o)) /\ pc # "idle" /\ loc.phase = "Running"
    BY <1>8, EndsIdle DEF Complete, Running
  <2>3. faults' \subseteq faults /\ UNCHANGED <<lost, haltedTotal>> /\ Finish(o)
    BY <1>8 DEF Complete
  <2> HIDE DEF o
  <2>4. Counted'
    BY <2>1, <2>2, <2>3, FinishCounted DEF Terminal
  <2>5. QED
    BY <2>1, <2>2, <2>3, <2>4, EndingWrite
<1>9. CASE Inject
  <2>1. /\ pc = "read" /\ WouldInject(loc) /\ pc' = "injected" /\ UNCHANGED objects
        /\ UNCHANGED <<lost, haltedTotal, finishedTotal>>
        /\ faults' \subseteq faults \cup {Current(loc)}
    BY <1>9 DEF Inject, Hit
  <2>2. HaltKnown' /\ IndexKnown' /\ TargetKnown' /\ OnlyCurrentFault' /\ Counted'
    BY <2>1, HitInductive
  <2>3. InformerCoherent'
    BY <2>1, CoherentParts DEF objects, InformerCoherent, Past, Inductive
  <2>4. /\ loc'.rv = loc.rv /\ loc'.injectedAt # None
        /\ loc' = [loc EXCEPT !.injectedAt = loc'.injectedAt,
                              !.podsKilled = loc'.podsKilled]
    BY <1>9, <1>t, NoneAssumption DEF Inject, Experiment
  <2>5. loc.rv = exp.rv => loc = exp
    BY <2>1 DEF Inductive, Coherent, Past
  <2>6. loc.rv <= cache.rv
    BY <2>1 DEF Inductive, Coherent
  <2>7. WorkerCoherent'
    BY <2>1, <2>4, <2>5, <2>6
    DEF WorkerCoherent, objects, WouldInject, InScenario, Running, Live
  <2>8. QED
    BY <2>2, <2>3, <2>7, CoherentParts
<1>10. CASE InjectFails
  <2>1. /\ pc = "read" /\ WouldInject(loc) /\ pc' = "injectFailed" /\ UNCHANGED objects
        /\ loc' = loc /\ UNCHANGED <<lost, haltedTotal, finishedTotal>>
        /\ faults' \subseteq faults \cup {Current(loc)}
    BY <1>10 DEF InjectFails, Hit
  <2>2. HaltKnown' /\ IndexKnown' /\ TargetKnown' /\ OnlyCurrentFault' /\ Counted'
    BY <2>1, HitInductive
  <2>3. InformerCoherent'
    BY <2>1, CoherentParts DEF objects, InformerCoherent, Past, Inductive
  <2>4. WorkerCoherent'
    BY <2>1, CoherentParts
    DEF WorkerCoherent, objects, Past, Inductive, WouldInject, InScenario, Running, Live
  <2>5. QED
    BY <2>2, <2>3, <2>4, CoherentParts
<1>11. CASE RecordInject
  <2>1. pc' = "idle" /\ (Accepted(loc) \/ Errs(loc)) /\ pc # "idle"
    BY <1>11, EndsIdle DEF RecordInject
  <2>2. faults' \subseteq faults /\ UNCHANGED <<lost, haltedTotal, finishedTotal>>
    BY <1>11 DEF RecordInject
  <2>3. QED
    BY <1>t, <2>1, <2>2, EndingWrite, CountedKept
<1>12. CASE FailExperiment
  <2> DEFINE o == [loc EXCEPT !.phase = "Failed"]
  <2>1. o \in Experiment /\ o.index = loc.index /\ o.phase = "Failed" /\ o.spec = loc.spec
    BY <1>t DEF Experiment, Phases
  <2>2. pc' = "idle" /\ (Accepted(o) \/ Errs(o)) /\ pc # "idle" /\ loc.phase = "Running"
    BY <1>12, EndsIdle
    DEF FailExperiment, Inductive, Coherent, WouldInject, InScenario, Running
  <2>3. faults' \subseteq faults /\ UNCHANGED <<lost, haltedTotal>> /\ Finish(o)
    BY <1>12 DEF FailExperiment
  <2> HIDE DEF o
  <2>4. Counted'
    BY <2>1, <2>2, <2>3, FinishCounted DEF Terminal
  <2>5. QED
    BY <2>1, <2>2, <2>3, <2>4, EndingWrite
<1>13. CASE Recover
  <2> DEFINE o == [loc EXCEPT !.recoveredAt = loc.injectedAt]
  <2>1. o \in Experiment /\ o.index = loc.index /\ o.phase = loc.phase /\ o.spec = loc.spec
    BY <1>t DEF Experiment
  <2>2. pc' = "idle" /\ (Accepted(o) \/ Errs(o)) /\ pc # "idle"
    BY <1>13, EndsIdle DEF Recover
  <2>3. faults' \subseteq faults /\ UNCHANGED <<lost, haltedTotal, finishedTotal>>
    BY <1>13 DEF Recover
  <2> HIDE DEF o
  <2>4. QED
    BY <2>1, <2>2, <2>3, EndingWrite, CountedKept
<1>14. CASE Poll
  BY <1>14, QuietReturn DEF Poll, RequeueAfter
<1>15. CASE ProbeFails
  BY <1>15, QuietReturn DEF ProbeFails, ReturnError
<1>16. CASE Advance
  <2> DEFINE o == NextScenario(loc)
  <2>1. pc = "read" /\ PastDuration(loc) /\ faults' = faults \ {Current(loc)}
    BY <1>16 DEF Advance, Revert
  <2>2. o \in Experiment /\ o.index = loc.index + 1 /\ o.phase = loc.phase
        /\ o.spec = loc.spec
    <3>1. o \in Experiment
      BY <1>t, <2>1, NextScenarioType
    <3>2. QED
      BY <1>t, <3>1 DEF NextScenario, Experiment
  <2>3. /\ pc' = "idle" /\ (Accepted(o) \/ Errs(o) \/ Unanswered(o) \/ Refused)
        /\ UNCHANGED <<lost, haltedTotal, finishedTotal>>
    BY <1>16 DEF Advance, RequeueAfter, ReturnError
  <2> HIDE DEF o
  <2>4. Coherent' /\ Counted'
    BY <1>t, <2>1, <2>2, <2>3, WriteCoherent, CountedKept DEF Inductive
  <2>5. CASE Commit(o) /\ loc.rv = exp.rv
    <3>1. cache = exp /\ watch = {} /\ loc = exp
      BY <2>1, <2>5, <1>t, Synced, AtWrite DEF Inductive
    <3>2. exp.injectedAt # None /\ exp.phase # "Halted"
      BY <2>1, <3>1 DEF PastDuration, InScenario, Running
    <3>3. Copies' \subseteq Copies \cup {exp'}
      BY <2>3, <2>5 DEF Copies, Commit
    <3>4. \A v \in Copies : v.index = exp.index /\ v.injectedAt # None
      BY <3>1, <3>2 DEF Copies
    <3>5. HaltKnown' /\ IndexKnown' /\ TargetKnown'
      BY <1>t, <2>2, <2>3, <2>5, <3>1, <3>2, <3>3, <3>4, CommitKnown DEF Inductive
    <3>6. OnlyCurrentFault'
      BY <2>1, <2>3, <3>1 DEF OnlyCurrentFault, Current, Inductive
    <3>7. QED
      BY <2>4, <3>5, <3>6
  <2>6. CASE UNCHANGED objects
    <3>1. Copies' \subseteq Copies
      BY <2>3, <2>6 DEF Copies, objects
    <3>2. QED
      BY <2>1, <2>3, <2>4, <2>6, <3>1
      DEF objects, Inductive, HaltKnown, IndexKnown, TargetKnown, OnlyCurrentFault, Current
  <2>7. QED
    BY <2>3, <2>5, <2>6, WriteCases
<1>17. QED
  BY <1>1, <1>2, <1>3, <1>4, <1>5, <1>6, <1>7, <1>8, <1>9, <1>10, <1>11, <1>12,
     <1>13, <1>14, <1>15, <1>16 DEF Reconcile

\* A write of the watcher or of a user that leaves phase and index alone, and
\* the target too unless the history notes it.
LEMMA OutsideWriteInductive ==
  ASSUME Inductive, NEW o \in Experiment, Commit(o), UNCHANGED worker,
         UNCHANGED <<faults, haltedTotal, finishedTotal>>, lost \subseteq lost',
         o.phase = exp.phase, o.index = exp.index,
         o.spec.target = exp.spec.target \/ "target" \in lost'
  PROVE  Coherent' /\ HaltKnown' /\ IndexKnown' /\ TargetKnown' /\ OnlyCurrentFault' /\ Counted'
<1>1. Coherent'
  BY OutsideWriteCoherent DEF Inductive
<1>2. Copies' \subseteq Copies \cup {exp'}
  BY DEF Copies, Commit, worker
<1>3. HaltKnown' /\ IndexKnown' /\ TargetKnown'
  BY <1>2, CommitKnown DEF Inductive
<1>4. exp'.phase = exp.phase /\ exp'.index = exp.index /\ exp'.spec = o.spec
  BY DEF Commit, Experiment
<1>5. OnlyCurrentFault'
  BY <1>4 DEF OnlyCurrentFault, Current, Inductive
<1>6. Counted'
  BY <1>4 DEF Counted, Inductive
<1>7. QED
  BY <1>1, <1>3, <1>5, <1>6

\* The informer, the timer, the clock and the other actors keep the invariant.
LEMMA OutsideInductive ==
  ASSUME Inductive, Deliver \/ TimerFires \/ Tick \/ Environment
  PROVE  Coherent' /\ HaltKnown' /\ IndexKnown' /\ TargetKnown' /\ OnlyCurrentFault' /\ Counted'
<1> USE DEF history, budget
<1>t. TypeOK
  BY DEF Inductive
<1>1. CASE Deliver
  <2>1. PICK v \in watch : /\ \A w \in watch : v.rv <= w.rv
                           /\ cache' = v /\ watch' = watch \ {v}
    BY <1>1 DEF Deliver
  <2>2. exp' = exp /\ pc' = pc /\ loc' = loc /\ UNCHANGED history
    BY <1>1 DEF Deliver, worker
  <2>3. cache.rv \in Nat /\ loc.rv \in Nat /\ \A w \in watch : w.rv \in Nat
    BY <1>t DEF TypeOK, Experiment
  <2>4. \A w \in watch : Past(w) /\ cache.rv < w.rv
    BY DEF Inductive, Coherent
  <2>5. \A w \in watch \ {v} : v.rv < w.rv
    <3> SUFFICES ASSUME NEW w \in watch \ {v}
                 PROVE  v.rv < w.rv
      OBVIOUS
    <3>1. v.rv <= w.rv /\ v.rv \in Nat /\ w.rv \in Nat
      BY <2>1, <2>3
    <3>2. v.rv # w.rv
      BY <2>1, <1>t DEF Inductive, Coherent
    <3>3. QED
      BY <3>1, <3>2
  <2>6. InformerCoherent'
    BY <2>1, <2>2, <2>4, <2>5 DEF InformerCoherent, Past, Inductive, Coherent
  <2>7. WorkerCoherent'
    BY <2>1, <2>2, <2>3, <2>4, CoherentParts
    DEF Inductive, WorkerCoherent, Past, WouldInject, InScenario, Running, Live
  <2>8. Copies' \subseteq Copies
    BY <2>1, <2>2 DEF Copies
  <2>9. HaltKnown' /\ IndexKnown' /\ TargetKnown' /\ OnlyCurrentFault' /\ Counted'
    BY <2>2, <2>8 DEF HaltKnown, IndexKnown, TargetKnown, OnlyCurrentFault, Current, Counted, Inductive
  <2>10. QED
    BY <2>6, <2>7, <2>9, CoherentParts
<1>2. CASE TimerFires
  <2>1. UNCHANGED <<exp, cache, watch, pc, loc, history>>
    BY <1>2 DEF TimerFires, objects, worker
  <2>2. QED
    BY <2>1 DEF Inductive, Coherent, Past, Copies, HaltKnown, IndexKnown, TargetKnown, OnlyCurrentFault,
                Counted, WouldInject, InScenario, Running, Live
<1>3. CASE Tick
  <2>1. Coherent'
    BY <1>3, TickCoherent DEF Inductive
  <2>2. \A v \in Experiment :
          /\ Aged(v).index = v.index /\ Aged(v).phase = v.phase /\ Aged(v).halt = v.halt
          /\ Aged(v).spec = v.spec
          /\ Aged(v).injectedAt = None <=> v.injectedAt = None
    BY AgedType DEF Experiment
  <2>3. Copies \subseteq Experiment /\ \A w \in Copies' : \E v \in Copies : w = Aged(v)
    BY <1>3, <1>t DEF Tick, Copies, TypeOK
  <2>4. exp'.index = exp.index /\ exp'.phase = exp.phase /\ exp'.spec = exp.spec
    BY <1>3, <2>2, <1>t DEF Tick, TypeOK
  <2>5. HaltKnown' /\ IndexKnown' /\ TargetKnown'
    BY <1>3, <2>2, <2>3, <2>4 DEF Tick, HaltKnown, IndexKnown, TargetKnown, Inductive
  <2>6. OnlyCurrentFault' /\ Counted'
    BY <1>3, <2>4 DEF Tick, OnlyCurrentFault, Current, Counted, Inductive
  <2>7. QED
    BY <2>1, <2>5, <2>6
<1>4. ASSUME NEW r \in Reasons, WatcherHalt(r)
      PROVE  Coherent' /\ HaltKnown' /\ IndexKnown' /\ TargetKnown' /\ OnlyCurrentFault' /\ Counted'
  <2> DEFINE o == [exp EXCEPT !.halt = r]
  <2>1. o \in Experiment /\ o.phase = exp.phase /\ o.index = exp.index /\ o.spec = exp.spec
    BY <1>t DEF TypeOK, Experiment
  <2>2. Commit(o) /\ UNCHANGED worker /\ UNCHANGED history
    BY <1>4 DEF WatcherHalt
  <2> HIDE DEF o
  <2>3. QED
    BY <2>1, <2>2, OutsideWriteInductive
<1>5. ASSUME NEW s \in Specs, UserEdit(s)
      PROVE  Coherent' /\ HaltKnown' /\ IndexKnown' /\ TargetKnown' /\ OnlyCurrentFault' /\ Counted'
  <2> DEFINE o == [exp EXCEPT !.spec = s]
  <2>1. o \in Experiment /\ o.phase = exp.phase /\ o.index = exp.index /\ o.spec = s
    BY <1>t, SpecAssumption DEF TypeOK, Experiment
  <2>2. /\ Commit(o) /\ UNCHANGED worker
        /\ UNCHANGED <<faults, haltedTotal, finishedTotal>> /\ lost \subseteq lost'
        /\ s.target = exp.spec.target \/ "target" \in lost'
    BY <1>5 DEF UserEdit
  <2> HIDE DEF o
  <2>3. QED
    BY <2>1, <2>2, OutsideWriteInductive
<1>6. CASE UserDelete
  <2> DEFINE o == Deleted(exp)
  <2>1. o \in Experiment /\ o.phase = exp.phase /\ o.index = exp.index /\ o.spec = exp.spec
    BY <1>t DEF TypeOK, Deleted, Experiment
  <2>2. Commit(o) /\ UNCHANGED worker /\ UNCHANGED history
    BY <1>6 DEF UserDelete
  <2> HIDE DEF o
  <2>3. QED
    BY <2>1, <2>2, OutsideWriteInductive
<1>7. CASE Crash
  <2>1. cache' = exp /\ watch' = {} /\ exp' = exp /\ pc' = "idle" /\ UNCHANGED history
    BY <1>7 DEF Crash
  <2>2. Coherent'
    BY <2>1, <1>t DEF Coherent, Past, TypeOK, Experiment
  <2>3. HaltKnown' /\ IndexKnown' /\ TargetKnown' /\ OnlyCurrentFault' /\ Counted'
    BY <2>1 DEF Copies, HaltKnown, IndexKnown, TargetKnown, OnlyCurrentFault, Current, Counted, Inductive
  <2>4. QED
    BY <2>2, <2>3
<1>8. QED
  BY <1>1, <1>2, <1>3, <1>4, <1>5, <1>6, <1>7 DEF Environment

\* The invariant holds initially.
LEMMA InitInductive == Init => Inductive
<1> SUFFICES ASSUME Init PROVE Inductive
  OBVIOUS
<1>1. TypeOK
  BY InitType
<1>2. Coherent
  BY DEF Init, Coherent, Past, Created
<1>3. HaltKnown /\ IndexKnown /\ TargetKnown /\ OnlyCurrentFault /\ Counted
  BY DEF Init, Copies, HaltKnown, IndexKnown, TargetKnown, OnlyCurrentFault, Current, Counted
<1>4. QED
  BY <1>1, <1>2, <1>3 DEF Inductive

\* Every step keeps the invariant.
LEMMA NextInductive == Inductive /\ [Next]_vars => Inductive'
<1> SUFFICES ASSUME Inductive, [Next]_vars PROVE Inductive'
  OBVIOUS
<1>1. TypeOK'
  BY NextType DEF Inductive
<1>2. CASE Reconcile
  BY <1>1, <1>2, ReconcileInductive DEF Inductive
<1>3. CASE Deliver \/ TimerFires \/ Tick \/ Environment
  BY <1>1, <1>3, OutsideInductive DEF Inductive
<1>4. CASE UNCHANGED vars
  BY <1>4 DEF vars, objects, worker, queue, history, budget, Inductive, TypeOK, Coherent,
              Past, Copies, HaltKnown, IndexKnown, TargetKnown, OnlyCurrentFault, Current, Counted,
              WouldInject, InScenario, Running, Live
<1>5. QED
  BY <1>2, <1>3, <1>4 DEF Next

\* The inductive invariant holds in every reachable state.
THEOREM InductiveInvariant == Spec => []Inductive
BY InitInductive, NextInductive, PTL DEF Spec

\* Reverting by currentScenarioIndex reverts every fault there is: a fault
\* never belongs to another scenario than the one the status points at.
THEOREM FaultsAreCurrent == Spec => []OnlyCurrentFault
<1>1. Inductive => OnlyCurrentFault
  BY DEF Inductive
<1>2. QED
  BY <1>1, InductiveInvariant, PTL

\* No injection starts once the phase Halted is committed, whatever version
\* of the object the worker's read of the cache returned.
THEOREM HaltIsFinal == Spec => []NoInjectOnceHalted
<1>1. Inductive => NoInjectOnceHalted
  BY DEF Inductive, HaltKnown, Copies, NoInjectOnceHalted, WouldInject, InScenario, Running
<1>2. QED
  BY <1>1, InductiveInvariant, PTL

\* The process metrics count an experiment at most once as finished and at
\* most once as halted.
THEOREM MetricsCountOnce == Spec => []CountedOnce
<1>1. Inductive => CountedOnce
  BY DEF Inductive, Counted, CountedOnce
<1>2. QED
  BY <1>1, InductiveInvariant, PTL

-----------------------------------------------------------------------------
(* ExperimentReconciler implements ExperimentLifecycle.                    *)

\* o and p look the same to a reader of the lifecycle.
SameLifecycle(o, p) ==
  /\ o.present = p.present /\ o.spec = p.spec /\ o.phase = p.phase
  /\ o.index = p.index /\ o.haltReason = p.haltReason
  /\ o.injectedAt = None <=> p.injectedAt = None

\* A step that leaves the committed object alone, but for its age, stutters.
LEMMA Stutter ==
  ASSUME SameLifecycle(exp', exp)
  PROVE  UNCHANGED Lifecycle!vars
<1>1. (exp'.injectedAt # None) = (exp.injectedAt # None)
  BY DEF SameLifecycle
<1>2. QED
  BY <1>1 DEF SameLifecycle, Lifecycle!vars

\* A committed version shows what was written.
LEMMA CommitShows ==
  ASSUME NEW o \in Experiment, Commit(o)
  PROVE  /\ exp'.present = o.present /\ exp'.spec = o.spec /\ exp'.phase = o.phase
         /\ exp'.index = o.index /\ exp'.haltReason = o.haltReason
         /\ exp'.injectedAt = o.injectedAt
BY DEF Commit, Experiment

\* A write that looks like what it overwrites stutters, accepted or not.
LEMMA WriteStutters ==
  ASSUME NEW o \in Experiment,
         Accepted(o) \/ Errs(o) \/ Unanswered(o) \/ Refused,
         loc.rv = exp.rv => SameLifecycle(o, exp)
  PROVE  UNCHANGED Lifecycle!vars
<1>1. CASE Commit(o) /\ loc.rv = exp.rv
  BY <1>1, CommitShows, Stutter DEF SameLifecycle
<1>2. CASE UNCHANGED objects
  BY <1>2, Stutter DEF SameLifecycle, objects
<1>3. QED
  BY <1>1, <1>2, WriteCases

\* A step of Reconcile is a step of the lifecycle or a stutter.
LEMMA ReconcileRefines ==
  ASSUME Inductive, Reconcile
  PROVE  Lifecycle!Next \/ UNCHANGED Lifecycle!vars
<1>t. TypeOK /\ Coherent /\ loc \in Experiment
  BY DEF Inductive, TypeOK
<1>e. pc # "idle" /\ loc.rv = exp.rv /\ pc # "injected" => loc = exp
  BY <1>t, AtWrite
<1>s. UNCHANGED exp => UNCHANGED Lifecycle!vars
  BY Stutter DEF SameLifecycle
<1>1. CASE Get \/ NothingToDo \/ Inject \/ InjectFails \/ Poll \/ ProbeFails
  BY <1>1, <1>s DEF Get, NothingToDo, Inject, InjectFails, Poll, ProbeFails, objects
<1>2. CASE RemoveFinalizer
  <2> DEFINE o == Deleted([loc EXCEPT !.finalizer = FALSE])
  <2>1. /\ o \in Experiment /\ o.present = FALSE /\ o.spec = loc.spec /\ o.phase = loc.phase
        /\ o.index = loc.index /\ o.haltReason = loc.haltReason
        /\ o.injectedAt = loc.injectedAt
    BY <1>t DEF Deleted, Experiment
  <2>2. /\ pc # "idle" /\ pc # "injected" /\ loc.present = TRUE
        /\ Accepted(o) \/ Errs(o)
    BY <1>2, <1>t, EndsIdle DEF RemoveFinalizer, Experiment
  <2> HIDE DEF o
  <2>3. CASE Commit(o) /\ loc.rv = exp.rv
    <3>1. exp.present = TRUE /\ exp'.present = FALSE /\ loc = exp
      BY <1>e, <2>1, <2>2, <2>3, CommitShows
    <3>2. Lifecycle!Remove
      BY <2>1, <2>3, <3>1, CommitShows DEF Lifecycle!Remove
    <3>3. QED
      BY <3>1, <3>2 DEF Lifecycle!Next
  <2>4. QED
    BY <1>s, <2>2, <2>3, WriteCases DEF objects
<1>3. CASE AddFinalizer
  <2> DEFINE o == [loc EXCEPT !.finalizer = TRUE]
  <2>1. o \in Experiment /\ SameLifecycle(o, loc)
    BY <1>t DEF Experiment, SameLifecycle
  <2>2. pc # "idle" /\ pc # "injected" /\ (Accepted(o) \/ Errs(o))
    BY <1>3, EndsIdle DEF AddFinalizer
  <2> HIDE DEF o
  <2>3. QED
    BY <1>e, <2>1, <2>2, WriteStutters
<1>4. CASE Halt
  <2> DEFINE o == Halted(loc)
  <2>1. /\ o \in Experiment /\ o.phase = "Halted" /\ o.haltReason = loc.halt
        /\ o.present = loc.present /\ o.spec = loc.spec /\ o.index = loc.index
        /\ o.injectedAt = loc.injectedAt
    BY <1>t DEF Halted, Experiment, Phases
  <2>2. /\ pc = "read" /\ loc.present /\ loc.phase # "Halted" /\ loc.halt \in Reasons
        /\ Accepted(o) \/ Errs(o)
    BY <1>4, <1>t DEF Halt, HaltRequested, Live, Experiment
  <2> HIDE DEF o
  <2>3. CASE Commit(o) /\ loc.rv = exp.rv
    <3>1. loc = exp
      BY <1>e, <2>2, <2>3
    <3>2. Lifecycle!Halt
      BY <2>1, <2>2, <2>3, <3>1, CommitShows DEF Lifecycle!Halt
    <3>3. QED
      BY <2>2, <3>1, <3>2 DEF Lifecycle!Next
  <2>4. QED
    BY <1>s, <2>2, <2>3, WriteCases DEF objects
<1>5. CASE ClearHalt
  <2> DEFINE o == [loc EXCEPT !.halt = None]
  <2>1. o \in Experiment /\ SameLifecycle(o, loc)
    BY <1>t DEF Experiment, SameLifecycle
  <2>2. pc # "idle" /\ pc # "injected" /\ (Accepted(o) \/ Errs(o))
    BY <1>5, EndsIdle DEF ClearHalt
  <2> HIDE DEF o
  <2>3. QED
    BY <1>e, <2>1, <2>2, WriteStutters
<1>6. CASE Start
  <2> DEFINE o == [loc EXCEPT !.phase = "Running"]
  <2>1. /\ o \in Experiment /\ o.phase = "Running" /\ o.haltReason = loc.haltReason
        /\ o.present = loc.present /\ o.spec = loc.spec /\ o.index = loc.index
        /\ o.injectedAt = loc.injectedAt
    BY <1>t DEF Experiment, Phases
  <2>2. /\ pc = "read" /\ loc.present /\ loc.phase = "Pending"
        /\ Accepted(o) \/ Errs(o)
    BY <1>6, EndsIdle DEF Start, Live
  <2> HIDE DEF o
  <2>3. CASE Commit(o) /\ loc.rv = exp.rv
    <3>1. loc = exp
      BY <1>e, <2>2, <2>3
    <3>2. Lifecycle!Start
      BY <2>1, <2>2, <2>3, <3>1, CommitShows DEF Lifecycle!Start
    <3>3. QED
      BY <2>2, <3>1, <3>2 DEF Lifecycle!Next
  <2>4. QED
    BY <1>s, <2>2, <2>3, WriteCases DEF objects
<1>7. CASE Complete
  <2> DEFINE o == [loc EXCEPT !.phase = "Completed"]
  <2>1. /\ o \in Experiment /\ o.phase = "Completed" /\ o.haltReason = loc.haltReason
        /\ o.present = loc.present /\ o.spec = loc.spec /\ o.index = loc.index
        /\ o.injectedAt = loc.injectedAt
    BY <1>t DEF Experiment, Phases
  <2>2. /\ pc = "read" /\ loc.present /\ loc.phase = "Running" /\ loc.index >= loc.spec.len
        /\ Accepted(o) \/ Errs(o)
    BY <1>7, EndsIdle DEF Complete, Running, Live
  <2> HIDE DEF o
  <2>3. CASE Commit(o) /\ loc.rv = exp.rv
    <3>1. loc = exp
      BY <1>e, <2>2, <2>3
    <3>2. Lifecycle!Complete
      BY <2>1, <2>2, <2>3, <3>1, CommitShows DEF Lifecycle!Complete
    <3>3. QED
      BY <2>2, <3>1, <3>2 DEF Lifecycle!Next
  <2>4. QED
    BY <1>s, <2>2, <2>3, WriteCases DEF objects
<1>8. CASE RecordInject
  <2>1. pc = "injected" /\ loc.injectedAt # None /\ (Accepted(loc) \/ Errs(loc))
    BY <1>8, <1>t, EndsIdle DEF RecordInject, Coherent
  <2>2. CASE Commit(loc) /\ loc.rv = exp.rv
    <3>1. /\ exp.present /\ exp.phase = "Running" /\ exp.index < exp.spec.len
          /\ exp.injectedAt = None
      BY <1>t, <2>1, <2>2 DEF Coherent, WouldInject, InScenario, Running, Live
    <3>2. /\ loc.index = exp.index /\ loc.phase = exp.phase /\ loc.present = exp.present
          /\ loc.spec = exp.spec /\ loc.haltReason = exp.haltReason
      BY <1>t, <2>1, <2>2, AtWrite
    <3>3. /\ exp'.present = exp.present /\ exp'.spec = exp.spec /\ exp'.phase = exp.phase
          /\ exp'.index = exp.index /\ exp'.haltReason = exp.haltReason
          /\ (exp'.injectedAt # None) = TRUE
      BY <1>t, <2>1, <2>2, <3>2, CommitShows
    <3>4. Lifecycle!Inject
      BY <3>1, <3>3 DEF Lifecycle!Inject
    <3>5. QED
      BY <3>1, <3>4 DEF Lifecycle!Next
  <2>3. QED
    BY <1>s, <2>1, <2>2, WriteCases DEF objects
<1>9. CASE FailExperiment
  <2> DEFINE o == [loc EXCEPT !.phase = "Failed"]
  <2>1. /\ o \in Experiment /\ o.phase = "Failed" /\ o.haltReason = loc.haltReason
        /\ o.present = loc.present /\ o.spec = loc.spec /\ o.index = loc.index
        /\ o.injectedAt = loc.injectedAt
    BY <1>t DEF Experiment, Phases
  <2>2. /\ pc = "injectFailed" /\ loc.present /\ loc.phase = "Running"
        /\ loc.index < loc.spec.len /\ loc.injectedAt = None
        /\ Accepted(o) \/ Errs(o)
    BY <1>9, <1>t, EndsIdle DEF FailExperiment, Coherent, WouldInject, InScenario, Running, Live
  <2> HIDE DEF o
  <2>3. CASE Commit(o) /\ loc.rv = exp.rv
    <3>1. loc = exp
      BY <1>e, <2>2, <2>3
    <3>2. Lifecycle!Fail
      BY <2>1, <2>2, <2>3, <3>1, CommitShows DEF Lifecycle!Fail
    <3>3. QED
      BY <2>2, <3>1, <3>2 DEF Lifecycle!Next
  <2>4. QED
    BY <1>s, <2>2, <2>3, WriteCases DEF objects
<1>10. CASE Recover
  <2> DEFINE o == [loc EXCEPT !.recoveredAt = loc.injectedAt]
  <2>1. o \in Experiment /\ SameLifecycle(o, loc)
    BY <1>t DEF Experiment, SameLifecycle
  <2>2. pc # "idle" /\ pc # "injected" /\ (Accepted(o) \/ Errs(o))
    BY <1>10, EndsIdle DEF Recover
  <2> HIDE DEF o
  <2>3. QED
    BY <1>e, <2>1, <2>2, WriteStutters
<1>11. CASE Advance
  <2> DEFINE o == NextScenario(loc)
  <2>1. /\ o.phase = loc.phase /\ o.haltReason = loc.haltReason
        /\ o.present = loc.present /\ o.spec = loc.spec /\ o.index = loc.index + 1
        /\ o.injectedAt = None
    BY <1>t DEF NextScenario, Experiment
  <2>2. /\ pc = "read" /\ loc.present /\ loc.phase = "Running"
        /\ loc.index < loc.spec.len /\ loc.injectedAt # None /\ o \in Experiment
        /\ Accepted(o) \/ Errs(o) \/ Unanswered(o) \/ Refused
    BY <1>11, <1>t, NextScenarioType DEF Advance, PastDuration, InScenario, Running, Live
  <2> HIDE DEF o
  <2>3. CASE Commit(o) /\ loc.rv = exp.rv
    <3>1. loc = exp
      BY <1>e, <2>2, <2>3
    <3>2. Lifecycle!Advance
      BY <2>1, <2>2, <2>3, <3>1, CommitShows DEF Lifecycle!Advance
    <3>3. QED
      BY <2>2, <3>1, <3>2 DEF Lifecycle!Next
  <2>4. QED
    BY <1>s, <2>2, <2>3, WriteCases DEF objects
<1>12. QED
  BY <1>1, <1>2, <1>3, <1>4, <1>5, <1>6, <1>7, <1>8, <1>9, <1>10, <1>11 DEF Reconcile

\* A step outside the controller is a step of the lifecycle or a stutter.
LEMMA OutsideRefines ==
  ASSUME TypeOK, Deliver \/ TimerFires \/ Tick \/ Environment
  PROVE  Lifecycle!Next \/ UNCHANGED Lifecycle!vars
<1>s. UNCHANGED exp => UNCHANGED Lifecycle!vars
  BY Stutter DEF SameLifecycle
<1>1. CASE Deliver \/ TimerFires \/ Crash
  BY <1>1, <1>s DEF Deliver, TimerFires, Crash, objects
<1>2. CASE Tick
  <2>1. exp' = [exp EXCEPT !.injectedAt = Older(exp.injectedAt)]
    BY <1>2, AgedType DEF Tick, TypeOK
  <2>2. Older(exp.injectedAt) = None <=> exp.injectedAt = None
    BY AgedType DEF TypeOK
  <2>3. SameLifecycle(exp', exp)
    BY <2>1, <2>2 DEF SameLifecycle, TypeOK, Experiment
  <2>4. QED
    BY <2>3, Stutter
<1>3. ASSUME NEW r \in Reasons, WatcherHalt(r)
      PROVE  UNCHANGED Lifecycle!vars
  <2>1. [exp EXCEPT !.halt = r] \in Experiment /\ SameLifecycle([exp EXCEPT !.halt = r], exp)
    BY DEF TypeOK, Experiment, SameLifecycle
  <2>2. SameLifecycle(exp', exp)
    BY <1>3, <2>1, CommitShows DEF WatcherHalt, SameLifecycle
  <2>3. QED
    BY <2>2, Stutter
<1>4. ASSUME NEW s \in Specs, UserEdit(s)
      PROVE  Lifecycle!Next
  <2> DEFINE o == [exp EXCEPT !.spec = s]
  <2>1. /\ o \in Experiment /\ o.phase = exp.phase /\ o.haltReason = exp.haltReason
        /\ o.present = exp.present /\ o.spec = s /\ o.index = exp.index
        /\ o.injectedAt = exp.injectedAt /\ s.len \in 1..N
    BY SpecAssumption DEF TypeOK, Experiment, ExperimentSpec
  <2>2. Commit(o) /\ exp.present
    BY <1>4 DEF UserEdit
  <2> HIDE DEF o
  <2>3. Lifecycle!Edit
    BY <2>1, <2>2, CommitShows DEF Lifecycle!Edit
  <2>4. QED
    BY <2>2, <2>3 DEF Lifecycle!Next
<1>5. CASE UserDelete
  <2> DEFINE o == Deleted(exp)
  <2>1. /\ o \in Experiment /\ o.phase = exp.phase /\ o.haltReason = exp.haltReason
        /\ o.present \in {TRUE, FALSE} /\ o.spec = exp.spec /\ o.index = exp.index
        /\ o.injectedAt = exp.injectedAt
    BY DEF TypeOK, Deleted, Experiment
  <2>2. Commit(o) /\ exp.present = TRUE
    BY <1>5 DEF UserDelete, TypeOK, Experiment
  <2> HIDE DEF o
  <2>3. CASE o.present = TRUE
    BY <2>1, <2>2, <2>3, CommitShows, Stutter DEF SameLifecycle
  <2>4. CASE o.present = FALSE
    <3>1. Lifecycle!Remove
      BY <2>1, <2>2, <2>4, CommitShows DEF Lifecycle!Remove
    <3>2. QED
      BY <2>2, <3>1 DEF Lifecycle!Next
  <2>5. QED
    BY <2>1, <2>3, <2>4
<1>6. QED
  BY <1>1, <1>2, <1>3, <1>4, <1>5 DEF Environment

\* The committed object follows ExperimentLifecycle in every behaviour of the
\* controller: stale reads, conflicts, lost answers and crashes included.
THEOREM Refinement == Spec => ImplementsLifecycle
<1>1. Init => Lifecycle!Init
  BY SpecAssumption DEF Init, Created, Lifecycle!Init, ExperimentSpec
<1>2. Inductive /\ [Next]_vars => [Lifecycle!Next]_(Lifecycle!vars)
  <2> SUFFICES ASSUME Inductive, [Next]_vars
               PROVE  Lifecycle!Next \/ UNCHANGED Lifecycle!vars
    OBVIOUS
  <2>1. CASE Reconcile
    BY <2>1, ReconcileRefines
  <2>2. CASE Deliver \/ TimerFires \/ Tick \/ Environment
    BY <2>2, OutsideRefines DEF Inductive
  <2>3. CASE UNCHANGED vars
    BY <2>3, Stutter DEF vars, objects, SameLifecycle
  <2>4. QED
    BY <2>1, <2>2, <2>3 DEF Next
<1>3. QED
  BY <1>1, <1>2, InductiveInvariant, PTL DEF Spec, ImplementsLifecycle, Lifecycle!Spec

=============================================================================
