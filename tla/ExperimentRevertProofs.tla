----------------------- MODULE ExperimentRevertProofs -----------------------
(***************************************************************************)
(* A halt or a deletion reverts what has been recorded, and nothing is     *)
(* reverted early: the theorems about Revert and revertIfActive, for every *)
(* spec, every edit of it and every bound.                                 *)
(***************************************************************************)
EXTENDS ExperimentReconcilerProofs

-----------------------------------------------------------------------------
(* The inductive invariant.                                                *)

\* Unless a user has cut it off, a recorded injection is of a scenario in the
\* list, which is what revertIfActive asks for.
InRange == lost = {} /\ exp.injectedAt # None => exp.index < exp.spec.len

\* The finalizer holds an object with a recorded injection.
FinalizerHolds == exp.injectedAt # None /\ exp.present => exp.finalizer

\* Once such an object is gone no copy leads past the deletion branch.
GoneKnown ==
  exp.injectedAt # None /\ ~exp.present => \A v \in Copies : ~Live(v)

Reverting == InRange /\ FinalizerHolds /\ GoneKnown /\ RevertedWhenOver

Whole == Inductive /\ Reverting

-----------------------------------------------------------------------------
(* Steps that neither inject nor end an experiment.                        *)

\* Nothing is lost when the object looks as before or nothing is recorded.
LEMMA Carried ==
  ASSUME Reverting,
         lost' = lost, faults' \subseteq faults, exp'.spec = exp.spec,
         exp'.injectedAt # None =>
           /\ exp.injectedAt # None
           /\ exp'.index = exp.index /\ exp'.present = exp.present
           /\ exp.finalizer => exp'.finalizer
           /\ exp'.phase = "Halted" => exp.phase = "Halted",
         (\A v \in Copies : ~Live(v)) => \A v \in Copies' : v = exp' \/ ~Live(v)
  PROVE  Reverting'
<1>1. InRange'
  BY DEF Reverting, InRange
<1>2. FinalizerHolds'
  BY DEF Reverting, FinalizerHolds
<1>3. GoneKnown'
  BY DEF Reverting, GoneKnown, Live
<1>4. RevertedWhenOver'
  BY DEF Reverting, RevertedWhenOver
<1>5. QED
  BY <1>1, <1>2, <1>3, <1>4 DEF Reverting

\* A step that leaves the objects alone and injects nothing.
LEMMA ObjectsKept ==
  ASSUME Whole, UNCHANGED objects, lost' = lost, faults' \subseteq faults,
         pc' = "read" => loc' \in Copies
  PROVE  Reverting'
<1>1. Copies' \subseteq Copies
  BY DEF Copies, objects
<1>2. QED
  BY <1>1, Carried DEF Whole, objects

\* The copies after a commit are those before it and the new version.
LEMMA CommitCopies ==
  ASSUME NEW o, Commit(o), pc' # "read" \/ UNCHANGED worker
  PROVE  Copies' \subseteq Copies \cup {exp'}
BY DEF Copies, Commit, worker

\* A write that ends the call and keeps what is recorded, or clears it.
LEMMA WriteKeeps ==
  ASSUME Whole, NEW o \in Experiment, pc \notin {"idle", "injected"}, pc' = "idle",
         Accepted(o) \/ Errs(o) \/ Unanswered(o) \/ Refused,
         lost' = lost, faults' \subseteq faults,
         o.spec = loc.spec,
         o.injectedAt # None =>
           /\ loc.injectedAt # None
           /\ o.index = loc.index /\ o.present = loc.present
           /\ loc.finalizer => o.finalizer
           /\ o.phase = "Halted" => loc.phase = "Halted"
  PROVE  Reverting'
<1>1. CASE Commit(o) /\ loc.rv = exp.rv
  <2>1. loc = exp
    BY <1>1, AtWrite DEF Whole, Inductive
  <2>2. /\ exp'.spec = o.spec /\ exp'.injectedAt = o.injectedAt /\ exp'.index = o.index
        /\ exp'.present = o.present /\ exp'.finalizer = o.finalizer /\ exp'.phase = o.phase
    BY <1>1 DEF Commit, Experiment
  <2>3. QED
    BY <1>1, <2>1, <2>2, CommitCopies, Carried DEF Whole
<1>2. CASE UNCHANGED objects
  BY <1>2, ObjectsKept
<1>3. QED
  BY <1>1, <1>2, WriteCases

\* Nobody who can still inject has a copy of an experiment that is over.
LEMMA HitKeeps ==
  ASSUME Whole, pc = "read", WouldInject(loc), UNCHANGED objects,
         lost' = lost, pc' # "read"
  PROVE  Reverting'
<1>1. loc \in Copies /\ Live(loc) /\ loc.phase = "Running" /\ loc.halt = None
  BY DEF Copies, WouldInject, InScenario, Running
<1>2. exp.phase # "Halted"
  BY <1>1 DEF Whole, Inductive, HaltKnown
<1>3. exp.present \/ exp.injectedAt = None
  BY <1>1 DEF Whole, Reverting, GoneKnown
<1>4. RevertedWhenOver'
  BY <1>2, <1>3 DEF RevertedWhenOver, objects
<1>5. Copies' \subseteq Copies
  BY DEF Copies, objects
<1>6. QED
  BY <1>4, <1>5 DEF Whole, Reverting, InRange, FinalizerHolds, GoneKnown, objects

\* At a write of the current version revertIfActive leaves no fault, if one
\* is recorded and the spec still has its target and its scenario.
LEMMA AllReverted ==
  ASSUME Whole, loc = exp, exp.injectedAt # None, lost = {}
  PROVE  RevertIfActive(loc) = {}
<1>1. loc.index < loc.spec.len
  BY DEF Whole, Reverting, InRange
<1>2. QED
  BY <1>1 DEF RevertIfActive, Revert, Whole, Inductive, OnlyCurrentFault

-----------------------------------------------------------------------------
(* The branches that inject, revert or record.                             *)

\* revertIfActive never adds a fault.
LEMMA RevertsOnly == RevertIfActive(loc) \subseteq faults
BY DEF RevertIfActive, Revert

\* A deletion reverts, then the object goes.
LEMMA RemoveFinalizerReverts ==
  ASSUME Whole, RemoveFinalizer
  PROVE  Reverting'
<1> DEFINE o == Deleted([loc EXCEPT !.finalizer = FALSE])
<1>t. TypeOK /\ Coherent /\ loc \in Experiment
  BY DEF Whole, Inductive, TypeOK
<1>1. /\ o \in Experiment /\ ~o.present /\ o.spec = loc.spec
      /\ o.index = loc.index /\ o.injectedAt = loc.injectedAt
  BY <1>t DEF Deleted, Experiment
<1>2. /\ pc = "read" /\ pc' = "idle" /\ (Accepted(o) \/ Errs(o))
      /\ faults' = RevertIfActive(loc) /\ lost' = lost
      /\ loc.present /\ loc.deleting
  BY EndsIdle DEF RemoveFinalizer
<1> HIDE DEF o
<1>3. CASE Commit(o) /\ loc.rv = exp.rv
  <2>1. loc = exp /\ cache = exp /\ watch = {}
    BY <1>2, <1>3, <1>t, AtWrite, Synced
  <2>2. /\ ~exp'.present /\ exp'.spec = exp.spec
        /\ exp'.index = exp.index /\ exp'.injectedAt = exp.injectedAt
    BY <1>1, <1>3, <2>1 DEF Commit, Experiment
  <2>3. Copies' = {exp, exp'} /\ ~Live(exp) /\ ~Live(exp')
    BY <1>2, <1>3, <2>1, <2>2 DEF Commit, Copies, Live
  <2>4. RevertedWhenOver'
    BY <1>2, <2>1, <2>2, AllReverted DEF RevertedWhenOver
  <2>5. QED
    BY <1>2, <2>2, <2>3, <2>4 DEF Whole, Reverting, InRange, FinalizerHolds, GoneKnown
<1>4. CASE UNCHANGED objects
  BY <1>2, <1>4, RevertsOnly, ObjectsKept
<1>5. QED
  BY <1>1, <1>2, <1>3, <1>4, WriteCases

\* A halt reverts, then phase Halted is committed.
LEMMA HaltReverts ==
  ASSUME Whole, Halt
  PROVE  Reverting'
<1> DEFINE o == Halted(loc)
<1>t. TypeOK /\ Coherent /\ loc \in Experiment
  BY DEF Whole, Inductive, TypeOK
<1>1. /\ o \in Experiment /\ o.present = loc.present /\ o.spec = loc.spec
      /\ o.index = loc.index /\ o.injectedAt = loc.injectedAt /\ o.finalizer = loc.finalizer
  BY <1>t DEF Halted, Experiment, Phases
<1>2. /\ pc = "read" /\ pc' # "read" /\ (Accepted(o) \/ Errs(o))
      /\ faults' = RevertIfActive(loc) /\ lost' = lost
      /\ loc.present /\ loc.finalizer
  BY DEF Halt, HaltRequested, Live, ReturnError
<1> HIDE DEF o
<1>3. CASE Commit(o) /\ loc.rv = exp.rv
  <2>1. loc = exp
    BY <1>2, <1>3, <1>t, AtWrite
  <2>2. /\ exp'.present /\ exp'.finalizer /\ exp'.spec = exp.spec
        /\ exp'.index = exp.index /\ exp'.injectedAt = exp.injectedAt
    BY <1>1, <1>2, <1>3, <2>1 DEF Commit, Experiment
  <2>3. RevertedWhenOver'
    BY <1>2, <2>1, <2>2, AllReverted DEF RevertedWhenOver
  <2>4. QED
    BY <1>2, <2>2, <2>3 DEF Whole, Reverting, InRange, FinalizerHolds, GoneKnown
<1>4. CASE UNCHANGED objects
  BY <1>2, <1>4, RevertsOnly, ObjectsKept
<1>5. QED
  BY <1>1, <1>2, <1>3, <1>4, WriteCases

\* An injection is recorded in an experiment that still runs, or not at all.
LEMMA RecordKeeps ==
  ASSUME Whole, RecordInject
  PROVE  Reverting'
<1>t. TypeOK /\ Coherent /\ loc \in Experiment /\ N \in Nat
  BY SpecAssumption DEF Whole, Inductive, TypeOK
<1>1. /\ pc = "injected" /\ pc' = "idle" /\ (Accepted(loc) \/ Errs(loc))
      /\ faults' = faults /\ lost' = lost
  BY EndsIdle DEF RecordInject, history
<1>2. CASE Commit(loc) /\ loc.rv = exp.rv
  <2>1. /\ WouldInject(exp)
        /\ loc = [exp EXCEPT !.injectedAt = loc.injectedAt, !.podsKilled = loc.podsKilled]
    BY <1>1, <1>2, <1>t DEF Coherent
  <2>2. /\ exp'.present /\ exp'.finalizer /\ exp'.phase = "Running"
        /\ exp'.spec = exp.spec /\ exp'.index < exp'.spec.len
    BY <1>2, <2>1, <1>t DEF Commit, WouldInject, InScenario, Running, Live, TypeOK, Experiment
  <2>3. QED
    BY <1>1, <2>2
    DEF Whole, Reverting, InRange, FinalizerHolds, GoneKnown, RevertedWhenOver
<1>3. CASE UNCHANGED objects
  BY <1>1, <1>3, ObjectsKept
<1>4. QED
  BY <1>1, <1>2, <1>3, <1>t, WriteCases

\* An advance clears the record.
LEMMA AdvanceKeeps ==
  ASSUME Whole, Advance
  PROVE  Reverting'
<1> DEFINE o == NextScenario(loc)
<1>t. loc \in Experiment
  BY DEF Whole, Inductive, TypeOK
<1>1. o \in Experiment /\ o.injectedAt = None /\ o.spec = loc.spec
  <2>1. o \in Experiment
    BY <1>t, NextScenarioType DEF Advance
  <2>2. o.injectedAt = None /\ o.spec = loc.spec
    BY <1>t DEF NextScenario, Experiment
  <2>3. QED
    BY <2>1, <2>2
<1>2. /\ pc = "read" /\ pc' = "idle" /\ faults' \subseteq faults /\ lost' = lost
      /\ Accepted(o) \/ Unanswered(o) \/ Refused
  BY DEF Advance, Revert, RequeueAfter, ReturnError
<1> HIDE DEF o
<1>3. QED
  BY <1>1, <1>2, WriteKeeps

-----------------------------------------------------------------------------
(* The steps.                                                              *)

\* A step of Reconcile keeps it.
LEMMA ReconcileReverts ==
  ASSUME Whole, Reconcile
  PROVE  Reverting'
<1> USE DEF history, budget
<1>t. loc \in Experiment
  BY DEF Whole, Inductive, TypeOK
<1>1. CASE Get
  BY <1>1, ObjectsKept DEF Get, Copies
<1>2. CASE NothingToDo
  BY <1>2, ObjectsKept DEF NothingToDo, Return
<1>3. CASE Poll \/ ProbeFails
  BY <1>3, ObjectsKept DEF Poll, ProbeFails, RequeueAfter, ReturnError
<1>4. CASE Inject
  BY <1>4, HitKeeps DEF Inject
<1>5. CASE InjectFails
  BY <1>5, HitKeeps DEF InjectFails
<1>6. CASE AddFinalizer
  <2> DEFINE o == [loc EXCEPT !.finalizer = TRUE]
  <2>1. /\ o \in Experiment /\ o.spec = loc.spec /\ o.injectedAt = loc.injectedAt
        /\ o.index = loc.index /\ o.present = loc.present /\ o.finalizer /\ o.phase = loc.phase
    BY <1>t DEF Experiment
  <2>2. /\ pc = "read" /\ pc' = "idle" /\ (Accepted(o) \/ Errs(o))
        /\ faults' = faults /\ lost' = lost
    BY <1>6, EndsIdle DEF AddFinalizer
  <2> HIDE DEF o
  <2>3. QED
    BY <2>1, <2>2, WriteKeeps
<1>7. CASE ClearHalt
  <2> DEFINE o == [loc EXCEPT !.halt = None]
  <2>1. /\ o \in Experiment /\ o.spec = loc.spec /\ o.injectedAt = loc.injectedAt
        /\ o.index = loc.index /\ o.present = loc.present /\ o.finalizer = loc.finalizer
        /\ o.phase = loc.phase
    BY <1>t DEF Experiment
  <2>2. /\ pc \in {"read", "halted"} /\ pc' = "idle" /\ (Accepted(o) \/ Errs(o))
        /\ faults' = faults /\ lost' = lost
    BY <1>7, EndsIdle DEF ClearHalt
  <2> HIDE DEF o
  <2>3. QED
    BY <2>1, <2>2, WriteKeeps
<1>8. ASSUME NEW p \in Phases \ {"Halted"}, pc \in {"read", "injectFailed"}, pc' = "idle",
             Accepted([loc EXCEPT !.phase = p]) \/ Errs([loc EXCEPT !.phase = p]),
             faults' = faults, lost' = lost
      PROVE  Reverting'
  <2> DEFINE o == [loc EXCEPT !.phase = p]
  <2>1. /\ o \in Experiment /\ o.spec = loc.spec /\ o.injectedAt = loc.injectedAt
        /\ o.index = loc.index /\ o.present = loc.present /\ o.finalizer = loc.finalizer
        /\ o.phase # "Halted"
    BY <1>t, <1>8 DEF Experiment
  <2>2. Accepted(o) \/ Errs(o)
    BY <1>8
  <2> HIDE DEF o
  <2>3. QED
    BY <1>8, <2>1, <2>2, WriteKeeps
<1>9. CASE Start
  BY <1>9, <1>8, EndsIdle DEF Start, Phases
<1>10. CASE Complete
  BY <1>10, <1>8, EndsIdle DEF Complete, Phases
<1>11. CASE FailExperiment
  BY <1>11, <1>8, EndsIdle DEF FailExperiment, Phases
<1>12. CASE Recover
  <2> DEFINE o == [loc EXCEPT !.recoveredAt = loc.injectedAt]
  <2>1. /\ o \in Experiment /\ o.spec = loc.spec /\ o.injectedAt = loc.injectedAt
        /\ o.index = loc.index /\ o.present = loc.present /\ o.finalizer = loc.finalizer
        /\ o.phase = loc.phase
    BY <1>t DEF Experiment
  <2>2. /\ pc = "read" /\ pc' = "idle" /\ (Accepted(o) \/ Errs(o))
        /\ faults' = faults /\ lost' = lost
    BY <1>12, EndsIdle DEF Recover
  <2> HIDE DEF o
  <2>3. QED
    BY <2>1, <2>2, WriteKeeps
<1>13. QED
  BY <1>1, <1>2, <1>3, <1>4, <1>5, <1>6, <1>7, <1>9, <1>10, <1>11, <1>12,
     RemoveFinalizerReverts, HaltReverts, RecordKeeps, AdvanceKeeps DEF Reconcile

\* So do the informer, the timer, the clock and the other actors.
LEMMA OutsideReverts ==
  ASSUME Whole, Deliver \/ TimerFires \/ Tick \/ Environment
  PROVE  Reverting'
<1> USE DEF history, budget
<1>t. TypeOK /\ exp \in Experiment
  BY DEF Whole, Inductive, TypeOK
<1>1. CASE Deliver
  <2>1. /\ cache' \in watch /\ watch' \subseteq watch /\ exp' = exp
        /\ UNCHANGED <<pc, loc, faults, lost>>
    BY <1>1 DEF Deliver, worker
  <2>2. Copies' \subseteq Copies
    BY <2>1 DEF Copies
  <2>3. QED
    BY <2>1, <2>2, Carried DEF Whole
<1>2. CASE TimerFires
  BY <1>2, ObjectsKept DEF TimerFires, worker, Copies
<1>3. CASE Tick
  <2>1. \A v \in Experiment :
          /\ Aged(v).spec = v.spec /\ Aged(v).index = v.index /\ Aged(v).present = v.present
          /\ Aged(v).finalizer = v.finalizer /\ Aged(v).phase = v.phase
          /\ Live(Aged(v)) <=> Live(v)
          /\ Aged(v).injectedAt = None <=> v.injectedAt = None
    BY AgedType DEF Experiment, Live
  <2>2. Copies \subseteq Experiment /\ \A w \in Copies' : \E v \in Copies : w = Aged(v)
    BY <1>3, <1>t DEF Tick, Copies, TypeOK
  <2>3. exp' = Aged(exp) /\ faults' = faults /\ lost' = lost
    BY <1>3 DEF Tick
  <2>4. QED
    BY <1>t, <2>1, <2>2, <2>3, Carried DEF Whole
<1>4. ASSUME NEW r \in Reasons, WatcherHalt(r)
      PROVE  Reverting'
  <2>1. Commit([exp EXCEPT !.halt = r]) /\ UNCHANGED worker /\ faults' = faults /\ lost' = lost
    BY <1>4 DEF WatcherHalt
  <2>2. /\ exp'.spec = exp.spec /\ exp'.injectedAt = exp.injectedAt /\ exp'.index = exp.index
        /\ exp'.present = exp.present /\ exp'.finalizer = exp.finalizer
        /\ exp'.phase = exp.phase
    BY <2>1, <1>t DEF Commit, Experiment
  <2>3. QED
    BY <2>1, <2>2, CommitCopies, Carried DEF Whole
<1>5. ASSUME NEW s \in Specs, UserEdit(s)
      PROVE  Reverting'
  <2>1. /\ Commit([exp EXCEPT !.spec = s]) /\ exp.present /\ faults' = faults
        /\ lost \subseteq lost'
        /\ "scenario" \in lost' \/ ~(s.len <= exp.index)
    BY <1>5 DEF UserEdit
  <2>2. /\ exp'.injectedAt = exp.injectedAt /\ exp'.present /\ exp'.index = exp.index
        /\ exp'.finalizer = exp.finalizer /\ exp'.phase = exp.phase /\ exp'.spec = s
    BY <2>1, <1>t DEF Commit, Experiment
  <2>3. exp.index \in Int /\ s.len \in Int
    BY <1>t, SpecAssumption DEF Experiment, ExperimentSpec
  <2>4. InRange'
    BY <2>1, <2>2, <2>3 DEF InRange
  <2>5. lost' = {} => lost = {}
    BY <2>1
  <2>6. RevertedWhenOver'
    BY <2>1, <2>2, <2>5 DEF Whole, Reverting, RevertedWhenOver
  <2>7. FinalizerHolds' /\ GoneKnown'
    BY <2>1, <2>2 DEF Whole, Reverting, FinalizerHolds, GoneKnown
  <2>8. QED
    BY <2>4, <2>6, <2>7 DEF Reverting
<1>6. CASE UserDelete
  <2>1. /\ Commit(Deleted(exp)) /\ exp.present /\ UNCHANGED worker
        /\ faults' = faults /\ lost' = lost
    BY <1>6 DEF UserDelete
  <2>2. /\ exp'.spec = exp.spec /\ exp'.injectedAt = exp.injectedAt /\ exp'.index = exp.index
        /\ exp'.present = exp.finalizer /\ exp'.finalizer = exp.finalizer
        /\ exp'.phase = exp.phase
    BY <2>1, <1>t DEF Commit, Deleted, Experiment
  <2>3. exp.injectedAt # None => exp.finalizer
    BY <2>1 DEF Whole, Reverting, FinalizerHolds
  <2>4. QED
    BY <2>1, <2>2, <2>3, CommitCopies, Carried DEF Whole
<1>7. CASE Crash
  <2>1. /\ cache' = exp /\ watch' = {} /\ exp' = exp /\ pc' = "idle"
        /\ faults' = faults /\ lost' = lost
    BY <1>7 DEF Crash
  <2>2. Copies' = {exp'}
    BY <2>1 DEF Copies
  <2>3. QED
    BY <2>1, <2>2, Carried DEF Whole
<1>8. QED
  BY <1>1, <1>2, <1>3, <1>4, <1>5, <1>6, <1>7 DEF Environment

\* It holds initially, and every step keeps it.
LEMMA WholeInductive == /\ Init => Whole
                        /\ Whole /\ [Next]_vars => Whole'
<1>1. Init => Whole
  BY InitInductive, SpecAssumption
  DEF Init, Created, Whole, Reverting, InRange, FinalizerHolds, GoneKnown, RevertedWhenOver
<1>2. ASSUME Whole, [Next]_vars PROVE Whole'
  <2>1. Inductive'
    BY <1>2, NextInductive DEF Whole
  <2>2. CASE Reconcile
    BY <1>2, <2>1, <2>2, ReconcileReverts DEF Whole
  <2>3. CASE Deliver \/ TimerFires \/ Tick \/ Environment
    BY <1>2, <2>1, <2>3, OutsideReverts DEF Whole
  <2>4. CASE UNCHANGED vars
    <3>1. /\ UNCHANGED objects /\ UNCHANGED worker /\ faults' = faults /\ lost' = lost
      BY <2>4 DEF vars, history, budget
    <3>2. Reverting'
      BY <1>2, <3>1, ObjectsKept DEF worker, Copies
    <3>3. QED
      BY <2>1, <3>2 DEF Whole
  <2>5. QED
    BY <1>2, <2>2, <2>3, <2>4 DEF Next
<1>3. QED
  BY <1>1, <1>2

\* When an experiment is halted or gone, its recorded scenario is reverted,
\* whatever the informer, the writes of others and crashes did in between.
THEOREM OverMeansReverted == Spec => []RevertedWhenOver
<1>1. Whole => RevertedWhenOver
  BY DEF Whole, Reverting
<1>2. Spec => []Whole
  BY WholeInductive, PTL DEF Spec
<1>3. QED
  BY <1>1, <1>2, PTL

-----------------------------------------------------------------------------
(* A revert is never early.                                                *)

\* What an outdated copy says of the deletion, of the halt and of the age of
\* the current injection still holds of the committed object, and the scenario
\* of a copy that points at an earlier one has been reverted.
Reflects(v) ==
  /\ v.deleting => exp.deleting
  /\ v.halt # None => exp.halt # None \/ exp.phase = "Halted"
  /\ v.injectedAt # None /\ v.index = exp.index => exp.injectedAt = v.injectedAt
  /\ v.index # exp.index => Current(v) \notin faults

Reflected == \A v \in Copies : Reflects(v)

\* A new version with the same index keeps it, if it still says so itself, and
\* so does an injection of the scenario at that index.
LEMMA ReflectedKept ==
  ASSUME Reflected, Copies' \subseteq Copies \cup {exp'},
         exp'.index = exp.index, \A f \in faults' \ faults : f[1] = exp.index,
         exp.deleting => exp'.deleting,
         exp.halt # None \/ exp.phase = "Halted" =>
           exp'.halt # None \/ exp'.phase = "Halted",
         exp.injectedAt # None => exp'.injectedAt = exp.injectedAt
  PROVE  Reflected'
<1>1. ASSUME NEW v \in Copies PROVE Reflects(v)'
  <2>1. Reflects(v)
    BY DEF Reflected
  <2>2. v.index # exp.index => Current(v) \notin faults'
    BY <2>1 DEF Reflects, Current
  <2>3. QED
    BY <2>1, <2>2 DEF Reflects, Current
<1>2. Reflects(exp)'
  BY DEF Reflects
<1>3. ASSUME NEW v \in Copies' PROVE Reflects(v)'
  <2>1. CASE v \in Copies
    BY <1>1, <2>1
  <2>2. CASE v = exp'
    BY <1>2, <2>2 DEF Reflects, Current
  <2>3. QED
    BY <2>1, <2>2
<1>4. QED
  BY <1>3 DEF Reflected

\* A step that leaves the objects alone.
LEMMA ReflectedStays ==
  ASSUME Reflected, UNCHANGED objects, pc' = "read" => loc' \in Copies,
         \A f \in faults' \ faults : f[1] = exp.index
  PROVE  Reflected'
<1>1. Copies' \subseteq Copies
  BY DEF Copies, objects
<1>2. QED
  BY <1>1, ReflectedKept DEF objects

\* A write that ends the call and keeps the scenario.
LEMMA WriteReflected ==
  ASSUME Inductive, Reflected, NEW o \in Experiment,
         pc # "idle", pc' # "read", Accepted(o) \/ Errs(o), faults' \subseteq faults,
         o.index = loc.index, loc.deleting => o.deleting,
         loc.halt # None \/ loc.phase = "Halted" => o.halt # None \/ o.phase = "Halted",
         o.injectedAt = loc.injectedAt
  PROVE  Reflected'
<1>t. TypeOK /\ Coherent
  BY DEF Inductive
<1>1. CASE Commit(o) /\ loc.rv = exp.rv
  <2>1. pc # "injected" => loc = exp
    BY <1>1, <1>t, AtWrite
  <2>2. pc = "injected" =>
          /\ exp.injectedAt = None
          /\ loc = [exp EXCEPT !.injectedAt = loc.injectedAt, !.podsKilled = loc.podsKilled]
    BY <1>1, <1>t DEF Coherent, WouldInject
  <2>3. /\ loc.index = exp.index /\ loc.deleting = exp.deleting
        /\ loc.halt = exp.halt /\ loc.phase = exp.phase
        /\ exp.injectedAt # None => loc.injectedAt = exp.injectedAt
    BY <1>t, <2>1, <2>2 DEF TypeOK, Experiment
  <2>4. /\ exp'.index = o.index /\ exp'.deleting = o.deleting /\ exp'.halt = o.halt
        /\ exp'.phase = o.phase /\ exp'.injectedAt = o.injectedAt
    BY <1>1 DEF Commit, Experiment
  <2>5. Copies' \subseteq Copies \cup {exp'}
    BY <1>1, CommitCopies
  <2>6. QED
    BY <2>3, <2>4, <2>5, ReflectedKept
<1>2. CASE UNCHANGED objects
  BY <1>2, ReflectedStays
<1>3. QED
  BY <1>1, <1>2, WriteCases

\* The write that advances the index leaves no copy of the next injection.
LEMMA AdvanceReflected ==
  ASSUME Inductive, Reflected, Advance
  PROVE  Reflected'
<1> DEFINE o == NextScenario(loc)
<1>t. TypeOK /\ Coherent /\ loc \in Experiment
  BY DEF Inductive, TypeOK
<1>1. /\ pc = "read" /\ pc' = "idle" /\ PastDuration(loc)
      /\ Accepted(o) \/ Unanswered(o) \/ Refused
      /\ faults' = faults \ {Current(loc)}
  BY DEF Advance, RequeueAfter, ReturnError, Revert
<1>2. /\ o \in Experiment /\ o.index = loc.index + 1 /\ o.deleting = loc.deleting
      /\ o.halt = loc.halt /\ o.phase = loc.phase /\ o.injectedAt = None
  <2>1. o \in Experiment
    BY <1>t, <1>1, NextScenarioType
  <2>2. /\ o.index = loc.index + 1 /\ o.deleting = loc.deleting
        /\ o.halt = loc.halt /\ o.phase = loc.phase /\ o.injectedAt = None
    BY <1>t DEF NextScenario, Experiment
  <2>3. QED
    BY <2>1, <2>2
<1> HIDE DEF o
<1>3. CASE Commit(o) /\ loc.rv = exp.rv
  <2>1. loc = exp /\ cache = exp /\ watch = {}
    BY <1>1, <1>3, <1>t, AtWrite, Synced
  <2>2. /\ exp'.index = exp.index + 1 /\ exp'.deleting = exp.deleting
        /\ exp'.halt = exp.halt /\ exp'.phase = exp.phase /\ exp'.injectedAt = None
    BY <1>2, <1>3, <2>1 DEF Commit, Experiment
  <2>3. Copies' \subseteq {exp, exp'} /\ exp.index # exp'.index
    <3>1. Copies' \subseteq {exp, exp'}
      BY <1>1, <1>3, <2>1 DEF Commit, Copies
    <3>2. exp.index \in Int
      BY <1>t DEF TypeOK, Experiment
    <3>3. QED
      BY <2>2, <3>1, <3>2
  <2>4. Current(exp) \notin faults'
    BY <1>1, <2>1
  <2>5. \A v \in Copies' : Reflects(v)'
    BY <2>2, <2>3, <2>4 DEF Reflects, Current
  <2>6. QED
    BY <2>5 DEF Reflected
<1>4. CASE UNCHANGED objects
  BY <1>1, <1>4, ReflectedStays
<1>5. QED
  BY <1>1, <1>3, <1>4, WriteCases

\* A step of Reconcile keeps it.
LEMMA ReconcileReflected ==
  ASSUME Inductive, Reflected, Reconcile
  PROVE  Reflected'
<1>t. TypeOK /\ Coherent /\ loc \in Experiment
  BY DEF Inductive, TypeOK
<1>1. CASE Get
  BY <1>1, ReflectedStays DEF Get, Copies, history
<1>2. CASE NothingToDo \/ Inject \/ InjectFails \/ Poll \/ ProbeFails
  <2>1. CASE NothingToDo \/ Poll \/ ProbeFails
    BY <2>1, ReflectedStays
    DEF NothingToDo, Poll, ProbeFails, Return, RequeueAfter, ReturnError, history
  <2>2. CASE Inject \/ InjectFails
    <3>1. /\ UNCHANGED objects /\ pc' # "read" /\ pc = "read" /\ WouldInject(loc)
          /\ faults' \subseteq faults \cup {Current(loc)}
      BY <2>2 DEF Inject, InjectFails, Hit
    <3>2. loc.index = exp.index
      BY <3>1 DEF Inductive, IndexKnown, Copies, WouldInject
    <3>3. \A f \in faults' \ faults : f[1] = exp.index
      BY <3>1, <3>2 DEF Current
    <3>4. QED
      BY <3>1, <3>3, ReflectedStays
  <2>3. QED
    BY <1>2, <2>1, <2>2
<1>3. ASSUME NEW o \in Experiment, pc # "idle", pc' # "read", Accepted(o) \/ Errs(o),
             faults' \subseteq faults,
             o.index = loc.index, o.injectedAt = loc.injectedAt,
             loc.deleting => o.deleting,
             \/ o.halt = loc.halt /\ o.phase = loc.phase
             \/ o.halt = loc.halt /\ loc.phase # "Halted"
             \/ o.phase = "Halted"
      PROVE  Reflected'
  BY <1>3, WriteReflected
<1>4. CASE RemoveFinalizer
  <2> DEFINE o == Deleted([loc EXCEPT !.finalizer = FALSE])
  <2>1. /\ o \in Experiment /\ o.index = loc.index /\ o.injectedAt = loc.injectedAt
        /\ o.deleting /\ o.halt = loc.halt /\ o.phase = loc.phase
    BY <1>t DEF Deleted, Experiment
  <2>2. /\ pc # "idle" /\ pc' # "read" /\ (Accepted(o) \/ Errs(o))
        /\ faults' \subseteq faults
    BY <1>4, EndsIdle, RevertsOnly DEF RemoveFinalizer
  <2>3. QED
    BY <1>3, <2>1, <2>2
<1>5. CASE AddFinalizer
  <2> DEFINE o == [loc EXCEPT !.finalizer = TRUE]
  <2>1. /\ o \in Experiment /\ o.index = loc.index /\ o.injectedAt = loc.injectedAt
        /\ o.deleting = loc.deleting /\ o.halt = loc.halt /\ o.phase = loc.phase
    BY <1>t DEF Experiment
  <2>2. /\ pc # "idle" /\ pc' # "read" /\ (Accepted(o) \/ Errs(o))
        /\ faults' \subseteq faults
    BY <1>5, EndsIdle DEF AddFinalizer, history
  <2>3. QED
    BY <1>3, <2>1, <2>2
<1>6. CASE Halt
  <2> DEFINE o == Halted(loc)
  <2>1. /\ o \in Experiment /\ o.index = loc.index /\ o.injectedAt = loc.injectedAt
        /\ o.deleting = loc.deleting /\ o.phase = "Halted"
    BY <1>t DEF Halted, Experiment, Phases
  <2>2. /\ pc # "idle" /\ pc' # "read" /\ (Accepted(o) \/ Errs(o))
        /\ faults' \subseteq faults
    BY <1>6, RevertsOnly DEF Halt, ReturnError
  <2>3. QED
    BY <1>3, <2>1, <2>2
<1>7. CASE ClearHalt
  <2> DEFINE o == [loc EXCEPT !.halt = None]
  <2>1. /\ pc # "idle" /\ pc' # "read" /\ loc.phase = "Halted" /\ (Accepted(o) \/ Errs(o))
        /\ faults' \subseteq faults
    BY <1>7, <1>t, EndsIdle DEF ClearHalt, Coherent, history
  <2>2. /\ o \in Experiment /\ o.index = loc.index /\ o.injectedAt = loc.injectedAt
        /\ o.deleting = loc.deleting /\ o.phase = "Halted"
    BY <1>t, <2>1 DEF Experiment
  <2>3. QED
    BY <1>3, <2>1, <2>2
<1>8. ASSUME NEW p \in Phases, pc # "idle", pc' # "read", loc.phase # "Halted",
             faults' \subseteq faults,
             Accepted([loc EXCEPT !.phase = p]) \/ Errs([loc EXCEPT !.phase = p])
      PROVE  Reflected'
  <2> DEFINE o == [loc EXCEPT !.phase = p]
  <2>1. /\ o \in Experiment /\ o.index = loc.index /\ o.injectedAt = loc.injectedAt
        /\ o.deleting = loc.deleting /\ o.halt = loc.halt
    BY <1>t DEF Experiment
  <2>2. QED
    BY <1>3, <1>8, <2>1
<1>9. CASE Start
  BY <1>9, <1>8, EndsIdle DEF Start, Phases, history
<1>10. CASE Complete
  BY <1>10, <1>8, EndsIdle DEF Complete, Phases, Running
<1>11. CASE FailExperiment
  <2>1. pc = "injectFailed" /\ loc.phase = "Running"
    BY <1>11, <1>t DEF FailExperiment, Coherent, WouldInject, InScenario, Running
  <2>2. QED
    BY <1>11, <1>8, <2>1, EndsIdle DEF FailExperiment, Phases
<1>12. CASE RecordInject
  BY <1>12, <1>t, <1>3, EndsIdle DEF RecordInject, history
<1>13. CASE Recover
  <2> DEFINE o == [loc EXCEPT !.recoveredAt = loc.injectedAt]
  <2>1. /\ o \in Experiment /\ o.index = loc.index /\ o.injectedAt = loc.injectedAt
        /\ o.deleting = loc.deleting /\ o.halt = loc.halt /\ o.phase = loc.phase
    BY <1>t DEF Experiment
  <2>2. /\ pc # "idle" /\ pc' # "read" /\ (Accepted(o) \/ Errs(o))
        /\ faults' \subseteq faults
    BY <1>13, EndsIdle DEF Recover, history
  <2>3. QED
    BY <1>3, <2>1, <2>2
<1>14. QED
  BY <1>1, <1>2, <1>4, <1>5, <1>6, <1>7, <1>9, <1>10, <1>11, <1>12, <1>13,
     AdvanceReflected DEF Reconcile

\* So do the informer, the timer, the clock and the other actors.
LEMMA OutsideReflected ==
  ASSUME Inductive, Reflected, Deliver \/ TimerFires \/ Tick \/ Environment
  PROVE  Reflected'
<1>t. TypeOK /\ exp \in Experiment
  BY DEF Inductive, TypeOK
<1>1. CASE Deliver
  <2>1. /\ cache' \in watch /\ watch' \subseteq watch /\ exp' = exp
        /\ UNCHANGED <<pc, loc, faults>>
    BY <1>1 DEF Deliver, worker, history
  <2>2. Copies' \subseteq Copies
    BY <2>1 DEF Copies
  <2>3. QED
    BY <2>1, <2>2, ReflectedKept
<1>2. CASE TimerFires
  BY <1>2, ReflectedStays DEF TimerFires, worker, Copies, history
<1>3. CASE Tick
  <2>1. \A v \in Experiment :
          /\ Aged(v).deleting = v.deleting /\ Aged(v).halt = v.halt
          /\ Aged(v).phase = v.phase /\ Aged(v).index = v.index
          /\ Aged(v).spec = v.spec
          /\ Aged(v).injectedAt = Older(v.injectedAt)
          /\ Older(v.injectedAt) = None <=> v.injectedAt = None
    BY AgedType DEF Experiment
  <2>2. Copies \subseteq Experiment /\ \A w \in Copies' : \E v \in Copies : w = Aged(v)
    BY <1>3, <1>t DEF Tick, Copies, TypeOK
  <2>3. exp' = Aged(exp) /\ faults' = faults
    BY <1>3 DEF Tick
  <2>4. ASSUME NEW v \in Copies, Reflects(v) PROVE Reflects(Aged(v))'
    <3>1. v \in Experiment
      BY <2>2
    <3>2. /\ exp'.deleting = exp.deleting /\ exp'.halt = exp.halt
          /\ exp'.phase = exp.phase /\ exp'.index = exp.index
          /\ exp'.injectedAt = Older(exp.injectedAt)
      BY <1>t, <2>1, <2>3
    <3> DEFINE w == Aged(v)
    <3>3. /\ w.deleting = v.deleting /\ w.halt = v.halt /\ w.index = v.index
          /\ w.injectedAt = Older(v.injectedAt)
          /\ w.injectedAt = None <=> v.injectedAt = None
          /\ Current(w) = Current(v)
      BY <2>1, <3>1 DEF Current
    <3> HIDE DEF w
    <3>4. /\ w.deleting => exp'.deleting
          /\ w.halt # None => exp'.halt # None \/ exp'.phase = "Halted"
          /\ w.injectedAt # None /\ w.index = exp'.index => exp'.injectedAt = w.injectedAt
          /\ w.index # exp'.index => Current(w) \notin faults'
      BY <2>3, <2>4, <3>2, <3>3 DEF Reflects
    <3>5. QED
      BY <3>4 DEF Reflects, w
  <2>5. QED
    BY <2>2, <2>4 DEF Reflected
<1>4. ASSUME NEW o \in Experiment, Commit(o), UNCHANGED worker,
             faults' = faults,
             o.index = exp.index, o.injectedAt = exp.injectedAt, o.phase = exp.phase,
             exp.deleting => o.deleting, exp.halt # None => o.halt # None
      PROVE  Reflected'
  <2>1. /\ exp'.index = o.index /\ exp'.injectedAt = o.injectedAt /\ exp'.phase = o.phase
        /\ exp'.deleting = o.deleting /\ exp'.halt = o.halt
    BY <1>4 DEF Commit, Experiment
  <2>2. QED
    BY <1>4, <2>1, CommitCopies, ReflectedKept
<1>5. ASSUME NEW r \in Reasons, WatcherHalt(r)
      PROVE  Reflected'
  <2> DEFINE o == [exp EXCEPT !.halt = r]
  <2>1. /\ o \in Experiment /\ o.index = exp.index /\ o.injectedAt = exp.injectedAt
        /\ o.phase = exp.phase /\ o.deleting = exp.deleting /\ o.halt # None
    BY <1>t, NoneAssumption DEF Experiment
  <2>2. QED
    BY <1>4, <1>5, <2>1 DEF WatcherHalt, history
<1>6. ASSUME NEW s \in Specs, UserEdit(s)
      PROVE  Reflected'
  <2> DEFINE o == [exp EXCEPT !.spec = s]
  <2>1. /\ o \in Experiment /\ o.index = exp.index /\ o.injectedAt = exp.injectedAt
        /\ o.phase = exp.phase /\ o.deleting = exp.deleting /\ o.halt = exp.halt
    BY <1>t, SpecAssumption DEF Experiment
  <2>2. QED
    BY <1>4, <1>6, <2>1 DEF UserEdit
<1>7. CASE UserDelete
  <2> DEFINE o == Deleted(exp)
  <2>1. /\ o \in Experiment /\ o.index = exp.index /\ o.injectedAt = exp.injectedAt
        /\ o.phase = exp.phase /\ o.deleting /\ o.halt = exp.halt
    BY <1>t DEF Deleted, Experiment
  <2>2. QED
    BY <1>4, <1>7, <2>1 DEF UserDelete, history
<1>8. CASE Crash
  <2>1. Copies' = {exp'} /\ exp' = exp /\ faults' = faults
    BY <1>8 DEF Crash, Copies, history
  <2>2. QED
    BY <2>1, ReflectedKept
<1>9. QED
  BY <1>1, <1>2, <1>3, <1>5, <1>6, <1>7, <1>8 DEF Environment

\* It holds initially, and every step keeps it.
LEMMA ReflectedInductive == /\ Init => Inductive /\ Reflected
                            /\ Inductive /\ Reflected /\ [Next]_vars => Inductive' /\ Reflected'
<1>1. Init => Reflected
  BY DEF Init, Created, Reflected, Reflects, Copies
<1>2. ASSUME Inductive, Reflected, [Next]_vars PROVE Reflected'
  <2>1. CASE UNCHANGED vars
    BY <1>2, <2>1, ReflectedStays DEF vars, worker, Copies, history
  <2>2. QED
    BY <1>2, <2>1, ReconcileReflected, OutsideReflected DEF Next
<1>3. QED
  BY <1>1, <1>2, InitInductive, NextInductive

\* The faults a step withdraws are those of a halt, of a deletion, or of the
\* current scenario past the duration its call knows of.
OnTime ==
  \A f \in faults \ faults' :
    \/ exp.halt # None \/ exp.phase = "Halted" \/ exp.deleting
    \/ /\ f[1] = exp.index /\ exp.injectedAt # None
       /\ exp.injectedAt >= loc.spec.duration[f[1]]

\* Every withdrawal is on time.
LEMMA WithdrawnOnTime ==
  ASSUME Inductive, Reflected, [Next]_vars
  PROVE  OnTime
<1>1. SUFFICES ASSUME NEW f \in faults \ faults'
               PROVE  \/ exp.halt # None \/ exp.phase = "Halted" \/ exp.deleting
                      \/ /\ f[1] = exp.index /\ exp.injectedAt # None
                         /\ exp.injectedAt >= loc.spec.duration[f[1]]
  BY DEF OnTime
<1>3. pc = "read" => Reflects(loc)
  BY DEF Reflected, Copies
<1>4. CASE RemoveFinalizer
  BY <1>3, <1>4 DEF RemoveFinalizer, Reflects
<1>5. CASE Halt
  BY <1>3, <1>5 DEF Halt, HaltRequested, Reflects
<1>6. CASE Advance
  <2>1. /\ pc = "read" /\ loc.injectedAt # None /\ Elapsed(loc)
        /\ faults' = faults \ {Current(loc)}
    BY <1>6 DEF Advance, PastDuration, Revert
  <2>2. f = Current(loc) /\ f[1] = loc.index
    BY <1>1, <2>1 DEF Current
  <2>3. loc.index = exp.index
    BY <1>1, <1>3, <2>1, <2>2 DEF Reflects
  <2>4. QED
    BY <1>3, <2>1, <2>2, <2>3 DEF Reflects, Elapsed
<1>7. CASE Inject \/ InjectFails
  BY <1>1, <1>7 DEF Inject, InjectFails, Hit
<1>8. CASE UNCHANGED faults
  BY <1>1, <1>8
<1>9. QED
  BY <1>4, <1>5, <1>6, <1>7, <1>8
  DEF Next, Reconcile, Environment, Get, NothingToDo, AddFinalizer, ClearHalt, Start,
      Complete, RecordInject, FailExperiment, Recover, Poll, ProbeFails, Deliver,
      TimerFires, Tick, WatcherHalt, UserDelete, UserEdit, Crash, vars, history

\* A fault is withdrawn only if it is that of the current scenario and its
\* committed injection is as old as the duration in the version its call has
\* read, or because of a halt or a deletion: for every edit of durations and
\* targets, also when that version is no longer the committed one.
THEOREM RevertsOnTime == Spec => NotRevertedEarly
<1>1. Inductive /\ Reflected /\ [Next]_vars => [OnTime]_vars
  BY WithdrawnOnTime
<1>2. Spec => [][OnTime]_vars
  BY <1>1, ReflectedInductive, PTL DEF Spec
<1>3. QED
  BY <1>2 DEF NotRevertedEarly, OnTime

=============================================================================
