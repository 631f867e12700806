---------------------- MODULE ScheduleReconcilerProofs ----------------------
(***************************************************************************)
(* Theorems about ScheduleReconciler, for every number of runs and every   *)
(* bound on suspensions, crashes and failed requests.                      *)
(***************************************************************************)
EXTENDS ScheduleReconciler, TLAPS

-----------------------------------------------------------------------------
(* The inductive invariant.                                                *)

\* A copy marked fresh is the stored version, a held one no fresher than the
\* informer's; past the preflight the worker holds an Idle copy.
Coherent ==
  /\ cacheFresh => cache = sched
  /\ locFresh => loc = sched /\ cacheFresh /\ pc # "idle"
  /\ pc \in {"checked", "created", "createFailed"} =>
       loc.present /\ ~loc.suspend /\ loc.phase = "Idle"

\* Every counted run is an experiment that was created, and the one just
\* created is not counted yet.
CreatedFirst ==
  /\ sched.totalRuns <= created
  /\ pc = "checked" => created < MaxRuns
  /\ pc = "created" => sched.totalRuns < created

\* Halted was written from the informer's own copy of a Running schedule, so
\* no copy from before that run is left.
HaltKnown ==
  sched.phase = "Halted" =>
    /\ cache.phase \in {"Running", "Halted"}
    /\ pc # "idle" => loc.phase \in {"Running", "Halted"}

Inductive ==
  /\ TypeOK /\ Coherent /\ CreatedFirst /\ HaltKnown
  /\ RunsAccounted /\ RunningHasActive

-----------------------------------------------------------------------------
(* Writes.                                                                 *)

\* What a write must keep to be computed from the stored version.
Sound(s) ==
  /\ s.successfulRuns + s.haltedRuns + (IF s.phase = "Running" THEN 1 ELSE 0)
       <= s.totalRuns
  /\ s.phase = "Running" => s.active \in 1..created
  /\ s.totalRuns <= created
  /\ s.phase = "Halted" => sched.phase \in {"Running", "Halted"}

\* The stored version is sound.
LEMMA StoredSound == ASSUME Inductive PROVE Sound(sched)
BY DEF Inductive, Sound, RunsAccounted, RunningHasActive, CreatedFirst

\* A write commits what was computed from the stored version, or nothing.
LEMMA WriteCases ==
  ASSUME TypeOK, NEW s, Accepted(s) \/ Errs(s)
  PROVE  /\ UNCHANGED stored \/ (locFresh /\ Commit(s))
         /\ errors' \in 0..MaxErrors
BY ScheduleBounds DEF Accepted, Errs, TypeOK

\* Every way a call returns leaves an idle worker without a copy.
LEMMA Ends ==
  ASSUME TypeOK, Return \/ RequeueAfter \/ ReturnError
  PROVE  /\ pc' = "idle" /\ loc' = Created /\ ~locFresh' /\ locFresh' \in BOOLEAN
         /\ {queued', timer'} \subseteq BOOLEAN
BY DEF TypeOK, Return, RequeueAfter, ReturnError, Finished, queue

\* The statuses of a started and of a concluded run are schedules.
LEMMA StatusType ==
  ASSUME NEW s \in Schedule
  PROVE  /\ created \in Runs => Started(s) \in Schedule
         /\ \A p \in RunPhases : Concluded(s, p) \in Schedule
<1>1. /\ s.totalRuns + 1 \in Nat /\ s.successfulRuns + 1 \in Nat /\ s.haltedRuns + 1 \in Nat
      /\ s.totalRuns \in Nat /\ s.successfulRuns \in Nat /\ s.haltedRuns \in Nat
  BY DEF Schedule
<1>2. created \in Runs => Started(s) \in Schedule
  BY <1>1 DEF Started, Schedule, Phases
<1>3. ASSUME NEW p \in RunPhases
      PROVE  Concluded(s, p) \in Schedule
  <2>1. /\ (IF p = "Completed" THEN s.successfulRuns + 1 ELSE s.successfulRuns) \in Nat
        /\ (IF p = "Halted" THEN s.haltedRuns + 1 ELSE s.haltedRuns) \in Nat
        /\ (IF p = "Halted" THEN "Halted" ELSE "Idle") \in Phases
    BY <1>1 DEF Phases
  <2>2. QED
    BY <2>1 DEF Concluded, Schedule
<1>4. QED
  BY <1>2, <1>3

\* The worker sees the active run in one of the phases.
LEMMA SeenType ==
  ASSUME TypeOK, NEW s \in Schedule PROVE Seen(s) \in RunPhases
BY DEF Seen, TypeOK, Schedule, RunPhases

\* The zero value is a schedule.
LEMMA CreatedType == Created \in Schedule
BY RunAssumption DEF Created, Schedule, Phases, Runs

\* A write that ends the call keeps the invariant if what it may commit is sound.
LEMMA EndingWrite ==
  ASSUME Inductive, NEW s \in Schedule, locFresh => Sound(s),
         Accepted(s) \/ Errs(s), Return \/ RequeueAfter \/ ReturnError,
         UNCHANGED <<runs, suspends, crashes>>
  PROVE  Inductive'
<1>1. TypeOK /\ Coherent /\ CreatedFirst /\ HaltKnown /\ RunsAccounted /\ RunningHasActive
  BY DEF Inductive
<1>2. /\ pc' = "idle" /\ loc' = Created /\ ~locFresh' /\ locFresh' \in BOOLEAN
      /\ {queued', timer'} \subseteq BOOLEAN
  BY <1>1, Ends
<1>3. errors' \in 0..MaxErrors /\ (UNCHANGED stored \/ (locFresh /\ Commit(s)))
  BY <1>1, WriteCases
<1>4. TypeOK'
  BY <1>1, <1>2, <1>3, CreatedType DEF TypeOK, stored, runs, Commit, Stages
<1>5. CASE UNCHANGED stored
  BY <1>1, <1>2, <1>4, <1>5
  DEF Inductive, stored, runs, Coherent, CreatedFirst, HaltKnown, RunsAccounted, RunningHasActive
<1>6. CASE locFresh /\ Commit(s)
  <2>1. /\ sched' = s /\ cache' = cache /\ ~cacheFresh' /\ created' = created
        /\ cache = sched /\ Sound(s)
    BY <1>1, <1>6 DEF Commit, Coherent, runs
  <2>2. QED
    BY <1>2, <1>4, <2>1
    DEF Inductive, Coherent, CreatedFirst, HaltKnown, RunsAccounted, RunningHasActive, Sound
<1>7. QED
  BY <1>3, <1>5, <1>6

\* The end of a call that writes nothing keeps the invariant.
LEMMA QuietEnd ==
  ASSUME Inductive, Return \/ RequeueAfter \/ ReturnError,
         UNCHANGED <<stored, runs, suspends, crashes>>, errors' \in 0..MaxErrors
  PROVE  Inductive'
<1>1. /\ pc' = "idle" /\ loc' = Created /\ ~locFresh' /\ locFresh' \in BOOLEAN
      /\ {queued', timer'} \subseteq BOOLEAN
  BY Ends DEF Inductive
<1>2. TypeOK'
  BY <1>1, CreatedType DEF Inductive, TypeOK, stored, runs, Stages
<1>3. QED
  BY <1>1, <1>2
  DEF Inductive, stored, runs, Coherent, CreatedFirst, HaltKnown, RunsAccounted, RunningHasActive

\* A creation adds one live run and uses up its name.
LEMMA NewRunType ==
  ASSUME TypeOK, created < MaxRuns, NewRun
  PROVE  /\ created' = created + 1 /\ created' \in 0..MaxRuns
         /\ exps' \in [Runs -> RunPhases] /\ expCache' \in [Runs -> RunPhases]
         /\ nameTaken' \in BOOLEAN
<1>1. created \in Nat /\ created + 1 \in 0..MaxRuns /\ created' = created + 1
  BY RunAssumption DEF TypeOK, NewRun
<1>2. exps' \in [Runs -> RunPhases] /\ expCache' \in [Runs -> RunPhases]
  BY DEF NewRun, TypeOK, RunPhases
<1>3. QED
  BY <1>1, <1>2 DEF NewRun

-----------------------------------------------------------------------------
(* Preservation.                                                           *)

\* Every step of the controller keeps the invariant.
LEMMA ReconcileInductive == ASSUME Inductive, Reconcile PROVE Inductive'
<1>i. TypeOK /\ Coherent /\ CreatedFirst /\ HaltKnown /\ RunsAccounted /\ RunningHasActive
  BY DEF Inductive
<1>e. errors \in 0..MaxErrors /\ created \in 0..MaxRuns /\ loc \in Schedule
  BY <1>i DEF TypeOK
<1>f. locFresh => loc = sched /\ Sound(loc)
  BY <1>i, StoredSound DEF Coherent
<1>1. CASE Get
  <2>1. /\ sched' = sched /\ cache' = cache /\ cacheFresh' = cacheFresh
        /\ loc' = cache /\ locFresh' = cacheFresh /\ pc' = "read" /\ created' = created
    BY <1>1 DEF Get, stored, runs
  <2>2. TypeOK'
    BY <1>1, <1>i, <2>1 DEF Get, TypeOK, stored, runs, budget, Stages
  <2>3. Coherent' /\ CreatedFirst' /\ HaltKnown'
    BY <1>i, <2>1 DEF Coherent, CreatedFirst, HaltKnown
  <2>4. QED
    BY <1>i, <2>1, <2>2, <2>3 DEF Inductive, RunsAccounted, RunningHasActive
<1>2. CASE NothingToDo
  BY <1>2, <1>e, QuietEnd DEF NothingToDo, budget
<1>3. CASE Pause
  <2> DEFINE s == [loc EXCEPT !.phase = "Paused"]
  <2>1. s \in Schedule
    BY <1>e DEF Schedule, Phases
  <2>2. locFresh => Sound(s)
    BY <1>e, <1>f DEF Sound, Schedule
  <2>3. QED
    BY <1>3, <2>1, <2>2, EndingWrite DEF Pause, UpdateAndReturn
<1>4. CASE Resume
  <2> DEFINE s == [loc EXCEPT !.phase = "Idle"]
  <2>1. s \in Schedule
    BY <1>e DEF Schedule, Phases
  <2>2. locFresh => Sound(s)
    BY <1>e, <1>f DEF Sound, Schedule
  <2>3. QED
    BY <1>4, <2>1, <2>2, EndingWrite DEF Resume, UpdateAndRequeue
<1>5. CASE Misconfigured \/ FailSchedule
  <2> DEFINE s == [loc EXCEPT !.phase = "Failed"]
  <2>1. s \in Schedule
    BY <1>e DEF Schedule, Phases
  <2>2. locFresh => Sound(s)
    BY <1>e, <1>f DEF Sound, Schedule
  <2>3. QED
    BY <1>5, <2>1, <2>2, EndingWrite DEF Misconfigured, FailSchedule, UpdateAndReturn
<1>6. CASE NotYet \/ StillRunning
  BY <1>6, <1>e, QuietEnd DEF NotYet, StillRunning, budget
<1>7. CASE PreflightPasses
  <2>1. /\ sched' = sched /\ cache' = cache /\ cacheFresh' = cacheFresh
        /\ loc' = loc /\ locFresh' = locFresh /\ pc' = "checked" /\ created' = created
        /\ pc = "read" /\ loc.present /\ ~loc.suspend /\ loc.phase = "Idle"
        /\ created < MaxRuns
    BY <1>7 DEF PreflightPasses, stored, runs, Idle, Dispatched
  <2>2. TypeOK'
    BY <1>7, <1>i, <2>1 DEF PreflightPasses, TypeOK, stored, runs, queue, budget, Stages
  <2>3. Coherent' /\ CreatedFirst' /\ HaltKnown'
    BY <1>i, <2>1 DEF Coherent, CreatedFirst, HaltKnown
  <2>4. QED
    BY <1>i, <2>1, <2>2, <2>3 DEF Inductive, RunsAccounted, RunningHasActive
<1>8. CASE PreflightBlocks
  <2> DEFINE s == [loc EXCEPT !.due = FALSE]
  <2>1. s \in Schedule
    BY <1>e DEF Schedule
  <2>2. locFresh => Sound(s)
    BY <1>e, <1>f DEF Sound, Schedule
  <2>3. QED
    BY <1>8, <2>1, <2>2, EndingWrite DEF PreflightBlocks, UpdateAndRequeue
<1>9. CASE PreflightErrs
  <2>1. errors' = errors /\ UNCHANGED <<stored, runs, suspends, crashes>> /\ ReturnError
    BY <1>9 DEF PreflightErrs, budget
  <2>2. errors' \in 0..MaxErrors
    BY <2>1 DEF Inductive, TypeOK
  <2>3. QED
    BY <2>1, <2>2, QuietEnd
<1>10. CASE Create
  <2>1. /\ sched' = sched /\ cache' = cache /\ cacheFresh' = cacheFresh
        /\ loc' = loc /\ locFresh' = locFresh /\ pc = "checked" /\ pc' = "created"
        /\ created < MaxRuns /\ NewRun
    BY <1>10, <1>i DEF Create, stored, CreatedFirst
  <2>2. /\ created' = created + 1 /\ created' \in 0..MaxRuns
        /\ exps' \in [Runs -> RunPhases] /\ expCache' \in [Runs -> RunPhases]
        /\ nameTaken' \in BOOLEAN
    BY <1>i, <2>1, NewRunType
  <2>3. TypeOK'
    BY <1>10, <1>i, <2>1, <2>2 DEF Create, TypeOK, queue, budget, Stages
  <2>4. Coherent' /\ HaltKnown'
    BY <1>i, <2>1 DEF Coherent, HaltKnown
  <2>5. CreatedFirst' /\ RunningHasActive'
    <3>1. created' \in Nat /\ created <= created' /\ sched.totalRuns <= created
      BY <1>i, <1>e, <2>1, <2>2 DEF CreatedFirst
    <3>2. CreatedFirst'
      BY <1>i, <1>e, <2>1, <2>2, <3>1 DEF CreatedFirst, TypeOK, Schedule
    <3>3. RunningHasActive'
      BY <1>i, <1>e, <2>1, <3>1 DEF RunningHasActive, Runs
    <3>4. QED
      BY <3>2, <3>3
  <2>6. QED
    BY <1>i, <2>1, <2>3, <2>4, <2>5 DEF Inductive, RunsAccounted
<1>11. CASE CreateFails
  <2>1. /\ sched' = sched /\ cache' = cache /\ cacheFresh' = cacheFresh
        /\ loc' = loc /\ locFresh' = locFresh /\ pc = "checked" /\ pc' = "createFailed"
        /\ created < MaxRuns /\ (NewRun \/ UNCHANGED runs)
    BY <1>11, <1>i DEF CreateFails, stored, CreatedFirst
  <2>2. /\ created' \in {created, created + 1} /\ created' \in 0..MaxRuns
        /\ exps' \in [Runs -> RunPhases] /\ expCache' \in [Runs -> RunPhases]
        /\ nameTaken' \in BOOLEAN
    <3>1. CASE NewRun
      BY <1>i, <2>1, <3>1, NewRunType
    <3>2. CASE UNCHANGED runs
      BY <1>i, <3>2 DEF runs, TypeOK
    <3>3. QED
      BY <2>1, <3>1, <3>2
  <2>3. errors' \in 0..MaxErrors
    BY <1>11, <1>e, ScheduleBounds DEF CreateFails
  <2>4. TypeOK'
    BY <1>11, <1>i, <2>1, <2>2, <2>3 DEF CreateFails, TypeOK, queue, Stages
  <2>5. Coherent' /\ HaltKnown'
    BY <1>i, <2>1 DEF Coherent, HaltKnown
  <2>6. CreatedFirst' /\ RunningHasActive'
    <3>1. created' \in Nat /\ created <= created' /\ sched.totalRuns <= created
      BY <1>i, <1>e, <2>1, <2>2 DEF CreatedFirst
    <3>2. CreatedFirst'
      BY <1>i, <1>e, <2>1, <2>2, <3>1 DEF CreatedFirst, TypeOK, Schedule
    <3>3. RunningHasActive'
      BY <1>i, <1>e, <2>1, <3>1 DEF RunningHasActive, Runs
    <3>4. QED
      BY <3>2, <3>3
  <2>7. QED
    BY <1>i, <2>1, <2>4, <2>5, <2>6 DEF Inductive, RunsAccounted
<1>12. CASE RecordRun
  <2> DEFINE s == Started(loc)
  <2>1. pc = "created" /\ created \in Runs /\ created \in 1..created
    <3>1. pc = "created" /\ sched.totalRuns < created
      BY <1>12, <1>i DEF RecordRun, CreatedFirst
    <3>2. created \in 0..MaxRuns /\ sched.totalRuns \in Nat
      BY <1>i DEF TypeOK, Schedule
    <3>3. QED
      BY <3>1, <3>2, ScheduleBounds DEF Runs
  <2>2. s \in Schedule
    BY <1>e, <2>1, StatusType
  <2>3. loc.phase = "Idle" /\ (locFresh => loc.totalRuns + 1 <= created)
    BY <1>i, <1>e, <2>1 DEF Coherent, CreatedFirst, TypeOK, Schedule
  <2>4. locFresh => Sound(s)
    BY <1>e, <1>f, <2>1, <2>3 DEF Started, Sound, Schedule
  <2>5. QED
    BY <1>12, <2>2, <2>4, EndingWrite DEF RecordRun, UpdateAndRequeue
<1>13. CASE ConcludeRun
  <2> DEFINE s == Concluded(loc, Seen(loc))
  <2>1. loc.phase = "Running" /\ Seen(loc) # "Halted"
    BY <1>13 DEF ConcludeRun, Dispatched
  <2>2. s \in Schedule
    BY <1>i, <1>e, StatusType, SeenType
  <2>3. locFresh => Sound(s)
    BY <1>e, <1>f, <2>1 DEF Concluded, Sound, Schedule
  <2>4. QED
    BY <1>13, <2>2, <2>3, EndingWrite DEF ConcludeRun, UpdateAndRequeue
<1>14. CASE HaltSchedule
  <2> DEFINE s == Concluded(loc, "Halted")
  <2>1. loc.phase = "Running"
    BY <1>14 DEF HaltSchedule, Dispatched
  <2>2. s \in Schedule
    BY <1>e, StatusType DEF RunPhases
  <2>3. locFresh => Sound(s)
    BY <1>e, <1>f, <2>1 DEF Concluded, Sound, Schedule
  <2>4. QED
    BY <1>14, <2>2, <2>3, EndingWrite DEF HaltSchedule, UpdateAndReturn
<1>15. QED
  BY <1>1, <1>2, <1>3, <1>4, <1>5, <1>6, <1>7, <1>8, <1>9, <1>10, <1>11, <1>12,
     <1>13, <1>14 DEF Reconcile

\* Every step outside the controller keeps the invariant.
LEMMA OutsideInductive ==
  ASSUME Inductive, Deliver \/ TimerFires \/ Tick \/ Environment
  PROVE  Inductive'
<1>i. TypeOK /\ Coherent /\ CreatedFirst /\ HaltKnown /\ RunsAccounted /\ RunningHasActive
  BY DEF Inductive
<1>u. ASSUME UNCHANGED <<stored, worker, created>>, TypeOK' PROVE Inductive'
  BY <1>i, <1>u
  DEF Inductive, stored, worker, Coherent, CreatedFirst, HaltKnown, RunsAccounted, RunningHasActive
<1>c. ASSUME NEW s \in Schedule, Commit(s), UNCHANGED <<runs, pc, loc, queue, crashes, errors>>,
             suspends' \in 0..MaxSuspends,
             s.phase = sched.phase, s.active = sched.active, s.totalRuns = sched.totalRuns,
             s.successfulRuns = sched.successfulRuns, s.haltedRuns = sched.haltedRuns
      PROVE  Inductive'
  <2>1. /\ sched' = s /\ cache' = cache /\ ~cacheFresh' /\ ~locFresh'
        /\ pc' = pc /\ loc' = loc /\ created' = created
    BY <1>c DEF Commit, runs
  <2>2. TypeOK'
    BY <1>c, <1>i DEF Commit, TypeOK, runs, queue
  <2>3. Coherent' /\ CreatedFirst' /\ HaltKnown' /\ RunsAccounted' /\ RunningHasActive'
    BY <1>i, <1>c, <2>1
    DEF Coherent, CreatedFirst, HaltKnown, RunsAccounted, RunningHasActive
  <2>4. QED
    BY <2>2, <2>3 DEF Inductive
<1>1. CASE DeliverSchedule
  <2>1. /\ sched' = sched /\ cache' = sched /\ cacheFresh' /\ ~cacheFresh
        /\ locFresh' = locFresh /\ loc' = loc /\ pc' = pc /\ created' = created
    BY <1>1 DEF DeliverSchedule, worker, runs
  <2>2. TypeOK'
    BY <1>1, <1>i DEF DeliverSchedule, TypeOK, worker, runs, budget
  <2>3. QED
    BY <1>i, <2>1, <2>2
    DEF Inductive, Coherent, CreatedFirst, HaltKnown, RunsAccounted, RunningHasActive
<1>2. ASSUME NEW r \in Runs, DeliverExperiment(r) PROVE Inductive'
  BY <1>2, <1>i, <1>u DEF DeliverExperiment, TypeOK, stored, worker, budget
<1>3. CASE TimerFires
  BY <1>3, <1>i, <1>u DEF TimerFires, TypeOK, stored, worker, runs, budget
<1>4. CASE Tick
  BY <1>4, <1>i, <1>u DEF Tick, TypeOK, stored, worker, queue, budget
<1>5. CASE Fire
  <2>1. /\ sched' = [sched EXCEPT !.due = TRUE] /\ cache' = [cache EXCEPT !.due = TRUE]
        /\ loc' = (IF pc = "idle" THEN loc ELSE [loc EXCEPT !.due = TRUE])
        /\ cacheFresh' = cacheFresh /\ locFresh' = locFresh /\ pc' = pc /\ created' = created
    BY <1>5 DEF Fire, runs
  <2>2. sched' \in Schedule /\ cache' \in Schedule /\ loc' \in Schedule
    BY <1>i, <2>1 DEF TypeOK, Schedule
  <2>3. /\ sched'.phase = sched.phase /\ sched'.active = sched.active
        /\ sched'.totalRuns = sched.totalRuns /\ sched'.haltedRuns = sched.haltedRuns
        /\ sched'.successfulRuns = sched.successfulRuns
        /\ cache'.phase = cache.phase /\ loc'.phase = loc.phase
        /\ loc'.present = loc.present /\ loc'.suspend = loc.suspend
    BY <1>i, <2>1 DEF TypeOK, Schedule
  <2>4. TypeOK'
    BY <1>5, <1>i, <2>1, <2>2 DEF Fire, TypeOK, runs, queue, budget
  <2>5. Coherent'
    BY <1>i, <2>1, <2>3 DEF Coherent
  <2>6. QED
    BY <1>i, <2>1, <2>3, <2>4, <2>5
    DEF Inductive, CreatedFirst, HaltKnown, RunsAccounted, RunningHasActive
<1>6. CASE UserSuspend
  <2> DEFINE s == [sched EXCEPT !.suspend = ~@]
  <2>1. /\ s \in Schedule
        /\ s.phase = sched.phase /\ s.active = sched.active /\ s.totalRuns = sched.totalRuns
        /\ s.successfulRuns = sched.successfulRuns /\ s.haltedRuns = sched.haltedRuns
    BY <1>i DEF TypeOK, Schedule
  <2>2. suspends' \in 0..MaxSuspends
    BY <1>6, <1>i, ScheduleBounds DEF UserSuspend, TypeOK
  <2> HIDE DEF s
  <2>3. QED
    BY <1>6, <2>1, <2>2, <1>c DEF UserSuspend, s
<1>7. CASE UserDelete
  <2> DEFINE s == [sched EXCEPT !.present = FALSE]
  <2>1. /\ s \in Schedule
        /\ s.phase = sched.phase /\ s.active = sched.active /\ s.totalRuns = sched.totalRuns
        /\ s.successfulRuns = sched.successfulRuns /\ s.haltedRuns = sched.haltedRuns
    BY <1>i DEF TypeOK, Schedule
  <2>2. suspends' \in 0..MaxSuspends
    BY <1>7, <1>i DEF UserDelete, TypeOK, budget
  <2>3. QED
    BY <1>7, <2>1, <2>2, <1>c DEF UserDelete, budget
<1>8. CASE Crash
  <2>1. /\ sched' = sched /\ cache' = sched /\ cacheFresh' /\ ~locFresh'
        /\ pc' = "idle" /\ created' = created
    BY <1>8 DEF Crash, Finished
  <2>2. TypeOK'
    <3>1. crashes' \in 0..MaxCrashes
      BY <1>8, <1>i, ScheduleBounds DEF Crash, TypeOK
    <3>2. QED
      BY <1>8, <1>i, <3>1, CreatedType DEF Crash, Finished, TypeOK, Stages
  <2>3. QED
    BY <1>i, <2>1, <2>2
    DEF Inductive, Coherent, CreatedFirst, HaltKnown, RunsAccounted, RunningHasActive
<1>9. ASSUME NEW r \in Runs, ExperimentStep(r) PROVE Inductive'
  BY <1>9, <1>i, <1>u DEF ExperimentStep, TypeOK, stored, worker, queue, budget
<1>10. QED
  BY <1>1, <1>2, <1>3, <1>4, <1>5, <1>6, <1>7, <1>8, <1>9 DEF Deliver, Environment

\* The initial states satisfy the invariant.
LEMMA InitInductive == Init => Inductive
<1> SUFFICES ASSUME Init PROVE Inductive
  OBVIOUS
<1>1. TypeOK
  <2>1. exps \in [Runs -> RunPhases] /\ expCache \in [Runs -> RunPhases]
    BY DEF Init, RunPhases
  <2>2. /\ created \in 0..MaxRuns /\ suspends \in 0..MaxSuspends
        /\ crashes \in 0..MaxCrashes /\ errors \in 0..MaxErrors
    BY RunAssumption, ScheduleBounds DEF Init
  <2>3. QED
    BY <2>1, <2>2, CreatedType DEF Init, TypeOK, Stages
<1>2. QED
  BY <1>1
  DEF Init, Created, Inductive, Coherent, CreatedFirst, HaltKnown, RunsAccounted, RunningHasActive

\* Every step keeps it.
LEMMA NextInductive == Inductive /\ [Next]_vars => Inductive'
<1> SUFFICES ASSUME Inductive, [Next]_vars PROVE Inductive'
  OBVIOUS
<1>1. CASE Next
  BY <1>1, ReconcileInductive, OutsideInductive DEF Next
<1>2. CASE UNCHANGED vars
  BY <1>2 DEF vars, stored, runs, worker, queue, budget, Inductive, TypeOK, Coherent,
              CreatedFirst, HaltKnown, RunsAccounted, RunningHasActive
<1>3. QED
  BY <1>1, <1>2

-----------------------------------------------------------------------------
(* Theorems.                                                               *)

\* The inductive invariant holds in every reachable state.
THEOREM InductiveInvariant == Spec => []Inductive
BY InitInductive, NextInductive, PTL DEF Spec

\* Every variable has its type in every reachable state.
THEOREM TypeCorrect == Spec => []TypeOK
<1>1. Inductive => TypeOK
  BY DEF Inductive
<1>2. QED
  BY <1>1, InductiveInvariant, PTL

\* The runs that succeeded or were halted, with the one in progress, never
\* outnumber the runs started, with any number of runs, stale reads, conflicts,
\* suspensions and crashes.
THEOREM HistoryAddsUp == Spec => []RunsAccounted
<1>1. Inductive => RunsAccounted
  BY DEF Inductive
<1>2. QED
  BY <1>1, InductiveInvariant, PTL

\* A schedule in phase Running always names an experiment that was created.
THEOREM RunningIsNamed == Spec => []RunningHasActive
<1>1. Inductive => RunningHasActive
  BY DEF Inductive
<1>2. QED
  BY <1>1, InductiveInvariant, PTL

\* A halted schedule never gets to create an experiment, however old the copy
\* that the worker decided on.
THEOREM HaltIsObeyed == Spec => []HaltStopsRuns
<1>1. Inductive => HaltStopsRuns
  BY DEF Inductive, Coherent, HaltKnown, HaltStopsRuns
<1>2. QED
  BY <1>1, InductiveInvariant, PTL

-----------------------------------------------------------------------------
(* No schedule is forgotten.                                               *)

\* As long as the key has not been queued again, the copy a call started with
\* is the informer's.
ReadIsCurrent ==
  pc = "read" /\ ~queued => loc = cache /\ (locFresh <=> cacheFresh)

Remembered == Inductive /\ ReadIsCurrent /\ NeverForgotten

\* Every way a call ends with a write leaves something that wakes it up.
LEMMA WriteRemembers ==
  ASSUME NEW s, UpdateAndRequeue(s) \/ UpdateAndReturn(s)
  PROVE  pc' = "idle" /\ (queued' \/ timer' \/ ~cacheFresh')
BY DEF UpdateAndRequeue, UpdateAndReturn, Accepted, Commit, RequeueAfter, Return,
       ReturnError, Finished

\* A step of Reconcile forgets nothing.
LEMMA ReconcileRemembers ==
  ASSUME Remembered, Reconcile
  PROVE  ReadIsCurrent' /\ NeverForgotten'
<1>1. CASE Get
  <2>1. pc' = "read" /\ loc' = cache' /\ locFresh' = cacheFresh'
    BY <1>1 DEF Get, stored
  <2>2. QED
    BY <2>1 DEF ReadIsCurrent, NeverForgotten
<1>2. CASE NothingToDo
  <2>1. /\ pc = "read" /\ pc' = "idle" /\ Settled(loc) /\ UNCHANGED queue
        /\ sched' = sched /\ cacheFresh' = cacheFresh
    BY <1>2 DEF NothingToDo, Return, Finished, stored
  <2>2. ~queued /\ cacheFresh => loc = sched
    BY <2>1 DEF Remembered, ReadIsCurrent, Inductive, Coherent
  <2>3. Settled(sched)' <=> Settled(sched)
    BY <2>1 DEF Settled, Dispatched
  <2>4. NeverForgotten'
    BY <2>1, <2>2, <2>3 DEF NeverForgotten, queue
  <2>5. QED
    BY <2>1, <2>4 DEF ReadIsCurrent
<1>3. CASE PreflightPasses \/ Create \/ CreateFails
  <2>1. pc' \notin {"idle", "read"}
    BY <1>3 DEF PreflightPasses, Create, CreateFails
  <2>2. QED
    BY <2>1 DEF ReadIsCurrent, NeverForgotten
<1>4. CASE NotYet \/ StillRunning \/ PreflightErrs
  <2>1. pc' = "idle" /\ (queued' \/ timer')
    BY <1>4 DEF NotYet, StillRunning, PreflightErrs, RequeueAfter, ReturnError, Finished
  <2>2. QED
    BY <2>1 DEF ReadIsCurrent, NeverForgotten
<1>5. ASSUME NEW s, UpdateAndRequeue(s) \/ UpdateAndReturn(s)
      PROVE  ReadIsCurrent' /\ NeverForgotten'
  BY <1>5, WriteRemembers DEF ReadIsCurrent, NeverForgotten
<1>6. QED
  BY <1>1, <1>2, <1>3, <1>4, <1>5
  DEF Reconcile, Pause, Resume, Misconfigured, PreflightBlocks, FailSchedule, RecordRun,
      ConcludeRun, HaltSchedule

\* Neither do the informers, the timer, the clock and the other actors.
LEMMA OutsideRemembers ==
  ASSUME Remembered, Deliver \/ TimerFires \/ Tick \/ Environment
  PROVE  ReadIsCurrent' /\ NeverForgotten'
<1>1. CASE Deliver \/ TimerFires \/ Crash
  <2>1. queued'
    BY <1>1 DEF Deliver, DeliverSchedule, DeliverExperiment, TimerFires, Crash
  <2>2. QED
    BY <2>1 DEF ReadIsCurrent, NeverForgotten
<1>2. CASE Tick \/ \E r \in Runs : ExperimentStep(r)
  <2>1. UNCHANGED <<stored, worker, queue>>
    BY <1>2 DEF Tick, ExperimentStep
  <2>2. QED
    BY <2>1 DEF Remembered, ReadIsCurrent, NeverForgotten, Settled, Dispatched,
                stored, worker, queue
<1>3. CASE Fire
  <2>1. /\ sched' = [sched EXCEPT !.due = TRUE] /\ cache' = [cache EXCEPT !.due = TRUE]
        /\ pc = "read" => loc' = [loc EXCEPT !.due = TRUE]
        /\ cacheFresh' = cacheFresh /\ locFresh' = locFresh /\ pc' = pc
        /\ UNCHANGED <<queued, timer>>
    BY <1>3 DEF Fire, queue
  <2>2. /\ sched'.present = sched.present /\ sched'.suspend = sched.suspend
        /\ sched'.phase = sched.phase
    BY <2>1 DEF Remembered, Inductive, TypeOK, Schedule
  <2>3. Settled(sched)' <=> Settled(sched)
    BY <2>2 DEF Settled, Dispatched
  <2>4. NeverForgotten'
    BY <2>1, <2>3 DEF Remembered, NeverForgotten
  <2>5. ReadIsCurrent'
    BY <2>1 DEF Remembered, ReadIsCurrent
  <2>6. QED
    BY <2>4, <2>5
<1>4. CASE UserSuspend \/ UserDelete
  <2>1. /\ cache' = cache /\ ~cacheFresh' /\ ~locFresh'
        /\ UNCHANGED <<pc, loc, queued, timer>>
    BY <1>4 DEF UserSuspend, UserDelete, Commit, queue
  <2>2. QED
    BY <2>1 DEF Remembered, ReadIsCurrent, NeverForgotten
<1>5. QED
  BY <1>1, <1>2, <1>3, <1>4 DEF Environment

\* It holds initially, and every step keeps it.
LEMMA RememberedInductive == /\ Init => Remembered
                             /\ Remembered /\ [Next]_vars => Remembered'
<1>1. Init => Remembered
  BY InitInductive DEF Init, Remembered, ReadIsCurrent, NeverForgotten
<1>2. ASSUME Remembered, [Next]_vars PROVE Remembered'
  <2>1. Inductive'
    BY <1>2, NextInductive DEF Remembered
  <2>2. CASE UNCHANGED vars
    <3>1. ReadIsCurrent' /\ NeverForgotten'
      BY <1>2, <2>2 DEF Remembered, ReadIsCurrent, NeverForgotten, Settled, Dispatched,
                        vars, stored, worker, queue
    <3>2. QED
      BY <2>1, <3>1 DEF Remembered
  <2>3. QED
    BY <1>2, <2>1, <2>2, ReconcileRemembers, OutsideRemembers DEF Next, Remembered
<1>3. QED
  BY <1>1, <1>2

\* A schedule that is not settled is always in a worker's hands, in the queue,
\* or about to be queued, for any number of runs and whatever is lost.
THEOREM AlwaysRemembered == Spec => []NeverForgotten
<1>1. Remembered => NeverForgotten
  BY DEF Remembered
<1>2. Spec => []Remembered
  BY RememberedInductive, PTL DEF Spec
<1>3. QED
  BY <1>1, <1>2, PTL

-----------------------------------------------------------------------------
(* The controller implements ScheduleLifecycle.                            *)

\* What is committed shows in the lifecycle, and nothing else does.
LEMMA Shows ==
  ASSUME UNCHANGED sched PROVE UNCHANGED Lifecycle!vars
BY DEF Lifecycle!vars

\* A write shows what it commits, and only if it was computed from what is stored.
LEMMA WriteShows ==
  ASSUME Inductive, NEW s, Accepted(s) \/ Errs(s)
  PROVE  \/ UNCHANGED Lifecycle!vars
         \/ loc = sched /\ sched' = s
<1>1. UNCHANGED stored \/ (locFresh /\ Commit(s))
  BY WriteCases DEF Inductive
<1>2. QED
  BY <1>1, Shows DEF stored, Commit, Inductive, Coherent

\* A step of the controller is a step of the lifecycle or a stutter.
LEMMA ReconcileRefines ==
  ASSUME Inductive, Reconcile
  PROVE  Lifecycle!Next \/ UNCHANGED Lifecycle!vars
<1>i. /\ sched \in Schedule /\ loc \in Schedule /\ created \in 0..MaxRuns
      /\ Coherent /\ CreatedFirst /\ RunningHasActive
  BY DEF Inductive, TypeOK
<1>1. CASE Get \/ NothingToDo \/ NotYet \/ PreflightPasses \/ PreflightErrs \/ Create
             \/ CreateFails \/ StillRunning
  BY <1>1, Shows DEF Get, NothingToDo, NotYet, PreflightPasses, PreflightErrs, Create,
                     CreateFails, StillRunning, stored
<1>2. CASE Pause
  <2>1. CASE loc = sched /\ sched' = [loc EXCEPT !.phase = "Paused"]
    BY <1>2, <1>i, <2>1 DEF Pause, Schedule, Lifecycle!Next, Lifecycle!Suspension, Lifecycle!Pause
  <2>2. QED
    BY <1>2, <2>1, WriteShows DEF Pause, UpdateAndReturn
<1>3. CASE Resume
  <2>1. CASE loc = sched /\ sched' = [loc EXCEPT !.phase = "Idle"]
    BY <1>3, <1>i, <2>1
    DEF Resume, Dispatched, Schedule, Lifecycle!Next, Lifecycle!Suspension, Lifecycle!Resume
  <2>2. QED
    BY <1>3, <2>1, WriteShows DEF Resume, UpdateAndRequeue
<1>4. CASE Misconfigured \/ FailSchedule
  <2>1. loc.present /\ loc.phase = "Idle"
    BY <1>4, <1>i DEF Misconfigured, FailSchedule, Idle, Dispatched, Coherent
  <2>2. CASE loc = sched /\ sched' = [loc EXCEPT !.phase = "Failed"]
    BY <1>i, <2>1, <2>2 DEF Schedule, Lifecycle!Next, Lifecycle!Suspension, Lifecycle!Fail
  <2>3. QED
    BY <1>4, <2>2, WriteShows DEF Misconfigured, FailSchedule, UpdateAndReturn
<1>5. CASE PreflightBlocks
  <2>1. CASE loc = sched /\ sched' = [loc EXCEPT !.due = FALSE]
    BY <1>i, <2>1 DEF Schedule, Lifecycle!vars
  <2>2. QED
    BY <1>5, <2>1, WriteShows DEF PreflightBlocks, UpdateAndRequeue
<1>6. CASE RecordRun
  <2>1. pc = "created" /\ loc.present /\ loc.phase = "Idle" /\ created > sched.totalRuns
    BY <1>6, <1>i DEF RecordRun, Coherent, CreatedFirst, Schedule
  <2>2. CASE loc = sched /\ sched' = Started(loc)
    BY <1>i, <2>1, <2>2 DEF Started, Schedule, Lifecycle!Next, Lifecycle!Start
  <2>3. QED
    BY <1>6, <2>2, WriteShows DEF RecordRun, UpdateAndRequeue
<1>7. CASE ConcludeRun
  <2>1. loc.present /\ loc.phase = "Running" /\ Seen(loc) # "Halted"
    BY <1>7 DEF ConcludeRun, Dispatched
  <2>2. CASE loc = sched /\ sched' = Concluded(loc, Seen(loc))
    <3>1. sched.active # None
      BY <1>i, <2>1, <2>2, RunAssumption DEF RunningHasActive
    <3>2. QED
      BY <1>i, <2>1, <2>2, <3>1 DEF Concluded, Schedule, Lifecycle!Next, Lifecycle!Conclude
  <2>3. QED
    BY <1>7, <2>2, WriteShows DEF ConcludeRun, UpdateAndRequeue
<1>8. CASE HaltSchedule
  <2>1. loc.present /\ loc.phase = "Running"
    BY <1>8 DEF HaltSchedule, Dispatched
  <2>2. CASE loc = sched /\ sched' = Concluded(loc, "Halted")
    <3>1. sched.active # None
      BY <1>i, <2>1, <2>2, RunAssumption DEF RunningHasActive
    <3>2. QED
      BY <1>i, <2>1, <2>2, <3>1 DEF Concluded, Schedule, Lifecycle!Next, Lifecycle!Halt
  <2>3. QED
    BY <1>8, <2>2, WriteShows DEF HaltSchedule, UpdateAndReturn
<1>9. QED
  BY <1>1, <1>2, <1>3, <1>4, <1>5, <1>6, <1>7, <1>8 DEF Reconcile

\* A step outside the controller removes the schedule or shows nothing.
LEMMA OutsideRefines ==
  ASSUME TypeOK, Deliver \/ TimerFires \/ Tick \/ Environment
  PROVE  Lifecycle!Next \/ UNCHANGED Lifecycle!vars
<1>1. CASE Deliver \/ TimerFires \/ Tick \/ Crash \/ (\E r \in Runs : ExperimentStep(r))
  BY <1>1, Shows DEF Deliver, DeliverSchedule, DeliverExperiment, TimerFires, Tick, Crash,
                     ExperimentStep, stored
<1>2. CASE Fire
  BY <1>2 DEF Fire, TypeOK, Schedule, Lifecycle!vars
<1>3. CASE UserSuspend
  BY <1>3 DEF UserSuspend, Commit, TypeOK, Schedule, Lifecycle!vars
<1>4. CASE UserDelete
  BY <1>4 DEF UserDelete, Commit, TypeOK, Schedule, Lifecycle!Next, Lifecycle!Remove
<1>5. QED
  BY <1>1, <1>2, <1>3, <1>4 DEF Environment

\* The committed status of a schedule follows ScheduleLifecycle in every
\* behaviour of the controller.
THEOREM Refinement == Spec => ImplementsLifecycle
<1>1. Init => Lifecycle!Init
  BY DEF Init, Created, Lifecycle!Init
<1>2. Inductive /\ [Next]_vars => [Lifecycle!Next]_(Lifecycle!vars)
  <2> SUFFICES ASSUME Inductive, [Next]_vars
               PROVE  Lifecycle!Next \/ UNCHANGED Lifecycle!vars
    OBVIOUS
  <2>1. CASE Next
    BY <2>1, ReconcileRefines, OutsideRefines DEF Next, Inductive
  <2>2. CASE UNCHANGED vars
    BY <2>2, Shows DEF vars, stored
  <2>3. QED
    BY <2>1, <2>2
<1>3. QED
  BY <1>1, <1>2, InductiveInvariant, PTL DEF Spec, ImplementsLifecycle, Lifecycle!Spec

=============================================================================
