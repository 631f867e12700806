------------------------- MODULE ScheduleReconciler -------------------------
(***************************************************************************)
(* The ChaosSchedule controller: ChaosScheduleReconciler.Reconcile on one  *)
(* schedule, with the experiments it creates.                              *)
(*                                                                         *)
(* The worker reads the schedule and its experiments from two informers,   *)
(* each of which may lag.  The informers carry no order between them, and  *)
(* a late delivery commutes with later writes, so an informer here jumps   *)
(* to what is stored.  A write of the schedule is refused unless the copy  *)
(* is the stored version; creating an experiment has no such guard.        *)
(*                                                                         *)
(* The experiments move by themselves through the phases of                *)
(* ExperimentLifecycle, Pending and Running taken together as "live".  The *)
(* r-th experiment created is run r; its name holds the second of its      *)
(* creation.                                                               *)
(***************************************************************************)
EXTENDS Integers, FiniteSets

CONSTANTS MaxRuns,  \* experiments created in one behaviour
          None      \* the nil pointer

\* Bounds on what the environment does in one behaviour.
CONSTANTS MaxSuspends, MaxCrashes, MaxErrors, MayFail, MayDelete

ASSUME RunAssumption == MaxRuns \in Nat \ {0} /\ None \notin Int

ASSUME ScheduleBounds ==
  /\ {MaxSuspends, MaxCrashes, MaxErrors} \subseteq Nat
  /\ {MayFail, MayDelete} \subseteq BOOLEAN

VARIABLES
  sched,      \* the schedule at the API server
  cache,      \* the informer's copy of it
  cacheFresh, \* the informer's copy is the stored version
  exps,       \* phase of every run at the API server
  expCache,   \* phase of every run in the experiment informer
  created,    \* number of experiments created
  nameTaken,  \* the latest experiment was created in this second
  pc,         \* where the worker is in Reconcile
  loc,        \* the copy Reconcile works on (its variable sched)
  locFresh,   \* that copy is the stored version
  queued,     \* the key is in the work queue
  timer       \* a delayed entry of the key is pending

\* How much of each bound the environment has used.
VARIABLES suspends, crashes, errors

stored == <<sched, cache, cacheFresh>>
runs   == <<exps, expCache, created, nameTaken>>
worker == <<pc, loc, locFresh>>
queue  == <<queued, timer>>
budget == <<suspends, crashes, errors>>
vars   == <<stored, runs, worker, queue, budget>>

Runs      == 1..MaxRuns
Phases    == {"Idle", "Running", "Paused", "Halted", "Failed"}
RunPhases == {"absent", "live", "Completed", "Failed", "Halted"}
Over      == {"absent", "Completed", "Failed", "Halted"}
Stages    == {"idle", "read", "checked", "created", "createFailed"}

Schedule ==
  [present : BOOLEAN, suspend : BOOLEAN, phase : Phases,
   active : Runs \cup {None},
   due : BOOLEAN,  \* a fire time has passed since lastScheduleTime
   totalRuns : Nat, successfulRuns : Nat, haltedRuns : Nat]

Created ==
  [present |-> TRUE, suspend |-> FALSE, phase |-> "Idle", active |-> None,
   due |-> FALSE, totalRuns |-> 0, successfulRuns |-> 0, haltedRuns |-> 0]

TypeOK ==
  /\ sched \in Schedule /\ cache \in Schedule /\ loc \in Schedule
  /\ exps \in [Runs -> RunPhases] /\ expCache \in [Runs -> RunPhases]
  /\ created \in 0..MaxRuns
  /\ pc \in Stages
  /\ {cacheFresh, locFresh, nameTaken, queued, timer} \subseteq BOOLEAN
  /\ suspends \in 0..MaxSuspends /\ crashes \in 0..MaxCrashes
  /\ errors \in 0..MaxErrors

Init ==
  /\ sched = Created /\ cache = Created /\ cacheFresh = TRUE
  /\ exps = [r \in Runs |-> "absent"] /\ expCache = exps
  /\ created = 0 /\ nameTaken = FALSE
  /\ pc = "idle" /\ loc = Created /\ locFresh = FALSE
  /\ queued = TRUE /\ timer = FALSE
  /\ suspends = 0 /\ crashes = 0 /\ errors = 0

-----------------------------------------------------------------------------
(* The API server, the informers and the work queue (external).            *)

\* A write commits a new version: every copy taken before is outdated.
Commit(s) ==
  /\ sched' = s
  /\ cacheFresh' = FALSE /\ locFresh' = FALSE
  /\ UNCHANGED cache

\* Mutant: the write does not carry the version it was computed from.
Accepted_LastWriteWins(s) == Commit(s) /\ UNCHANGED errors

\* Status().Update of the worker's copy is accepted.
Accepted(s) == locFresh /\ Commit(s) /\ UNCHANGED errors

\* It returns an error: refused, not arrived, or committed and not answered.
Errs(s) ==
  \/ ~locFresh /\ UNCHANGED <<stored, errors>>
  \/ /\ errors < MaxErrors /\ errors' = errors + 1
     /\ \/ UNCHANGED stored
        \/ locFresh /\ Commit(s)

\* The call is over and its copy is dropped.
Finished == pc' = "idle" /\ loc' = Created /\ locFresh' = FALSE

\* return ctrl.Result{}, nil
Return == Finished /\ UNCHANGED queue

\* Mutant: the result carries no delay.
RequeueAfter_Dropped == Return

\* return ctrl.Result{RequeueAfter: ...}, nil
RequeueAfter == Finished /\ timer' = TRUE /\ UNCHANGED queued

\* return ctrl.Result{}, err: the key comes back rate limited.
ReturnError == Finished /\ queued' = TRUE /\ UNCHANGED timer

UpdateAndRequeue(s) ==
  \/ Accepted(s) /\ RequeueAfter
  \/ Errs(s) /\ ReturnError

UpdateAndReturn(s) ==
  \/ Accepted(s) /\ Return
  \/ Errs(s) /\ ReturnError

\* The schedule informer catches up; For() enqueues the key.
DeliverSchedule ==
  /\ ~cacheFresh
  /\ cache' = sched /\ cacheFresh' = TRUE
  /\ queued' = TRUE
  /\ UNCHANGED <<sched, runs, worker, timer, budget>>

\* The experiment informer catches up on run r; Owns() enqueues the key.
DeliverExperiment(r) ==
  /\ expCache[r] # exps[r]
  /\ expCache' = [expCache EXCEPT ![r] = exps[r]]
  /\ queued' = TRUE
  /\ UNCHANGED <<stored, exps, created, nameTaken, worker, timer, budget>>

\* A delayed entry comes due: after a second, the poll interval, or at the
\* next fire time; reconciling earlier than that only requeues.
TimerFires ==
  /\ timer
  /\ timer' = FALSE /\ queued' = TRUE
  /\ UNCHANGED <<stored, runs, worker, budget>>

-----------------------------------------------------------------------------
(* Time, and the actors outside the controller.                            *)

\* The next second begins: the next experiment gets another name.
Tick ==
  /\ nameTaken
  /\ nameTaken' = FALSE
  /\ UNCHANGED <<stored, exps, expCache, created, worker, queue, budget>>

\* A fire time of the cron expression passes, for every copy.
Fire ==
  /\ ~(sched.due /\ cache.due)
  /\ sched' = [sched EXCEPT !.due = TRUE]
  /\ cache' = [cache EXCEPT !.due = TRUE]
  /\ loc' = IF pc = "idle" THEN loc ELSE [loc EXCEPT !.due = TRUE]
  /\ UNCHANGED <<cacheFresh, runs, pc, locFresh, queue, budget>>

\* An experiment ends, is halted, live or not, or is deleted.
ExperimentStep(r) ==
  /\ r <= created /\ exps[r] # "absent"
  /\ \E p \in RunPhases \ {exps[r]} :
       /\ exps[r] = "live" \/ p \in {"Halted", "absent"}
       /\ exps' = [exps EXCEPT ![r] = p]
  /\ UNCHANGED <<stored, expCache, created, nameTaken, worker, queue, budget>>

\* A user suspends or resumes the schedule.
UserSuspend ==
  /\ suspends < MaxSuspends /\ suspends' = suspends + 1
  /\ sched.present
  /\ Commit([sched EXCEPT !.suspend = ~@])
  /\ UNCHANGED <<runs, pc, loc, queue, crashes, errors>>

UserDelete ==
  /\ MayDelete /\ sched.present
  /\ Commit([sched EXCEPT !.present = FALSE])
  /\ UNCHANGED <<runs, pc, loc, queue, budget>>

\* The manager stops wherever it is and the next one lists everything.
Crash ==
  /\ crashes < MaxCrashes /\ crashes' = crashes + 1
  /\ cache' = sched /\ cacheFresh' = TRUE /\ expCache' = exps
  /\ Finished
  /\ queued' = TRUE /\ timer' = FALSE
  /\ UNCHANGED <<sched, exps, created, nameTaken, suspends, errors>>

-----------------------------------------------------------------------------
(* Reconcile, one action per branch.                                       *)

\* A worker takes the key and reads the schedule from the cache.  A delayed
\* entry of the same key may or may not survive (it depends on the queue).
Get ==
  /\ pc = "idle" /\ queued
  /\ queued' = FALSE /\ timer' \in {timer, FALSE}
  /\ loc' = cache /\ locFresh' = cacheFresh
  /\ pc' = "read"
  /\ UNCHANGED <<stored, runs, budget>>

\* Past the suspend check, in the given phase of the dispatch.
Dispatched(s, phase) == s.present /\ ~s.suspend /\ s.phase = phase

\* Mutant: Halted falls through to reconcileIdle.
Idle_OrHalted == Dispatched(loc, "Idle") \/ Dispatched(loc, "Halted")

\* The phase dispatch enters reconcileIdle.
Idle == Dispatched(loc, "Idle")

\* Not found, suspended and recorded as Paused, or in a final phase.
Settled(s) ==
  \/ ~s.present
  \/ s.present /\ s.suspend /\ s.phase = "Paused"
  \/ Dispatched(s, "Halted") \/ Dispatched(s, "Failed")

NothingToDo ==
  /\ pc = "read" /\ Settled(loc)
  /\ Return
  /\ UNCHANGED <<stored, runs, budget>>

\* Suspended: record Paused, whatever the phase was.
Pause ==
  /\ pc = "read" /\ loc.present /\ loc.suspend /\ loc.phase # "Paused"
  /\ UpdateAndReturn([loc EXCEPT !.phase = "Paused"])
  /\ UNCHANGED <<runs, suspends, crashes>>

\* Paused and no longer suspended: back to Idle.
Resume ==
  /\ pc = "read" /\ Dispatched(loc, "Paused")
  /\ UpdateAndRequeue([loc EXCEPT !.phase = "Idle"])
  /\ UNCHANGED <<runs, suspends, crashes>>

\* failSchedule for a time zone, a cron expression or a template that cannot
\* be used.
Misconfigured ==
  /\ MayFail
  /\ pc = "read" /\ Idle
  /\ UpdateAndReturn([loc EXCEPT !.phase = "Failed"])
  /\ UNCHANGED <<runs, suspends, crashes>>

\* reconcileIdle before the fire time.
NotYet ==
  /\ pc = "read" /\ Idle /\ ~loc.due
  /\ RequeueAfter
  /\ UNCHANGED <<stored, runs, budget>>

\* The safeguards allow the run.
PreflightPasses ==
  /\ pc = "read" /\ Idle /\ loc.due /\ created < MaxRuns
  /\ pc' = "checked"
  /\ UNCHANGED <<stored, runs, loc, locFresh, queue, budget>>

\* The safeguards forbid it: this fire time is skipped.
PreflightBlocks ==
  /\ pc = "read" /\ Idle /\ loc.due
  /\ UpdateAndRequeue([loc EXCEPT !.due = FALSE])
  /\ UNCHANGED <<runs, suspends, crashes>>

\* The replicas of the target cannot be read.  That is not a matter of one
\* request: it happens as long as the Deployment does not exist.
PreflightErrs ==
  /\ pc = "read" /\ Idle /\ loc.due
  /\ ReturnError
  /\ UNCHANGED <<stored, runs, budget>>

\* The name of the next experiment is in use.
NameCollides == nameTaken /\ exps[created] # "absent"

NewRun ==
  /\ ~NameCollides
  /\ created' = created + 1
  /\ exps' = [exps EXCEPT ![created + 1] = "live"]
  /\ nameTaken' = TRUE
  /\ UNCHANGED expCache

Create ==
  /\ pc = "checked"
  /\ NewRun
  /\ pc' = "created"
  /\ UNCHANGED <<stored, loc, locFresh, queue, budget>>

\* Create fails: the name is in use, or the request or its answer is lost.
CreateFails ==
  /\ pc = "checked"
  /\ \/ NameCollides /\ UNCHANGED <<runs, errors>>
     \/ /\ errors < MaxErrors /\ errors' = errors + 1
        /\ NewRun \/ UNCHANGED runs
  /\ pc' = "createFailed"
  /\ UNCHANGED <<stored, loc, locFresh, queue, suspends, crashes>>

\* failSchedule after a failed Create.
FailSchedule ==
  /\ pc = "createFailed"
  /\ UpdateAndReturn([loc EXCEPT !.phase = "Failed"])
  /\ UNCHANGED <<runs, suspends, crashes>>

\* Mutant: the name of another run is recorded.
Started_WrongName(s) ==
  [s EXCEPT !.phase = "Running", !.active = created + 1, !.due = FALSE,
            !.totalRuns = @ + 1]

\* Mutant: the name of the run is not recorded.
Started_NoName(s) ==
  [s EXCEPT !.phase = "Running", !.due = FALSE, !.totalRuns = @ + 1]

\* Mutant: the run is not counted.
Started_Uncounted(s) ==
  [s EXCEPT !.phase = "Running", !.active = created, !.due = FALSE]

\* The status written once the experiment has been created.
Started(s) ==
  [s EXCEPT !.phase = "Running", !.active = created, !.due = FALSE,
            !.totalRuns = @ + 1]

RecordRun ==
  /\ pc = "created"
  /\ UpdateAndRequeue(Started(loc))
  /\ UNCHANGED <<runs, suspends, crashes>>

\* Mutant: the switch has no case for Failed.
Seen_NoFailed(s) ==
  IF s.active = None THEN "absent"
  ELSE IF expCache[s.active] = "Failed" THEN "live" ELSE expCache[s.active]

\* The phase of the active run as the worker sees it: an experiment that is
\* not found, or no active experiment at all, counts as deleted.
Seen(s) == IF s.active = None THEN "absent" ELSE expCache[s.active]

\* The status written when the active run is seen in phase p.
Concluded(s, p) ==
  [s EXCEPT !.phase = IF p = "Halted" THEN "Halted" ELSE "Idle",
            !.active = None,
            !.successfulRuns = IF p = "Completed" THEN @ + 1 ELSE @,
            !.haltedRuns = IF p = "Halted" THEN @ + 1 ELSE @]

\* reconcileRunning: the active run completed, failed or is gone.
ConcludeRun ==
  /\ pc = "read" /\ Dispatched(loc, "Running")
  /\ Seen(loc) \in {"Completed", "Failed", "absent"}
  /\ UpdateAndRequeue(Concluded(loc, Seen(loc)))
  /\ UNCHANGED <<runs, suspends, crashes>>

\* reconcileRunning: the active run was halted; the schedule stops.
HaltSchedule ==
  /\ pc = "read" /\ Dispatched(loc, "Running") /\ Seen(loc) = "Halted"
  /\ UpdateAndReturn(Concluded(loc, "Halted"))
  /\ UNCHANGED <<runs, suspends, crashes>>

\* reconcileRunning: poll again, or wait for the watch of the experiment.
StillRunning ==
  /\ pc = "read" /\ Dispatched(loc, "Running") /\ Seen(loc) = "live"
  /\ RequeueAfter
  /\ UNCHANGED <<stored, runs, budget>>

-----------------------------------------------------------------------------
(* The specification.                                                      *)

Reconcile ==
  \/ Get \/ NothingToDo \/ Pause \/ Resume \/ Misconfigured \/ NotYet
  \/ PreflightPasses \/ PreflightBlocks \/ PreflightErrs
  \/ Create \/ CreateFails \/ FailSchedule \/ RecordRun
  \/ ConcludeRun \/ HaltSchedule \/ StillRunning

Deliver == DeliverSchedule \/ \E r \in Runs : DeliverExperiment(r)

Environment ==
  \/ Fire \/ UserSuspend \/ UserDelete \/ Crash
  \/ \E r \in Runs : ExperimentStep(r)

Next == Reconcile \/ Deliver \/ TimerFires \/ Tick \/ Environment

Spec == Init /\ [][Next]_vars

\* The manager's goroutines run, both watches deliver, the clock advances.
Fairness ==
  /\ WF_vars(Reconcile) /\ WF_vars(DeliverSchedule)
  /\ \A r \in Runs : WF_vars(DeliverExperiment(r))
  /\ WF_vars(TimerFires) /\ WF_vars(Tick)

FairSpec == Spec /\ Fairness

-----------------------------------------------------------------------------
(* Properties.                                                             *)

\* The counters of the history fit together: those of the runs that succeeded
\* or were halted, with the run in progress, never exceed that of the runs
\* started, across stale reads, conflicts, suspensions and crashes.  That each
\* run is concluded once is what ImplementsLifecycle says.
RunsAccounted ==
  sched.successfulRuns + sched.haltedRuns
    + (IF sched.phase = "Running" THEN 1 ELSE 0) <= sched.totalRuns

\* "Running phase with no active experiment" is unreachable: a schedule in
\* phase Running always names an experiment that was created, also after a
\* suspension in the middle of a run.
RunningHasActive ==
  sched.phase = "Running" => sched.active \in 1..created

\* A halted run stops the schedule: while Halted is the committed phase the
\* worker never gets to create another experiment, however old the cached
\* copy is that it decided on (Create itself checks no version).
HaltStopsRuns == pc \in {"checked", "created"} => sched.phase # "Halted"

\* A schedule with something left to do is never forgotten: a worker has it,
\* its key is in the queue, a delayed entry of it is waiting, or the informer
\* has a version to deliver.  One that is Idle or Running always wakes up.
NeverForgotten == Settled(sched) \/ pc # "idle" \/ queued \/ timer \/ ~cacheFresh

Lifecycle == INSTANCE ScheduleLifecycle
  WITH present <- sched.present, phase <- sched.phase, active <- sched.active,
       total <- sched.totalRuns, successful <- sched.successfulRuns,
       halted <- sched.haltedRuns

\* The committed status follows the lifecycle of a schedule, whatever copies
\* the worker decides on: a run starts from Idle and is an experiment that was
\* not counted before, it is concluded once and together with the phase that
\* says so, Halted and Failed are left only by a suspension, Paused only for
\* Idle, and a suspension loses neither the run nor the counts.
ImplementsLifecycle == Lifecycle!Spec

\* A due fire time of an idle schedule is handled: a run starts, the fire
\* time is skipped, or the schedule is paused, fails or is deleted.  The one
\* way out is a target that can never be read: then the safeguard check is
\* repeated for ever, and the fire time is neither run nor skipped.
DueIsHandled ==
  \/ sched.due /\ sched.phase = "Idle" ~>
       ~sched.due \/ sched.phase # "Idle" \/ ~sched.present
  \/ []<><<PreflightErrs>>_vars

\* A run that is over is noticed: the schedule does not stay in Running.
RunIsConcluded ==
  sched.phase = "Running" /\ exps[sched.active] \in Over ~>
    sched.phase # "Running" \/ ~sched.present

-----------------------------------------------------------------------------
(* What comments say of the program and the code does not do.              *)

Live(r) == exps[r] = "live"

\* "concurrencyPolicy controls what happens when a new run is due while one
\* is active", default Forbid: no two runs of a schedule at the same time.
NoOverlap == \A r, q \in Runs : Live(r) /\ Live(q) => r = q

\* "suspend stops future runs when true. Active runs are not affected": a
\* schedule that is Idle again has no active run that is still going on.
IdleBetweenRuns ==
  sched.phase = "Idle" /\ sched.active # None => ~Live(sched.active)

\* "Experiment was deleted externally - go back to Idle": a run leaves Running
\* for Idle only when it is over or its experiment has been deleted.
ForgottenOnlyWhenOver ==
  [][sched.phase = "Running" /\ sched.phase' = "Idle" => exps[sched.active] \in Over]_vars

=============================================================================
