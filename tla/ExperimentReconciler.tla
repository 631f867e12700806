------------------------ MODULE ExperimentReconciler ------------------------
(***************************************************************************)
(* The ChaosExperiment controller: ChaosExperimentReconciler.Reconcile     *)
(* running against the API server through the manager's cached client.     *)
(*                                                                         *)
(* One experiment object.  Reads come from the informer cache, which lags  *)
(* behind the API server by the watch events not yet delivered; writes go  *)
(* to the API server and are refused when the copy being written is not    *)
(* the current version.  One worker reconciles the key, so a Reconcile     *)
(* call is a sequence of steps: the read, then one step per call that      *)
(* leaves the process.  Between two of them the watcher may annotate the   *)
(* object, a user may delete or edit it, time passes, or the manager       *)
(* crashes and another one takes over.                                     *)
(*                                                                         *)
(* Timestamps are kept as ages ("so many seconds ago"), which saturate at  *)
(* Horizon: the code only compares them with durations below Horizon.      *)
(* The clock unit is the second, the resolution metav1.Time is stored in.  *)
(* What a read of the target Deployment and of its pods returns is chosen  *)
(* where it is read: nothing is assumed of the target.                     *)
(*                                                                         *)
(* The spec may change under a running experiment, and Reconcile goes by   *)
(* the spec of the copy it has read: its scenarios, their durations and    *)
(* counts, the pause and the target.                                       *)
(***************************************************************************)
EXTENDS Integers, FiniteSets

CONSTANTS
  N,             \* the longest list of scenarios
  Targets,       \* the names a target may have
  First,         \* the spec the experiment is created with
  Specs,         \* the specs a user may change it to
  Second,        \* the short requeue delay
  PollInterval,  \* the requeue delay while a scenario runs
  RecoveryGrace, \* recoveryGracePeriod
  Horizon,       \* ages saturate here
  Scale,         \* sub-second resolution of meanRecoveryTime
  Reasons,       \* halt reasons the safeguard watcher can write
  None           \* the nil pointer, the absent annotation or target name

\* Bounds on what the environment does in one behaviour.
CONSTANTS MaxHalts, MaxCrashes, MaxErrors, MaxEdits, MayDelete

\* The history of deleted pods saturates here.
CONSTANT MaxDeleted

Index == 0..N-1
Age   == 0..Horizon

\* What a user writes: the number of scenarios, each with its duration and
\* podKill.count, execution.pauseBetween and target.name.
ExperimentSpec ==
  [len : 1..N, duration : [Index -> Age], count : [Index -> Nat \ {0}],
   pause : Age, target : Targets \cup {None}]

ASSUME TimeAssumption ==
  /\ {Second, PollInterval, RecoveryGrace, Horizon} \subseteq Nat
  /\ RecoveryGrace <= Horizon
  /\ Scale \in Nat \ {0} /\ PollInterval # 0

ASSUME SpecAssumption ==
  /\ N \in Nat \ {0}
  /\ First \in ExperimentSpec /\ Specs \subseteq ExperimentSpec

ASSUME NoneAssumption ==
  None \notin Int /\ None \notin Reasons /\ None \notin Targets

ASSUME BoundAssumption ==
  /\ {MaxHalts, MaxCrashes, MaxErrors, MaxEdits, MaxDeleted} \subseteq Nat
  /\ MayDelete \in BOOLEAN

VARIABLES
  exp,    \* the object at the API server
  cache,  \* the informer's copy
  watch,  \* committed versions the informer has not received yet
  pc,     \* where the worker is in Reconcile
  loc,    \* the copy Reconcile works on (its variable exp)
  queued, \* the key is in the work queue
  timer   \* the delayed entry of the key: seconds left, or None

\* History: what the steps did to the cluster and to the process's counters.
VARIABLES
  faults,        \* <<scenario, target>> injected, even in part, and not
                 \* reverted since
  lost,          \* what a user has taken from under the experiment
  deleted,       \* pods its Inject calls have deleted, up to MaxDeleted
  sinceAdvance,  \* age of the last finished scenario
  recoveries,    \* recovery time each finished scenario contributed
  haltedTotal,   \* chaos_experiments_halted_total of this experiment
  finishedTotal  \* chaos_experiments_total of this experiment

\* How much of each bound the environment has used.
VARIABLES halts, crashes, errors, edits

objects == <<exp, cache, watch>>
worker  == <<pc, loc>>
queue   == <<queued, timer>>
history == <<faults, lost, deleted, sinceAdvance, recoveries, haltedTotal, finishedTotal>>
budget  == <<halts, crashes, errors, edits>>
vars    == <<objects, worker, queue, history, budget>>

Phases   == {"Pending", "Running", "Completed", "Failed", "Halted"}
Terminal == {"Completed", "Failed", "Halted"}
Losses   == {"target", "scenario"}
Stages   == {"idle", "read", "injected", "injectFailed", "halted"}

Experiment ==
  [rv : Nat, present : BOOLEAN, deleting : BOOLEAN, finalizer : BOOLEAN,
   halt : Reasons \cup {None}, spec : ExperimentSpec,
   phase : Phases, index : 0..N, injectedAt : Age \cup {None},
   recoveredAt : Age \cup {None}, haltReason : Reasons \cup {None},
   podsKilled : Nat, meanRecovery : Nat \cup {None}]

\* A freshly created experiment: no finalizer, an empty status.
Created ==
  [rv |-> 1, present |-> TRUE, deleting |-> FALSE, finalizer |-> FALSE,
   halt |-> None, spec |-> First,
   phase |-> "Pending", index |-> 0, injectedAt |-> None,
   recoveredAt |-> None, haltReason |-> None,
   podsKilled |-> 0, meanRecovery |-> None]

\* The zero value Reconcile starts from, and what an idle worker holds.
Blank == [Created EXCEPT !.rv = 0, !.present = FALSE]

TypeOK ==
  /\ exp \in Experiment /\ cache \in Experiment /\ loc \in Experiment
  /\ watch \subseteq Experiment
  /\ pc \in Stages
  /\ queued \in BOOLEAN
  /\ timer \in Nat \cup {None}
  /\ faults \subseteq Index \X Targets
  /\ lost \subseteq Losses
  /\ deleted \in 0..MaxDeleted
  /\ sinceAdvance \in Age \cup {None}
  /\ recoveries \in [Index -> Age \cup {None}]
  /\ haltedTotal \in Nat /\ finishedTotal \in Nat
  /\ halts \in 0..MaxHalts /\ crashes \in 0..MaxCrashes
  /\ errors \in 0..MaxErrors /\ edits \in 0..MaxEdits

Init ==
  /\ exp = Created /\ cache = Created /\ watch = {}
  /\ pc = "idle" /\ loc = Blank
  /\ queued = TRUE /\ timer = None
  /\ faults = {} /\ lost = {} /\ deleted = 0
  /\ sinceAdvance = None /\ recoveries = [i \in Index |-> None]
  /\ haltedTotal = 0 /\ finishedTotal = 0
  /\ halts = 0 /\ crashes = 0 /\ errors = 0 /\ edits = 0

-----------------------------------------------------------------------------
(* The API server, the informer and the work queue (external).             *)

\* A write from outside commits a new version and queues its watch event.
Commit(o) ==
  /\ exp' = [o EXCEPT !.rv = exp.rv + 1]
  /\ watch' = watch \cup {exp'}
  /\ UNCHANGED cache

\* Mutant: the write does not carry the version it was computed from.
Accepted_LastWriteWins(o) == Commit(o) /\ UNCHANGED errors

\* Update or Status().Update of the worker's copy is accepted.
Accepted(o) ==
  /\ loc.rv = exp.rv
  /\ Commit(o)
  /\ UNCHANGED errors

\* It is refused: the version is stale or gone, or the request did not arrive.
Refused ==
  /\ \/ loc.rv # exp.rv /\ UNCHANGED errors
     \/ errors < MaxErrors /\ errors' = errors + 1
  /\ UNCHANGED objects

\* It is committed and the answer is lost: the worker sees an error.
Unanswered(o) ==
  /\ errors < MaxErrors /\ errors' = errors + 1
  /\ loc.rv = exp.rv
  /\ Commit(o)

\* The write returns an error.
Errs(o) == Refused \/ Unanswered(o)

\* An object being deleted disappears with its last finalizer.
Deleted(o) == [o EXCEPT !.deleting = TRUE, !.present = o.finalizer]

\* return ctrl.Result{}, nil
Return ==
  /\ pc' = "idle" /\ loc' = Blank
  /\ UNCHANGED queue

\* Mutant: the delay is dropped from the result.
RequeueAfter_Dropped(d) == d \in Nat /\ Return

\* return ctrl.Result{RequeueAfter: d}, nil: zero means no requeue at all, and
\* the earlier of two delayed entries of the key wins.
RequeueAfter(d) ==
  /\ pc' = "idle" /\ loc' = Blank
  /\ timer' = IF d = 0 \/ (timer # None /\ timer < d) THEN timer ELSE d
  /\ UNCHANGED queued

\* Mutant: the error is logged and not returned.
ReturnError_Swallowed == Return

\* return ctrl.Result{}, err: the key comes back rate limited.
ReturnError ==
  /\ pc' = "idle" /\ loc' = Blank
  /\ queued' = TRUE
  /\ UNCHANGED timer

\* A write that ends the call, requeueing after d when it is accepted.
UpdateAndRequeue(o, d) ==
  \/ Accepted(o) /\ RequeueAfter(d)
  \/ Errs(o) /\ ReturnError

\* A write that ends the call for good when it is accepted.
UpdateAndReturn(o) ==
  \/ Accepted(o) /\ Return
  \/ Errs(o) /\ ReturnError

\* The informer receives the next version and its handler adds the key.
Deliver ==
  /\ \E v \in watch :
       /\ \A w \in watch : v.rv <= w.rv
       /\ cache' = v
       /\ watch' = watch \ {v}
  /\ queued' = TRUE
  /\ UNCHANGED <<exp, worker, timer, history, budget>>

TimerFires ==
  /\ timer = 0
  /\ timer' = None
  /\ queued' = TRUE
  /\ UNCHANGED <<objects, worker, history, budget>>

-----------------------------------------------------------------------------
(* Time, and the actors outside the controller.                            *)

Older(a) == IF a = None THEN None ELSE IF a < Horizon THEN a + 1 ELSE Horizon

Aged(o) == [o EXCEPT !.injectedAt = Older(@)]

\* One second passes for every copy of the object and for the timer.
Tick ==
  /\ exp' = Aged(exp) /\ cache' = Aged(cache) /\ loc' = Aged(loc)
  /\ watch' = {Aged(v) : v \in watch}
  /\ timer' = IF timer \in {None, 0} THEN timer ELSE timer - 1
  /\ sinceAdvance' = Older(sinceAdvance)
  /\ UNCHANGED <<pc, queued, faults, lost, deleted, recoveries,
                 haltedTotal, finishedTotal, budget>>

\* haltExperiment of the safeguard watcher, in whatever phase the object is:
\* its Update succeeds only on the current version.
WatcherHalt(r) ==
  /\ halts < MaxHalts /\ halts' = halts + 1
  /\ exp.present /\ exp.halt # r
  /\ Commit([exp EXCEPT !.halt = r])
  /\ UNCHANGED <<worker, queue, history, crashes, errors, edits>>

\* A user deletes the object.
UserDelete ==
  /\ MayDelete
  /\ exp.present /\ ~exp.deleting
  /\ Commit(Deleted(exp))
  /\ UNCHANGED <<worker, queue, history, budget>>

\* A user changes the spec of a live object, whatever it is doing.  The
\* history notes when that takes the target away, or the current scenario.
UserEdit(s) ==
  /\ edits < MaxEdits /\ edits' = edits + 1
  /\ exp.present /\ s # exp.spec
  /\ Commit([exp EXCEPT !.spec = s])
  /\ lost' = lost \cup {l \in {"target"} : s.target # exp.spec.target}
                  \cup {l \in {"scenario"} : s.len <= exp.index}
  /\ UNCHANGED <<worker, queue, faults, deleted, sinceAdvance, recoveries,
                 haltedTotal, finishedTotal, halts, crashes, errors>>

\* The manager stops wherever it is; the next one lists the objects afresh
\* and enqueues every one of them.
Crash ==
  /\ crashes < MaxCrashes /\ crashes' = crashes + 1
  /\ cache' = exp /\ watch' = {}
  /\ pc' = "idle" /\ loc' = Blank
  /\ queued' = TRUE /\ timer' = None
  /\ UNCHANGED <<exp, history, halts, errors, edits>>

-----------------------------------------------------------------------------
(* Which branch of Reconcile a copy takes.                                 *)

\* Past the deletion and finalizer branches.
Live(o) == o.present /\ ~o.deleting /\ o.finalizer

\* Mutant: the halt annotation is not looked at before the phase dispatch.
Running_IgnoresHalt(o) == Live(o) /\ o.phase = "Running"

\* Mutant: the re-entry guard on phase Halted is missing.
HaltRequested_NoGuard(o) == Live(o) /\ o.halt # None

\* The annotation asks for a halt that is not recorded yet.
HaltRequested(o) == Live(o) /\ o.halt # None /\ o.phase # "Halted"

\* No halt is requested and the phase dispatch enters reconcileRunning.
Running(o) == Live(o) /\ o.halt = None /\ o.phase = "Running"

InScenario(o) == Running(o) /\ o.index < o.spec.len

\* State 1 of reconcileRunning: not yet injected.
WouldInject(o) == InScenario(o) /\ o.injectedAt = None

\* Mutant: a scenario that ends within one poll interval ends now.
Elapsed_Early(o) == o.injectedAt + PollInterval >= o.spec.duration[o.index]

Elapsed(o) == o.injectedAt >= o.spec.duration[o.index]

\* States 2 and 3: injected, within and past the scenario's duration.
WithinDuration(o) == InScenario(o) /\ o.injectedAt # None /\ ~Elapsed(o)
PastDuration(o)   == InScenario(o) /\ o.injectedAt # None /\ Elapsed(o)

\* Mutant: the operands of the subtraction are swapped.
PollDelay_Swapped(o) == o.injectedAt - o.spec.duration[o.index]

PollDelay(o) ==
  LET remaining == o.spec.duration[o.index] - o.injectedAt
  IN IF PollInterval < remaining THEN PollInterval ELSE remaining

DueForProbe(o) == o.recoveredAt = None /\ o.injectedAt >= RecoveryGrace

\* The scenario a copy is at, with the target it names.
Current(o) == <<o.index, o.spec.target>>

\* Mutant: the scenario is not reverted.
Revert_Skipped(o) == faults

\* The faults left once Revert of a copy's scenario has been called.
Revert(o) == faults \ {Current(o)}

\* Mutant: a target that has recovered is not reverted.
RevertIfActive_NotRecovered(o) ==
  IF o.injectedAt # None /\ o.recoveredAt = None THEN Revert(o) ELSE faults

\* revertIfActive: only the current scenario, and only if recorded.
RevertIfActive(o) ==
  IF o.injectedAt # None /\ o.index < o.spec.len THEN Revert(o) ELSE faults

\* An Inject call of a copy's scenario has deleted pods: as many as asked for,
\* or fewer when fewer are running or one of the deletions fails.  Only a
\* named target has pods to delete.
Hit(o) ==
  /\ o.spec.target # None
  /\ faults' = faults \cup {Current(o)}
  /\ \E d \in 1..o.spec.count[o.index] :
       deleted' = IF deleted + d < MaxDeleted THEN deleted + d ELSE MaxDeleted

\* meanRecoveryTime after scenario i recovered in r seconds.
MeanRecovery(prev, i, r) ==
  IF prev # None /\ i > 0 THEN (prev * i + r * Scale) \div (i + 1) ELSE r * Scale

-----------------------------------------------------------------------------
(* Reconcile, one action per branch.                                       *)

\* A worker takes the key and reads the object from the cache.  A delayed
\* entry of the same key may or may not survive (it depends on the queue).
Get ==
  /\ pc = "idle" /\ queued
  /\ queued' = FALSE
  /\ timer' \in {timer, None}
  /\ loc' = cache
  /\ pc' = "read"
  /\ UNCHANGED <<objects, history, budget>>

\* Not found, being deleted without our finalizer, or in a terminal phase.
Settled(o) ==
  \/ ~o.present
  \/ o.deleting /\ ~o.finalizer
  \/ Live(o) /\ o.halt = None /\ o.phase \in Terminal

NothingToDo ==
  /\ pc = "read" /\ Settled(loc)
  /\ Return
  /\ UNCHANGED <<objects, history, budget>>

RemoveFinalizer ==
  /\ pc = "read" /\ loc.present /\ loc.deleting /\ loc.finalizer
  /\ faults' = RevertIfActive(loc)
  /\ UpdateAndReturn(Deleted([loc EXCEPT !.finalizer = FALSE]))
  /\ UNCHANGED <<lost, deleted, sinceAdvance, recoveries, haltedTotal,
                 finishedTotal, halts, crashes, edits>>

AddFinalizer ==
  /\ pc = "read" /\ loc.present /\ ~loc.deleting /\ ~loc.finalizer
  /\ UpdateAndRequeue([loc EXCEPT !.finalizer = TRUE], Second)
  /\ UNCHANGED <<history, halts, crashes, edits>>

Halted(o) == [o EXCEPT !.phase = "Halted", !.haltReason = o.halt]

\* A halt is requested: revert, commit phase Halted with the reason.
Halt ==
  /\ pc = "read" /\ HaltRequested(loc)
  /\ faults' = RevertIfActive(loc)
  /\ \/ /\ Accepted(Halted(loc))
        /\ loc' = exp' /\ pc' = "halted"
        /\ haltedTotal' = haltedTotal + 1
        /\ UNCHANGED queue
     \/ Errs(Halted(loc)) /\ ReturnError /\ UNCHANGED haltedTotal
  /\ UNCHANGED <<lost, deleted, sinceAdvance, recoveries, finishedTotal,
                 halts, crashes, edits>>

\* Remove the annotations, at the end of Halt or on re-entry after it.
ClearHalt ==
  /\ \/ pc = "halted"
     \/ pc = "read" /\ Live(loc) /\ loc.halt # None /\ loc.phase = "Halted"
  /\ UpdateAndReturn([loc EXCEPT !.halt = None])
  /\ UNCHANGED <<history, halts, crashes, edits>>

\* reconcilePending
Start ==
  /\ pc = "read" /\ Live(loc) /\ loc.halt = None /\ loc.phase = "Pending"
  /\ UpdateAndRequeue([loc EXCEPT !.phase = "Running"], Second)
  /\ UNCHANGED <<history, halts, crashes, edits>>

\* The last write of an experiment, counted in chaos_experiments_total.
Finish(o) ==
  \/ Accepted(o) /\ Return /\ finishedTotal' = finishedTotal + 1
  \/ Errs(o) /\ ReturnError /\ UNCHANGED finishedTotal

\* reconcileRunning: all scenarios done.
Complete ==
  /\ pc = "read" /\ Running(loc) /\ loc.index >= loc.spec.len
  /\ Finish([loc EXCEPT !.phase = "Completed"])
  /\ UNCHANGED <<faults, lost, deleted, sinceAdvance, recoveries,
                 haltedTotal, halts, crashes, edits>>

\* Inject succeeds; InjectedAt is set on the copy, its update comes next.
Inject ==
  /\ pc = "read" /\ WouldInject(loc)
  /\ Hit(loc)
  /\ loc' = [loc EXCEPT !.injectedAt = 0,
                        !.podsKilled = @ + loc.spec.count[loc.index]]
  /\ pc' = "injected"
  /\ UNCHANGED <<objects, queue, lost, sinceAdvance, recoveries,
                 haltedTotal, finishedTotal, budget>>

\* Inject fails: before it deleted anything, or with part of the work done.
InjectFails ==
  /\ pc = "read" /\ WouldInject(loc)
  /\ \/ UNCHANGED <<faults, deleted>>
     \/ Hit(loc)
  /\ pc' = "injectFailed"
  /\ UNCHANGED <<objects, loc, queue, lost, sinceAdvance, recoveries,
                 haltedTotal, finishedTotal, budget>>

RecordInject ==
  /\ pc = "injected"
  /\ UpdateAndRequeue(loc, PollInterval)
  /\ UNCHANGED <<history, halts, crashes, edits>>

FailExperiment ==
  /\ pc = "injectFailed"
  /\ Finish([loc EXCEPT !.phase = "Failed"])
  /\ UNCHANGED <<faults, lost, deleted, sinceAdvance, recoveries,
                 haltedTotal, halts, crashes, edits>>

\* Within the duration and recovered: the probe finds the target available.
Recover ==
  /\ pc = "read" /\ WithinDuration(loc)
  /\ DueForProbe(loc) /\ loc.spec.target # None
  /\ UpdateAndRequeue([loc EXCEPT !.recoveredAt = loc.injectedAt], PollDelay(loc))
  /\ UNCHANGED <<history, halts, crashes, edits>>

\* Within the duration: too early to probe, recovered earlier, no target to
\* probe, or the probe finds it not available.
Poll ==
  /\ pc = "read" /\ WithinDuration(loc)
  /\ RequeueAfter(PollDelay(loc))
  /\ UNCHANGED <<objects, history, budget>>

\* Within the duration: checkRecovery cannot read the target.
ProbeFails ==
  /\ pc = "read" /\ WithinDuration(loc)
  /\ DueForProbe(loc) /\ loc.spec.target # None
  /\ ReturnError
  /\ UNCHANGED <<objects, history, budget>>

\* Mutant: the time since the injection is taken for the recovery time.
NextScenario_SinceInjection(o) ==
  [o EXCEPT !.injectedAt = None, !.recoveredAt = None, !.index = @ + 1,
            !.meanRecovery = IF o.recoveredAt = None THEN @
                             ELSE MeanRecovery(@, o.index, o.injectedAt)]

\* The status that revert-and-advance writes.
NextScenario(o) ==
  [o EXCEPT !.injectedAt = None, !.recoveredAt = None, !.index = @ + 1,
            !.meanRecovery = IF o.recoveredAt = None THEN @
                             ELSE MeanRecovery(@, o.index, o.recoveredAt)]

\* History of a committed advance.
Contribute ==
  /\ sinceAdvance' = 0
  /\ recoveries' = [recoveries EXCEPT ![loc.index] = loc.recoveredAt]

\* Past the duration: revert, account the recovery time, advance the index.
Advance ==
  /\ pc = "read" /\ PastDuration(loc)
  /\ faults' = Revert(loc)
  /\ \/ Accepted(NextScenario(loc)) /\ RequeueAfter(loc.spec.pause) /\ Contribute
     \/ Unanswered(NextScenario(loc)) /\ ReturnError /\ Contribute
     \/ Refused /\ ReturnError /\ UNCHANGED <<sinceAdvance, recoveries>>
  /\ UNCHANGED <<lost, deleted, haltedTotal, finishedTotal,
                 halts, crashes, edits>>

-----------------------------------------------------------------------------
(* The specification.                                                      *)

Reconcile ==
  \/ Get \/ NothingToDo \/ RemoveFinalizer \/ AddFinalizer \/ Halt \/ ClearHalt
  \/ Start \/ Complete \/ Inject \/ InjectFails \/ RecordInject \/ FailExperiment
  \/ Recover \/ Poll \/ ProbeFails \/ Advance

Environment ==
  \/ \E r \in Reasons : WatcherHalt(r)
  \/ \E s \in Specs : UserEdit(s)
  \/ UserDelete \/ Crash

Next == Reconcile \/ Deliver \/ TimerFires \/ Tick \/ Environment

Spec == Init /\ [][Next]_vars

\* The manager's goroutines run, the watch delivers, the clock advances.
\* Nothing is assumed of users, of the watcher, of the target.
Fairness ==
  /\ WF_vars(Reconcile) /\ WF_vars(Deliver)
  /\ WF_vars(TimerFires) /\ WF_vars(Tick)

FairSpec == Spec /\ Fairness

-----------------------------------------------------------------------------
(* Properties.                                                             *)

\* Every fault not reverted belongs to the scenario the committed status
\* points at, in the target the committed spec names.  Reverting by
\* currentScenarioIndex alone (revertIfActive, the end of a duration) is sound
\* only because of this, whatever stale copy an injection was decided on and
\* wherever the manager crashed.  It ends when a user points the experiment at
\* another target: what was injected into the first one stays.
OnlyCurrentFault == "target" \in lost \/ faults \subseteq {Current(exp)}

\* Once Halted is committed no Inject call starts any more, however old the
\* cached copy is that the worker reads: the halt is final for the target.
NoInjectOnceHalted ==
  pc = "read" /\ WouldInject(loc) => exp.phase # "Halted"

\* A halt or a deletion leaves no recorded fault behind: whoever sees the
\* experiment halted, or gone, may rely on its scenario having been reverted,
\* also if a second injection was decided on an outdated copy, wherever the
\* manager crashed and whatever edits changed of durations, counts or pause.
\* Not so for a fault that was never recorded, and not once a user has taken
\* the target or the current scenario out of the spec.
RevertedWhenOver ==
  (exp.phase = "Halted" \/ ~exp.present) /\ exp.injectedAt # None /\ lost = {}
    => faults = {}

\* The mean recovery time lies between the shortest and the longest of the
\* recovery times, whatever scenarios in between did not recover and in spite
\* of the rounding.  It is no more than that: the earlier mean is weighed with
\* the index also when fewer scenarios than that have recovered.
MeanInRange ==
  exp.meanRecovery # None =>
    \E i, j \in {k \in Index : recoveries[k] # None} :
      /\ recoveries[i] * Scale <= exp.meanRecovery
      /\ exp.meanRecovery <= recoveries[j] * Scale

\* An experiment with something left to do is never forgotten: a worker has
\* it, its key is in the queue, or a delayed entry or a watch event that will
\* queue it is under way.  A call that returns without a requeue, or with the
\* delay zero, relies on the event of its own write for this.
NeverForgotten ==
  Settled(exp) \/ pc # "idle" \/ queued \/ timer # None \/ watch # {}

\* A scenario runs the time its call knows of: a fault is withdrawn only if it
\* is the one the committed status points at and its committed injection is as
\* old as the duration in the version the call works on, or because the
\* experiment is being halted or deleted.  That version is the committed one,
\* or one the informer had before a user's edit reached it: a duration
\* lengthened in that window is not honoured.
NotRevertedEarly ==
  [][\A f \in faults \ faults' :
       \/ exp.halt # None \/ exp.phase = "Halted" \/ exp.deleting
       \/ /\ f[1] = exp.index /\ exp.injectedAt # None
          /\ exp.injectedAt >= loc.spec.duration[f[1]]]_vars

\* An experiment is counted at most once as completed or failed and at most
\* once as halted by the process metrics, across retries and restarts.
CountedOnce == finishedTotal <= 1 /\ haltedTotal <= 1

Lifecycle == INSTANCE ExperimentLifecycle WITH
  present <- exp.present, len <- exp.spec.len, phase <- exp.phase,
  index <- exp.index, injected <- (exp.injectedAt # None),
  haltReason <- exp.haltReason

\* The committed object follows the lifecycle of ExperimentLifecycle: phases
\* only in its order, one scenario at a time, a halt reason never rewritten.
ImplementsLifecycle == Lifecycle!Spec

\* Every experiment ends: it reaches a terminal phase or is deleted.  No
\* requeue is lost between results, watch events, errors and restarts.
EventuallyOver == <>(exp.phase \in Terminal \/ ~exp.present)

\* A requested halt is carried out, unless the object is being deleted.
HaltCarriedOut ==
  exp.halt # None ~> (exp.phase = "Halted" /\ exp.halt = None) \/ exp.deleting

\* A deletion is never blocked by the finalizer for ever.
DeletionCompletes == exp.deleting ~> ~exp.present

-----------------------------------------------------------------------------
(* Why the safety properties hold: an inductive invariant.                 *)

\* v is a past or the present version of the object.
Past(v) == v.rv <= exp.rv /\ (v.rv = exp.rv => v = exp)

\* Optimistic concurrency: the informer only moves forward, the worker's copy
\* is never newer than the informer's, and a copy with the version number of
\* the stored object is that object, so an accepted write of a computed copy
\* is computed from what it overwrites.
Coherent ==
  /\ Past(cache)
  /\ \A v \in watch : Past(v) /\ cache.rv < v.rv
  /\ \A v, w \in watch : v.rv = w.rv => v = w
  /\ pc \in {"read", "injectFailed", "halted"} => Past(loc)
  /\ pc \in {"read", "injected", "injectFailed"} => loc.rv <= cache.rv
  /\ pc = "injected" =>
       /\ loc.injectedAt # None
       /\ loc.rv = exp.rv =>
            /\ WouldInject(exp)
            /\ loc = [exp EXCEPT !.injectedAt = loc.injectedAt,
                                 !.podsKilled = loc.podsKilled]
  /\ pc = "injectFailed" => WouldInject(loc)
  /\ pc = "halted" => loc.phase = "Halted"

\* Every copy that can still be acted on.
Copies == {cache} \cup watch \cup (IF pc = "read" THEN {loc} ELSE {})

\* Once Halted is committed, every copy says Halted or asks for the halt.
HaltKnown ==
  exp.phase = "Halted" =>
    \A v \in Copies : v.phase = "Halted" \/ v.halt # None

\* A copy that points at an earlier scenario has it recorded as injected.
IndexKnown ==
  \A v \in Copies :
    v.index = exp.index \/ (v.index + 1 = exp.index /\ v.injectedAt # None)

\* Unless a user has changed the target, every copy names the same one.
TargetKnown ==
  "target" \notin lost => \A v \in Copies : v.spec.target = exp.spec.target

\* The metrics count what the committed phase says, once.
Counted ==
  /\ finishedTotal = 0 \/ (finishedTotal = 1 /\ exp.phase \in Terminal)
  /\ haltedTotal = 0 \/ (haltedTotal = 1 /\ exp.phase = "Halted")

\* The conjunction each step preserves: an accepted write is computed from
\* the object it overwrites, and what an outdated copy can still say is
\* limited enough for every branch Reconcile takes on it to be harmless.
Inductive ==
  /\ TypeOK /\ Coherent /\ HaltKnown /\ IndexKnown /\ TargetKnown
  /\ OnlyCurrentFault /\ Counted

-----------------------------------------------------------------------------
(* What comments and tests say of the program and the code does not do.    *)

\* "totalPodsKilled is the number of pods deleted across all runs": the figure
\* a completed experiment ends with.
TotalIsDeleted == exp.phase = "Completed" => exp.podsKilled = deleted

\* "pauseBetween is the wait time between scenarios in sequential mode".
PauseHonoured ==
  [][Inject => sinceAdvance = None \/ sinceAdvance >= loc.spec.pause]_vars

=============================================================================
