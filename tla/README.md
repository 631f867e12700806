# Verification of the temper chaos operator

TLA+ models of temper, a Kubernetes operator that runs chaos experiments by hand
or on a cron schedule: its two controllers, its safeguard watcher with the
decisions it shares with the schedule controller, and its pod-kill scenario. They
are checked with TLC on small instances, and their safety properties are proved
with TLAPS.

## 1. Inventory

The manager (`cmd/main.go`) runs two controllers and one background loop, all
through one cached client and, with leader election enabled, in one process at a
time. They never call each other: everything goes through two kinds of objects
at the API server.

```
 user --create/edit/delete--> ChaosExperiment <--status, finalizer-- experiment controller --delete--> pods
                                  ^    ^  |
               halt annotations --+    |  +--Owns() watch--> schedule controller
               safeguard watcher       +--create------------/      |
                     |                                             | status
                     +--------list, every 5 s----------> ChaosSchedule <--suspend-- user
```

| component | state | operations | hard behaviour | what makes it correct |
|---|---|---|---|---|
| experiment controller (`internal/controller/chaosexperiment_controller.go`) | the object's finalizer, annotations, `status` (phase, index, injectedAt, recoveredAt, metrics, haltReason) | add/remove the finalizer, halt, start, inject, poll for recovery, revert and advance, complete, fail | decides on a cached copy; several calls that leave the process per Reconcile; crash between inject and its record; watcher, users and the controller write one object; own watch events race delayed requeues; users edit the spec of a running experiment | the committed status follows the lifecycle; a fault belongs to the current scenario; halt is final and reverts; the figures mean what they say; every experiment ends |
| schedule controller (`chaosschedule_controller.go`) | `status` (phase, activeExperimentName, lastScheduleTime, history) | pause, resume, wait, preflight, create, conclude a run, halt, fail | two informers without mutual order; create before record; suspend in the middle of a run | no overlapping runs; history adds up; a halted schedule starts nothing; fire times and ends of runs are not missed |
| safeguard watcher (`internal/safeguard/watcher.go`) | consecutive failures per schedule | every 5 s, per running schedule: alerts, SLO, replicas, then annotate | stale schedule list, conflicting annotation, counter that outlives a run | a condition that persists halts the run; a healthy run is not halted |
| safeguard checks (`checks.go`, `alertmanager.go`, `prometheus.go`, `http.go`) | none | decide on alerts and SLO values | errors as results; boundaries | nothing unsafe passes for clear; a code is true; preflight and watcher agree where both look |
| pod-kill (`internal/scenario/podkill.go`) | none | list, choose, delete pods | partial failure, stale pod list, fewer pods than asked | at most count pods; success means they are gone |
| metrics (`internal/metrics`) | process counters | incremented by the above | repeated on retries | counted once per event |
| API types, generated code, wiring, manifests, e2e tests | - | - | - | see section 8 |

The hazards of this code, each at its line, are listed in `PROJECT.json`; the
properties below are aimed at them.

## 2. Modules

| module | models |
|---|---|
| `ExperimentLifecycle` | abstract specification: what a reader of the API server may see of an experiment |
| `ExperimentReconciler` | the experiment controller, its client, informer, work queue, and everybody else who writes the object |
| `ExperimentReconcilerProofs` | its theorems: types, the inductive invariant, the refinement |
| `ExperimentRevertProofs`, `ExperimentAccountingProofs`, `ExperimentQueueProofs` | more of them, each on top of the first: what is reverted and when, the figures in the status, no requeue is lost |
| `MCExperiment` | instances of it for TLC |
| `ScheduleLifecycle` | abstract specification: what a reader may see of a schedule |
| `ScheduleReconciler` | the schedule controller with the experiments it creates |
| `ScheduleReconcilerProofs` | its theorems |
| `MCSchedule` | instances of it for TLC |
| `Safeguards` | what the safeguards decide on one observation, as operators: the backends' answers, the checks, the preflight, the watcher's verdict |
| `SafeguardsProofs` | theorems about every safeguard and every observation |
| `Watcher` | the watch loop over running schedules, with the runs it watches; extends `Safeguards` |
| `WatcherProofs` | its theorems |
| `MCWatcher` | an instance of both for TLC |
| `PodKill` | `PodKill.Inject` with the pods of its target |
| `PodKillProofs` | its theorems |
| `MCPodKill` | an instance of it for TLC |

How they meet. `Watcher` reaches into the experiment model through one action:
`WatcherHalt` of `ExperimentReconciler` is an accepted `HaltExperiment`, and
`CarryOut` of `Watcher` is the `Halt` and `ClearHalt` of that model. The three
outcomes of the preflight in `ScheduleReconciler` (`PreflightPasses`,
`PreflightBlocks`, `PreflightErrs`) are the three values of the operator
`Preflight` of `Safeguards`. `Inject` and `InjectFails` of the experiment model
are the two ways a call in `PodKill` returns. Each model leaves the others' part
open (any halt at any time, any outcome, any result), so what it shows holds
whichever of them the others take.

### ExperimentReconciler

State. `exp` is the object at the API server with its resource version `rv`;
`cache` the informer's copy; `watch` the versions not yet delivered; `loc` the
variable `exp` of the Go function; `pc` how far the current Reconcile is;
`queued` and `timer` the work queue. A record field of the object is the field
of the same name in the Go types; phase `""` and `Pending` are one value because
the dispatch treats them alike (line 131). The annotations halt-reason and
halt-code, always written and removed together, are the one field `halt`.

Atomicity. Go code between two calls that leave the process is one step. So a
Reconcile is `Get`, then a step ending in its write; the branches with two
outside effects have two: `Inject` (pods) then `RecordInject` (status), or
`InjectFails` then `FailExperiment`; `Halt` (status) then `ClearHalt`
(annotations). Anything may happen between them.

| code | actions |
|---|---|
| `r.Get` 66-72 | `Get`, `NothingToDo` |
| deletion 74-85 | `RemoveFinalizer`, `NothingToDo` |
| finalizer 87-93 | `AddFinalizer` |
| halt 95-128 | `Halt`, `ClearHalt` |
| `reconcilePending` | `Start` |
| `reconcileRunning`, all done 173-183 | `Complete` |
| not injected 189-223 | `Inject`, `InjectFails`, `RecordInject`; `failExperiment` is `FailExperiment` |
| within duration 229-244 | `Recover`, `Poll`, `ProbeFails` |
| past duration 246-286 | `Advance` |
| watcher `haltExperiment` | `WatcherHalt` |
| `SetupWithManager`, controller-runtime, API server | `Deliver`, `TimerFires`, `Accepted`, `Refused`, `Unanswered` |
| outside | `UserEdit`, `UserDelete`, `Crash`, `Tick` |

Choices worth knowing:

- A write is accepted only if the worker's copy has the stored version
  (optimistic concurrency); otherwise it is refused. With an error in the budget
  it may also not arrive, or be committed with the answer lost.
- `RequeueAfter` of zero requeues nothing, as controller-runtime has it, and of
  two delayed entries of a key the earlier wins. When a worker takes the key, an
  entry still waiting may or may not survive: the model allows both, so nothing
  depends on the queue's version.
- Times are ages in seconds, the resolution in which `metav1.Time` is stored,
  saturating at `Horizon`. Recovery times are therefore whole seconds; `Scale`
  gives the mean its finer resolution.
- What the Deployment and the pods look like is not state. `Inject` succeeds or
  fails, and the probe answers yes, no or error, as it likes. An injection that
  touches anything deletes between one pod and as many as asked for.
- `spec` is the part of the spec Reconcile goes by: the number of scenarios, the
  duration and count of each, `pauseBetween` and the target's name. A user may
  change any of it at any time (`UserEdit`), and every call uses the spec of the
  copy it has read, which may lack the edit.
- The scenario list of an unsupported type fails in `buildScenario`; the CRD enum
  admits one type only, and the effect is that of `InjectFails`.

`faults` (pairs of scenario and target), `lost`, `deleted`, `sinceAdvance`,
`recoveries`, `haltedTotal` and `finishedTotal` are history: no guard reads them.
`lost` notes that an edit has taken the target or the current scenario away.

### ScheduleReconciler

`sched`, `cache` and `loc` are the schedule as stored, cached and held by the
worker. Instead of version numbers two booleans say whether the cached and the
held copy are the stored version; that is all a write needs, and it keeps the
state space small. The informer jumps to the stored version: a delivery that
comes late, with an older version, can be moved before the write it missed,
since the only outsider who writes a schedule is a user. `exps` and `expCache`
are the runs as stored and as the second informer has them; Pending and Running
are `"live"`. The r-th experiment created is run r.

`due` says that a fire time has passed since `lastScheduleTime` (`Fire` makes it
true in every copy, `Started` and a blocked preflight make it false), so cron
expressions and time zones are not computed. `nameTaken` is the one-second
resolution of experiment names. `Misconfigured` is `failSchedule` for an unusable
time zone, cron expression or template. `checkSafeguards` is its outcome:
`PreflightPasses`, `PreflightBlocks`, `PreflightErrs`; the last may happen any number
of times, as a Deployment may be missing for good. `Create` and `RecordRun`
are two steps, as in the code. `ConcludeRun`, `HaltSchedule` and `StillRunning`
are the switch on the phase of the active run.

### Safeguards

A safeguard is a record of the fields of `spec.safeguards`: limits on replicas,
the two sources, alert labels, the SLO. A source's URL is usable or not; a
threshold is an integer, `NaN`, missing, or text that is no float. A world is one
set of answers: the alerts, an answer per query, the Deployment's status. `Bad`
stands for whatever can go wrong on the way (no connection, a status that is not
200, JSON that does not decode, a value that does not parse), since the code turns
each into an error and looks at nothing else of it.

| code | operators |
|---|---|
| `AlertmanagerClient.CheckAlerts`, `matchesLabels` | `CheckAlerts`, `Matches`, `Label` |
| `PrometheusClient.InstantQuery` | `InstantQuery` |
| `CheckAlertsFiring`, `CheckSLOBreach` (`checks.go`) | `CheckAlertsFiring`, `CheckSLOBreach`, `AtLeast` |
| `Watcher.checkAlerts`, `checkSLO` | `AlertVerdict`, `SLOVerdict` |
| `checkSchedule` 82-85 and 104-126 | `Backends`, `ReplicaVerdict`, `Outcome`, `Verdict` |
| `checkSafeguards` (schedule controller) | `Preflight` |

The reference these are compared with (`FiringAlert`, `BreachedSLO`,
`FewReplicas`, `ManyUnavailable`, `Unusable`) says what each safeguard means
without the order of the checks, their early returns or their errors. Its reading
of an answer (`Reading`) also takes the scalar that the API type asks for and
`InstantQuery` cannot decode. A value that has reached the threshold is a breach
there, as in the code; `AboveSLO` is what the API type says instead.

### Watcher

State. Of a schedule: the run it names while in phase Running (`active`) and the
informer's copy of that (`listed`). Of every run: its phase, its halt-code
annotation, and whether the informer's copy is missing, outdated or current.
Of the watcher: the counters (`failures`), the rest of the round (`todo`), and the
halt it is about to write (`at`, `haltCode`, and `held`, whether the copy it
writes is still the stored version). `trouble` is history: the checks of a schedule
since its last clear one.

| code | actions |
|---|---|
| ticker and `checkAll` | `Tick` |
| no safeguards 78-80 | `Unguarded` |
| backends clear, no replicas to check 90-93 | `BackendsClear` |
| Get of the experiment fails 96-102 | `NoExperiment` |
| `default:` 165-166 | `Healthy` |
| halt code 129-130 | `FoundBreach` |
| error 141-156 | `CountFailure` |
| `haltExperiment` and what follows it, 130-140, 152-163 | `HaltExperiment`, `HaltFails` |
| outside | `DeliverSchedule`, `DeliverExperiment`, `StartRun`, `LetGo`, `Finish`, `Write`, `CarryOut`, `Crash` |

- A check up to its write is one step, although it makes several requests. The
  answers of the backends are arbitrary, so when they are given makes no
  difference, and the one read of shared state (Get of the experiment) is where
  the step happens; the write is a step of its own, with anything in between.
- A check may come to any verdict that the schedule's guard allows for some world;
  backends and Deployment may have changed between two requests of one check.
- The code only compares a counter with the threshold, so it stops there, and the
  history with it.
- `LetGo` is every way a schedule leaves its run: concluded, not found, suspended.
- The order of the list is open: a round checks its schedules in any order.

### PodKill

A pod is a name in one of the states unborn, pending, running, terminating, gone;
the ReplicaSet never reuses a name, and a pod that is being deleted stays in phase
Running until it is gone, so the code may choose it again. The informer's list
(`cache`) jumps to the present (`Relist`) at any time or never: the operator's
role grants `list` but no `watch` on pods. `doomed` is `running[:count]`, `todo`
what is left of it, `killed` the pods the call itself has taken out of service.

| code | actions |
|---|---|
| errors up to line 60 | `Refuse` |
| choice 46-67 | `Choose` |
| loop 69-75 | `Delete`, `DeleteFails` |
| outside | `Replace`, `Lose`, `Relist`, `Crash` |

## 3. Properties and runs

Every property has a mutant: a plausible bug in a mapped definition under which
TLC reports that property violated in the same run.

| run | states | properties |
|---|---|---|
| `experiment_safety` | 2.6 M | `TypeOK`, `Inductive`; `OnlyCurrentFault`: a fault not reverted belongs to the committed current scenario and target (`revertIfActive` relies on it); `NoInjectOnceHalted`: no injection once Halted is committed; `CountedOnce`: metrics count an experiment at most once as finished and once as halted; `RevertedWhenOver`: no recorded fault is left when the experiment is halted or gone, unless an edit has cut it off; `NotRevertedEarly`: a fault is withdrawn after the duration its call knows of, or because of a halt or a deletion; `MeanInRange`: the mean recovery time is between the shortest and the longest; `NeverForgotten`: with something left to do there is always a worker, a queue entry, a timer or an event; `ImplementsLifecycle`: refinement of `ExperimentLifecycle` |
| `experiment_liveness` | 351 k | `EventuallyOver`, `HaltCarriedOut`, `DeletionCompletes` |
| `schedule_safety` | 4.9 M | `TypeOK`; `RunsAccounted`: the runs that succeeded, were halted or go on are no more than those started; `RunningHasActive`: the "Shouldn't happen" branch (line 134) is unreachable; `HaltStopsRuns`: a halted schedule creates nothing; `NeverForgotten`: as above, for a schedule; `ImplementsLifecycle`: refinement of `ScheduleLifecycle` |
| `schedule_liveness` | 261 k | `DueIsHandled`, `RunIsConcluded` |
| `watcher` | 176 k | `TypeOK`; `FailuresAreConsecutive`: a counter never exceeds the checks since the last clear one; `UnreachableIsEarned`: no run is marked unreachable earlier than the threshold says; `PersistentTroubleHalts`: a run whose schedule is never found clear again is halted, or is no longer its live run; `PreflightAgrees`: preflight and watcher decide alike on a target with a name; `UnsafeIsNeverClear`: an error never hides what is unsafe, and an answer that cannot be read is not taken for a good one; `CodeIsTrue`: a halt code says what was observed |
| `podkill` | 871 k | `TypeOK`; `BlastRadius`: a call takes at most count pods out of service; `SuccessMeansGone`: a call that returns nil has done so with every pod it chose; `NeverStartedIsSpared`: no pod is deleted that never ran; `CallReturns` |

Six runs show a disagreement between the code and what its comments say. TLC
finds the property violated; `PROJECT.json` quotes the line.

| run | property | what happens |
|---|---|---|
| `experiment_pause` | `PauseHonoured` | the status update that advances the index delivers its own watch event, and the next scenario is injected without waiting for pauseBetween |
| `experiment_killed_once` | `TotalIsDeleted` | a crash before the injection is recorded, or an outdated read after it, injects the scenario again: more pods are deleted than totalPodsKilled says |
| `schedule_overlap` | `NoOverlap` | a Reconcile on the Idle copy creates a second experiment while the first is live |
| `schedule_suspend` | `IdleBetweenRuns` | suspend and resume during a run leaves the run without anyone following it |
| `schedule_forgotten` | `ForgottenOnlyWhenOver` | a run not yet in the informer is taken for deleted |
| `watcher_threshold` | `HaltsAboveThreshold` | a value equal to the threshold halts the run |

`TotalIsDeleted` and `NoOverlap` are about effects that carry no version check (pod
deletion, Create). The properties of the two controllers that hold are those the
version check of `Update` protects: this line divides the results.

What the properties do not promise, because the code does not:

- A duration that a user lengthens is honoured from the call that reads it on. A
  call on the copy from before the edit still ends the scenario at the old
  duration (its write is refused, the revert has happened); `NotRevertedEarly` says
  exactly this much.
- An experiment pointed at another target while a scenario is injected probes and
  reverts the new one, and one whose list is cut below its index completes without
  a revert. `OnlyCurrentFault` and `RevertedWhenOver` end with such an edit.
- A fault that was never recorded, because its injection failed half-way, stays.
- totalPodsKilled adds the count asked for also where fewer pods were running
  (`podkill.go:61`); `experiment_killed_once` asks for one pod, so that what it
  shows is the repeated injection alone.
- meanRecoveryTime weighs the earlier mean with the scenario's index, also when
  fewer scenarios than that have recovered: with 8 s, no recovery and 2 s it is 6 s,
  not 5 s. `MeanInRange` is what is left of "average".
- A run counted as completed is counted as halted too when a halt arrives later.
- `DueIsHandled` excepts a target that can never be read: the preflight fails on
  it each time, and the fire time is neither run nor skipped.
- For a target without a name the preflight passes whatever the safeguards say,
  while the watcher goes on checking alerts and SLO.

### Bounds

- Two scenarios: the first and last, an advance, and an index that can be stale
  by one.
- Durations 1 and 2. The safety run has no grace period, so that both scenarios can
  be probed while they run and the second mean weighs the first; the other runs
  have one second of it, so that one scenario ends before it could be probed. All delays are one second, so every pair of timers can
  fire in either order.
- Two halt requests with two reasons: the second may overwrite the first before,
  while or after the first is carried out. Reasons are symmetric in the safety
  run; the liveness run uses no symmetry.
- One crash, at any point; one request error (liveness run), refused or
  unanswered. Conflicts are not bounded: they follow from the interleaving.
- One edit and one deletion. The edit of the safety run makes the list shorter, its
  first scenario longer and its count larger, or names another target; that of the
  liveness run takes the target's name away.
- `experiment_killed_once` counts deleted pods up to four, more than the two asked
  for; in the other runs the count of them is off (`MaxDeleted` 0).
- Two runs per schedule, as overlap and stale names need two; two changes of
  `suspend`. In `schedule_liveness` one run: beyond it a due fire time can only
  be skipped or fail, so a run after the first is not explored there.
- `watcher`: a threshold of 2 (the code has 3; the proof takes any), so that a failure is counted, is followed by a clear
  check or by the second; two runs of one schedule, as the counter outlives the
  first; one disturbance (a write or deletion by somebody else, a lost answer or a
  crash). 360 safeguards, all combinations of the fields with values on both sides
  of every limit, against all worlds, on a schedule that does not run; the running
  ones watch alerts only (the early return), or replicas too, of a target with or
  without a name; one shares its rounds with a schedule without safeguards. Two
  schedules with counters in one round are left to the proof.
- `podkill`: three pods running and two more names for their replacements, counts
  2 and 0 (fewer than, or more than, the pods left, depending on the list), two
  calls, one disturbance (a lost pod, a failed or unanswered request, a crash).
- Deadlock is checked for the experiment (the clock always ticks). A schedule
  that is Halted, Failed, suspended or deleted rests, and pods rest after the last call: hence
  `CHECK_DEADLOCK FALSE` there. The watcher's loop never ends, and deadlock is
  checked.

### Fairness

Weak fairness of the worker (`Reconcile`), of the informers, of the delayed
entries and of the clock: goroutines of a running manager, and a watch that
reconnects. For `Watcher` the loop, its two informers and, for the runs it
annotates, the experiment controller (`CarryOut`), which is what
`HaltCarriedOut` shows of that model. For `PodKill` only that each Delete answers,
with success or an error. Nothing is assumed of users, the watcher, the target or the
experiments: a target that can never be read leaves a due fire time where it is,
which is why `DueIsHandled` names that case. Crashes and request errors are finite by their bounds, without
which a controller that never reaches its API server would refute every
liveness property; a probe that fails for ever is allowed, because the scenario's
duration ends it.

## 4. Proofs

Each theorem holds for every value of its module's constants under the `ASSUME`s
the module names: at least one scenario, times below `Horizon`, a poll interval
that is not zero (the code's is five seconds), natural bounds,
`None` and the like distinct from real values, well-formed safeguards and worlds,
a finite set of pod names. TLC evaluates them in the runs.

| module | theorem | statement |
|---|---|---|
| `ExperimentReconcilerProofs` | `TypeCorrect` | `Spec => []TypeOK` |
| | `InductiveInvariant` | `Spec => []Inductive` |
| | `FaultsAreCurrent` | `Spec => []OnlyCurrentFault` |
| | `HaltIsFinal` | `Spec => []NoInjectOnceHalted` |
| | `MetricsCountOnce` | `Spec => []CountedOnce` |
| | `Refinement` | `Spec => ImplementsLifecycle` |
| `ExperimentRevertProofs` | `OverMeansReverted` | `Spec => []RevertedWhenOver` |
| | `RevertsOnTime` | `Spec => NotRevertedEarly` |
| `ExperimentAccountingProofs` | `MeanStaysInRange` | `Spec => []MeanInRange` |
| `ExperimentQueueProofs` | `AlwaysRemembered` | `Spec => []NeverForgotten` |
| `ScheduleReconcilerProofs` | `TypeCorrect`, `InductiveInvariant` | `Spec => []TypeOK`, `Spec => []Inductive` |
| | `HistoryAddsUp` | `Spec => []RunsAccounted` |
| | `RunningIsNamed` | `Spec => []RunningHasActive` |
| | `HaltIsObeyed` | `Spec => []HaltStopsRuns` |
| | `AlwaysRemembered` | `Spec => []NeverForgotten` |
| | `Refinement` | `Spec => ImplementsLifecycle` |
| `SafeguardsProofs` | `CallersAgree` | `Agreeing = Guards \ {None}` |
| | `NothingIsOverlooked` | `Vigilant = Guards \ {None}` |
| | `HaltsHaveReason` | `Truthful = Guards \ {None}` |
| `WatcherProofs` | `TypeCorrect`, `InductiveInvariant` | `Spec => []TypeOK`, `Spec => []Inductive` |
| | `OnlyConsecutiveFailuresCount` | `Spec => []FailuresAreConsecutive` |
| | `UnreachableHasReason` | `Spec => UnreachableIsEarned` |
| | `PreflightAndWatcherAgree` | `Spec => []PreflightAgrees` |
| | `TroubleIsSeen` | `Spec => []UnsafeIsNeverClear` |
| | `CodesAreTrue` | `Spec => []CodeIsTrue` |
| `PodKillProofs` | `TypeCorrect`, `InductiveInvariant` | `Spec => []TypeOK`, `Spec => []Inductive` |
| | `AtMostCount` | `Spec => []BlastRadius` |
| | `InjectedIsGone` | `Spec => []SuccessMeansGone` |
| | `NewPodsAreSpared` | `Spec => NeverStartedIsSpared` |

### Experiment controller

None of the properties is inductive, since each depends on what an outdated copy
may still say. `Inductive` adds

- `Coherent`: cached, delivered and held copies are past versions of the object
  and never newer than their source; a copy with the stored version number *is*
  the stored object (or, after an injection, that object with the two fields the
  injection set). So an accepted write is computed from what it overwrites;
- `HaltKnown`: once Halted is committed, every copy that can still be acted on
  says Halted or carries the annotation. It holds because Halted is only written
  by a worker whose accepted copy had the annotation and the informer is at least
  as new as that copy; hence no outdated copy leads to an injection;
- `IndexKnown`: a copy that lags in its index lags by one, with the scenario
  recorded as injected. So no outdated copy injects an earlier scenario, which is
  `OnlyCurrentFault`;
- `TargetKnown`: until an edit changes the target, every copy names the same one;
- `Counted`: a counter that is 1 implies the phase its write committed.

The proof has one step per action: first that the write either commits a copy
equal to the stored object or changes nothing (`AtWrite`, `EndingWrite`), then
that each conjunct survives. `Refinement` maps each accepted write to one step of
the lifecycle and everything else to a stuttering step. `Inductive` is also an
invariant of `experiment_safety`.

`OverMeansReverted` strengthens it once more: the finalizer holds an object with a
recorded injection (`FinalizerHolds`), that injection is of a scenario in the list
(`InRange`, which is what a shortened list breaks and `lost` excepts), and once such an object is
gone no copy leads past the deletion branch (`GoneKnown`). So the write that halts
or releases the experiment comes from a call that has just reverted the one fault
there is, and no copy is left that could inject again.

`RevertsOnTime` is about the calls that revert, which act on copies that may be
old. `Reflects` says what an old copy still tells truly of everything but the spec:
a deletion stays requested, a halt is requested or carried out, and an injection of
the current scenario is the committed one, of the same age; the scenario of a copy
that points at an earlier one has been reverted already. The age holds because
at the write that records an injection the informer is up to date and has none.
Of the duration nothing is claimed but that it is the one in the copy, since an
edit may change it at any time.

`MeanStaysInRange` adds that only scenarios before the current one have contributed
(`ContributedBefore`), so an advance never replaces a time the mean was made of.
Then the new mean weighs the old one, in range, and the new time: whatever the
weights, a weighted mean rounded down lies between bounds of both
(`WeightedMean`). So weighing with the index distorts the figure but never takes it
out of range.

`AlwaysRemembered` is the safety half of `EventuallyOver`. It needs that the
stored version is with the informer or on its way (`InFlight`), and that as long as
the key was not queued again a call works on the informer's present copy
(`ReadIsCurrent`). A call that returns without a requeue has then either
written, so that its own event follows, or has seen the stored object settled; and a
poll delay is never zero (`PollDelayPositive`), whereas `pauseBetween` may be.

### Schedule controller

The schedule has no version check on its experiments, only on itself. `Inductive`
adds to the properties

- `Coherent`: a copy marked fresh is the stored version, a held one no fresher than
  the informer's, and past the preflight the worker holds an Idle copy;
- `CreatedFirst`: every counted run was created, and the one just created is not
  counted yet. So a lost status update makes the history lag and never count twice;
- `HaltKnown`: Halted is written from the informer's own copy of a Running
  schedule, so no Idle copy is left that could start a run.

`Refinement` maps the stored status to `ScheduleLifecycle`. `AlwaysRemembered` is
the argument of the experiment's: a call that returns without a requeue has
written, or has seen a settled copy; if the key was not queued since, that copy is
the informer's (`ReadIsCurrent`), and if the informer has nothing to deliver that
is the stored one.

### Safeguards and watcher

`SafeguardsProofs` goes check by check: what a verdict of the alerts, the SLO (for
query lists of any length) and the replicas says of the observation (`Means`) and
what an observation implies for the verdict; then that neither caller's order
loses one. `CallersAgree` is about both kinds of target: with a name the preflight
passes when and only when the watcher's verdict is clear, without one it always
passes. These facts need no state, and `WatcherProofs` applies them to the
safeguards of the schedules. `Inductive` there adds that a halt for unreachable
backends on its way was earned when the check decided it (`UnreachableEarned`):
between the decision and the write other schedules are not checked, so the
history cannot start again in between.

### Pod-kill

`Inductive` says that the list of pods is a past one, in which no pod is further in
its life than now (`ListIsPast`), and that what a call has deleted and will delete
is what it chose, which is no more than the count (`Chosen`).

### Only model-checked

Liveness (fairness is outside the prover): `EventuallyOver`, `HaltCarriedOut`,
`DeletionCompletes`, `DueIsHandled`, `RunIsConcluded`, `PersistentTroubleHalts`,
`CallReturns`. The two `NeverForgotten` theorems are what of the first and the
fourth can be proved: no step loses the wake-up. That the wake-ups lead to the end
is left to TLC. Every safety invariant and action property of a passing run is
proved; those of the runs that expect a violation are false.

## 5. Running

```
tlc -workers 2 -config MCExperiment_safety.cfg MCExperiment
tlc -workers 2 -config MCSchedule_safety.cfg MCSchedule
tlc -workers 2 -config MCWatcher.cfg MCWatcher
tlc -workers 2 -config MCPodKill.cfg MCPodKill
tlapm ExperimentReconcilerProofs.tla
```

The other runs and the other proof modules are started in the same way.

## 6. Plan

Done: both controllers with their abstract specifications, the watcher with the
safeguard decisions, pod-kill, and the proofs above. In order of what they would
add:

1. The watcher composed with the two controllers in one model, in place of the
   open actions `StartRun`, `LetGo`, `CarryOut`: from a breach to the schedule in
   phase Halted, as one liveness property.
2. `PodKill` composed with the experiment controller: which pods a repeated
   injection takes, and a lower bound on a call's effect, which the code does not
   give today.
3. Several watched schedules in TLC, and a threshold of 3.

## 7. Source map

`PROJECT.json` maps every definition to the lines it stands for, and marks the
ones that model Kubernetes, controller-runtime or a user as external.

## 8. Not modelled

- Cron arithmetic and time zones, halt messages, event recording, logging.
- `lastHaltReason`, owner references and labels of created experiments; the
  garbage collection of runs with their schedule (any run may be deleted at any
  time in the model).
- The template experiment as an object of its own: the controller would also run
  it, as an experiment like any other.
- Two leaders at once, and manual edits of `status`.
- HTTP and JSON of the safeguard backends beyond "an answer, or `Bad`": time-outs,
  size limits and status codes all end there. `RangeQuery` has no caller.
- The order in which a round visits its schedules, and how long it takes: a slow
  backend delays every schedule after it, which the model allows (a round may take
  any time) and no property bounds.
- Which pods a selector matches: the pods of the model are the target's.
- Generated deep copies; flags, TLS and registration in `cmd/main.go`; manifests;
  end-to-end tests. They hold no state of the system; what `main.go` fixes for the
  models (leader election, one worker per controller, the cached client) is in
  section 1.
