---------------------------- MODULE WatcherProofs ----------------------------
(***************************************************************************)
(* Theorems about Watcher, for every number of schedules, runs and         *)
(* safeguards, every threshold and every bound on disturbances.            *)
(***************************************************************************)
EXTENDS Watcher, SafeguardsProofs

-----------------------------------------------------------------------------
(* The inductive invariant.                                                *)

\* A halt for unreachable backends is on its way only when it is earned.
UnreachableEarned ==
  at # None /\ haltCode = "unreachable" => trouble[at] >= Threshold

Inductive == TypeOK /\ FailuresAreConsecutive /\ UnreachableEarned

\* The counters, the types of which depend on the threshold only.
CountersOK ==
  /\ failures \in [Schedules -> 0..Threshold]
  /\ trouble \in [Schedules -> 0..Threshold]

\* The rest of the types, of what the worker is at and of what is stored.
WorkerOK ==
  /\ todo \in [Schedules -> Nat]
  /\ \A s \in Schedules : todo[s] \in 0..started[s]
  /\ \/ at \in Schedules /\ todo[at] # 0 /\ haltCode \in HaltCodes
     \/ at = None /\ haltCode = None
  /\ held \in BOOLEAN

StoredOK ==
  /\ setup \in Setups
  /\ {active, listed, started} \subseteq [Schedules -> Nat]
  /\ \A s \in Schedules : {active[s], listed[s]} \subseteq 0..started[s]
  /\ \A s \in Schedules : started[s] <= setup[s].runs
  /\ exps \in [Keys -> Experiment]
  /\ disturbances \in 0..MaxDisturbances

\* TypeOK is these three.
LEMMA TypeParts == /\ TypeOK <=> StoredOK /\ WorkerOK /\ CountersOK
                   /\ TypeOK' <=> StoredOK' /\ WorkerOK' /\ CountersOK'
BY DEF TypeOK, StoredOK, WorkerOK, CountersOK

-----------------------------------------------------------------------------
(* The pieces of a step.                                                   *)

\* What a schedule is set up with.
LEMMA SetupType ==
  ASSUME StoredOK, NEW s \in Schedules
  PROVE  /\ Guard(s) \in Guards /\ setup[s].named \in BOOLEAN
         /\ setup[s].runs \in 0..MaxRuns
         /\ started[s] \in 0..MaxRuns
<1>1. setup \in [Schedules -> [guard : Guards, named : BOOLEAN, runs : 0..MaxRuns]]
  BY WatcherAssumption DEF StoredOK
<1>2. /\ Guard(s) \in Guards /\ setup[s].named \in BOOLEAN /\ setup[s].runs \in 0..MaxRuns
  BY <1>1 DEF Guard
<1>3. started[s] \in Nat /\ started[s] <= setup[s].runs
  BY DEF StoredOK
<1>4. QED
  BY <1>2, <1>3, WatcherAssumption

\* The run that is checked is one of the keys.
LEMMA RunKey ==
  ASSUME StoredOK, WorkerOK, NEW s \in Schedules, todo[s] # 0
  PROVE  <<s, todo[s]>> \in Keys
<1>1. todo[s] \in 0..started[s] /\ started[s] \in 0..MaxRuns
  BY SetupType DEF WorkerOK
<1>2. todo[s] \in 1..MaxRuns
  BY <1>1, WatcherAssumption
<1>3. QED
  BY <1>2 DEF Keys

\* Counting keeps a counter within the threshold and in order with another.
LEMMA CountedType ==
  ASSUME NEW f \in [Schedules -> 0..Threshold], NEW s \in Schedules
  PROVE  /\ Counted(f, s) \in [Schedules -> 0..Threshold]
         /\ Deleted(f, s) \in [Schedules -> 0..Threshold]
         /\ Counted(f, s)[s] = UpTo(f[s] + 1) /\ Deleted(f, s)[s] = 0
         /\ \A t \in Schedules \ {s} : Counted(f, s)[t] = f[t] /\ Deleted(f, s)[t] = f[t]
<1>1. UpTo(f[s] + 1) \in 0..Threshold /\ 0 \in 0..Threshold
  BY WatcherAssumption DEF UpTo
<1>2. QED
  BY <1>1 DEF Counted, Deleted

\* A committed experiment is one, and an experiment stays one when copied.
LEMMA CommitType ==
  ASSUME StoredOK, WorkerOK, NEW k \in Keys, NEW e \in Experiment, Commit(k, e)
  PROVE  exps' \in [Keys -> Experiment] /\ held' \in BOOLEAN
BY DEF StoredOK, WorkerOK, Commit, Experiment

LEMMA CurrentType == \A e \in Experiment : Current(e) \in Experiment
BY DEF Current, Experiment

\* After a schedule is done with, nothing is called.
LEMMA NextScheduleType ==
  ASSUME WorkerOK, NEW s \in Schedules, NextSchedule(s), UNCHANGED started, StoredOK
  PROVE  WorkerOK' /\ at' = None /\ haltCode' = None
<1>1. /\ todo' \in [Schedules -> Nat]
      /\ \A t \in Schedules : todo'[t] \in {0, todo[t]}
  BY DEF WorkerOK, NextSchedule
<1>2. \A t \in Schedules : todo'[t] \in 0..started'[t]
  BY <1>1 DEF WorkerOK, StoredOK
<1>3. QED
  BY <1>1, <1>2 DEF WorkerOK, NextSchedule

\* A halt is called with a code, and what is to do stays.
LEMMA CallHaltType ==
  ASSUME WorkerOK, NEW s \in Schedules, todo[s] # 0, NEW c \in HaltCodes, CallHalt(s, c),
         UNCHANGED started
  PROVE  WorkerOK' /\ at' = s /\ haltCode' = c
BY DEF WorkerOK, CallHalt

\* No check comes to the code that failures are halted with.
LEMMA ConcludesNotUnreachable ==
  ASSUME NEW s \in Schedules, NEW v, Concludes(s, v)
  PROVE  v.code # "unreachable"
<1>1. PICK b \in Pending(s), r \in Verdicts :
        /\ <<Guard(s), r>> \in ReplicaVerdicts
        /\ v = Outcome(Guard(s), setup[s].named, b, r)
  BY DEF Concludes
<1>2. \E g \in Guards \ {None}, w \in Worlds : b = Backends(g, w)
  BY DEF Pending, BackendVerdicts
<1>3. \E g \in Guards \ {None}, w \in Worlds : r = ReplicaVerdict(g, w)
  BY <1>1 DEF ReplicaVerdicts
<1>4. b.code # "unreachable" /\ r.code # "unreachable"
  BY <1>2, <1>3, NeverUnreachable
<1>5. v = b \/ v = r
  BY <1>1 DEF Outcome
<1>6. QED
  BY <1>4, <1>5

-----------------------------------------------------------------------------
(* Preservation.                                                           *)

\* The invariant in parts.
LEMMA InductiveParts ==
  /\ Inductive <=> StoredOK /\ WorkerOK /\ CountersOK /\ FailuresAreConsecutive /\ UnreachableEarned
  /\ Inductive' <=> /\ StoredOK' /\ WorkerOK' /\ CountersOK'
                    /\ FailuresAreConsecutive' /\ UnreachableEarned'
BY TypeParts DEF Inductive

\* A step that leaves the worker and the counters alone.
LEMMA OthersStep ==
  ASSUME Inductive, UNCHANGED <<todo, at, haltCode, failures, trouble>>,
         held' \in BOOLEAN, StoredOK', \A s \in Schedules : started'[s] >= started[s]
  PROVE  Inductive'
<1>1. WorkerOK'
  <2>1. \A s \in Schedules : started[s] \in Nat /\ started'[s] \in Nat
    BY InductiveParts DEF StoredOK
  <2>2. \A s \in Schedules : todo'[s] \in 0..started'[s]
    BY <2>1, InductiveParts DEF WorkerOK
  <2>3. QED
    BY <2>2, InductiveParts DEF WorkerOK
<1>2. QED
  BY <1>1, InductiveParts DEF CountersOK, FailuresAreConsecutive, UnreachableEarned

\* A step that leaves what is stored alone.
LEMMA WatcherStep ==
  ASSUME Inductive, UNCHANGED <<setup, active, listed, started>>,
         exps' \in [Keys -> Experiment], disturbances' \in 0..MaxDisturbances
  PROVE  StoredOK'
BY InductiveParts DEF StoredOK

\* A check that ends without a halt keeps the invariant.
LEMMA CheckEnds ==
  ASSUME Inductive, NEW s \in Schedules, NextSchedule(s), StoredOK', UNCHANGED started,
         CountersOK', FailuresAreConsecutive'
  PROVE  Inductive'
<1>1. WorkerOK' /\ at' = None
  BY NextScheduleType, InductiveParts
<1>2. QED
  BY <1>1, InductiveParts DEF UnreachableEarned

\* Every step of the environment keeps the invariant.
LEMMA EnvironmentInductive == ASSUME Inductive, Environment PROVE Inductive'
<1>i. StoredOK /\ WorkerOK /\ CountersOK /\ FailuresAreConsecutive /\ UnreachableEarned
  BY InductiveParts
<1>n. \A s \in Schedules : started[s] \in Nat /\ active[s] \in Nat /\ listed[s] \in Nat
  BY <1>i DEF StoredOK
<1>d. Disturb => disturbances' \in 0..MaxDisturbances
  BY <1>i, WatcherAssumption DEF Disturb, StoredOK
<1>1. ASSUME NEW s \in Schedules, DeliverSchedule(s) PROVE Inductive'
  <2>1. StoredOK'
    BY <1>i, <1>n, <1>1 DEF DeliverSchedule, StoredOK, stored
  <2>2. QED
    BY <1>i, <1>n, <1>1, <2>1, OthersStep DEF DeliverSchedule, stored, worker, WorkerOK
<1>2. ASSUME NEW s \in Schedules, StartRun(s) PROVE Inductive'
  <2>1. started[s] + 1 \in 1..MaxRuns /\ started[s] + 1 <= setup[s].runs /\ started[s] + 1 \in Nat
    BY <1>i, <1>n, <1>2, SetupType, WatcherAssumption DEF StartRun
  <2>2. /\ started' \in [Schedules -> Nat] /\ active' \in [Schedules -> Nat]
        /\ started'[s] = started[s] + 1 /\ active'[s] = started[s] + 1
        /\ \A t \in Schedules \ {s} : started'[t] = started[t] /\ active'[t] = active[t]
    BY <1>i, <1>2, <2>1 DEF StartRun, StoredOK
  <2>3. exps' \in [Keys -> Experiment]
    <3> DEFINE k == <<s, started[s] + 1>>
    <3>1. exps \in [Keys -> Experiment] /\ k \in Keys
      BY <1>i, <2>1 DEF StoredOK, Keys
    <3>2. exps' = [exps EXCEPT ![k] = [exps[k] EXCEPT !.phase = "live"]]
      BY <1>2 DEF StartRun
    <3>3. [exps[k] EXCEPT !.phase = "live"] \in Experiment
      <4>1. \A e \in Experiment : [e EXCEPT !.phase = "live"] \in Experiment
        BY DEF Experiment
      <4>2. QED
        BY <3>1, <4>1
    <3> HIDE DEF k
    <3>4. QED
      BY <3>1, <3>2, <3>3
  <2>4. \A t \in Schedules : started'[t] >= started[t] /\ started'[t] <= setup'[t].runs
    BY <1>i, <1>n, <1>2, <2>1, <2>2 DEF StartRun, StoredOK
  <2>5. \A t \in Schedules : {active'[t], listed'[t]} \subseteq 0..started'[t]
    BY <1>i, <1>n, <1>2, <2>1, <2>2 DEF StartRun, StoredOK
  <2>6. StoredOK'
    BY <1>i, <1>2, <2>2, <2>3, <2>4, <2>5 DEF StartRun, StoredOK
  <2>7. QED
    BY <1>i, <1>2, <2>4, <2>6, OthersStep DEF StartRun, worker, WorkerOK
<1>3. ASSUME NEW s \in Schedules, LetGo(s) PROVE Inductive'
  <2>1. StoredOK'
    BY <1>i, <1>n, <1>3 DEF LetGo, StoredOK
  <2>2. QED
    BY <1>i, <1>n, <1>3, <2>1, OthersStep DEF LetGo, worker, WorkerOK
<1>4. ASSUME NEW k \in Keys, DeliverExperiment(k) PROVE Inductive'
  <2>1. exps' \in [Keys -> Experiment]
    BY <1>i, <1>4, CurrentType DEF DeliverExperiment, StoredOK
  <2>2. StoredOK'
    BY <1>i, <1>4, <2>1 DEF DeliverExperiment, StoredOK
  <2>3. QED
    BY <1>i, <1>n, <1>4, <2>2, OthersStep DEF DeliverExperiment, worker, WorkerOK
<1>5. ASSUME NEW k \in Keys, Finish(k) \/ Write(k) \/ CarryOut(k) PROVE Inductive'
  <2>1. exps[k] \in Experiment
    BY <1>i DEF StoredOK
  <2>2. PICK e \in Experiment : Commit(k, e)
    <3>1. CASE Finish(k)
      BY <2>1, <3>1 DEF Finish, Experiment
    <3>2. CASE Write(k)
      BY <2>1, <3>2 DEF Write, Experiment
    <3>3. CASE CarryOut(k)
      BY <2>1, <3>3 DEF CarryOut, Experiment
    <3>4. QED
      BY <1>5, <3>1, <3>2, <3>3
  <2>3. exps' \in [Keys -> Experiment] /\ held' \in BOOLEAN
    BY <1>i, <2>2, CommitType
  <2>4. disturbances' \in 0..MaxDisturbances
    BY <1>5, <1>i, <1>d DEF Finish, Write, CarryOut, StoredOK
  <2>5. /\ UNCHANGED <<setup, active, started, listed>>
        /\ UNCHANGED <<todo, at, haltCode, failures, trouble>>
    BY <1>5 DEF Finish, Write, CarryOut
  <2>6. StoredOK'
    BY <2>3, <2>4, <2>5, WatcherStep
  <2>7. QED
    BY <1>n, <2>3, <2>5, <2>6, OthersStep
<1>6. CASE Crash
  <2>1. exps' \in [Keys -> Experiment]
    BY <1>6, <1>i, CurrentType DEF Crash, StoredOK
  <2>2. StoredOK'
    BY <1>6, <1>i, <1>d, <2>1 DEF Crash, StoredOK
  <2>3. WorkerOK'
    <3>1. todo' \in [Schedules -> Nat] /\ \A s \in Schedules : todo'[s] \in 0..started'[s]
      BY <1>6, <1>n DEF Crash, NoRuns
    <3>2. QED
      BY <1>6, <3>1 DEF Crash, WorkerOK
  <2>4. CountersOK' /\ FailuresAreConsecutive'
    BY <1>6, <1>i, WatcherAssumption DEF Crash, NoRuns, CountersOK, FailuresAreConsecutive
  <2>5. UnreachableEarned'
    BY <1>6 DEF Crash, UnreachableEarned
  <2>6. QED
    BY <2>2, <2>3, <2>4, <2>5, InductiveParts
<1>7. QED
  BY <1>1, <1>2, <1>3, <1>4, <1>5, <1>6 DEF Environment

\* Every step of the watcher keeps the invariant.
LEMMA WatchInductive == ASSUME Inductive, Watch PROVE Inductive'
<1>i. StoredOK /\ WorkerOK /\ CountersOK /\ FailuresAreConsecutive /\ UnreachableEarned
  BY InductiveParts
<1>e. exps \in [Keys -> Experiment] /\ disturbances \in 0..MaxDisturbances
  BY <1>i DEF StoredOK
<1>1. CASE Tick
  <2>1. StoredOK'
    BY <1>1, <1>e, WatcherStep DEF Tick, stored
  <2>2. WorkerOK'
    BY <1>1, <1>i DEF Tick, stored, WorkerOK, StoredOK, NoRuns
  <2>3. QED
    BY <1>1, <1>i, <2>1, <2>2, InductiveParts
    DEF Tick, CountersOK, FailuresAreConsecutive, UnreachableEarned
<1>2. CASE HaltExperiment
  <2>1. at \in Schedules /\ todo[at] # 0 /\ haltCode \in HaltCodes
    BY <1>2, <1>i DEF HaltExperiment, WorkerOK
  <2>2. exps' \in [Keys -> Experiment]
    BY <1>2, <1>e, <2>1 DEF HaltExperiment, Annotated, Experiment
  <2>3. StoredOK'
    BY <1>2, <1>e, <2>2, WatcherStep DEF HaltExperiment
  <2>4. CountersOK' /\ FailuresAreConsecutive'
    BY <1>2, <1>i, <2>1, CountedType, WatcherAssumption
    DEF HaltExperiment, CountersOK, FailuresAreConsecutive
  <2>5. QED
    BY <1>2, <2>1, <2>3, <2>4, CheckEnds DEF HaltExperiment
<1>3. CASE HaltFails
  <2>1. at \in Schedules /\ todo[at] # 0 /\ haltCode \in HaltCodes
    BY <1>3, <1>i DEF HaltFails, WorkerOK
  <2>2. exps' \in [Keys -> Experiment]
    <3>1. exps' = exps \/ Annotated
      BY <1>3 DEF HaltFails
    <3>2. CASE Annotated
      BY <1>e, <2>1, <3>2 DEF Annotated, Experiment
    <3>3. QED
      BY <1>e, <3>1, <3>2
  <2>3. disturbances' \in 0..MaxDisturbances
    BY <1>3, <1>e, WatcherAssumption DEF HaltFails, Disturb
  <2>4. StoredOK'
    BY <1>3, <2>2, <2>3, WatcherStep DEF HaltFails
  <2>5. CountersOK' /\ FailuresAreConsecutive'
    BY <1>3, <1>i DEF HaltFails, CountersOK, FailuresAreConsecutive
  <2>6. QED
    BY <1>3, <2>1, <2>4, <2>5, CheckEnds DEF HaltFails
<1>4. ASSUME NEW s \in Schedules, CheckSchedule(s) PROVE Inductive'
  <2>1. UNCHANGED <<setup, stored, listed, disturbances>>
    BY <1>4 DEF CheckSchedule, Unguarded, BackendsClear, NoExperiment, Healthy, FoundBreach,
                CountFailure
  <2>2. StoredOK' /\ UNCHANGED started
    BY <1>e, <2>1, WatcherStep DEF stored
  <2>3. at = None /\ todo[s] # 0
    BY <1>4 DEF CheckSchedule, Unguarded, BackendsClear, NoExperiment, Healthy, FoundBreach,
                CountFailure, Concludes, Guarded, Called
  <2>f. failures \in [Schedules -> 0..Threshold] /\ trouble \in [Schedules -> 0..Threshold]
    BY <1>i DEF CountersOK
  <2>4. CASE Unguarded(s) \/ NoExperiment(s)
    <3>1. CountersOK' /\ FailuresAreConsecutive'
      BY <1>i, <2>4 DEF Unguarded, NoExperiment, CountersOK, FailuresAreConsecutive
    <3>2. QED
      BY <2>2, <2>4, <3>1, CheckEnds DEF Unguarded, NoExperiment
  <2>5. CASE BackendsClear(s) \/ Healthy(s)
    <3>1. failures' = Deleted(failures, s) /\ trouble' = Deleted(trouble, s)
      BY <2>5 DEF BackendsClear, Healthy, FoundClear
    <3>2. CountersOK' /\ FailuresAreConsecutive'
      <4>1. /\ failures' \in [Schedules -> 0..Threshold] /\ trouble' \in [Schedules -> 0..Threshold]
            /\ failures'[s] = 0 /\ trouble'[s] = 0
            /\ \A t \in Schedules \ {s} : failures'[t] = failures[t] /\ trouble'[t] = trouble[t]
        BY <2>f, <3>1, CountedType
      <4>2. QED
        BY <1>i, <4>1 DEF CountersOK, FailuresAreConsecutive
    <3>3. QED
      BY <2>2, <2>5, <3>2, CheckEnds DEF BackendsClear, Healthy
  <2>6. CASE FoundBreach(s)
    <3>1. PICK c \in HaltCodes : Concludes(s, Breach(c)) /\ CallHalt(s, c)
      BY <2>6 DEF FoundBreach
    <3>2. c # "unreachable"
      BY <3>1, ConcludesNotUnreachable, Codes
    <3>3. WorkerOK' /\ at' = s /\ haltCode' = c
      BY <1>i, <2>2, <2>3, <3>1, CallHaltType
    <3>4. failures' = failures /\ trouble' = Counted(trouble, s)
      BY <2>6 DEF FoundBreach
    <3>5. CountersOK' /\ FailuresAreConsecutive'
      <4>1. failures[s] <= UpTo(trouble[s] + 1)
        BY <1>i, <2>f, WatcherAssumption DEF FailuresAreConsecutive, UpTo
      <4>2. QED
        <5>1. /\ failures' = failures /\ trouble' \in [Schedules -> 0..Threshold]
              /\ failures'[s] <= trouble'[s]
              /\ \A t \in Schedules \ {s} : trouble'[t] = trouble[t]
          BY <2>f, <3>4, <4>1, CountedType
        <5>2. QED
          BY <1>i, <2>f, <5>1 DEF CountersOK, FailuresAreConsecutive
    <3>6. QED
      BY <2>2, <3>2, <3>3, <3>5, InductiveParts DEF UnreachableEarned
  <2>7. CASE CountFailure(s)
    <3>1. failures' = Counted(failures, s) /\ trouble' = Counted(trouble, s)
      BY <2>7 DEF CountFailure
    <3>2. failures'[s] <= trouble'[s]
      <4>1. /\ failures'[s] = UpTo(failures[s] + 1) /\ trouble'[s] = UpTo(trouble[s] + 1)
            /\ failures[s] <= trouble[s]
        BY <1>i, <2>f, <3>1, CountedType DEF FailuresAreConsecutive
      <4>2. QED
        BY <2>f, <4>1, WatcherAssumption DEF UpTo
    <3>3. CountersOK' /\ FailuresAreConsecutive'
      <4>1. /\ failures' \in [Schedules -> 0..Threshold] /\ trouble' \in [Schedules -> 0..Threshold]
            /\ \A t \in Schedules \ {s} : failures'[t] = failures[t] /\ trouble'[t] = trouble[t]
        BY <2>f, <3>1, CountedType
      <4>2. QED
        BY <1>i, <3>2, <4>1 DEF CountersOK, FailuresAreConsecutive
    <3>4. CASE failures'[s] >= Threshold
      <4>1. WorkerOK' /\ at' = s
        BY <1>i, <2>2, <2>3, <2>7, <3>4, CallHaltType DEF CountFailure, HaltCodes
      <4>2. trouble'[s] >= Threshold
        BY <3>2, <3>3, <3>4, WatcherAssumption DEF CountersOK
      <4>3. QED
        BY <2>2, <3>3, <4>1, <4>2, InductiveParts DEF UnreachableEarned
    <3>5. CASE ~(failures'[s] >= Threshold)
      BY <2>2, <2>7, <3>3, <3>5, CheckEnds DEF CountFailure
    <3>6. QED
      BY <3>4, <3>5
  <2>8. QED
    BY <1>4, <2>4, <2>5, <2>6, <2>7 DEF CheckSchedule
<1>5. QED
  BY <1>1, <1>2, <1>3, <1>4 DEF Watch

\* The initial states satisfy the invariant.
LEMMA InitInductive == Init => Inductive
<1> SUFFICES ASSUME Init PROVE Inductive
  OBVIOUS
<1>1. setup \in [Schedules -> [guard : Guards, named : BOOLEAN, runs : 0..MaxRuns]]
  BY WatcherAssumption DEF Init
<1>2. StoredOK
  BY <1>1, WatcherAssumption DEF Init, StoredOK, NoRuns, Experiment
<1>3. WorkerOK
  <2>1. todo \in [Schedules -> Nat] /\ \A s \in Schedules : todo[s] \in 0..started[s]
    BY DEF Init, NoRuns
  <2>2. QED
    BY <2>1 DEF Init, WorkerOK
<1>4. CountersOK /\ FailuresAreConsecutive /\ UnreachableEarned
  BY WatcherAssumption DEF Init, CountersOK, FailuresAreConsecutive, UnreachableEarned, NoRuns
<1>5. QED
  BY <1>2, <1>3, <1>4, InductiveParts

\* Every step keeps it.
LEMMA NextInductive == Inductive /\ [Next]_vars => Inductive'
<1> SUFFICES ASSUME Inductive, [Next]_vars PROVE Inductive'
  OBVIOUS
<1>1. CASE Next
  BY <1>1, WatchInductive, EnvironmentInductive DEF Next
<1>2. CASE UNCHANGED vars
  BY <1>2 DEF vars, stored, worker, Inductive, TypeOK, FailuresAreConsecutive, UnreachableEarned
<1>3. QED
  BY <1>1, <1>2

-----------------------------------------------------------------------------
(* Theorems.                                                               *)

\* The inductive invariant holds in every reachable state.
THEOREM InductiveInvariant == Spec => []Inductive
BY InitInductive, NextInductive, PTL DEF Spec

\* Every variable has its type in every reachable state.
THEOREM TypeCorrect == Spec => []TypeOK
<1>1. Inductive => TypeOK
  BY DEF Inductive
<1>2. QED
  BY <1>1, InductiveInvariant, PTL

\* The failures counted for a schedule are consecutive checks of that schedule,
\* with any number of schedules sharing the rounds and the counters.
THEOREM OnlyConsecutiveFailuresCount == Spec => []FailuresAreConsecutive
<1>1. Inductive => FailuresAreConsecutive
  BY DEF Inductive
<1>2. QED
  BY <1>1, InductiveInvariant, PTL

\* No experiment is marked unreachable before the checks of its schedule have
\* been without a clear one for as long as the threshold says.
THEOREM UnreachableHasReason == Spec => UnreachableIsEarned
<1> DEFINE Step == \A k \in Keys : exps'[k].halt = "unreachable" /\ exps[k].halt # "unreachable"
                     => trouble[k[1]] >= Threshold
<1>1. Inductive /\ [Next]_vars => [Step]_vars
  <2> SUFFICES ASSUME Inductive, Next, NEW k \in Keys,
                      exps'[k].halt = "unreachable", exps[k].halt # "unreachable"
               PROVE  trouble[k[1]] >= Threshold
    OBVIOUS
  <2>i. StoredOK /\ WorkerOK /\ UnreachableEarned
    BY InductiveParts
  <2>e. exps \in [Keys -> Experiment]
    BY <2>i DEF StoredOK
  <2>1. CASE Annotated /\ at # None
    <3>1. at \in Schedules /\ <<at, todo[at]>> \in Keys
      BY <2>1, <2>i, RunKey DEF WorkerOK
    <3>2. k = <<at, todo[at]>> /\ haltCode = "unreachable"
      BY <2>1, <2>e, <3>1 DEF Annotated, Experiment
    <3>3. QED
      BY <2>1, <2>i, <3>2 DEF UnreachableEarned
  <2>2. CASE UNCHANGED exps
    BY <2>2
  <2>3. ASSUME NEW j \in Keys, NEW e \in Experiment, e.halt \in {None, exps[j].halt}, Commit(j, e)
        PROVE  FALSE
    <3>1. exps'[k] = IF k = j THEN [e EXCEPT !.seen = IF exps[j].seen = "missing"
                                                     THEN "missing" ELSE "stale"]
                     ELSE exps[k]
      BY <2>3, <2>e DEF Commit
    <3>2. exps'[k].halt \in {None, exps[k].halt}
      BY <2>3, <2>e, <3>1 DEF Experiment
    <3>3. QED
      BY <3>2, NoneAssumption DEF HaltCodes
  <2>4. CASE Watch
    <3>1. CASE HaltExperiment \/ HaltFails
      BY <2>1, <2>2, <3>1 DEF HaltExperiment, HaltFails
    <3>2. CASE Tick \/ (\E s \in Schedules : CheckSchedule(s))
      BY <2>2, <3>2 DEF Tick, CheckSchedule, Unguarded, BackendsClear, NoExperiment, Healthy,
                        FoundBreach, CountFailure, stored
    <3>3. QED
      BY <2>4, <3>1, <3>2 DEF Watch
  <2>5. ASSUME NEW s \in Schedules, DeliverSchedule(s) \/ StartRun(s) \/ LetGo(s)
        PROVE  FALSE
    <3>1. CASE StartRun(s)
      <4>1. exps'[k].halt = exps[k].halt
        BY <2>e, <3>1 DEF StartRun, Experiment
      <4>2. QED
        BY <4>1
    <3>2. QED
      BY <2>5, <2>2, <3>1 DEF DeliverSchedule, LetGo, stored
  <2>6. ASSUME NEW j \in Keys, DeliverExperiment(j) PROVE FALSE
    BY <2>6, <2>e DEF DeliverExperiment, Current, Experiment
  <2>7. ASSUME NEW j \in Keys, Finish(j) \/ Write(j) \/ CarryOut(j) PROVE FALSE
    <3>1. exps[j] \in Experiment
      BY <2>e
    <3>2. CASE Finish(j)
      BY <2>3, <3>1, <3>2 DEF Finish, Experiment
    <3>3. CASE Write(j)
      BY <2>3, <3>1, <3>3 DEF Write, Experiment
    <3>4. CASE CarryOut(j)
      BY <2>3, <3>1, <3>4 DEF CarryOut, Experiment
    <3>5. QED
      BY <2>7, <3>2, <3>3, <3>4
  <2>8. CASE Crash
    BY <2>8, <2>e DEF Crash, Current, Experiment
  <2>9. QED
    BY <2>4, <2>5, <2>6, <2>7, <2>8 DEF Next, Environment
<1>2. QED
  BY <1>1, InductiveInvariant, PTL DEF Spec, UnreachableIsEarned

-----------------------------------------------------------------------------
(* The decisions, for the safeguards in use.                               *)

\* What is used are safeguards.
LEMMA GuardsUsed == Inductive => GuardsInUse \subseteq Guards \ {None}
<1> SUFFICES ASSUME Inductive, NEW s \in Schedules PROVE Guard(s) \in Guards
  BY DEF GuardsInUse
<1>1. QED
  BY InductiveParts, SetupType

\* On every observation the preflight and the watcher agree about every
\* well-formed safeguard of a target with a name; for one without a name the
\* preflight passes, whatever the watcher finds.
THEOREM PreflightAndWatcherAgree == Spec => []PreflightAgrees
<1>1. Inductive => PreflightAgrees
  BY GuardsUsed, CallersAgree DEF PreflightAgrees
<1>2. QED
  BY <1>1, InductiveInvariant, PTL

\* No observation that shows trouble comes out clear.
THEOREM TroubleIsSeen == Spec => []UnsafeIsNeverClear
<1>1. Inductive => UnsafeIsNeverClear
  BY GuardsUsed, NothingIsOverlooked DEF UnsafeIsNeverClear
<1>2. QED
  BY <1>1, InductiveInvariant, PTL

\* A halt code says what was observed.
THEOREM CodesAreTrue == Spec => []CodeIsTrue
<1>1. Inductive => CodeIsTrue
  BY GuardsUsed, HaltsHaveReason DEF CodeIsTrue
<1>2. QED
  BY <1>1, InductiveInvariant, PTL

=============================================================================
