------------------------------ MODULE Watcher ------------------------------
(***************************************************************************)
(* The safeguard watcher: a loop that every five seconds checks the        *)
(* safeguards of every running schedule and asks, by annotating it, for    *)
(* the active experiment to be halted.                                     *)
(*                                                                         *)
(* It reads schedules and experiments from informers that may lag, and     *)
(* annotates with an Update that is refused unless its copy is the stored  *)
(* version.  Its own state is one counter per schedule, lost with the      *)
(* process.  The backends may answer anything in Worlds at any time.       *)
(***************************************************************************)
EXTENDS Safeguards

CONSTANTS Schedules,
          Setups,    \* for every schedule its guard, whether its target is named,
                     \* and a bound on the experiments it creates
          MaxRuns,   \* the largest of these bounds
          Threshold  \* NewWatcher's failureThreshold

\* Bound on the writes of others, deletions, lost answers and crashes of one behaviour.
CONSTANT MaxDisturbances

ASSUME WatcherAssumption ==
  /\ Threshold \in Nat \ {0} /\ MaxRuns \in Nat
  /\ Setups \subseteq [Schedules -> [guard : Guards, named : BOOLEAN, runs : 0..MaxRuns]]
  /\ MaxDisturbances \in Nat

VARIABLES
  setup,   \* one of Setups
  active,  \* the run a schedule in phase Running names in its status, else 0
  listed,  \* the same in the schedule informer
  exps,    \* the experiments at the API server, and how current the informer is
  started, \* number of experiments created for each schedule
  failures, \* consecutiveFailures
  todo,     \* the runs still to check in this round, by schedule (0: none)
  at,       \* the schedule whose run haltExperiment is called with, else None
  haltCode,     \* the halt code it is called with
  held      \* the experiment it is called with is the stored version

VARIABLES
  trouble,     \* checks of a schedule since the last clear one
  disturbances \* how much of the bound has been used

worker == <<todo, at, haltCode, held>>
stored == <<active, exps, started>>
vars   == <<setup, stored, listed, failures, worker, trouble, disturbances>>

Keys       == Schedules \X (1..MaxRuns)
HaltCodes  == {"alert-match", "slo-breach", "replica-min", "replica-max",
               "config-error", "unreachable"}

ASSUME NoneAssumption == None \notin HaltCodes

Experiment ==
  [phase : {"absent", "live", "over", "halted"},
   halt  : HaltCodes \cup {None},  \* annotation halt-code
   seen  : {"missing", "stale", "fresh"}]         \* the informer's copy

Guard(s) == setup[s].guard

\* The counters stop at the threshold, which is all they are compared with,
\* and so does the history.
UpTo(n) == IF n < Threshold THEN n ELSE Threshold

TypeOK ==
  /\ setup \in Setups
  /\ {active, listed, started, todo} \subseteq [Schedules -> Nat]
  /\ \A s \in Schedules : {active[s], listed[s], todo[s]} \subseteq 0..started[s]
  /\ \A s \in Schedules : started[s] <= setup[s].runs
  /\ exps \in [Keys -> Experiment]
  /\ failures \in [Schedules -> 0..Threshold]
  /\ trouble \in [Schedules -> 0..Threshold]
  /\ \/ at \in Schedules /\ todo[at] # 0 /\ haltCode \in HaltCodes
     \/ at = None /\ haltCode = None
  /\ held \in BOOLEAN
  /\ disturbances \in 0..MaxDisturbances

NoRuns == [s \in Schedules |-> 0]

Init ==
  /\ setup \in Setups
  /\ active = NoRuns /\ listed = NoRuns /\ started = NoRuns
  /\ exps = [k \in Keys |-> [phase |-> "absent", halt |-> None, seen |-> "missing"]]
  /\ failures = NoRuns /\ trouble = NoRuns
  /\ todo = NoRuns /\ at = None /\ haltCode = None /\ held = FALSE
  /\ disturbances = 0

-----------------------------------------------------------------------------
(* The API server and the informers (external).                            *)

Disturb == disturbances < MaxDisturbances /\ disturbances' = disturbances + 1

\* A write commits a new version: the copies taken before are outdated.
Commit(k, e) ==
  /\ exps' = [exps EXCEPT ![k] =
       [e EXCEPT !.seen = IF exps[k].seen = "missing" THEN "missing" ELSE "stale"]]
  /\ held' = (held /\ at # None /\ k # <<at, todo[at]>>)

Current(e) == [e EXCEPT !.seen = IF e.phase = "absent" THEN "missing" ELSE "fresh"]

DeliverSchedule(s) ==
  /\ listed[s] # active[s]
  /\ listed' = [listed EXCEPT ![s] = active[s]]
  /\ UNCHANGED <<setup, stored, failures, worker, trouble, disturbances>>

DeliverExperiment(k) ==
  /\ exps[k] # Current(exps[k])
  /\ exps' = [exps EXCEPT ![k] = Current(@)]
  /\ UNCHANGED <<setup, active, started, listed, failures, worker, trouble, disturbances>>

-----------------------------------------------------------------------------
(* The controllers and the users, as far as the watcher can tell.          *)

\* The schedule controller starts a run and names it.
StartRun(s) ==
  /\ active[s] = 0 /\ started[s] < setup[s].runs
  /\ started' = [started EXCEPT ![s] = @ + 1]
  /\ active' = [active EXCEPT ![s] = started[s] + 1]
  /\ exps' = [exps EXCEPT ![<<s, started[s] + 1>>].phase = "live"]
  /\ UNCHANGED <<setup, listed, failures, worker, trouble, disturbances>>

\* It concludes a run, gives up one it does not find, or is suspended: the
\* schedule is not in phase Running any more.
LetGo(s) ==
  /\ active[s] # 0
  /\ active' = [active EXCEPT ![s] = 0]
  /\ UNCHANGED <<setup, exps, started, listed, failures, worker, trouble, disturbances>>

\* A run ends.
Finish(k) ==
  /\ exps[k].phase = "live"
  /\ Commit(k, [exps[k] EXCEPT !.phase = "over"])
  /\ UNCHANGED <<setup, active, started, listed, failures, todo, at, haltCode, trouble,
                 disturbances>>

\* Anybody else writes or deletes the experiment.
Write(k) ==
  /\ Disturb
  /\ exps[k].phase # "absent"
  /\ \/ Commit(k, exps[k])
     \/ Commit(k, [exps[k] EXCEPT !.phase = "absent", !.halt = None])
  /\ UNCHANGED <<setup, active, started, listed, failures, todo, at, haltCode, trouble>>

\* The experiment controller carries out the annotation, also on a run that
\* is over, and then removes it.
CarryOut(k) ==
  /\ exps[k].halt # None
  /\ Commit(k, IF exps[k].phase = "halted" THEN [exps[k] EXCEPT !.halt = None]
               ELSE [exps[k] EXCEPT !.phase = "halted"])
  /\ UNCHANGED <<setup, active, started, listed, failures, todo, at, haltCode, trouble,
                 disturbances>>

\* The process stops and the next leader starts from a fresh list.
Crash ==
  /\ Disturb
  /\ listed' = active
  /\ exps' = [k \in Keys |-> Current(exps[k])]
  /\ failures' = NoRuns
  /\ todo' = NoRuns /\ at' = None /\ haltCode' = None /\ held' = FALSE
  /\ UNCHANGED <<setup, active, started, trouble>>

-----------------------------------------------------------------------------
(* The watcher.                                                            *)

Verdicts == {Clear, Failed} \cup {Breach(c) : c \in HaltCodes}

\* What the backends may say of a guard, and what the Deployment may.
BackendVerdicts == {<<g, Backends(g, w)>> : g \in Guards \ {None}, w \in Worlds}
ReplicaVerdicts == {<<g, ReplicaVerdict(g, w)>> : g \in Guards \ {None}, w \in Worlds}

\* Mutant: the entry is set, not incremented.
Counted_Once(f, s) == [f EXCEPT ![s] = UpTo(1)]

\* consecutiveFailures[key]++ on the map f.
Counted(f, s) == [f EXCEPT ![s] = UpTo(@ + 1)]

\* delete(consecutiveFailures, key)
Deleted(f, s) == [f EXCEPT ![s] = 0]

\* Mutant: only the switch at the end deletes the counter.
FoundClear_AfterGet(s) ==
  /\ failures' = IF NeedsReplicas(Guard(s)) THEN Deleted(failures, s) ELSE failures
  /\ trouble' = Deleted(trouble, s)

\* Nothing is wrong with schedule s.
FoundClear(s) == failures' = Deleted(failures, s) /\ trouble' = Deleted(trouble, s)

\* Schedule s is done with in this round.
NextSchedule(s) ==
  /\ todo' = [todo EXCEPT ![s] = 0]
  /\ at' = None /\ haltCode' = None /\ held' = FALSE

\* The ticker fires after the last round and checkAll lists the schedules, of
\* which those in phase Running that name an experiment are checked.
Tick ==
  /\ todo = NoRuns
  /\ todo' = listed
  /\ UNCHANGED <<setup, stored, listed, failures, at, haltCode, held, trouble, disturbances>>

\* checkSchedule is called with schedule s, with or without safeguards.
Called(s)  == at = None /\ todo[s] # 0
Guarded(s) == Called(s) /\ Guard(s) # None

Unguarded(s) ==
  /\ Called(s) /\ Guard(s) = None
  /\ NextSchedule(s)
  /\ UNCHANGED <<setup, stored, listed, failures, trouble, disturbances>>

\* The backends are clear and no replicas are to be checked.
BackendsClear(s) ==
  /\ Guarded(s) /\ ~NeedsReplicas(Guard(s)) /\ <<Guard(s), Clear>> \in BackendVerdicts
  /\ FoundClear(s)
  /\ NextSchedule(s)
  /\ UNCHANGED <<setup, stored, listed, disturbances>>

\* The verdicts with which checkSchedule goes on to read the experiment.
Pending(s) ==
  {b \in Verdicts : /\ <<Guard(s), b>> \in BackendVerdicts
                    /\ b # Clear \/ NeedsReplicas(Guard(s))}

Run(s) == exps[<<s, todo[s]>>]

\* Get of the active experiment fails: the check ends without a result.
NoExperiment(s) ==
  /\ Guarded(s) /\ Pending(s) # {} /\ Run(s).seen = "missing"
  /\ NextSchedule(s)
  /\ UNCHANGED <<setup, stored, listed, failures, trouble, disturbances>>

\* Get succeeds and the whole check comes to verdict v.
Concludes(s, v) ==
  /\ Guarded(s) /\ Run(s).seen # "missing"
  /\ \E b \in Pending(s), r \in Verdicts :
       /\ <<Guard(s), r>> \in ReplicaVerdicts
       /\ v = Outcome(Guard(s), setup[s].named, b, r)

\* Nothing is wrong.
Healthy(s) ==
  /\ Concludes(s, Clear)
  /\ FoundClear(s)
  /\ NextSchedule(s)
  /\ UNCHANGED <<setup, stored, listed, disturbances>>

\* Mutant: the annotation carries no code.
CallHalt_NoCode(s, c) ==
  /\ at' = s /\ haltCode' = "" /\ held' = (Run(s).seen = "fresh")
  /\ UNCHANGED todo

\* haltExperiment is called with the experiment that was read.
CallHalt(s, c) ==
  /\ at' = s /\ haltCode' = c /\ held' = (Run(s).seen = "fresh")
  /\ UNCHANGED todo

\* There is a halt code.
FoundBreach(s) ==
  /\ \E c \in HaltCodes : Concludes(s, Breach(c)) /\ CallHalt(s, c)
  /\ trouble' = Counted(trouble, s)
  /\ UNCHANGED <<setup, stored, listed, failures, disturbances>>

\* There is an error: it is counted, and at the threshold it halts the run.
CountFailure(s) ==
  /\ Concludes(s, Failed)
  /\ failures' = Counted(failures, s) /\ trouble' = Counted(trouble, s)
  /\ IF failures'[s] >= Threshold THEN CallHalt(s, "unreachable") ELSE NextSchedule(s)
  /\ UNCHANGED <<setup, stored, listed, disturbances>>

Annotated ==
  exps' = [exps EXCEPT ![<<at, todo[at]>>] = [@ EXCEPT !.halt = haltCode, !.seen = "stale"]]

\* Update is accepted: the halt is asked for and the counter starts again.
HaltExperiment ==
  /\ at # None /\ held
  /\ Annotated
  /\ failures' = Deleted(failures, at)
  /\ NextSchedule(at)
  /\ UNCHANGED <<setup, active, started, listed, trouble, disturbances>>

\* Update fails, because the copy is outdated or the answer is lost, and the
\* counter stays as it is.
HaltFails ==
  /\ at # None
  /\ \/ ~held /\ UNCHANGED <<exps, disturbances>>
     \/ /\ Disturb
        /\ \/ UNCHANGED exps
           \/ held /\ Annotated
  /\ NextSchedule(at)
  /\ UNCHANGED <<setup, active, started, listed, failures, trouble>>

-----------------------------------------------------------------------------
(* The specification.                                                      *)

CheckSchedule(s) ==
  \/ Unguarded(s) \/ BackendsClear(s) \/ NoExperiment(s)
  \/ Healthy(s) \/ FoundBreach(s) \/ CountFailure(s)

Watch ==
  \/ Tick \/ HaltExperiment \/ HaltFails
  \/ \E s \in Schedules : CheckSchedule(s)

Environment ==
  \/ \E s \in Schedules : DeliverSchedule(s) \/ StartRun(s) \/ LetGo(s)
  \/ \E k \in Keys : DeliverExperiment(k) \/ Finish(k) \/ Write(k) \/ CarryOut(k)
  \/ Crash

Next == Watch \/ Environment

Spec == Init /\ [][Next]_vars

\* The loop ticks, both informers deliver, the experiment controller runs.
Fairness ==
  /\ WF_vars(Watch)
  /\ \A s \in Schedules : WF_vars(DeliverSchedule(s))
  /\ \A k \in Keys : WF_vars(DeliverExperiment(k)) /\ WF_vars(CarryOut(k))

FairSpec == Spec /\ Fairness

-----------------------------------------------------------------------------
(* Properties.                                                             *)

GuardsInUse == {Guard(s) : s \in Schedules} \ {None}

\* The two callers agree on a target that has a name: a run that the preflight
\* starts on some observation the watcher does not halt on the same, and a run
\* it blocks the watcher would not have found clear, although one looks at the
\* replicas first and the other last and one takes an error for a reason and the
\* other counts it.  For a target without a name they agree on nothing: the
\* preflight passes before it looks at anything, the watcher still halts the run
\* for an alert or for the SLO.
PreflightAgrees == GuardsInUse \subseteq Agreeing

\* No observation that shows trouble passes as clear: an error that hides a
\* breach (an unreachable alert source, an earlier query without an answer, a
\* scalar that has reached the threshold but cannot be read) is itself a
\* verdict, which the watcher counts.
UnsafeIsNeverClear == GuardsInUse \subseteq Vigilant

\* A run is not halted for an alert that does not match all labels, values
\* that all lie below the threshold or a limit that is kept.
CodeIsTrue == GuardsInUse \subseteq Truthful

\* A counter never exceeds the checks since the last clear one: every path of
\* checkSchedule that finds nothing wrong deletes it, the early return that
\* does not even read the experiment too, and no schedule counts for another.
FailuresAreConsecutive == \A s \in Schedules : failures[s] <= trouble[s]

\* "Safeguard checks unreachable for ...": an experiment is marked unreachable
\* only after as many checks of its schedule as the threshold asks for, none
\* of them clear, however rounds, crashes and conflicts fall in between.
UnreachableIsEarned ==
  [][\A k \in Keys : exps'[k].halt = "unreachable" /\ exps[k].halt # "unreachable"
       => trouble[k[1]] >= Threshold]_vars

\* Trouble that persists halts the run: no run stays the live run of its
\* schedule while the checks of the schedule never come out clear again,
\* whatever they come out as, and whichever informer lags.
PersistentTroubleHalts ==
  \A s \in Schedules : \A r \in 1..MaxRuns :
    ~<>[](active[s] = r /\ exps[<<s, r>>].phase = "live" /\ trouble[s] > 0)

-----------------------------------------------------------------------------
(* What a comment says of the program and the code does not do.            *)

\* "threshold is the value above which the experiment is halted".
HaltsAboveThreshold == GuardsInUse \subseteq HaltingAbove

=============================================================================
