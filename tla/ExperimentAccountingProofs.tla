--------------------- MODULE ExperimentAccountingProofs ---------------------
(***************************************************************************)
(* The mean recovery time in the status of an experiment, for every spec,  *)
(* every edit of it and every bound.                                       *)
(***************************************************************************)
EXTENDS ExperimentReconcilerProofs

-----------------------------------------------------------------------------
(* The mean lies in the range of the recovery times.                       *)

\* Scaling by a natural number is monotonic.
LEMMA Scaled ==
  ASSUME NEW a \in Nat, NEW b \in Nat, NEW n \in Nat, a <= b
  PROVE  a * n <= b * n
<1>1. (b - a) * n >= 0
  BY SMT
<1>2. QED
  BY <1>1

\* The integer quotient is rounded down.
LEMMA Quotient ==
  ASSUME NEW a \in Nat, NEW d \in Nat \ {0}
  PROVE  /\ a \div d \in Nat
         /\ d * (a \div d) <= a
         /\ a < d * (a \div d) + d
OBVIOUS

\* A weighted mean, rounded down, stays between the bounds of what it weighs.
LEMMA WeightedMean ==
  ASSUME NEW p \in Nat, NEW q \in Nat, NEW i \in Nat, NEW lo \in Nat, NEW hi \in Nat,
         lo <= p, lo <= q, p <= hi, q <= hi
  PROVE  lo <= (p * i + q) \div (i + 1) /\ (p * i + q) \div (i + 1) <= hi
<1> DEFINE m == (p * i + q) \div (i + 1)
<1>0. p * i \in Nat /\ lo * i \in Nat /\ hi * i \in Nat
  OBVIOUS
<1>1. lo * i <= p * i /\ p * i <= hi * i
  BY Scaled
<1>2. lo * (i + 1) = lo * i + lo /\ hi * (i + 1) = hi * i + hi
  OBVIOUS
<1>3. lo * (i + 1) <= p * i + q /\ p * i + q <= hi * (i + 1)
  BY <1>0, <1>1, <1>2
<1>4. /\ m \in Nat
      /\ m * (i + 1) <= p * i + q
      /\ p * i + q < (m + 1) * (i + 1)
  <2> DEFINE a == p * i + q
             d == i + 1
  <2>1. a \in Nat /\ d \in Nat \ {0}
    BY <1>0
  <2>2. m = a \div d
    OBVIOUS
  <2> HIDE DEF a, d, m
  <2>3. m \in Nat /\ d * m <= a /\ a < d * m + d
    BY <2>1, <2>2, Quotient
  <2>4. m * d = d * m /\ (m + 1) * d = d * m + d
    BY <2>1, <2>3
  <2>5. m \in Nat /\ m * d <= a /\ a < (m + 1) * d
    BY <2>3, <2>4
  <2>6. QED
    BY <2>5 DEF a, d
<1> HIDE DEF m
<1>5. ASSUME m < lo PROVE FALSE
  <2>1. (m + 1) * (i + 1) <= lo * (i + 1)
    BY <1>4, <1>5, Scaled
  <2>2. (m + 1) * (i + 1) \in Nat /\ lo * (i + 1) \in Nat /\ p * i + q \in Nat
    BY <1>0, <1>4
  <2>3. QED
    BY <1>3, <1>4, <2>1, <2>2
<1>6. ASSUME m > hi PROVE FALSE
  <2>1. (hi + 1) * (i + 1) <= m * (i + 1)
    BY <1>4, <1>6, Scaled
  <2>2. (hi + 1) * (i + 1) = hi * (i + 1) + (i + 1)
    OBVIOUS
  <2>3. m * (i + 1) \in Nat /\ hi * (i + 1) \in Nat /\ p * i + q \in Nat
    BY <1>0, <1>4
  <2>4. QED
    BY <1>3, <1>4, <2>1, <2>2, <2>3
<1>7. lo <= m /\ m <= hi
  BY <1>4, <1>5, <1>6
<1>8. QED
  BY <1>7 DEF m

\* Only scenarios before the current one have contributed a recovery time.
ContributedBefore == \A k \in Index : recoveries[k] # None => k < exp.index

Averaging == Inductive /\ MeanInRange /\ ContributedBefore

\* o and p say the same of the recoveries.
SameMean(o, p) == o.index = p.index /\ o.meanRecovery = p.meanRecovery

\* A step that finishes no scenario keeps the mean.
LEMMA MeanKept ==
  ASSUME Averaging, SameMean(exp', exp), recoveries' = recoveries
  PROVE  MeanInRange' /\ ContributedBefore'
BY DEF Averaging, MeanInRange, ContributedBefore, SameMean

\* A write that finishes no scenario, accepted or not.
LEMMA WriteMean ==
  ASSUME Averaging, NEW o \in Experiment, pc # "idle", recoveries' = recoveries,
         Accepted(o) \/ Errs(o), SameMean(o, loc)
  PROVE  MeanInRange' /\ ContributedBefore'
<1>t. TypeOK /\ Coherent /\ exp \in Experiment
  BY DEF Averaging, Inductive, TypeOK
<1>1. CASE Commit(o) /\ loc.rv = exp.rv
  <2>1. pc # "injected" => loc = exp
    BY <1>1, <1>t, AtWrite
  <2>2. pc = "injected" => loc = [exp EXCEPT !.injectedAt = loc.injectedAt,
                                             !.podsKilled = loc.podsKilled]
    BY <1>1, <1>t DEF Coherent
  <2>3. SameMean(loc, exp)
    BY <1>t, <2>1, <2>2 DEF Experiment, SameMean
  <2>4. SameMean(exp', exp)
    BY <1>1, <2>3 DEF Commit, Experiment, SameMean
  <2>5. QED
    BY <2>4, MeanKept
<1>2. CASE UNCHANGED objects
  BY <1>2, MeanKept DEF objects, SameMean
<1>3. QED
  BY <1>1, <1>2, WriteCases

\* The mean after a scenario that recovered: its own time is a new bound, or
\* those of the mean before still are.
LEMMA MeanMoves ==
  ASSUME Averaging, exp \in Experiment, exp.index \in Index, exp.recoveredAt # None,
         recoveries' = [recoveries EXCEPT ![exp.index] = exp.recoveredAt],
         exp'.meanRecovery = MeanRecovery(exp.meanRecovery, exp.index, exp.recoveredAt)
  PROVE  MeanInRange'
<1> DEFINE r == exp.recoveredAt
           x == exp.index
<1>1. /\ r \in Nat /\ x \in Nat /\ Scale \in Nat /\ None \notin Int
      /\ r * Scale \in Nat
  <2>1. Scale \in Nat /\ Horizon \in Nat /\ None \notin Int
    BY TimeAssumption, NoneAssumption
  <2>2. r \in 0..Horizon
    BY DEF Experiment, Age
  <2>3. x \in Nat
    BY DEF Index
  <2> HIDE DEF r
  <2>4. r \in Nat
    BY <2>1, <2>2
  <2>5. QED
    BY <2>1, <2>3, <2>4
<1>2. /\ recoveries \in [Index -> Age \cup {None}]
      /\ \A k \in Index : recoveries[k] # None => recoveries[k] \in Nat
  BY TimeAssumption DEF Averaging, Inductive, TypeOK, Age
<1>3. /\ recoveries'[x] = r
      /\ \A k \in Index : recoveries[k] # None => recoveries'[k] = recoveries[k]
  BY <1>2 DEF Averaging, ContributedBefore, Index
<1>4. CASE ~(exp.meanRecovery # None /\ x > 0)
  <2>1. exp'.meanRecovery = r * Scale
    BY <1>4 DEF MeanRecovery
  <2>2. QED
    BY <1>1, <1>3, <2>1 DEF MeanInRange
<1>5. CASE exp.meanRecovery # None /\ x > 0
  <2> DEFINE p == exp.meanRecovery
             m == (p * x + r * Scale) \div (x + 1)
  <2>1. exp'.meanRecovery = m
    BY <1>5 DEF MeanRecovery
  <2>2. p \in Nat
    BY <1>5 DEF Experiment
  <2>3. PICK i \in Index, j \in Index :
          /\ recoveries[i] # None /\ recoveries[j] # None
          /\ recoveries[i] * Scale <= p /\ p <= recoveries[j] * Scale
    BY <1>5 DEF Averaging, MeanInRange
  <2>4. /\ recoveries[i] \in Nat /\ recoveries[j] \in Nat
        /\ recoveries[i] * Scale \in Nat /\ recoveries[j] * Scale \in Nat
        /\ recoveries'[i] = recoveries[i] /\ recoveries'[j] = recoveries[j]
    BY <1>1, <1>2, <1>3, <2>3
  <2> HIDE DEF p, m, r, x
  <2>5. PICK lo \in {i, x} :
          recoveries'[lo] \in Nat /\ recoveries'[lo] * Scale \in Nat
          /\ recoveries'[lo] * Scale <= p /\ recoveries'[lo] * Scale <= r * Scale
    <3>1. CASE recoveries[i] * Scale <= r * Scale
      BY <2>3, <2>4, <3>1
    <3>2. CASE r * Scale <= recoveries[i] * Scale
      BY <1>1, <1>3, <2>2, <2>3, <2>4, <3>2
    <3>3. QED
      BY <1>1, <2>4, <3>1, <3>2
  <2>6. PICK hi \in {j, x} :
          recoveries'[hi] \in Nat /\ recoveries'[hi] * Scale \in Nat
          /\ p <= recoveries'[hi] * Scale /\ r * Scale <= recoveries'[hi] * Scale
    <3>1. CASE r * Scale <= recoveries[j] * Scale
      BY <2>3, <2>4, <3>1
    <3>2. CASE recoveries[j] * Scale <= r * Scale
      BY <1>1, <1>3, <2>2, <2>3, <2>4, <3>2
    <3>3. QED
      BY <1>1, <2>4, <3>1, <3>2
  <2>7. recoveries'[lo] * Scale <= m /\ m <= recoveries'[hi] * Scale
    BY <1>1, <2>2, <2>5, <2>6, WeightedMean DEF m
  <2>8. lo \in Index /\ hi \in Index /\ recoveries'[lo] # None /\ recoveries'[hi] # None
    BY <1>1, <2>5, <2>6 DEF x
  <2>9. QED
    BY <2>1, <2>7, <2>8 DEF MeanInRange
<1>6. QED
  BY <1>4, <1>5

\* The write that finishes a scenario.
LEMMA AdvanceMean ==
  ASSUME Averaging, Advance
  PROVE  MeanInRange' /\ ContributedBefore'
<1> DEFINE o == NextScenario(loc)
<1>t. TypeOK /\ Coherent /\ loc \in Experiment
  BY DEF Averaging, Inductive, TypeOK
<1>1. pc = "read" /\ PastDuration(loc) /\ (Accepted(o) \/ Unanswered(o) \/ Refused)
  BY DEF Advance
<1>2. /\ o \in Experiment /\ o.index = loc.index + 1
      /\ o.meanRecovery = IF loc.recoveredAt = None THEN loc.meanRecovery
                          ELSE MeanRecovery(loc.meanRecovery, loc.index, loc.recoveredAt)
  <2>1. o \in Experiment
    BY <1>t, <1>1, NextScenarioType
  <2>2. /\ o.index = loc.index + 1
        /\ o.meanRecovery = IF loc.recoveredAt = None THEN loc.meanRecovery
                            ELSE MeanRecovery(loc.meanRecovery, loc.index, loc.recoveredAt)
    BY <1>t DEF NextScenario, Experiment
  <2>3. QED
    BY <2>1, <2>2
<1>3. CASE Refused /\ UNCHANGED <<sinceAdvance, recoveries>>
  BY <1>3, MeanKept DEF Refused, objects, SameMean
<1>4. CASE Commit(o) /\ loc.rv = exp.rv /\ Contribute
  <2>1. loc = exp
    BY <1>1, <1>4, <1>t, AtWrite
  <2>2. /\ exp'.index = exp.index + 1
        /\ exp'.meanRecovery = IF exp.recoveredAt = None THEN exp.meanRecovery
                               ELSE MeanRecovery(exp.meanRecovery, exp.index, exp.recoveredAt)
        /\ recoveries' = [recoveries EXCEPT ![exp.index] = exp.recoveredAt]
    <3> HIDE DEF o
    <3>1. exp'.index = o.index /\ exp'.meanRecovery = o.meanRecovery
      BY <1>2, <1>4 DEF Commit, Experiment
    <3>2. QED
      BY <1>2, <1>4, <2>1, <3>1 DEF Contribute
  <2>3. exp.index \in Index /\ exp \in Experiment
    BY <1>1, <1>t, <2>1, InScenarioType DEF PastDuration
  <2>4. recoveries \in [Index -> Age \cup {None}]
    BY <1>t DEF TypeOK
  <2>5. ContributedBefore'
    BY <2>2, <2>3, <2>4 DEF Averaging, ContributedBefore, Index
  <2>6. CASE exp.recoveredAt = None
    <3>1. recoveries[exp.index] = None
      BY <2>3 DEF Averaging, ContributedBefore, Index
    <3>2. recoveries' = recoveries /\ exp'.meanRecovery = exp.meanRecovery
      BY <2>2, <2>4, <2>6, <3>1
    <3>3. MeanInRange'
      BY <3>2 DEF Averaging, MeanInRange
    <3>4. QED
      BY <2>5, <3>3
  <2>7. CASE exp.recoveredAt # None
    BY <2>2, <2>3, <2>5, <2>7, MeanMoves
  <2>8. QED
    BY <2>6, <2>7
<1>5. QED
  <2>1. CASE Accepted(o) /\ Contribute
    BY <1>4, <2>1 DEF Accepted
  <2>2. CASE Unanswered(o) /\ Contribute
    BY <1>4, <2>2 DEF Unanswered
  <2>3. QED
    BY <1>3, <2>1, <2>2 DEF Advance

\* A step of Reconcile keeps the mean in range.
LEMMA ReconcileMean ==
  ASSUME Averaging, Reconcile
  PROVE  MeanInRange' /\ ContributedBefore'
<1> USE DEF history
<1>t. loc \in Experiment
  BY DEF Averaging, Inductive, TypeOK
<1>1. CASE Get \/ NothingToDo \/ Inject \/ InjectFails \/ Poll \/ ProbeFails
  <2>1. exp' = exp /\ recoveries' = recoveries
    BY <1>1 DEF Get, NothingToDo, Inject, InjectFails, Poll, ProbeFails, objects
  <2>2. QED
    BY <2>1, MeanKept DEF SameMean
<1>2. ASSUME NEW o \in Experiment, pc # "idle", recoveries' = recoveries,
             Accepted(o) \/ Errs(o), o.index = loc.index, o.meanRecovery = loc.meanRecovery
      PROVE  MeanInRange' /\ ContributedBefore'
  BY <1>2, WriteMean DEF SameMean
<1>3. CASE RemoveFinalizer
  <2> DEFINE o == Deleted([loc EXCEPT !.finalizer = FALSE])
  <2>1. o \in Experiment /\ o.index = loc.index /\ o.meanRecovery = loc.meanRecovery
    BY <1>t DEF Deleted, Experiment
  <2>2. pc # "idle" /\ (Accepted(o) \/ Errs(o)) /\ recoveries' = recoveries
    BY <1>3, EndsIdle DEF RemoveFinalizer
  <2>3. QED
    BY <1>2, <2>1, <2>2
<1>4. CASE AddFinalizer
  <2> DEFINE o == [loc EXCEPT !.finalizer = TRUE]
  <2>1. o \in Experiment /\ o.index = loc.index /\ o.meanRecovery = loc.meanRecovery
    BY <1>t DEF Experiment
  <2>2. pc # "idle" /\ (Accepted(o) \/ Errs(o)) /\ recoveries' = recoveries
    BY <1>4, EndsIdle DEF AddFinalizer
  <2>3. QED
    BY <1>2, <2>1, <2>2
<1>5. CASE Halt
  <2> DEFINE o == Halted(loc)
  <2>1. o \in Experiment /\ o.index = loc.index /\ o.meanRecovery = loc.meanRecovery
    BY <1>t DEF Halted, Experiment, Phases
  <2>2. pc # "idle" /\ (Accepted(o) \/ Errs(o)) /\ recoveries' = recoveries
    BY <1>5 DEF Halt
  <2>3. QED
    BY <1>2, <2>1, <2>2
<1>6. CASE ClearHalt
  <2> DEFINE o == [loc EXCEPT !.halt = None]
  <2>1. o \in Experiment /\ o.index = loc.index /\ o.meanRecovery = loc.meanRecovery
    BY <1>t DEF Experiment
  <2>2. pc # "idle" /\ (Accepted(o) \/ Errs(o)) /\ recoveries' = recoveries
    BY <1>6, EndsIdle DEF ClearHalt
  <2>3. QED
    BY <1>2, <2>1, <2>2
<1>7. ASSUME NEW p \in Phases, pc # "idle", recoveries' = recoveries,
             Accepted([loc EXCEPT !.phase = p]) \/ Errs([loc EXCEPT !.phase = p])
      PROVE  MeanInRange' /\ ContributedBefore'
  <2> DEFINE o == [loc EXCEPT !.phase = p]
  <2>1. o \in Experiment /\ o.index = loc.index /\ o.meanRecovery = loc.meanRecovery
    BY <1>t DEF Experiment
  <2>2. QED
    BY <1>2, <1>7, <2>1
<1>8. CASE Start
  BY <1>8, <1>7, EndsIdle DEF Start, Phases
<1>9. CASE Complete
  BY <1>9, <1>7, EndsIdle DEF Complete, Phases
<1>10. CASE FailExperiment
  BY <1>10, <1>7, EndsIdle DEF FailExperiment, Phases
<1>11. CASE RecordInject
  BY <1>11, <1>t, <1>2, EndsIdle DEF RecordInject
<1>12. CASE Recover
  <2> DEFINE o == [loc EXCEPT !.recoveredAt = loc.injectedAt]
  <2>1. o \in Experiment /\ o.index = loc.index /\ o.meanRecovery = loc.meanRecovery
    BY <1>t DEF Experiment
  <2>2. pc # "idle" /\ (Accepted(o) \/ Errs(o)) /\ recoveries' = recoveries
    BY <1>12, EndsIdle DEF Recover
  <2>3. QED
    BY <1>2, <2>1, <2>2
<1>13. QED
  BY <1>1, <1>3, <1>4, <1>5, <1>6, <1>8, <1>9, <1>10, <1>11, <1>12, AdvanceMean
  DEF Reconcile

\* So do the informer, the timer, the clock and the other actors.
LEMMA OutsideMean ==
  ASSUME Averaging, Deliver \/ TimerFires \/ Tick \/ Environment
  PROVE  MeanInRange' /\ ContributedBefore'
<1> USE DEF history
<1>t. exp \in Experiment
  BY DEF Averaging, Inductive, TypeOK
<1>1. CASE Deliver \/ TimerFires \/ Crash
  BY <1>1, MeanKept DEF Deliver, TimerFires, Crash, objects, SameMean
<1>2. CASE Tick
  <2>1. exp' = Aged(exp) /\ recoveries' = recoveries
    BY <1>2 DEF Tick
  <2>2. SameMean(Aged(exp), exp)
    BY <1>t, AgedType DEF Experiment, SameMean
  <2>3. QED
    BY <2>1, <2>2, MeanKept DEF SameMean
<1>3. ASSUME NEW o \in Experiment, Commit(o), SameMean(o, exp), recoveries' = recoveries
      PROVE  MeanInRange' /\ ContributedBefore'
  <2>1. SameMean(exp', exp)
    BY <1>3 DEF Commit, Experiment, SameMean
  <2>2. QED
    BY <1>3, <2>1, MeanKept
<1>4. ASSUME NEW r \in Reasons, WatcherHalt(r)
      PROVE  MeanInRange' /\ ContributedBefore'
  <2>1. [exp EXCEPT !.halt = r] \in Experiment /\ SameMean([exp EXCEPT !.halt = r], exp)
    BY <1>t DEF Experiment, SameMean
  <2>2. QED
    BY <1>3, <1>4, <2>1 DEF WatcherHalt
<1>5. ASSUME NEW s \in Specs, UserEdit(s)
      PROVE  MeanInRange' /\ ContributedBefore'
  <2>1. [exp EXCEPT !.spec = s] \in Experiment /\ SameMean([exp EXCEPT !.spec = s], exp)
    BY <1>t, SpecAssumption DEF Experiment, SameMean
  <2>2. QED
    BY <1>3, <1>5, <2>1 DEF UserEdit
<1>6. CASE UserDelete
  <2>1. Deleted(exp) \in Experiment /\ SameMean(Deleted(exp), exp)
    BY <1>t DEF Deleted, Experiment, SameMean
  <2>2. QED
    BY <1>3, <1>6, <2>1 DEF UserDelete
<1>7. QED
  BY <1>1, <1>2, <1>4, <1>5, <1>6 DEF Environment

\* It holds initially, and every step keeps it.
LEMMA AveragingInductive == /\ Init => Averaging
                            /\ Averaging /\ [Next]_vars => Averaging'
<1>1. Init => Averaging
  BY InitInductive DEF Init, Created, Averaging, MeanInRange, ContributedBefore
<1>2. ASSUME Averaging, [Next]_vars PROVE Averaging'
  <2>1. Inductive'
    BY <1>2, NextInductive DEF Averaging
  <2>2. CASE UNCHANGED vars
    BY <1>2, <2>1, <2>2, MeanKept DEF vars, objects, history, SameMean, Averaging
  <2>3. QED
    BY <1>2, <2>1, <2>2, ReconcileMean, OutsideMean DEF Next, Averaging
<1>3. QED
  BY <1>1, <1>2

\* metrics.meanRecoveryTime lies between the shortest and the longest recovery
\* time of the finished scenarios, for any number of scenarios and whichever
\* of them recovered, although it weighs the earlier mean with the index.
THEOREM MeanStaysInRange == Spec => []MeanInRange
<1>1. Averaging => MeanInRange
  BY DEF Averaging
<1>2. Spec => []Averaging
  BY AveragingInductive, PTL DEF Spec
<1>3. QED
  BY <1>1, <1>2, PTL

=============================================================================
