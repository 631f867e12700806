----------------------------- MODULE Safeguards -----------------------------
(***************************************************************************)
(* What the safeguards of a schedule decide on one observation of the      *)
(* world: the backends' answers (CheckAlerts, InstantQuery), the checks    *)
(* made of them, and their two callers, which order the checks and treat   *)
(* an error each in its own way: checkSafeguards of the schedule           *)
(* controller before a run, checkSchedule of the watcher during it.        *)
(***************************************************************************)
EXTENDS Integers, Sequences

CONSTANTS None,   \* the nil pointer
          Bad,    \* what cannot be fetched, decoded or parsed
          NaN,    \* the float
          Queries, \* the PromQL expressions in use
          Guards, \* the safeguards a schedule may have, None among them
          Worlds  \* what the backends and the API server may answer

ASSUME DistinctAssumption ==
  /\ {None, Bad, NaN} \cap Int = {} /\ {None, Bad} \cap {"good"} = {}
  /\ Bad # None /\ NaN # None /\ NaN # Bad

Optional(S) == S \cup {None}

\* spec.safeguards.  The URL of a source can be used or not; a threshold is a
\* float, or text that is not one; labels maps label names to values.
WellFormedGuard(g) ==
  /\ {g.minAvailable, g.maxUnavailable} \subseteq Optional(Nat)
  /\ {g.alertSource, g.metricsSource} \subseteq Optional({"good", Bad})
  /\ g.slo # None =>
       /\ g.slo.threshold \in Optional(Int \cup {NaN, Bad})
       /\ g.slo.queries \in Seq(Queries)

\* The alerts, the answer to every query, the status of the Deployment.
WellFormedWorld(w) ==
  /\ w.deployment # Bad => {w.deployment.available, w.deployment.unavailable} \subseteq Nat
  /\ \A q \in Queries :
       w.answers[q] # Bad => w.answers[q].series \in Seq(Int \cup {NaN, Bad})

ASSUME WellFormedAssumption ==
  /\ \A g \in Guards \ {None} : WellFormedGuard(g)
  /\ \A w \in Worlds : WellFormedWorld(w)

-----------------------------------------------------------------------------
(* The backends.                                                           *)

\* alert.Labels[k] of a Go map: a label that is missing reads as "".
Label(labels, k) == IF k \in DOMAIN labels THEN labels[k] ELSE ""

\* Mutant: one label that agrees is enough.
Matches_Any(alert, matchers) ==
  \E k \in DOMAIN matchers : Label(alert.labels, k) = matchers[k]

Matches(alert, matchers) ==
  \A k \in DOMAIN matchers : Label(alert.labels, k) = matchers[k]

\* The active alerts that match all matchers.
CheckAlerts(alerts, matchers) ==
  {a \in alerts : a.state = "active" /\ Matches(a, matchers)}

\* The value of an instant query, Bad for an error: an answer is used only if
\* it is a vector (the result of a scalar or a string does not decode into
\* series, that of a matrix has no value) of exactly one series.
InstantQuery(answer) ==
  IF answer # Bad /\ answer.type = "vector" /\ Len(answer.series) = 1
  THEN answer.series[1] ELSE Bad

-----------------------------------------------------------------------------
(* The checks.  A verdict is a halt code or an error, or neither.          *)

Clear      == [code |-> "", failed |-> FALSE]
Failed     == [code |-> "", failed |-> TRUE]
Breach(c)  == [code |-> c, failed |-> FALSE]

CheckAlertsFiring(matchers, alerts) ==
  IF DOMAIN matchers = {} THEN Clear
  ELSE IF alerts = Bad THEN Failed
  ELSE IF CheckAlerts(alerts, matchers) # {} THEN Breach("alert-match")
  ELSE Clear

\* val >= threshold, false if either is NaN.
AtLeast(val, threshold) == NaN \notin {val, threshold} /\ val >= threshold

CheckSLOBreach(slo, answers) ==
  LET val(i)  == InstantQuery(answers[slo.queries[i]])
      Fine(i) == val(i) # Bad /\ ~AtLeast(val(i), slo.threshold)
      \* The loop over the queries ends at the i-th.
      EndsAt(i) == ~Fine(i) /\ \A j \in 1..(i - 1) : Fine(j)
  IN  IF slo.threshold \in {None, Bad} THEN Breach("config-error")
      ELSE IF \A i \in DOMAIN slo.queries : Fine(i) THEN Clear
      ELSE IF \E i \in DOMAIN slo.queries : EndsAt(i) /\ val(i) # Bad
           THEN Breach("slo-breach")
      ELSE Failed

\* Watcher.checkAlerts
AlertVerdict(g, w) ==
  IF g.alertSource = None THEN Clear
  ELSE IF g.alertSource = Bad THEN Breach("config-error")
  ELSE CheckAlertsFiring(g.labels, w.alerts)

\* Watcher.checkSLO
SLOVerdict(g, w) ==
  IF g.metricsSource = None \/ g.slo = None THEN Clear
  ELSE IF g.metricsSource = Bad THEN Breach("config-error")
  ELSE CheckSLOBreach(g.slo, w.answers)

NeedsReplicas(g) == g.minAvailable # None \/ g.maxUnavailable # None

TooFew(g, dep)  == g.minAvailable # None /\ dep.available < g.minAvailable
TooMany(g, dep) == g.maxUnavailable # None /\ dep.unavailable > g.maxUnavailable

ReplicaVerdict(g, w) ==
  IF w.deployment = Bad THEN Failed
  ELSE IF TooFew(g, w.deployment) THEN Breach("replica-min")
  ELSE IF TooMany(g, w.deployment) THEN Breach("replica-max")
  ELSE Clear

-----------------------------------------------------------------------------
(* The two callers.                                                        *)

\* checkSchedule up to line 90: the SLO is looked at only if the alerts are
\* clear, so an error there hides a breach here.
Backends(g, w) ==
  IF AlertVerdict(g, w) = Clear THEN SLOVerdict(g, w) ELSE AlertVerdict(g, w)

\* Mutant: a replica check that finds nothing wrong forgets an error.
Outcome_LastCheck(g, named, backends, replicas) ==
  IF backends.code = "" /\ NeedsReplicas(g) /\ named THEN replicas ELSE backends

\* checkSchedule from line 104 to the switch: without a code the replicas are
\* looked at too, also after an error, which a code then outranks.
Outcome(g, named, backends, replicas) ==
  IF backends.code = "" /\ NeedsReplicas(g) /\ named /\ replicas # Clear
  THEN replicas ELSE backends

Verdict(g, named, w) == Outcome(g, named, Backends(g, w), ReplicaVerdict(g, w))

\* Mutant: an alert source that does not answer does not block.
Preflight_IgnoresErrors(g, named, w) ==
  IF ~named \/ g = None THEN "pass"
  ELSE IF NeedsReplicas(g) /\ ReplicaVerdict(g, w) # Clear
       THEN IF w.deployment = Bad THEN "error" ELSE "block"
  ELSE IF AlertVerdict(g, w).code = "" /\ SLOVerdict(g, w) = Clear THEN "pass"
  ELSE "block"

\* checkSafeguards: the replicas first; a Deployment that cannot be read is an
\* error, which retries, and everything else that is not clear skips the run.
Preflight(g, named, w) ==
  IF ~named \/ g = None THEN "pass"
  ELSE IF NeedsReplicas(g) /\ ReplicaVerdict(g, w) # Clear
       THEN IF w.deployment = Bad THEN "error" ELSE "block"
  ELSE IF AlertVerdict(g, w) = Clear /\ SLOVerdict(g, w) = Clear THEN "pass"
  ELSE "block"

-----------------------------------------------------------------------------
(* What the safeguards mean, told without the order of the checks.         *)

FiringAlert(g, w) ==
  /\ g.alertSource = "good" /\ DOMAIN g.labels # {} /\ w.alerts # Bad
  /\ \E a \in w.alerts :
       a.state = "active" /\ \A k \in DOMAIN g.labels : Label(a.labels, k) = g.labels[k]

\* The one value of an answer, be it a scalar or a vector of one series, so
\* also where InstantQuery cannot read it.
Reading(answer) ==
  IF answer # Bad /\ answer.type \in {"vector", "scalar"} /\ Len(answer.series) = 1
  THEN answer.series[1] ELSE Bad

\* What has been measured for a usable SLO.
Measured(g, w) ==
  IF g.metricsSource = "good" /\ g.slo # None /\ g.slo.threshold \in Int
  THEN {Reading(w.answers[g.slo.queries[i]]) : i \in DOMAIN g.slo.queries} \cap Int
  ELSE {}

\* A value has reached the threshold.
BreachedSLO(g, w) == \E v \in Measured(g, w) : v >= g.slo.threshold

\* A value lies above the threshold.
AboveSLO(g, w) == \E v \in Measured(g, w) : v > g.slo.threshold

FewReplicas(g, named, w) ==
  /\ named /\ w.deployment # Bad
  /\ g.minAvailable # None /\ w.deployment.available < g.minAvailable

ManyUnavailable(g, named, w) ==
  /\ named /\ w.deployment # Bad
  /\ g.maxUnavailable # None /\ w.deployment.unavailable > g.maxUnavailable

Unusable(g) ==
  \/ g.alertSource = Bad
  \/ /\ g.slo # None /\ g.metricsSource # None
     /\ g.metricsSource = Bad \/ g.slo.threshold \in {None, Bad}

Unsafe(g, named, w) ==
  \/ FiringAlert(g, w) \/ BreachedSLO(g, w)
  \/ FewReplicas(g, named, w) \/ ManyUnavailable(g, named, w)

\* What has been observed when a check comes to code c.
Means(g, named, w, c) ==
  /\ c = "alert-match"  => FiringAlert(g, w)
  /\ c = "slo-breach"   => BreachedSLO(g, w)
  /\ c = "replica-min"  => FewReplicas(g, named, w)
  /\ c = "replica-max"  => ManyUnavailable(g, named, w)
  /\ c = "config-error" => Unusable(g)

-----------------------------------------------------------------------------
(* The guards for which this is what the code makes of every observation.  *)

\* For a target with a name the preflight passes when and only when the watcher
\* finds nothing wrong.  For one without it passes whatever the watcher, which
\* goes on checking the alerts and the SLO, would find.
Agreeing ==
  {g \in Guards \ {None} : \A named \in BOOLEAN, w \in Worlds :
     Preflight(g, named, w) = "pass" <=> ~named \/ Verdict(g, named, w) = Clear}

\* What is unsafe is not found clear.
Vigilant ==
  {g \in Guards \ {None} : \A named \in BOOLEAN, w \in Worlds :
     Unsafe(g, named, w) => Verdict(g, named, w) # Clear}

\* A halt code says what was observed.
Truthful ==
  {g \in Guards \ {None} : \A named \in BOOLEAN, w \in Worlds :
     Means(g, named, w, Verdict(g, named, w).code)}

\* An SLO halts only on a value above the threshold.
HaltingAbove ==
  {g \in Guards \ {None} : \A named \in BOOLEAN, w \in Worlds :
     Verdict(g, named, w).code = "slo-breach" => AboveSLO(g, w)}

=============================================================================
