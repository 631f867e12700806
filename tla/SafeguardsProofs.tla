-------------------------- MODULE SafeguardsProofs --------------------------
(***************************************************************************)
(* Theorems about Safeguards: what the two callers make of the checks, for *)
(* every well-formed safeguard and every observation.                      *)
(***************************************************************************)
EXTENDS Safeguards, TLAPS

-----------------------------------------------------------------------------
(* The verdicts.                                                           *)

\* Clear and Failed carry no code, a breach does.
LEMMA Codes ==
  /\ Clear.code = "" /\ Failed.code = "" /\ Failed # Clear
  /\ \A c : Breach(c).code = c
  /\ \A c : c # "" => Breach(c) # Clear
BY DEF Clear, Failed, Breach

\* The three checks come to one of their own verdicts.
LEMMA VerdictRange ==
  ASSUME NEW g, NEW w
  PROVE  /\ AlertVerdict(g, w) \in {Clear, Failed, Breach("alert-match"), Breach("config-error")}
         /\ SLOVerdict(g, w) \in {Clear, Failed, Breach("slo-breach"), Breach("config-error")}
         /\ ReplicaVerdict(g, w) \in {Clear, Failed, Breach("replica-min"), Breach("replica-max")}
<1>1. AlertVerdict(g, w) \in {Clear, Failed, Breach("alert-match"), Breach("config-error")}
  BY Zenon DEF AlertVerdict, CheckAlertsFiring
<1>2. CheckSLOBreach(g.slo, w.answers) \in {Clear, Failed, Breach("slo-breach"), Breach("config-error")}
  BY Zenon DEF CheckSLOBreach
<1>3. SLOVerdict(g, w) \in {Clear, Failed, Breach("slo-breach"), Breach("config-error")}
  BY <1>2, Zenon DEF SLOVerdict
<1>4. ReplicaVerdict(g, w) \in {Clear, Failed, Breach("replica-min"), Breach("replica-max")}
  BY Zenon DEF ReplicaVerdict
<1>5. QED
  BY <1>1, <1>3, <1>4

\* So the codes of each check are its own.
LEMMA CodeRange ==
  ASSUME NEW g, NEW w
  PROVE  /\ AlertVerdict(g, w).code \in {"", "alert-match", "config-error"}
         /\ SLOVerdict(g, w).code \in {"", "slo-breach", "config-error"}
         /\ ReplicaVerdict(g, w).code \in {"", "replica-min", "replica-max"}
<1>1. /\ Clear.code = "" /\ Failed.code = ""
      /\ Breach("alert-match").code = "alert-match"
      /\ Breach("config-error").code = "config-error"
      /\ Breach("slo-breach").code = "slo-breach"
      /\ Breach("replica-min").code = "replica-min"
      /\ Breach("replica-max").code = "replica-max"
  BY Codes
<1>2. QED
  BY <1>1, VerdictRange

\* Neither the backends nor the replicas are ever found unreachable by a code.
LEMMA NeverUnreachable ==
  ASSUME NEW g, NEW w
  PROVE  /\ Backends(g, w).code \in {"", "alert-match", "slo-breach", "config-error"}
         /\ ReplicaVerdict(g, w).code \in {"", "replica-min", "replica-max"}
<1>1. Backends(g, w) = AlertVerdict(g, w) \/ Backends(g, w) = SLOVerdict(g, w)
  BY Zenon DEF Backends
<1>2. \A x, y, z : z = x \/ z = y => z.code = x.code \/ z.code = y.code
  OBVIOUS
<1>3. \/ Backends(g, w).code = AlertVerdict(g, w).code
      \/ Backends(g, w).code = SLOVerdict(g, w).code
  BY <1>1, <1>2, Zenon
<1>4. QED
  BY <1>3, CodeRange

\* The value of an instant query is a float or an error, and the one value
\* that the answer holds if the query has one.
LEMMA InstantQueryType ==
  ASSUME NEW w \in Worlds, NEW q \in Queries
  PROVE  /\ InstantQuery(w.answers[q]) \in Int \cup {NaN, Bad}
         /\ InstantQuery(w.answers[q]) \in {Reading(w.answers[q]), Bad}
<1>1. w.answers[q] # Bad => w.answers[q].series \in Seq(Int \cup {NaN, Bad})
  BY WellFormedAssumption DEF WellFormedWorld
<1>2. ASSUME NEW s \in Seq(Int \cup {NaN, Bad}), Len(s) = 1
      PROVE  s[1] \in Int \cup {NaN, Bad}
  BY <1>2
<1>3. QED
  BY <1>1, <1>2 DEF InstantQuery, Reading

-----------------------------------------------------------------------------
(* Each check against what it means.                                       *)

\* Alerts are found exactly when one fires, and a bad source is a bad source.
LEMMA AlertMeaning ==
  ASSUME NEW g \in Guards \ {None}, NEW w \in Worlds, NEW named \in BOOLEAN
  PROVE  /\ FiringAlert(g, w) => AlertVerdict(g, w) = Breach("alert-match")
         /\ Means(g, named, w, AlertVerdict(g, w).code)
<1>g. WellFormedGuard(g)
  BY WellFormedAssumption
<1>a. g.alertSource \in {"good", Bad, None} /\ "good" # None /\ "good" # Bad /\ Bad # None
  BY <1>g, DistinctAssumption DEF WellFormedGuard, Optional
<1>1. FiringAlert(g, w) => AlertVerdict(g, w) = Breach("alert-match")
  BY <1>a DEF FiringAlert, AlertVerdict, CheckAlertsFiring, CheckAlerts, Matches
<1>2. AlertVerdict(g, w).code = "alert-match" => FiringAlert(g, w)
  BY <1>a, Codes, VerdictRange
  DEF FiringAlert, AlertVerdict, CheckAlertsFiring, CheckAlerts, Matches
<1>3. AlertVerdict(g, w).code = "config-error" => Unusable(g)
  BY <1>a, Codes DEF AlertVerdict, CheckAlertsFiring, Unusable
<1>4. AlertVerdict(g, w).code \in {"", "alert-match", "config-error"}
  BY CodeRange
<1>5. QED
  BY <1>1, <1>2, <1>3, <1>4 DEF Means

\* A breach is never found clear, and found to be one only when it is.
LEMMA SLOMeaning ==
  ASSUME NEW g \in Guards \ {None}, NEW w \in Worlds, NEW named \in BOOLEAN
  PROVE  /\ BreachedSLO(g, w) => SLOVerdict(g, w) # Clear
         /\ Means(g, named, w, SLOVerdict(g, w).code)
<1>g. WellFormedGuard(g)
  BY WellFormedAssumption
<1>m. g.metricsSource \in {"good", Bad, None} /\ "good" # None /\ "good" # Bad /\ Bad # None
  BY <1>g, DistinctAssumption DEF WellFormedGuard, Optional
<1>d. None \notin Int /\ Bad \notin Int /\ NaN \notin Int /\ NaN # Bad /\ NaN # None
  BY DistinctAssumption
<1> DEFINE val(i) == InstantQuery(w.answers[g.slo.queries[i]])
           Fine(i) == val(i) # Bad /\ ~AtLeast(val(i), g.slo.threshold)
<1>1. ASSUME BreachedSLO(g, w)
      PROVE  SLOVerdict(g, w) # Clear
  <2>1. /\ g.slo # None /\ g.metricsSource = "good" /\ g.slo.threshold \in Int
        /\ g.slo.threshold \notin {None, Bad}
    BY <1>1, <1>d DEF BreachedSLO, Measured
  <2>2. PICK i \in DOMAIN g.slo.queries :
          LET v == Reading(w.answers[g.slo.queries[i]])
          IN  v \in Int /\ v >= g.slo.threshold
    BY <1>1 DEF BreachedSLO, Measured
  <2>3. val(i) \in {Reading(w.answers[g.slo.queries[i]]), Bad}
    <3>1. g.slo.queries[i] \in Queries
      BY <1>g, <2>1 DEF WellFormedGuard
    <3>2. QED
      BY <3>1, InstantQueryType
  <2>4. ~Fine(i)
    BY <1>d, <2>1, <2>2, <2>3 DEF AtLeast
  <2>5. CheckSLOBreach(g.slo, w.answers) \in {Breach("slo-breach"), Failed}
    BY <2>1, <2>4, Zenon DEF CheckSLOBreach
  <2>6. SLOVerdict(g, w) = CheckSLOBreach(g.slo, w.answers)
    BY <1>m, <2>1 DEF SLOVerdict
  <2>7. QED
    BY <2>5, <2>6, Codes
<1>2. ASSUME SLOVerdict(g, w).code = "slo-breach"
      PROVE  BreachedSLO(g, w)
  <2>1. /\ g.metricsSource = "good" /\ g.slo # None
        /\ SLOVerdict(g, w) = CheckSLOBreach(g.slo, w.answers)
    BY <1>2, <1>m, Codes DEF SLOVerdict
  <2>2. /\ g.slo.threshold \in Int \cup {NaN, Bad, None}
        /\ g.slo.queries \in Seq(Queries)
    BY <1>g, <2>1 DEF WellFormedGuard, Optional
  <2>3. CheckSLOBreach(g.slo, w.answers) = Breach("slo-breach")
    <3>1. SLOVerdict(g, w) \in {Clear, Failed, Breach("slo-breach"), Breach("config-error")}
      BY VerdictRange
    <3>2. "slo-breach" \notin {Clear.code, Failed.code, Breach("config-error").code}
      BY Codes
    <3>3. SLOVerdict(g, w) = Breach("slo-breach")
      BY <1>2, <3>1, <3>2, Zenon
    <3>4. QED
      BY <2>1, <3>3
  <2>4. /\ g.slo.threshold \notin {None, Bad}
        /\ \E i \in DOMAIN g.slo.queries : ~Fine(i) /\ val(i) # Bad
    <3>1. Breach("slo-breach") \notin {Breach("config-error"), Clear, Failed}
      BY DEF Breach, Clear, Failed
    <3>2. g.slo.threshold \notin {None, Bad}
      BY <2>3, <3>1, Zenon DEF CheckSLOBreach
    <3>3. ASSUME ~\E i \in DOMAIN g.slo.queries : ~Fine(i) /\ val(i) # Bad
          PROVE  CheckSLOBreach(g.slo, w.answers) \in {Clear, Failed}
      BY <3>2, <3>3, Zenon DEF CheckSLOBreach
    <3>4. QED
      BY <2>3, <3>1, <3>2, <3>3
  <2>5. PICK i \in DOMAIN g.slo.queries : ~Fine(i) /\ val(i) # Bad
    BY <2>4
  <2>6. g.slo.queries[i] \in Queries
    BY <2>2
  <2>7. val(i) \in Int \cup {NaN, Bad}
    BY <2>6, InstantQueryType
  <2>8. /\ val(i) \in Int /\ g.slo.threshold \in Int /\ val(i) >= g.slo.threshold
    BY <2>2, <2>4, <2>5, <2>7 DEF AtLeast
  <2>9. val(i) = Reading(w.answers[g.slo.queries[i]])
    BY <1>d, <2>6, <2>8, InstantQueryType
  <2>10. QED
    BY <2>1, <2>5, <2>8, <2>9 DEF BreachedSLO, Measured
<1>3. ASSUME SLOVerdict(g, w).code = "config-error"
      PROVE  Unusable(g)
  <2>1. g.metricsSource # None /\ g.slo # None
    BY <1>3, Codes DEF SLOVerdict
  <2>2. CASE g.metricsSource = Bad
    BY <2>1, <2>2 DEF Unusable
  <2>3. CASE g.metricsSource # Bad
    <3>1. CheckSLOBreach(g.slo, w.answers).code = "config-error"
      BY <1>3, <2>1, <2>3 DEF SLOVerdict
    <3>2. g.slo.threshold \in {None, Bad}
      BY <3>1, Codes DEF CheckSLOBreach
    <3>3. QED
      BY <2>1, <3>2 DEF Unusable
  <2>4. QED
    BY <2>2, <2>3
<1>4. SLOVerdict(g, w).code \in {"", "slo-breach", "config-error"}
  BY CodeRange
<1>5. QED
  BY <1>1, <1>2, <1>3, <1>4 DEF Means

\* A limit that is not kept is found, and only such a one.
LEMMA ReplicaMeaning ==
  ASSUME NEW g \in Guards \ {None}, NEW w \in Worlds
  PROVE  /\ FewReplicas(g, TRUE, w) \/ ManyUnavailable(g, TRUE, w) =>
              NeedsReplicas(g) /\ ReplicaVerdict(g, w) # Clear
         /\ Means(g, TRUE, w, ReplicaVerdict(g, w).code)
<1>1. ASSUME FewReplicas(g, TRUE, w) \/ ManyUnavailable(g, TRUE, w)
      PROVE  NeedsReplicas(g) /\ ReplicaVerdict(g, w) # Clear
  BY <1>1, Codes
  DEF FewReplicas, ManyUnavailable, NeedsReplicas, ReplicaVerdict, TooFew, TooMany
<1>2. Means(g, TRUE, w, ReplicaVerdict(g, w).code)
  BY Codes
  DEF Means, ReplicaVerdict, TooFew, TooMany, FewReplicas, ManyUnavailable
<1>3. QED
  BY <1>1, <1>2

-----------------------------------------------------------------------------
(* The two callers.                                                        *)

\* The preflight of a named target passes when and only when the watcher finds
\* nothing wrong with the same observation, whatever the order of the checks;
\* that of a target without a name passes always.
THEOREM CallersAgree == Agreeing = Guards \ {None}
<1> SUFFICES ASSUME NEW g \in Guards \ {None}, NEW named \in BOOLEAN, NEW w \in Worlds
             PROVE  Preflight(g, named, w) = "pass" <=> ~named \/ Verdict(g, named, w) = Clear
  BY Zenon DEF Agreeing
<1>1. Backends(g, w) = Clear <=> AlertVerdict(g, w) = Clear /\ SLOVerdict(g, w) = Clear
  BY DEF Backends
<1>2. Verdict(g, TRUE, w) = Clear <=>
        Backends(g, w) = Clear /\ ~(NeedsReplicas(g) /\ ReplicaVerdict(g, w) # Clear)
  BY Codes DEF Verdict, Outcome
<1>3. Preflight(g, TRUE, w) = "pass" <=>
        /\ AlertVerdict(g, w) = Clear /\ SLOVerdict(g, w) = Clear
        /\ ~(NeedsReplicas(g) /\ ReplicaVerdict(g, w) # Clear)
  BY DEF Preflight
<1>4. CASE named = TRUE
  BY <1>1, <1>2, <1>3, <1>4
<1>5. CASE named = FALSE
  BY <1>5 DEF Preflight
<1>6. QED
  BY <1>4, <1>5

\* What is unsafe never comes out clear, also when another check fails.
THEOREM NothingIsOverlooked == Vigilant = Guards \ {None}
<1> SUFFICES ASSUME NEW g \in Guards \ {None}, NEW w \in Worlds, NEW named \in BOOLEAN,
                    Unsafe(g, named, w)
             PROVE  Verdict(g, named, w) # Clear
  BY Zenon DEF Vigilant
<1>1. CASE FiringAlert(g, w) \/ BreachedSLO(g, w)
  <2>1. Backends(g, w) # Clear
    BY <1>1, AlertMeaning, SLOMeaning, Codes DEF Backends
  <2>2. QED
    BY <2>1 DEF Verdict, Outcome
<1>2. CASE FewReplicas(g, named, w) \/ ManyUnavailable(g, named, w)
  <2>1. named = TRUE
    BY <1>2 DEF FewReplicas, ManyUnavailable
  <2>2. NeedsReplicas(g) /\ ReplicaVerdict(g, w) # Clear
    BY <1>2, <2>1, ReplicaMeaning
  <2>3. QED
    BY <2>1, <2>2, Codes DEF Verdict, Outcome
<1>3. QED
  BY <1>1, <1>2 DEF Unsafe

\* The code of a halt says what was observed.
THEOREM HaltsHaveReason == Truthful = Guards \ {None}
<1> SUFFICES ASSUME NEW g \in Guards \ {None}, NEW w \in Worlds, NEW named \in BOOLEAN
             PROVE  Means(g, named, w, Verdict(g, named, w).code)
  BY Zenon DEF Truthful
<1>1. Means(g, named, w, Backends(g, w).code)
  BY AlertMeaning, SLOMeaning DEF Backends
<1>2. CASE Verdict(g, named, w) = Backends(g, w)
  BY <1>1, <1>2
<1>3. CASE named = TRUE /\ Verdict(g, named, w) = ReplicaVerdict(g, w)
  BY <1>3, ReplicaMeaning
<1>4. QED
  BY <1>2, <1>3 DEF Verdict, Outcome

=============================================================================
