----------------------------- MODULE MCWatcher -----------------------------
(* A small instance of Watcher for TLC.                                    *)
EXTENDS Watcher

CONSTANTS s1, s2

MCSchedules == {s1, s2}
MCQueries   == {"p", "q"}

SLO(threshold, queries) == [threshold |-> threshold, queries |-> queries]

\* A guard with every combination of limits, sources and SLOs, but few labels.
MCGuards ==
  {None} \cup
  {[minAvailable |-> min, maxUnavailable |-> max, alertSource |-> alerts,
    labels |-> labels, metricsSource |-> metrics, slo |-> slo] :
     min \in {None, 2}, max \in {None, 1},
     alerts \in {None, Bad, "good"}, metrics \in {None, Bad, "good"},
     labels \in {<<>>, [severity |-> "critical", team |-> ""]},
     slo \in {None, SLO(None, <<"p">>), SLO(Bad, <<>>), SLO(NaN, <<"p">>),
              SLO(5, <<"p", "q">>)}}

Alert(state, severity) == [state |-> state, labels |-> [severity |-> severity]]
Vector(series) == [type |-> "vector", series |-> series]

\* Alerts that match, that are silenced, and that agree in one label only;
\* values around the threshold and answers that are no single value; counts
\* around the limits.
MCWorlds ==
  [alerts : {Bad, {}, {Alert("active", "critical")},
             {Alert("suppressed", "critical"), Alert("active", "warning")}},
   answers : [MCQueries -> {Bad, Vector(<<4>>), Vector(<<5>>), Vector(<<NaN>>),
                            Vector(<<6, 6>>), [type |-> "scalar", series |-> <<6>>]}],
   deployment : {Bad} \cup [available : 1..2, unavailable : 1..2]]

Base ==
  [minAvailable |-> None, maxUnavailable |-> None, alertSource |-> "good",
   labels |-> [severity |-> "critical", team |-> ""],
   metricsSource |-> None, slo |-> None]

On(guard, named, runs) == [guard |-> guard, named |-> named, runs |-> runs]

Replicas == [Base EXCEPT !.minAvailable = 2]

\* A schedule alone, which watches alerts only (the early return) in two runs,
\* or the replicas too of a target with or without a name; a watched schedule
\* that shares its rounds with one without safeguards; and a schedule that is
\* not running with every other guard.
MCSetups ==
  {[s \in MCSchedules |-> IF s = s1 THEN one ELSE On(None, TRUE, 0)] :
     one \in {On(Base, TRUE, 2), On(Replicas, TRUE, 1), On(Replicas, FALSE, 1)}}
  \cup
  {[s \in MCSchedules |-> IF s = s1 THEN On(Base, TRUE, 1) ELSE On(None, TRUE, 1)]}
  \cup
  {[s \in MCSchedules |-> On(g, TRUE, 0)] : g \in MCGuards}
============================================================================
