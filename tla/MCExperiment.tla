--------------------------- MODULE MCExperiment ---------------------------
(* Small instances of ExperimentReconciler for TLC.                        *)
EXTENDS ExperimentReconciler, TLC

\* Two scenarios, the first of which ends before the poll interval is over,
\* in a target with a name.
MCFirst ==
  [len |-> 2, duration |-> [i \in Index |-> i + 1], count |-> [i \in Index |-> 1],
   pause |-> 1, target |-> "web"]

\* The same with no pause between the scenarios.
MCNoPause == [MCFirst EXCEPT !.pause = 0]

\* What a user may make of it: shorter, with a longer first scenario that
\* kills more; the same in another target.
MCSpecs ==
  {[MCFirst EXCEPT !.len = 1, !.duration[0] = 2, !.count[0] = 2],
   [MCFirst EXCEPT !.target = "db"]}

\* What a user may make of that: no named target, so that the next injection
\* fails and no probe is made.
MCUnnamed == {[MCNoPause EXCEPT !.target = None]}

\* Halt reasons are only compared for equality.
Symmetry == Permutations(Reasons)
============================================================================
