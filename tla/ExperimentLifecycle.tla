------------------------ MODULE ExperimentLifecycle ------------------------
(***************************************************************************)
(* What a ChaosExperiment promises to everybody who reads it from the API  *)
(* server (the schedule controller, the safeguard watcher, kubectl): the   *)
(* committed status only ever moves along the steps below, whatever the    *)
(* informer cache, the work queue and the crashes of the manager do.       *)
(*                                                                         *)
(* Each action is the net effect of one accepted write.  Module            *)
(* ExperimentReconciler implements this specification.                     *)
(***************************************************************************)
EXTENDS Integers

CONSTANTS N,        \* the longest list of scenarios
          Reasons,  \* halt reasons
          None      \* the nil pointer

VARIABLES present,    \* the object exists
          len,        \* len(spec.scenarios)
          phase,      \* status.phase
          index,      \* status.currentScenarioIndex
          injected,   \* status.injectedAt # nil
          haltReason  \* status.haltReason

vars == <<present, len, phase, index, injected, haltReason>>

Init ==
  /\ present = TRUE
  /\ len \in 1..N
  /\ phase = "Pending"
  /\ index = 0
  /\ injected = FALSE
  /\ haltReason = None

Start ==
  /\ phase = "Pending"
  /\ phase' = "Running"
  /\ UNCHANGED <<present, len, index, injected, haltReason>>

\* The current scenario has been injected; its index does not move.
Inject ==
  /\ phase = "Running" /\ index < len /\ ~injected
  /\ injected' = TRUE
  /\ UNCHANGED <<present, len, phase, index, haltReason>>

\* The current scenario is over: exactly one scenario forward.
Advance ==
  /\ phase = "Running" /\ index < len /\ injected
  /\ injected' = FALSE
  /\ index' = index + 1
  /\ UNCHANGED <<present, len, phase, haltReason>>

Complete ==
  /\ phase = "Running" /\ index >= len
  /\ phase' = "Completed"
  /\ UNCHANGED <<present, len, index, injected, haltReason>>

\* Only a failed injection fails an experiment.
Fail ==
  /\ phase = "Running" /\ index < len /\ ~injected
  /\ phase' = "Failed"
  /\ UNCHANGED <<present, len, index, injected, haltReason>>

\* A halt is accepted in every phase but Halted, and its reason is final.
Halt ==
  /\ phase # "Halted"
  /\ phase' = "Halted"
  /\ haltReason' \in Reasons
  /\ UNCHANGED <<present, len, index, injected>>

\* The user changes the length of the scenario list.
Edit ==
  /\ len' \in 1..N
  /\ UNCHANGED <<present, phase, index, injected, haltReason>>

Remove ==
  /\ present' = FALSE
  /\ UNCHANGED <<len, phase, index, injected, haltReason>>

Next ==
  /\ present
  /\ Start \/ Inject \/ Advance \/ Complete \/ Fail \/ Halt \/ Edit \/ Remove

Spec == Init /\ [][Next]_vars
=============================================================================
