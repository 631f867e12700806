------------------------- MODULE ScheduleLifecycle -------------------------
(***************************************************************************)
(* What a reader of the API server may see of a ChaosSchedule: its phase,  *)
(* the run it names and its history.  This is what ScheduleReconciler      *)
(* promises, without caches, versions, requeues or crashes.                *)
(***************************************************************************)
EXTENDS Integers

CONSTANT None

VARIABLES present, phase, active,
          total, successful, halted \* status.history

vars == <<present, phase, active, total, successful, halted>>

Init ==
  /\ present = TRUE /\ phase = "Idle" /\ active = None
  /\ total = 0 /\ successful = 0 /\ halted = 0

\* A run starts from Idle.  It is one more experiment than were counted, so
\* that no run is counted twice; a run still named is forgotten.
Start ==
  /\ phase = "Idle" /\ phase' = "Running"
  /\ total' = total + 1 /\ active' \in Nat /\ active' > total
  /\ UNCHANGED <<successful, halted>>

\* The run that is named is over and is concluded once, well or not.
Conclude ==
  /\ phase = "Running" /\ phase' = "Idle"
  /\ active # None /\ active' = None
  /\ successful' \in {successful, successful + 1}
  /\ UNCHANGED <<total, halted>>

\* It was halted: the schedule stops.
Halt ==
  /\ phase = "Running" /\ phase' = "Halted"
  /\ active # None /\ active' = None
  /\ halted' = halted + 1
  /\ UNCHANGED <<total, successful>>

\* A suspension is recorded over any phase, and lifting it leads to Idle; the
\* run that is named stays named.
Pause  == phase # "Paused" /\ phase' = "Paused"
Resume == phase = "Paused" /\ phase' = "Idle"
Fail   == phase = "Idle" /\ phase' = "Failed"

Suspension == (Pause \/ Resume \/ Fail) /\ UNCHANGED <<active, total, successful, halted>>

Remove ==
  /\ present' = FALSE
  /\ UNCHANGED <<phase, active, total, successful, halted>>

Next ==
  /\ present
  /\ \/ (Start \/ Conclude \/ Halt \/ Suspension) /\ UNCHANGED present
     \/ Remove

Spec == Init /\ [][Next]_vars

=============================================================================
