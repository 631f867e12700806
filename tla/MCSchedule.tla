---------------------------- MODULE MCSchedule ----------------------------
(* Small instances of ScheduleReconciler for TLC.                          *)
EXTENDS ScheduleReconciler
============================================================================
