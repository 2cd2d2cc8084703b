-------------------------- MODULE MCEventLogMonitor --------------------------
(***************************************************************************)
(* Instances of EventLogMonitor for TLC.  EventTail checks its own          *)
(* assumption through the instance.                                         *)
(***************************************************************************)
EXTENDS EventLogMonitor

=============================================================================
