-------------------------- MODULE MCProcessMonitor --------------------------
(***************************************************************************)
(* Instance of ProcessMonitor for TLC; the .cfg file gives the constants.    *)
(***************************************************************************)
EXTENDS ProcessMonitor

=============================================================================
