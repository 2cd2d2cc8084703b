----------------------------- MODULE MCDashboard -----------------------------
(***************************************************************************)
(* Instance of Dashboard for TLC; the .cfg file gives the constants.        *)
(***************************************************************************)
EXTENDS Dashboard

=============================================================================
