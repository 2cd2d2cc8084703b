---------------------------- MODULE MCConfigStore ----------------------------
(***************************************************************************)
(* Instance of ConfigStore for TLC; the .cfg file gives the constants.      *)
(***************************************************************************)
EXTENDS ConfigStore

=============================================================================
