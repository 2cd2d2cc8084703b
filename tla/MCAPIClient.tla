----------------------------- MODULE MCAPIClient -----------------------------
(***************************************************************************)
(* Instance of APIClient for TLC; the .cfg files give the constants.         *)
(***************************************************************************)
EXTENDS APIClient

=============================================================================
