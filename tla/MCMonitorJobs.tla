---------------------------- MODULE MCMonitorJobs ----------------------------
(***************************************************************************)
(* Instance of MonitorJobs for TLC; the .cfg file gives the constants.  The *)
(* computer is at rest at first: whatever is wrong with it comes about by   *)
(* one of the changes.                                                      *)
(***************************************************************************)
EXTENDS MonitorJobs

MCInit ==
    /\ Init
    /\ status = [s \in Services |-> "Running"]
    /\ load = [r \in Health!Loads |-> "low"]
    /\ full = {}
    /\ shell = FALSE
    /\ counter = 1

\* The last change is a service's.
MCNext == Next /\ (changes < MaxChanges /\ changes' = MaxChanges => status' # status)

MCSpec == MCInit /\ [][MCNext]_vars /\ Fairness

=============================================================================
