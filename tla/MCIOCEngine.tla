----------------------------- MODULE MCIOCEngine -----------------------------
(***************************************************************************)
(* Instance of IOCEngine for TLC; the .cfg file gives the constants.  TLC   *)
(* need not tell apart where processes not yet born will live.  Two rules   *)
(* are active: either those on processes, and the first process matches by  *)
(* itself, so that it may be a parent; or those on parents and on what is   *)
(* outside, and the last one matches, which may get the PID of a parent.    *)
(***************************************************************************)
EXTENDS IOCEngine

MCInit ==
    /\ Init
    /\ home = [p \in Processes |-> CHOOSE pid \in Pids : TRUE]
    /\ \/ active = {"attribute", "parent"} /\ bad = {1}
       \/ active = {"parent", "outside"} /\ bad = {3}

MCSpec == MCInit /\ [][Next]_vars /\ Fairness

=============================================================================
