----------------------------- MODULE MonitorJobs -----------------------------
(***************************************************************************)
(* The service job and the health job on the scheduler's one thread:        *)
(* ServiceMonitor and SystemHealth with one pc, so that a job begins only   *)
(* when no other is under way, and with one count of changes and of faults. *)
(* When the agent dies and starts again, both monitors forget.              *)
(***************************************************************************)
EXTENDS Integers

CONSTANTS Services, BadPath, NumVolumes, MaxBytes, MaxChanges, MaxFaults

\* The thread, and the counts of what the bounds limit.
VARIABLES pc, changes, faults

\* The service monitor and its services.
VARIABLES status, found, previous, alerts, raised, stops, delivered, lost, again

\* The health job, its monitors and the computer.
VARIABLES load, full, shell, counter, moved, reading, prev, alarms,
          reported, base, reset, told

serviceVars == <<status, found, previous, alerts, raised, stops, delivered, lost, again>>
healthVars  == <<load, full, shell, counter, moved, reading, prev, alarms,
                 reported, base, reset, told>>
vars == <<pc, changes, faults, serviceVars, healthVars>>

Svc == INSTANCE ServiceMonitor
Health == INSTANCE SystemHealth

ASSUME MonitorJobsAssumption == Svc!ServiceAssumption /\ Health!HealthAssumption

Init == Svc!Init /\ Health!Init

-----------------------------------------------------------------------------
\* _safe_run of one job at a time.
ServiceJob == Svc!Job /\ UNCHANGED healthVars
HealthJob  == Health!Job /\ UNCHANGED serviceVars

\* The rest: the computer, and what may fail in a job.
ServiceWorld == (Svc!Windows \/ Svc!Failure) /\ UNCHANGED healthVars
HealthWorld  == (Health!Computer \/ Health!Failure) /\ UNCHANGED serviceVars

Restart == Svc!Restart /\ Health!Restart

Next == ServiceJob \/ HealthJob \/ ServiceWorld \/ HealthWorld \/ Restart

Spec == Init /\ [][Next]_vars

\* run_pending takes the due jobs in the order of their times: a job that is due
\* gets its turn, however often the other one is due as well.
Fairness == SF_vars(ServiceJob) /\ SF_vars(HealthJob)

FairSpec == Spec /\ Fairness

-----------------------------------------------------------------------------
(* Properties.                                                               *)

TypeOK ==
    /\ pc \in Svc!Places \cup Health!Places
    /\ changes \in 0..MaxChanges
    /\ faults \in 0..MaxFaults
    /\ Svc!DataOK
    /\ Health!DataOK

\* However scans fail and services flap between and during them, no more alerts of
\* stops are sent than there were stops, save those made once more because the scan
\* that made them raised at its end and kept the statuses from before.
OneAlertPerStop == Svc!OneAlertPerStop

\* A service that the last complete scan saw up and that stays stopped gets to the
\* backend, whatever scans fail in between, unless the POST of its alert fails, which
\* is not repeated, or the agent dies and forgets it.
StopsTold == Svc!StopsTold

\* A service with a suspicious path that stays installed gets to the backend: a
\* lost POST, a failed reading or a restart only puts it off to the next scan.
PathTold == Svc!PathTold

\* The rates of one run add up: none counts a byte twice, and nothing that was
\* transferred is missing unless a counter fell or a sample was taken for none.
BytesCountedOnce == Health!BytesCountedOnce

\* A resource that stays beyond its threshold, and a suspicious connection that
\* stays, gets to the backend: a failed reading or POST only puts it off.
LastingCauseTold == Health!LastingCauseTold

=============================================================================
