---------------------------- MODULE ServiceMonitor ----------------------------
(***************************************************************************)
(* The service monitor (agent/modules/service_monitor.py, check_services on *)
(* Windows) and its job (AgentScheduler.run_service_check), beside services *)
(* that start, stop, come and go.                                           *)
(*                                                                         *)
(* A scan lists all services with their status in one call, then reads the  *)
(* configuration of each one, compares the statuses with the previous scan, *)
(* and makes two kinds of alerts: a stop, once, and a binary in a temporary *)
(* or user directory, in every scan.  The previous statuses are replaced at *)
(* the very end, so an exception after the alerts keeps the old ones.       *)
(*                                                                         *)
(* The pending and paused statuses are one: the code treats all that is     *)
(* neither stopped nor unseen alike.  A listing that fails, configurations  *)
(* that cannot be read, an exception at the end, a POST that fails and a    *)
(* crash each use one of MaxFaults faults.                                  *)
(***************************************************************************)
EXTENDS Integers

CONSTANTS
    Services,   \* the services that may be installed
    BadPath,    \* those with a binary in a suspicious directory
    MaxChanges, \* bound: status changes
    MaxFaults   \* bound: failures of any sort

ServiceAssumption ==
    /\ BadPath \subseteq Services
    /\ MaxChanges \in Nat
    /\ MaxFaults \in Nat

VARIABLES
    status,   \* status[s]: what Windows says of s
    changes,  \* how many changes there have been
    pc,       \* where the job is
    found,    \* current_states of the scan under way
    previous, \* self.previous_states
    alerts,   \* the alerts still to send
    raised,   \* the alerts the backend has
    faults    \* how many failures have happened

\* History, read by the properties only.
VARIABLES
    stops,     \* stops[s]: how often s has stopped
    delivered, \* delivered[s]: how many alerts of a stop the backend took
    lost,      \* lost[s]: how many were lost in a POST that failed
    again      \* again[s]: how many were made in a scan that then raised

worldVars == <<status, changes, stops>>
histVars  == <<delivered, lost, again>>
vars == <<worldVars, pc, found, previous, alerts, raised, faults, histVars>>

Up == {"Running", "Pending"}
Statuses == Up \cup {"Stopped", "absent"}
Alerts == {"stop", "path"} \X Services

\* previous_states.get(name) of a service that is not in it is falsy: "absent".
Unseen == [s \in Services |-> "absent"]
None == [s \in Services |-> 0]

Fault == faults < MaxFaults /\ faults' = faults + 1

Init ==
    /\ status \in [Services -> Statuses]
    /\ changes = 0
    /\ pc = "idle"
    /\ found = Unseen
    /\ previous = Unseen
    /\ alerts = {}
    /\ raised = {}
    /\ faults = 0
    /\ stops = None /\ delivered = None /\ lost = None /\ again = None

-----------------------------------------------------------------------------
(* Slips: wrong forms of operators defined below, for no specification here. *)

\* Every stopped service is told, not only the one that was seen up.
StoppedNowAny == {s \in Services : previous[s] # "absent" /\ found[s] = "Stopped"}

\* The new statuses are remembered although the scan raised.
ScanRaisesRemembers(unread) ==
    /\ pc = "scan"
    /\ Fault
    /\ pc' = "alerts"
    /\ alerts' = {}
    /\ previous' = found
    /\ UNCHANGED <<worldVars, found, raised, histVars>>

\* A suspicious path is told of running services only.
SuspiciousUp(unread) == {s \in BadPath \ unread : found[s] \in Up}

-----------------------------------------------------------------------------
(* Windows: a service is installed stopped and removed stopped.              *)

Moves(st) ==
    CASE st = "absent"  -> {"Stopped"}
      [] st = "Stopped" -> {"absent", "Pending"}
      [] st = "Pending" -> {"Running", "Stopped"}
      [] st = "Running" -> {"Pending", "Stopped"}

Change(s, st) ==
    /\ changes < MaxChanges
    /\ st \in Moves(status[s])
    /\ changes' = changes + 1
    /\ status' = [status EXCEPT ![s] = st]
    /\ stops' = IF status[s] \in Up /\ st = "Stopped"
                THEN [stops EXCEPT ![s] = stops[s] + 1] ELSE stops
    /\ UNCHANGED <<pc, found, previous, alerts, raised, faults, histVars>>

-----------------------------------------------------------------------------
(* check_services                                                            *)

\* OpenSCManager and EnumServicesStatus: one consistent listing.
Enumerate ==
    /\ pc = "idle"
    /\ pc' = "scan"
    /\ found' = status
    /\ UNCHANGED <<worldVars, previous, alerts, raised, faults, histVars>>

\* They raise: no services, no alerts, and the previous statuses stay.
EnumerateFails ==
    /\ pc = "idle"
    /\ Fault
    /\ UNCHANGED <<worldVars, pc, found, previous, alerts, raised, histVars>>

Listed == {s \in Services : found[s] # "absent"}

\* The services that were seen up and are stopped now.
StoppedNow ==
    {s \in Services : previous[s] \notin {"absent", "Stopped"} /\ found[s] = "Stopped"}

Suspicious(unread) == (BadPath \cap Listed) \ unread

\* The alerts of a scan that could not read the configurations of `unread`.
MakeAlerts(unread) ==
    alerts' = {<<"stop", s>> : s \in StoppedNow}
              \cup {<<"path", s>> : s \in Suspicious(unread)}

\* The scan gets to its end.  A configuration is unreadable if its service has
\* been removed meanwhile, or else by a failure; either is passed over.
EndScan(unread) ==
    /\ pc = "scan"
    /\ unread \subseteq Listed
    /\ IF \A s \in unread : status[s] = "absent" THEN UNCHANGED faults ELSE Fault
    /\ pc' = "alerts"
    /\ MakeAlerts(unread)
    /\ previous' = found
    /\ UNCHANGED <<worldVars, found, raised, histVars>>

\* Closing the service manager raises: the alerts are returned, the previous
\* statuses stay, and the next scan compares with them once more.
ScanRaises(unread) ==
    /\ pc = "scan"
    /\ unread \subseteq Listed
    /\ Fault
    /\ pc' = "alerts"
    /\ MakeAlerts(unread)
    /\ again' = [s \in Services |-> IF s \in StoppedNow THEN again[s] + 1 ELSE again[s]]
    /\ UNCHANGED <<worldVars, found, previous, raised, delivered, lost>>

-----------------------------------------------------------------------------
(* run_service_check sends the alerts, one POST each, and forgets them.      *)

\* The count with one more if the alert is of a stop.
Counted(count, a) ==
    IF a[1] = "stop" THEN [count EXCEPT ![a[2]] = @ + 1] ELSE count

SendAlert(a) ==
    /\ pc = "alerts"
    /\ a \in alerts
    /\ alerts' = alerts \ {a}
    /\ raised' = raised \cup {a}
    /\ delivered' = Counted(delivered, a)
    /\ UNCHANGED <<worldVars, pc, found, previous, faults, lost, again>>

SendAlertFails(a) ==
    /\ pc = "alerts"
    /\ a \in alerts
    /\ Fault
    /\ alerts' = alerts \ {a}
    /\ lost' = Counted(lost, a)
    /\ UNCHANGED <<worldVars, pc, found, previous, raised, delivered, again>>

Finish ==
    /\ pc = "alerts"
    /\ alerts = {}
    /\ pc' = "idle"
    /\ UNCHANGED <<worldVars, found, previous, alerts, raised, faults, histVars>>

\* The agent dies and starts again: nothing of a monitor is on disk.
Restart ==
    /\ Fault
    /\ pc' = "idle"
    /\ previous' = Unseen
    /\ alerts' = {}
    /\ UNCHANGED <<worldVars, found, raised, histVars>>

Windows == \E s \in Services : \E st \in Statuses : Change(s, st)

\* Steps the job takes when nothing goes wrong.
Job ==
    \/ Enumerate \/ Finish
    \/ EndScan({s \in Listed : status[s] = "absent"})
    \/ \E a \in Alerts : SendAlert(a)

Failure ==
    \/ EnumerateFails
    \/ \E unread \in SUBSET Services : EndScan(unread) \/ ScanRaises(unread)
    \/ \E a \in Alerts : SendAlertFails(a)

-----------------------------------------------------------------------------
(* Properties.                                                               *)

\* Where the job may be, and the types of all but the thread's variables.
Places == {"idle", "scan", "alerts"}

DataOK ==
    /\ status \in [Services -> Statuses]
    /\ found \in [Services -> Statuses]
    /\ previous \in [Services -> Statuses]
    /\ alerts \subseteq Alerts
    /\ raised \subseteq Alerts
    /\ stops \in [Services -> Nat]
    /\ delivered \in [Services -> Nat]
    /\ lost \in [Services -> Nat]
    /\ again \in [Services -> Nat]

\* However scans fail and services flap between and during them, no more alerts of
\* stops are sent than there were stops, save those made once more because the scan
\* that made them raised at its end and kept the statuses from before.
OneAlertPerStop == \A s \in Services : delivered[s] + lost[s] <= stops[s] + again[s]

\* A service that the last complete scan saw up and that stays stopped gets to the
\* backend, whatever scans fail in between, unless the POST of its alert fails, which
\* is not repeated, or the agent dies and forgets it.  (n can be no larger: a service
\* starts between two stops.)
StopsTold ==
    \A s \in Services : \A n \in 0..(MaxChanges \div 2 + MaxFaults) :
        (previous[s] \in Up /\ status[s] = "Stopped" /\ delivered[s] + lost[s] = n)
            ~> (delivered[s] + lost[s] > n \/ status[s] # "Stopped" \/ previous[s] = "absent")

\* A service with a suspicious path that stays installed gets to the backend: a
\* lost POST, a failed reading or a restart only puts it off to the next scan.
PathTold ==
    \A s \in BadPath :
        (status[s] # "absent") ~> (status[s] = "absent" \/ <<"path", s>> \in raised)

=============================================================================
