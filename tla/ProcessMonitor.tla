---------------------------- MODULE ProcessMonitor ----------------------------
(***************************************************************************)
(* The process monitor (agent/modules/process_monitor.py, check_processes)  *)
(* and its job (AgentScheduler.run_process_check), beside processes that    *)
(* come and go while a scan is under way.                                   *)
(*                                                                         *)
(* A process is the number of its birth, so that two processes with one PID *)
(* in turn are told apart; 0 is no process.  A process is suspicious by its *)
(* name or path.  The monitor compares PIDs only, and alerts for a process  *)
(* only in the scan in which its PID is new.                                *)
(*                                                                         *)
(* A scan that cannot read a process, reads it without its name and path    *)
(* (psutil's ad_value), breaks off, a POST that fails and a crash each use  *)
(* one of MaxFaults faults.  Telemetry and IOC matching keep no state here. *)
(***************************************************************************)
EXTENDS Integers, FiniteSets

CONSTANTS
    Pids,           \* the process identifiers, used again when they are free
    MaxProcesses,   \* bound: processes that are ever born
    MaxFaults       \* bound: failures of any sort

ASSUME ProcessAssumption ==
    /\ MaxProcesses \in Nat
    /\ MaxFaults \in Nat

Processes == 1..MaxProcesses

VARIABLES
    table,      \* table[pid]: the process that runs under pid
    born,       \* how many processes have been born
    suspicious, \* the processes with a suspicious name or path
    pc,         \* where the job is
    todo,       \* the listed PIDs the scan has still to read
    current,    \* current_processes
    flagged,    \* the processes of this scan with is_suspicious
    previous,   \* self.previous_processes
    alerts,     \* the processes whose alert is still to send
    raised,     \* the processes whose alert the backend has
    faults      \* how many failures have happened

\* History of the scan and of the run, read by the properties only.
VARIABLES
    witnessed,  \* the processes alive when the scan listed the PIDs
    skipped,    \* the live processes this scan passed over
    partly,     \* the processes this scan read without their name and path
    flapped,    \* the processes some scan of this run passed over
    hidden,     \* the processes that entered the cache partly read, or under the
                \* PID of another one
    alerted,    \* the processes this run has made an alert for
    repeated,   \* those it has made a second alert for
    lost        \* the processes with an alert that never reached the backend

worldVars == <<table, born, suspicious>>
scanVars  == <<todo, current, flagged>>
sawVars   == <<witnessed, skipped, partly>>
runVars   == <<flapped, hidden, alerted, repeated>>
vars == <<worldVars, pc, scanVars, previous, alerts, raised, faults, sawVars, runVars, lost>>

NoProcesses == [pid \in Pids |-> 0]

Alive == {table[pid] : pid \in Pids} \ {0}

Fault == faults < MaxFaults /\ faults' = faults + 1

Init ==
    /\ table = NoProcesses
    /\ born = 0
    /\ suspicious = {}
    /\ pc = "idle"
    /\ todo = {}
    /\ current = NoProcesses
    /\ flagged = {}
    /\ previous = NoProcesses
    /\ alerts = {}
    /\ raised = {}
    /\ faults = 0
    /\ witnessed = {} /\ skipped = {} /\ partly = {}
    /\ flapped = {} /\ hidden = {} /\ alerted = {} /\ repeated = {}
    /\ lost = {}

-----------------------------------------------------------------------------
(* Slips: wrong forms of operators defined below, for no specification here. *)

\* The cache is replaced before the scan is compared with it.
NewPidsLate == {}

\* A scan that breaks off and takes its empty result for the process list.
ScanFailsForgets ==
    /\ pc = "scan"
    /\ Fault
    /\ pc' = "idle"
    /\ previous' = NoProcesses
    /\ UNCHANGED <<worldVars, scanVars, alerts, raised, sawVars, runVars, lost>>

\* A job that ends with alerts still to send.
FinishEarly ==
    /\ pc = "alerts"
    /\ pc' = "idle"
    /\ alerts' = {}
    /\ UNCHANGED <<worldVars, scanVars, previous, raised, faults, sawVars, runVars, lost>>

-----------------------------------------------------------------------------
(* Windows: processes start and end at any time.                             *)

Spawn(pid, bad) ==
    /\ table[pid] = 0
    /\ born < MaxProcesses
    /\ born' = born + 1
    /\ table' = [table EXCEPT ![pid] = born + 1]
    /\ suspicious' = IF bad THEN suspicious \cup {born + 1} ELSE suspicious
    /\ UNCHANGED <<pc, scanVars, previous, alerts, raised, faults, sawVars, runVars, lost>>

Terminate(pid) ==
    /\ table[pid] # 0
    /\ table' = [table EXCEPT ![pid] = 0]
    /\ UNCHANGED <<born, suspicious, pc, scanVars, previous, alerts, raised, faults,
                   sawVars, runVars, lost>>

-----------------------------------------------------------------------------
(* check_processes                                                           *)

\* psutil.process_iter lists the PIDs first and reads one after the other.
StartScan ==
    /\ pc = "idle"
    /\ pc' = "scan"
    /\ todo' = {pid \in Pids : table[pid] # 0}
    /\ current' = NoProcesses
    /\ flagged' = {}
    /\ witnessed' = Alive
    /\ skipped' = {}
    /\ partly' = {}
    /\ UNCHANGED <<worldVars, previous, alerts, raised, faults, runVars, lost>>

Record(pid) == current' = [current EXCEPT ![pid] = table[pid]]

\* get_process_info with everything at hand.
ReadProcess(pid) ==
    /\ pc = "scan"
    /\ pid \in todo
    /\ table[pid] # 0
    /\ todo' = todo \ {pid}
    /\ Record(pid)
    /\ flagged' = flagged \cup ({table[pid]} \cap suspicious)
    /\ UNCHANGED <<worldVars, pc, previous, alerts, raised, faults, sawVars, runVars, lost>>

\* Access denied: no name, no path, so nothing suspicious about it.
ReadPartly(pid) ==
    /\ pc = "scan"
    /\ pid \in todo
    /\ table[pid] # 0
    /\ Fault
    /\ todo' = todo \ {pid}
    /\ Record(pid)
    /\ partly' = partly \cup {table[pid]}
    /\ UNCHANGED <<worldVars, pc, flagged, previous, alerts, raised, witnessed, skipped,
                   runVars, lost>>

\* The process is gone: NoSuchProcess.
PassOver(pid) ==
    /\ pc = "scan"
    /\ pid \in todo
    /\ table[pid] = 0
    /\ todo' = todo \ {pid}
    /\ UNCHANGED <<worldVars, pc, current, flagged, previous, alerts, raised, faults,
                   sawVars, runVars, lost>>

\* Some other exception, or a PID that psutil still holds another process for:
\* a live process is passed over.
Skip(pid) ==
    /\ pc = "scan"
    /\ pid \in todo
    /\ table[pid] # 0
    /\ \/ previous[pid] \notin {0, table[pid]} /\ UNCHANGED faults
       \/ Fault
    /\ todo' = todo \ {pid}
    /\ skipped' = skipped \cup {table[pid]}
    /\ flapped' = flapped \cup {table[pid]}
    /\ UNCHANGED <<worldVars, pc, current, flagged, previous, alerts, raised,
                   witnessed, partly, hidden, alerted, repeated, lost>>

\* The listing itself breaks off: the exception ends the job.
ScanFails ==
    /\ pc = "scan"
    /\ Fault
    /\ pc' = "idle"
    /\ UNCHANGED <<worldVars, scanVars, previous, alerts, raised, sawVars, runVars, lost>>

\* The PIDs of this scan that the previous one did not have.
NewPids == {pid \in Pids : current[pid] # 0 /\ previous[pid] = 0}

\* The comparison with the previous scan, the alerts and the new cache.
EndScan ==
    LET suspects == {current[pid] : pid \in NewPids} \cap flagged
        taken    == {pid \in Pids : previous[pid] \notin {0, current[pid]}}
        unknown  == {pid \in Pids : previous[pid] = 0 /\ current[pid] \in partly}
    IN  /\ pc = "scan"
        /\ todo = {}
        /\ pc' = "alerts"
        /\ alerts' = suspects
        /\ previous' = current
        /\ alerted' = alerted \cup suspects
        /\ repeated' = repeated \cup (alerted \cap suspects)
        /\ hidden' = hidden \cup ({current[pid] : pid \in taken \cup unknown} \ {0})
        /\ UNCHANGED <<worldVars, scanVars, raised, faults, sawVars, flapped, lost>>

-----------------------------------------------------------------------------
(* run_process_check sends the alerts, one POST each, and forgets them.      *)

SendAlert(p) ==
    /\ pc = "alerts"
    /\ p \in alerts
    /\ alerts' = alerts \ {p}
    /\ raised' = raised \cup {p}
    /\ UNCHANGED <<worldVars, pc, scanVars, previous, faults, sawVars, runVars, lost>>

SendAlertFails(p) ==
    /\ pc = "alerts"
    /\ p \in alerts
    /\ Fault
    /\ alerts' = alerts \ {p}
    /\ lost' = lost \cup {p}
    /\ UNCHANGED <<worldVars, pc, scanVars, previous, raised, sawVars, runVars>>

Finish ==
    /\ pc = "alerts"
    /\ alerts = {}
    /\ pc' = "idle"
    /\ UNCHANGED <<worldVars, scanVars, previous, alerts, raised, faults, sawVars, runVars, lost>>

\* The agent dies and starts again with an empty cache.
Restart ==
    /\ Fault
    /\ pc' = "idle"
    /\ todo' = {}
    /\ previous' = NoProcesses
    /\ alerts' = {}
    /\ lost' = lost \cup alerts
    /\ flapped' = {} /\ hidden' = {} /\ alerted' = {} /\ repeated' = {}
    /\ UNCHANGED <<worldVars, current, flagged, raised, sawVars>>

Windows == \E pid \in Pids : Terminate(pid) \/ \E bad \in BOOLEAN : Spawn(pid, bad)

\* Steps the agent takes when nothing goes wrong.
Agent ==
    \/ StartScan \/ EndScan \/ Finish
    \/ \E pid \in Pids : ReadProcess(pid) \/ PassOver(pid)
    \/ \E p \in Processes : SendAlert(p)

Failure ==
    \/ \E pid \in Pids : ReadPartly(pid) \/ Skip(pid)
    \/ \E p \in Processes : SendAlertFails(p)
    \/ ScanFails \/ Restart

Next == Windows \/ Agent \/ Failure

Spec == Init /\ [][Next]_vars

\* The scheduler runs the job again and again, and a scan or a POST ends.
FairSpec == Spec /\ WF_vars(Agent)

-----------------------------------------------------------------------------
(* Properties.                                                               *)

TypeOK ==
    /\ table \in [Pids -> 0..MaxProcesses]
    /\ born \in 0..MaxProcesses
    /\ suspicious \subseteq Processes
    /\ pc \in {"idle", "scan", "alerts"}
    /\ todo \subseteq Pids
    /\ current \in [Pids -> 0..MaxProcesses]
    /\ flagged \subseteq Processes
    /\ previous \in [Pids -> 0..MaxProcesses]
    /\ alerts \subseteq Processes
    /\ raised \subseteq Processes
    /\ faults \in 0..MaxFaults
    /\ witnessed \subseteq Processes
    /\ skipped \subseteq Processes
    /\ partly \subseteq Processes
    /\ flapped \subseteq Processes
    /\ hidden \subseteq Processes
    /\ alerted \subseteq Processes
    /\ repeated \subseteq Processes
    /\ lost \subseteq Processes

\* After a scan every suspicious process that lived through it has had its alert,
\* unless the scan had to pass it over (then a later scan raises it) or its PID
\* came into the cache with another process or without its name and path.
NothingSlipsBy ==
    pc = "alerts" =>
        \A p \in Alive \cap witnessed \cap suspicious :
            p \in alerted \cup hidden \cup skipped

\* One run alerts once per process: a second alert comes only after a scan that
\* passed the living process over.
OneAlertPerLife == repeated \subseteq flapped

\* A process whose PID the cache holds gets no alert from any later scan, so a
\* suspicious one must have had it: the alert is with the backend, in the hands
\* of the running job, or lost to a POST that failed or a restart; or the process
\* was hidden when it entered the cache.
CachedIsTold ==
    \A pid \in Pids :
        previous[pid] \in suspicious =>
            previous[pid] \in alerts \cup raised \cup lost \cup hidden

\* With finitely many failures a suspicious process that goes on living ends up as
\* an alert at the backend, a lost POST, or hidden at its first sight.
EventuallyRaised ==
    \A p \in Processes :
        (p \in suspicious) ~> (p \notin Alive \/ p \in raised \cup lost \cup hidden)

=============================================================================
