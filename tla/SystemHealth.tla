---------------------------- MODULE SystemHealth -----------------------------
(***************************************************************************)
(* The health job (AgentScheduler.run_health_check) with the monitors it    *)
(* reads: CPUMonitor, MemoryMonitor, DiskMonitor and the counters and       *)
(* connections of NetworkMonitor (agent/modules/*_monitor.py).              *)
(*                                                                         *)
(* The job reads one monitor after the other.  A monitor that fails returns *)
(* zeros, or leaves out what it could not read, and the job goes on.  Then  *)
(* it sends an alert for each threshold that was passed and for connections *)
(* to suspicious ports, and last the report.                                *)
(*                                                                         *)
(* A reading is "low" or "high", which is what the thresholds tell apart.   *)
(* The disk reading is that of the first volume in the list.  One byte      *)
(* counter stands for bytes_sent and bytes_recv, which are treated alike;   *)
(* it falls when an adapter goes away, whose share starts again from zero.  *)
(* The monitors' other readings keep no state and decide nothing.  Each     *)
(* failure uses one of MaxFaults faults.                                    *)
(***************************************************************************)
EXTENDS Integers, FiniteSets

CONSTANTS
    NumVolumes, \* the volumes, in the order psutil lists them
    MaxBytes,   \* bound: bytes that are ever transferred
    MaxChanges, \* bound: changes of load, volumes and connections
    MaxFaults   \* bound: failures of any sort

HealthAssumption ==
    /\ NumVolumes \in Nat \ {0}
    /\ MaxBytes \in Nat
    /\ MaxChanges \in Nat
    /\ MaxFaults \in Nat

Volumes == 1..NumVolumes
Levels == {"low", "high"}
Loads == {"cpu", "memory"}
Measured == Loads \cup {"disk"}
Alarms == Measured \cup {"connection"}

VARIABLES
    load,     \* load[r]: the use of the CPU and of the memory
    full,     \* the volumes at or above the threshold
    shell,    \* is there a connection to a suspicious port
    counter,  \* Windows' byte counter
    moved,    \* how many bytes were ever transferred
    changes,  \* how many changes there have been
    pc,       \* where the job is: before which monitor ("idle" before the
              \* first one), or sending
    reading,  \* health_data, as far as it has been read
    prev,     \* self.prev_sent
    alarms,   \* the alerts still to send
    faults    \* how many failures have happened

\* History of this run of the agent, read by the properties only.
VARIABLES
    reported, \* the sum of the rates so far
    base,     \* how many bytes had been transferred before
    reset,    \* did the counter fall, or did a sample find no earlier one
    told      \* the alarms the backend has had since their cause came about

worldVars == <<load, full, shell, counter, moved, changes>>
jobVars   == <<pc, reading, prev, alarms>>
histVars  == <<reported, base, reset>>
vars == <<worldVars, jobVars, faults, histVars, told>>

AllLow == [r \in Measured |-> "low"]

Fault == faults < MaxFaults /\ faults' = faults + 1

\* NetworkMonitor.__init__ has taken its first sample.
Init ==
    /\ load \in [Loads -> Levels]
    /\ full \in SUBSET Volumes
    /\ shell \in BOOLEAN
    /\ counter \in 0..1
    /\ moved = counter
    /\ changes = 0
    /\ pc = "idle"
    /\ reading = AllLow
    /\ prev = counter
    /\ alarms = {}
    /\ faults = 0
    /\ reported = 0
    /\ base = counter
    /\ reset = FALSE
    /\ told = {}

-----------------------------------------------------------------------------
(* Slips: wrong forms of operators defined below, for no specification here. *)

\* The rate against a sample that is never renewed.
SampleKeepsPrev ==
    /\ reported' = reported + (IF prev > 0 THEN counter - prev ELSE 0)
    /\ UNCHANGED prev

\* The first volume of a list that was sorted the other way.
LastVolume(S) == CHOOSE v \in S : \A w \in S : w <= v

-----------------------------------------------------------------------------
(* The computer.                                                             *)

Changed == changes < MaxChanges /\ changes' = changes + 1

SetLoad(r) ==
    /\ Changed
    /\ load' = [load EXCEPT ![r] = IF load[r] = "low" THEN "high" ELSE "low"]
    /\ told' = told \ {r}
    /\ UNCHANGED <<full, shell, counter, moved, jobVars, faults, histVars>>

SetFull(v) ==
    /\ Changed
    /\ full' = IF v \in full THEN full \ {v} ELSE full \cup {v}
    /\ told' = IF v = 1 THEN told \ {"disk"} ELSE told
    /\ UNCHANGED <<load, shell, counter, moved, jobVars, faults, histVars>>

SetShell ==
    /\ Changed
    /\ shell' = ~shell
    /\ told' = told \ {"connection"}
    /\ UNCHANGED <<load, full, counter, moved, jobVars, faults, histVars>>

Transfer ==
    /\ moved < MaxBytes
    /\ moved' = moved + 1
    /\ counter' = counter + 1
    /\ UNCHANGED <<load, full, shell, changes, jobVars, faults, histVars, told>>

\* An adapter goes away with its share of the total.
LoseAdapter(n) ==
    /\ Changed
    /\ n < counter
    /\ counter' = n
    /\ reset' = TRUE
    /\ UNCHANGED <<load, full, shell, moved, jobVars, faults, reported, base, told>>

-----------------------------------------------------------------------------
(* run_health_check: the readings.                                           *)

\* The job begins with the CPU.
Before(r) == pc = IF r = "cpu" THEN "idle" ELSE "memory"
After(r) == pc' = IF r = "cpu" THEN "memory" ELSE "disk"

ReadLoad(r) ==
    /\ Before(r)
    /\ After(r)
    /\ reading' = [reading EXCEPT ![r] = load[r]]
    /\ UNCHANGED <<worldVars, prev, alarms, faults, histVars, told>>

\* The monitor catches its exception and returns zeros.
ReadLoadFails(r) ==
    /\ Before(r)
    /\ Fault
    /\ After(r)
    /\ UNCHANGED <<worldVars, reading, prev, alarms, histVars, told>>

FirstVolume(S) == CHOOSE v \in S : \A w \in S : v <= w

\* The volumes of `missed` cannot be read and are left out of the list; the
\* first one of the rest is the primary partition, and without any it is 0.
DiskReading(missed) ==
    IF missed # Volumes /\ FirstVolume(Volumes \ missed) \in full THEN "high" ELSE "low"

ReadDisk(missed) ==
    /\ pc = "disk"
    /\ IF missed = {} THEN UNCHANGED faults ELSE Fault
    /\ pc' = "network"
    /\ reading' = [reading EXCEPT !["disk"] = DiskReading(missed)]
    /\ UNCHANGED <<worldVars, prev, alarms, histVars, told>>

\* The rate since the last sample; a last sample of 0 counts as none.
Sample ==
    /\ reported' = reported + (IF prev > 0 THEN counter - prev ELSE 0)
    /\ prev' = counter

ReadNetwork ==
    /\ pc = "network"
    /\ pc' = "connections"
    /\ Sample
    /\ reset' = (reset \/ (prev = 0 /\ counter > 0))
    /\ UNCHANGED <<worldVars, reading, alarms, faults, base, told>>

\* Zeros are returned, and the last sample stays.
ReadNetworkFails ==
    /\ pc = "network"
    /\ Fault
    /\ pc' = "connections"
    /\ UNCHANGED <<worldVars, reading, prev, alarms, histVars, told>>

Exceeded == {r \in Measured : reading[r] = "high"}

\* check_suspicious_connections, and the thresholds on what has been read.
CheckConnections ==
    /\ pc = "connections"
    /\ pc' = "alarms"
    /\ alarms' = Exceeded \cup (IF shell THEN {"connection"} ELSE {})
    /\ UNCHANGED <<worldVars, reading, prev, faults, histVars, told>>

\* The connections cannot be read: no alert of theirs.
CheckConnectionsFails ==
    /\ pc = "connections"
    /\ Fault
    /\ pc' = "alarms"
    /\ alarms' = Exceeded
    /\ UNCHANGED <<worldVars, reading, prev, histVars, told>>

-----------------------------------------------------------------------------
(* run_health_check: the alerts, and last the report.                        *)

\* First the connections, then the thresholds one after the other.
Rank == [connection |-> 0, cpu |-> 1, memory |-> 2, disk |-> 3]
IsNext(a) == a \in alarms /\ \A b \in alarms : Rank[a] <= Rank[b]

SendAlarm(a) ==
    /\ pc = "alarms"
    /\ IsNext(a)
    /\ alarms' = alarms \ {a}
    /\ told' = told \cup {a}
    /\ UNCHANGED <<worldVars, pc, reading, prev, faults, histVars>>

SendAlarmFails(a) ==
    /\ pc = "alarms"
    /\ IsNext(a)
    /\ Fault
    /\ alarms' = alarms \ {a}
    /\ UNCHANGED <<worldVars, pc, reading, prev, histVars, told>>

\* send_system_health; a POST that fails ends the job in the same way.
SendHealth ==
    /\ pc = "alarms"
    /\ alarms = {}
    /\ pc' = "idle"
    /\ reading' = AllLow
    /\ UNCHANGED <<worldVars, prev, alarms, faults, histVars, told>>

\* The agent dies and starts again.  The first sample of the new run may fail,
\* and then is 0.
Restart ==
    /\ Fault
    /\ pc' = "idle"
    /\ reading' = AllLow
    /\ alarms' = {}
    /\ prev' \in {0, counter}
    /\ reported' = 0
    /\ base' = moved
    /\ reset' = (prev' # counter)
    /\ UNCHANGED <<worldVars, told>>

Computer ==
    \/ \E r \in Loads : SetLoad(r)
    \/ \E v \in Volumes : SetFull(v)
    \/ SetShell \/ Transfer
    \/ \E n \in 0..MaxBytes : LoseAdapter(n)

\* Steps the job takes when nothing goes wrong.
Job ==
    \/ ReadDisk({}) \/ ReadNetwork \/ CheckConnections \/ SendHealth
    \/ \E r \in Loads : ReadLoad(r)
    \/ \E a \in Alarms : SendAlarm(a)

Failure ==
    \/ \E r \in Loads : ReadLoadFails(r)
    \/ \E missed \in SUBSET Volumes \ {{}} : ReadDisk(missed)
    \/ ReadNetworkFails \/ CheckConnectionsFails
    \/ \E a \in Alarms : SendAlarmFails(a)

-----------------------------------------------------------------------------
(* Properties.                                                               *)

\* Where the job may be, and the types of all but the thread's variables.
Places == {"idle", "memory", "disk", "network", "connections", "alarms"}

DataOK ==
    /\ load \in [Loads -> Levels]
    /\ full \subseteq Volumes
    /\ shell \in BOOLEAN
    /\ counter \in Nat
    /\ moved \in Nat
    /\ reading \in [Measured -> Levels]
    /\ prev \in Nat
    /\ alarms \subseteq Alarms
    /\ reported \in Int
    /\ base \in Nat
    /\ reset \in BOOLEAN
    /\ told \subseteq Alarms

\* The rates of one run add up: none counts a byte twice, whatever samples fail
\* or counters fall, and as long as no counter fell and no sample was taken for
\* missing, what is not reported yet is what the next sample will report.
BytesCountedOnce ==
    /\ reported <= moved - base
    /\ ~reset => reported + (counter - prev) = moved - base

\* Does the cause of alarm a last?
Lasting(a) ==
    CASE a \in Loads       -> load[a] = "high"
      [] a = "disk"        -> 1 \in full
      [] a = "connection"  -> shell

\* A resource that stays beyond its threshold, and a suspicious connection that
\* stays, gets to the backend: a failed reading or POST only puts it off.
LastingCauseTold == \A a \in Alarms : Lasting(a) ~> (~Lasting(a) \/ a \in told)

=============================================================================
