------------------------ MODULE ProcessMonitorProofs ------------------------
(***************************************************************************)
(* What the process monitor does for any set of PIDs and any number of      *)
(* processes and failures: no suspicious process slips by a scan it lives   *)
(* through, none is alerted twice unless a scan passed it over, and none    *)
(* stays in the cache untold.                                               *)
(***************************************************************************)
EXTENDS ProcessMonitor, TLAPS

\* Births are counted: nothing refers to a process yet to be born.
BornInv ==
    /\ \A pid \in Pids : table[pid] <= born /\ current[pid] <= born /\ previous[pid] <= born
    /\ witnessed \subseteq 1..born
    /\ alerted \subseteq 1..born

\* A process has one PID, and the scan has it under that PID.
PidInv ==
    \A a, b \in Pids :
        /\ table[a] = table[b] /\ table[a] # 0 => a = b
        /\ current[a] = table[b] /\ current[a] # 0 => a = b

\* What a scan has done so far.
ScanInv ==
    pc = "scan" =>
        /\ skipped \subseteq flapped
        /\ \A pid \in Pids :
            /\ pid \notin todo /\ table[pid] \in witnessed =>
                   current[pid] = table[pid] \/ table[pid] \in skipped
            /\ previous[pid] = table[pid] /\ table[pid] # 0 => table[pid] \in witnessed
            /\ current[pid] \in alerted =>
                   previous[pid] = current[pid] \/ current[pid] \in flapped
            /\ current[pid] \in suspicious => current[pid] \in flagged \cup partly

\* A suspicious process is in the cache with its alert, or hidden.
CacheInv ==
    \A pid \in Pids : previous[pid] \in suspicious => previous[pid] \in alerted \cup hidden

\* A living process with an alert leaves the cache only when it is passed over.
AlertInv ==
    \A pid \in Pids :
        table[pid] \in alerted => previous[pid] = table[pid] \/ table[pid] \in flapped

\* An alert once made is in the hands of the job that made it until it is sent
\* or lost, and no job ends before that.
ToldInv ==
    /\ alerted \subseteq alerts \cup raised \cup lost
    /\ pc # "alerts" => alerts = {}

IInv ==
    /\ TypeOK
    /\ BornInv
    /\ PidInv
    /\ ScanInv
    /\ CacheInv
    /\ AlertInv
    /\ ToldInv
    /\ NothingSlipsBy
    /\ OneAlertPerLife

-----------------------------------------------------------------------------

LEMMA InitEstablishes == Init => IInv
<1> SUFFICES ASSUME Init PROVE IInv
    OBVIOUS
<1> USE ProcessAssumption DEF Init, NoProcesses, Processes
<1>1. TypeOK
    BY DEF TypeOK
<1>2. BornInv /\ PidInv /\ ScanInv /\ AlertInv /\ ToldInv /\ NothingSlipsBy /\ OneAlertPerLife
    BY DEF BornInv, PidInv, ScanInv, AlertInv, ToldInv, NothingSlipsBy, OneAlertPerLife
<1>3. CacheInv
    BY DEF CacheInv
<1> QED
    BY <1>1, <1>2, <1>3 DEF IInv

LEMMA TypeStep == IInv /\ [Next]_vars => TypeOK'
<1> SUFFICES ASSUME IInv, [Next]_vars PROVE TypeOK'
    OBVIOUS
<1> USE ProcessAssumption DEF IInv, TypeOK, Processes, NoProcesses, Fault, Alive, worldVars, scanVars, sawVars, runVars
<1>1. ASSUME NEW pid \in Pids, NEW bad \in BOOLEAN, Spawn(pid, bad)
     PROVE  TypeOK'
    BY <1>1 DEF Spawn
<1>2. ASSUME NEW pid \in Pids, Terminate(pid)
     PROVE  TypeOK'
    BY <1>2 DEF Terminate
<1>3. CASE StartScan
    BY <1>3 DEF StartScan
<1>4. ASSUME NEW pid \in Pids, ReadProcess(pid)
     PROVE  TypeOK'
    BY <1>4 DEF ReadProcess, Record
<1>5. ASSUME NEW pid \in Pids, ReadPartly(pid)
     PROVE  TypeOK'
    <2>1. faults' \in 0..MaxFaults
        BY <1>5 DEF ReadPartly
    <2>2. current' \in [Pids -> 0..MaxProcesses]
        BY <1>5 DEF ReadPartly, Record
    <2>3. table[pid] \in Processes
        BY <1>5 DEF ReadPartly
    <2> QED
        BY <1>5, <2>1, <2>2, <2>3 DEF ReadPartly
<1>6. ASSUME NEW pid \in Pids, PassOver(pid)
     PROVE  TypeOK'
    BY <1>6 DEF PassOver
<1>7. ASSUME NEW pid \in Pids, Skip(pid)
     PROVE  TypeOK'
    <2>1. faults' \in 0..MaxFaults
        BY <1>7 DEF Skip
    <2>2. table[pid] \in Processes
        BY <1>7 DEF Skip
    <2> QED
        BY <1>7, <2>1, <2>2 DEF Skip
<1>8. CASE ScanFails
    BY <1>8 DEF ScanFails
<1>9. CASE EndScan
    <2>1. \A pid \in Pids : current[pid] \in 0..MaxProcesses
        OBVIOUS
    <2>2. alerts' \subseteq Processes /\ alerted' \subseteq Processes /\ repeated' \subseteq Processes
        BY <1>9, <2>1 DEF EndScan, NewPids
    <2>3. hidden' \subseteq Processes
        <3>1. ({current[pid] : pid \in Pids} \ {0}) \subseteq Processes
            BY <2>1
        <3>2. hidden' \subseteq hidden \cup ({current[pid] : pid \in Pids} \ {0})
            BY <1>9 DEF EndScan
        <3> QED
            BY <3>1, <3>2
    <2> QED
        BY <1>9, <2>2, <2>3 DEF EndScan
<1>10. ASSUME NEW p \in Processes, SendAlert(p)
     PROVE  TypeOK'
    BY <1>10 DEF SendAlert
<1>11. ASSUME NEW p \in Processes, SendAlertFails(p)
     PROVE  TypeOK'
    BY <1>11 DEF SendAlertFails
<1>12. CASE Finish
    BY <1>12 DEF Finish
<1>13. CASE Restart
    BY <1>13 DEF Restart
<1>14. CASE UNCHANGED vars
    BY <1>14 DEF vars
<1> QED
    BY <1>1, <1>2, <1>3, <1>4, <1>5, <1>6, <1>7, <1>8, <1>9, <1>10, <1>11, <1>12, <1>13, <1>14
    DEF Next, Windows, Agent, Failure

LEMMA BornStep == IInv /\ [Next]_vars => BornInv'
<1> SUFFICES ASSUME IInv, [Next]_vars PROVE BornInv'
    OBVIOUS
<1> USE ProcessAssumption DEF IInv, TypeOK, BornInv, Processes, NoProcesses, Alive, worldVars, scanVars, sawVars, runVars
<1>1. ASSUME NEW pid \in Pids, NEW bad \in BOOLEAN, Spawn(pid, bad)
     PROVE  BornInv'
    BY <1>1 DEF Spawn
<1>2. ASSUME NEW pid \in Pids, Terminate(pid)
     PROVE  BornInv'
    BY <1>2 DEF Terminate
<1>3. CASE StartScan
    BY <1>3 DEF StartScan
<1>4. ASSUME NEW pid \in Pids, ReadProcess(pid)
     PROVE  BornInv'
    BY <1>4 DEF ReadProcess, Record
<1>5. ASSUME NEW pid \in Pids, ReadPartly(pid)
     PROVE  BornInv'
    BY <1>5 DEF ReadPartly, Record
<1>6. ASSUME NEW pid \in Pids, PassOver(pid)
     PROVE  BornInv'
    BY <1>6 DEF PassOver
<1>7. ASSUME NEW pid \in Pids, Skip(pid)
     PROVE  BornInv'
    BY <1>7 DEF Skip
<1>8. CASE ScanFails
    BY <1>8 DEF ScanFails
<1>9. CASE EndScan
    <2>1. \A pid \in Pids : current[pid] # 0 => current[pid] \in 1..born
        OBVIOUS
    <2>2. {current[pid] : pid \in NewPids} \subseteq 1..born
        BY <2>1 DEF NewPids
    <2>3. alerted' \subseteq 1..born'
        BY <1>9, <2>2 DEF EndScan
    <2> QED
        BY <1>9, <2>3 DEF EndScan
<1>10. ASSUME NEW p \in Processes, SendAlert(p)
     PROVE  BornInv'
    BY <1>10 DEF SendAlert
<1>11. ASSUME NEW p \in Processes, SendAlertFails(p)
     PROVE  BornInv'
    BY <1>11 DEF SendAlertFails
<1>12. CASE Finish
    BY <1>12 DEF Finish
<1>13. CASE Restart
    BY <1>13 DEF Restart
<1>14. CASE UNCHANGED vars
    BY <1>14 DEF vars
<1> QED
    BY <1>1, <1>2, <1>3, <1>4, <1>5, <1>6, <1>7, <1>8, <1>9, <1>10, <1>11, <1>12, <1>13, <1>14
    DEF Next, Windows, Agent, Failure

LEMMA PidStep == IInv /\ [Next]_vars => PidInv'
<1> SUFFICES ASSUME IInv, [Next]_vars PROVE PidInv'
    OBVIOUS
<1> USE ProcessAssumption DEF IInv, TypeOK, BornInv, PidInv, Processes, NoProcesses, worldVars, scanVars, sawVars, runVars
<1>1. ASSUME NEW pid \in Pids, NEW bad \in BOOLEAN, Spawn(pid, bad)
     PROVE  PidInv'
    BY <1>1 DEF Spawn
<1>2. ASSUME NEW pid \in Pids, Terminate(pid)
     PROVE  PidInv'
    BY <1>2 DEF Terminate
<1>3. CASE StartScan
    BY <1>3 DEF StartScan
<1>4. ASSUME NEW pid \in Pids, ReadProcess(pid)
     PROVE  PidInv'
    BY <1>4 DEF ReadProcess, Record
<1>5. ASSUME NEW pid \in Pids, ReadPartly(pid)
     PROVE  PidInv'
    BY <1>5 DEF ReadPartly, Record
<1>6. ASSUME NEW pid \in Pids, PassOver(pid)
     PROVE  PidInv'
    BY <1>6 DEF PassOver
<1>7. ASSUME NEW pid \in Pids, Skip(pid)
     PROVE  PidInv'
    BY <1>7 DEF Skip
<1>8. CASE ScanFails
    BY <1>8 DEF ScanFails
<1>9. CASE EndScan
    BY <1>9 DEF EndScan, NewPids
<1>10. ASSUME NEW p \in Processes, SendAlert(p)
     PROVE  PidInv'
    BY <1>10 DEF SendAlert
<1>11. ASSUME NEW p \in Processes, SendAlertFails(p)
     PROVE  PidInv'
    BY <1>11 DEF SendAlertFails
<1>12. CASE Finish
    BY <1>12 DEF Finish
<1>13. CASE Restart
    BY <1>13 DEF Restart
<1>14. CASE UNCHANGED vars
    BY <1>14 DEF vars
<1> QED
    BY <1>1, <1>2, <1>3, <1>4, <1>5, <1>6, <1>7, <1>8, <1>9, <1>10, <1>11, <1>12, <1>13, <1>14
    DEF Next, Windows, Agent, Failure

LEMMA ScanStep == IInv /\ [Next]_vars => ScanInv'
<1> SUFFICES ASSUME IInv, [Next]_vars PROVE ScanInv'
    OBVIOUS
<1> USE ProcessAssumption DEF IInv, TypeOK, BornInv, ScanInv, AlertInv, Processes, NoProcesses, Alive, worldVars, scanVars, sawVars, runVars
<1>1. ASSUME NEW pid \in Pids, NEW bad \in BOOLEAN, Spawn(pid, bad)
     PROVE  ScanInv'
    BY <1>1 DEF Spawn
<1>2. ASSUME NEW pid \in Pids, Terminate(pid)
     PROVE  ScanInv'
    BY <1>2 DEF Terminate
<1>3. CASE StartScan
    BY <1>3 DEF StartScan
<1>4. ASSUME NEW pid \in Pids, ReadProcess(pid)
     PROVE  ScanInv'
    BY <1>4 DEF ReadProcess, Record
<1>5. ASSUME NEW pid \in Pids, ReadPartly(pid)
     PROVE  ScanInv'
    BY <1>5 DEF ReadPartly, Record
<1>6. ASSUME NEW pid \in Pids, PassOver(pid)
     PROVE  ScanInv'
    BY <1>6 DEF PassOver
<1>7. ASSUME NEW pid \in Pids, Skip(pid)
     PROVE  ScanInv'
    BY <1>7 DEF Skip
<1>8. CASE ScanFails
    BY <1>8 DEF ScanFails
<1>9. CASE EndScan
    BY <1>9 DEF EndScan, NewPids
<1>10. ASSUME NEW p \in Processes, SendAlert(p)
     PROVE  ScanInv'
    BY <1>10 DEF SendAlert
<1>11. ASSUME NEW p \in Processes, SendAlertFails(p)
     PROVE  ScanInv'
    BY <1>11 DEF SendAlertFails
<1>12. CASE Finish
    BY <1>12 DEF Finish
<1>13. CASE Restart
    BY <1>13 DEF Restart
<1>14. CASE UNCHANGED vars
    BY <1>14 DEF vars
<1> QED
    BY <1>1, <1>2, <1>3, <1>4, <1>5, <1>6, <1>7, <1>8, <1>9, <1>10, <1>11, <1>12, <1>13, <1>14
    DEF Next, Windows, Agent, Failure

LEMMA CacheStep == IInv /\ [Next]_vars => CacheInv'
<1> SUFFICES ASSUME IInv, [Next]_vars PROVE CacheInv'
    OBVIOUS
<1> USE ProcessAssumption DEF IInv, TypeOK, BornInv, ScanInv, CacheInv, Processes, NoProcesses, worldVars, scanVars, sawVars, runVars
<1>1. ASSUME NEW pid \in Pids, NEW bad \in BOOLEAN, Spawn(pid, bad)
     PROVE  CacheInv'
    BY <1>1 DEF Spawn
<1>2. ASSUME NEW pid \in Pids, Terminate(pid)
     PROVE  CacheInv'
    BY <1>2 DEF Terminate
<1>3. CASE StartScan
    BY <1>3 DEF StartScan
<1>4. ASSUME NEW pid \in Pids, ReadProcess(pid)
     PROVE  CacheInv'
    BY <1>4 DEF ReadProcess, Record
<1>5. ASSUME NEW pid \in Pids, ReadPartly(pid)
     PROVE  CacheInv'
    BY <1>5 DEF ReadPartly, Record
<1>6. ASSUME NEW pid \in Pids, PassOver(pid)
     PROVE  CacheInv'
    BY <1>6 DEF PassOver
<1>7. ASSUME NEW pid \in Pids, Skip(pid)
     PROVE  CacheInv'
    BY <1>7 DEF Skip
<1>8. CASE ScanFails
    BY <1>8 DEF ScanFails
<1>9. CASE EndScan
    BY <1>9 DEF EndScan, NewPids
<1>10. ASSUME NEW p \in Processes, SendAlert(p)
     PROVE  CacheInv'
    BY <1>10 DEF SendAlert
<1>11. ASSUME NEW p \in Processes, SendAlertFails(p)
     PROVE  CacheInv'
    BY <1>11 DEF SendAlertFails
<1>12. CASE Finish
    BY <1>12 DEF Finish
<1>13. CASE Restart
    BY <1>13 DEF Restart
<1>14. CASE UNCHANGED vars
    BY <1>14 DEF vars
<1> QED
    BY <1>1, <1>2, <1>3, <1>4, <1>5, <1>6, <1>7, <1>8, <1>9, <1>10, <1>11, <1>12, <1>13, <1>14
    DEF Next, Windows, Agent, Failure

LEMMA AlertStep == IInv /\ [Next]_vars => AlertInv'
<1> SUFFICES ASSUME IInv, [Next]_vars PROVE AlertInv'
    OBVIOUS
<1> USE ProcessAssumption DEF IInv, TypeOK, BornInv, PidInv, ScanInv, AlertInv, Processes, NoProcesses, worldVars, scanVars, sawVars, runVars
<1>1. ASSUME NEW pid \in Pids, NEW bad \in BOOLEAN, Spawn(pid, bad)
     PROVE  AlertInv'
    BY <1>1 DEF Spawn
<1>2. ASSUME NEW pid \in Pids, Terminate(pid)
     PROVE  AlertInv'
    BY <1>2 DEF Terminate
<1>3. CASE StartScan
    BY <1>3 DEF StartScan
<1>4. ASSUME NEW pid \in Pids, ReadProcess(pid)
     PROVE  AlertInv'
    BY <1>4 DEF ReadProcess, Record
<1>5. ASSUME NEW pid \in Pids, ReadPartly(pid)
     PROVE  AlertInv'
    BY <1>5 DEF ReadPartly, Record
<1>6. ASSUME NEW pid \in Pids, PassOver(pid)
     PROVE  AlertInv'
    BY <1>6 DEF PassOver
<1>7. ASSUME NEW pid \in Pids, Skip(pid)
     PROVE  AlertInv'
    BY <1>7 DEF Skip
<1>8. CASE ScanFails
    BY <1>8 DEF ScanFails
<1>9. CASE EndScan
    BY <1>9 DEF EndScan, NewPids
<1>10. ASSUME NEW p \in Processes, SendAlert(p)
     PROVE  AlertInv'
    BY <1>10 DEF SendAlert
<1>11. ASSUME NEW p \in Processes, SendAlertFails(p)
     PROVE  AlertInv'
    BY <1>11 DEF SendAlertFails
<1>12. CASE Finish
    BY <1>12 DEF Finish
<1>13. CASE Restart
    BY <1>13 DEF Restart
<1>14. CASE UNCHANGED vars
    BY <1>14 DEF vars
<1> QED
    BY <1>1, <1>2, <1>3, <1>4, <1>5, <1>6, <1>7, <1>8, <1>9, <1>10, <1>11, <1>12, <1>13, <1>14
    DEF Next, Windows, Agent, Failure

\* Only EndScan overwrites the alerts at hand, and then there are none.
LEMMA ToldStep == IInv /\ [Next]_vars => ToldInv'
<1> SUFFICES ASSUME IInv, [Next]_vars PROVE ToldInv'
    OBVIOUS
<1> USE DEF IInv, ToldInv, worldVars, scanVars, sawVars, runVars
<1>1. ASSUME NEW pid \in Pids, NEW bad \in BOOLEAN, Spawn(pid, bad) \/ Terminate(pid)
      PROVE  ToldInv'
    BY <1>1 DEF Spawn, Terminate
<1>2. CASE StartScan \/ ScanFails \/ Finish
    BY <1>2 DEF StartScan, ScanFails, Finish
<1>3. ASSUME NEW pid \in Pids,
             ReadProcess(pid) \/ ReadPartly(pid) \/ PassOver(pid) \/ Skip(pid)
      PROVE  ToldInv'
    BY <1>3 DEF ReadProcess, ReadPartly, PassOver, Skip
<1>4. CASE EndScan
    BY <1>4 DEF EndScan
<1>5. ASSUME NEW p \in Processes, SendAlert(p) \/ SendAlertFails(p)
      PROVE  ToldInv'
    BY <1>5 DEF SendAlert, SendAlertFails
<1>6. CASE Restart
    BY <1>6 DEF Restart
<1>7. CASE UNCHANGED vars
    BY <1>7 DEF vars
<1> QED
    BY <1>1, <1>2, <1>3, <1>4, <1>5, <1>6, <1>7 DEF Next, Windows, Agent, Failure

LEMMA SlipStep == IInv /\ [Next]_vars => NothingSlipsBy'
<1> SUFFICES ASSUME IInv, [Next]_vars PROVE NothingSlipsBy'
    OBVIOUS
<1> USE ProcessAssumption DEF IInv, TypeOK, BornInv, ScanInv, CacheInv, NothingSlipsBy, Processes, NoProcesses, Alive, worldVars, scanVars, sawVars, runVars
<1>1. ASSUME NEW pid \in Pids, NEW bad \in BOOLEAN, Spawn(pid, bad)
     PROVE  NothingSlipsBy'
    BY <1>1 DEF Spawn
<1>2. ASSUME NEW pid \in Pids, Terminate(pid)
     PROVE  NothingSlipsBy'
    BY <1>2 DEF Terminate
<1>3. CASE StartScan
    BY <1>3 DEF StartScan
<1>4. ASSUME NEW pid \in Pids, ReadProcess(pid)
     PROVE  NothingSlipsBy'
    BY <1>4 DEF ReadProcess, Record
<1>5. ASSUME NEW pid \in Pids, ReadPartly(pid)
     PROVE  NothingSlipsBy'
    BY <1>5 DEF ReadPartly, Record
<1>6. ASSUME NEW pid \in Pids, PassOver(pid)
     PROVE  NothingSlipsBy'
    BY <1>6 DEF PassOver
<1>7. ASSUME NEW pid \in Pids, Skip(pid)
     PROVE  NothingSlipsBy'
    BY <1>7 DEF Skip
<1>8. CASE ScanFails
    BY <1>8 DEF ScanFails
<1>9. CASE EndScan
    BY <1>9 DEF EndScan, NewPids
<1>10. ASSUME NEW p \in Processes, SendAlert(p)
     PROVE  NothingSlipsBy'
    BY <1>10 DEF SendAlert
<1>11. ASSUME NEW p \in Processes, SendAlertFails(p)
     PROVE  NothingSlipsBy'
    BY <1>11 DEF SendAlertFails
<1>12. CASE Finish
    BY <1>12 DEF Finish
<1>13. CASE Restart
    BY <1>13 DEF Restart
<1>14. CASE UNCHANGED vars
    BY <1>14 DEF vars
<1> QED
    BY <1>1, <1>2, <1>3, <1>4, <1>5, <1>6, <1>7, <1>8, <1>9, <1>10, <1>11, <1>12, <1>13, <1>14
    DEF Next, Windows, Agent, Failure

LEMMA RepeatStep == IInv /\ [Next]_vars => OneAlertPerLife'
<1> SUFFICES ASSUME IInv, [Next]_vars PROVE OneAlertPerLife'
    OBVIOUS
<1> USE ProcessAssumption DEF IInv, TypeOK, ScanInv, OneAlertPerLife, Processes, NoProcesses, worldVars, scanVars, sawVars, runVars
<1>1. ASSUME NEW pid \in Pids, NEW bad \in BOOLEAN, Spawn(pid, bad)
     PROVE  OneAlertPerLife'
    BY <1>1 DEF Spawn
<1>2. ASSUME NEW pid \in Pids, Terminate(pid)
     PROVE  OneAlertPerLife'
    BY <1>2 DEF Terminate
<1>3. CASE StartScan
    BY <1>3 DEF StartScan
<1>4. ASSUME NEW pid \in Pids, ReadProcess(pid)
     PROVE  OneAlertPerLife'
    BY <1>4 DEF ReadProcess, Record
<1>5. ASSUME NEW pid \in Pids, ReadPartly(pid)
     PROVE  OneAlertPerLife'
    BY <1>5 DEF ReadPartly, Record
<1>6. ASSUME NEW pid \in Pids, PassOver(pid)
     PROVE  OneAlertPerLife'
    BY <1>6 DEF PassOver
<1>7. ASSUME NEW pid \in Pids, Skip(pid)
     PROVE  OneAlertPerLife'
    BY <1>7 DEF Skip
<1>8. CASE ScanFails
    BY <1>8 DEF ScanFails
<1>9. CASE EndScan
    BY <1>9 DEF EndScan, NewPids
<1>10. ASSUME NEW p \in Processes, SendAlert(p)
     PROVE  OneAlertPerLife'
    BY <1>10 DEF SendAlert
<1>11. ASSUME NEW p \in Processes, SendAlertFails(p)
     PROVE  OneAlertPerLife'
    BY <1>11 DEF SendAlertFails
<1>12. CASE Finish
    BY <1>12 DEF Finish
<1>13. CASE Restart
    BY <1>13 DEF Restart
<1>14. CASE UNCHANGED vars
    BY <1>14 DEF vars
<1> QED
    BY <1>1, <1>2, <1>3, <1>4, <1>5, <1>6, <1>7, <1>8, <1>9, <1>10, <1>11, <1>12, <1>13, <1>14
    DEF Next, Windows, Agent, Failure

-----------------------------------------------------------------------------

\* The inductive invariant holds in every reachable state.
THEOREM Invariance == Spec => []IInv
<1>1. Init => IInv
    BY InitEstablishes
<1>2. IInv /\ [Next]_vars => IInv'
    BY TypeStep, BornStep, PidStep, ScanStep, CacheStep, AlertStep, ToldStep, SlipStep, RepeatStep
    DEF IInv
<1> QED
    BY <1>1, <1>2, PTL DEF Spec

\* Every variable keeps its type.
THEOREM TypeCorrect == Spec => []TypeOK
<1>1. IInv => TypeOK
    BY DEF IInv
<1> QED
    BY <1>1, Invariance, PTL

\* check_processes: a suspicious process that lives through a scan has its alert,
\* was passed over, or was hidden at its first sight.
THEOREM NoneSlipsBy == Spec => []NothingSlipsBy
<1>1. IInv => NothingSlipsBy
    BY DEF IInv
<1> QED
    BY <1>1, Invariance, PTL

\* check_processes: a second alert for one process only after a scan that passed it
\* over.
THEOREM AlertedOncePerLife == Spec => []OneAlertPerLife
<1>1. IInv => OneAlertPerLife
    BY DEF IInv
<1> QED
    BY <1>1, Invariance, PTL

\* check_processes and run_process_check: what the cache keeps from further scans
\* has had its alert, or was hidden at its first sight.
THEOREM WhatIsCachedIsTold == Spec => []CachedIsTold
<1>1. IInv => CachedIsTold
    BY DEF IInv, CacheInv, ToldInv, CachedIsTold
<1> QED
    BY <1>1, Invariance, PTL

=============================================================================
