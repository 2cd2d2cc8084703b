---------------------------- MODULE IOCEngineProofs ----------------------------
(***************************************************************************)
(* For any PIDs, processes, rules, pages, changes and failures: a scan       *)
(* misses no process that could be read and lived through it, and blames     *)
(* none on a parent that is not its own while the true one still has its PID.*)
(***************************************************************************)
EXTENDS IOCEngine, TLAPS

\* Births are numbered, a process keeps its PID, and its parent is older.
WorldInv ==
    /\ \A pid \in Pids : table[pid] <= born /\ (table[pid] # 0 => home[table[pid]] = pid)
    /\ \A p \in Processes : parent[p] <= born

\* What the scan has read under a PID had that PID, and a process that has lived
\* since the scan began is what was read under its PID.
SnapInv ==
    /\ \A pid \in Pids :
        /\ snap[pid] <= born
        /\ snap[pid] # 0 => home[snap[pid]] = pid
        /\ pid \in todo => snap[pid] = 0
        /\ snap[pid] = 0 => holder[pid] = 0
        /\ table[pid] \in witnessed => snap[pid] \in {0, table[pid]}
    /\ \A p \in witnessed : p <= born

\* The name that was found for a parent is the parent's, if that has lived since
\* the scan began.
HolderInv ==
    \A pid \in Pids : \A q \in witnessed :
        (snap[pid] # 0 /\ q = parent[snap[pid]] /\ table[home[q]] = q) => holder[pid] \in {0, q}

\* Between scans nothing is left of one, and alerts are about those that were born.
MadeInv ==
    /\ pc = "idle" => todo = {} /\ snap = NoProcesses /\ holder = NoProcesses
    /\ pc # "alerts" => made = {}
    /\ \A p \in Processes : <<"parent", p>> \in made => p <= born

\* The type invariant in parts.
WorldTypes ==
    /\ table \in [Pids -> 0..MaxProcesses]
    /\ born \in 0..MaxProcesses
    /\ home \in [Processes -> Pids]
    /\ parent \in [Processes -> 0..MaxProcesses]
    /\ bad \subseteq Processes

ScanTypes ==
    /\ pc \in {"idle", "scan", "alerts"}
    /\ todo \subseteq Pids
    /\ snap \in [Pids -> 0..MaxProcesses]
    /\ nameless \subseteq Processes
    /\ holder \in [Pids -> 0..MaxProcesses]
    /\ witnessed \subseteq Processes
    /\ made \subseteq Alerts

OtherTypes ==
    /\ active \subseteq Rules
    /\ changes \in 0..MaxChanges
    /\ cache \subseteq Rules
    /\ alerts \subseteq Alerts
    /\ told \subseteq Alerts
    /\ faults \in 0..MaxFaults

IInv ==
    /\ TypeOK
    /\ WorldInv
    /\ SnapInv
    /\ HolderInv
    /\ MadeInv
    /\ NoMatchMissed
    /\ ParentsTrue

-----------------------------------------------------------------------------

\* What Matches says of an alert.
LEMMA MatchesAre ==
    ASSUME TypeOK, NEW found \in BOOLEAN
    PROVE  /\ Matches(found) \subseteq Alerts
           /\ \A pid \in Pids : snap[pid] \in bad \ nameless => <<"attribute", snap[pid]>> \in Matches(found)
           /\ \A pid \in Pids : (snap[pid] # 0 /\ ParentOf(pid) \in bad)
                                  => <<"parent", snap[pid]>> \in Matches(found)
           /\ \A p : <<"parent", p>> \in Matches(found)
                  => \E pid \in Pids : snap[pid] = p /\ p # 0 /\ ParentOf(pid) \in bad
<1> USE DEF Matches, OwnMatches, ParentMatches, OutsideMatches
<1>1. Matches(found) \subseteq Alerts
    BY DEF TypeOK, Alerts, Processes
<1>2. \A pid \in Pids : snap[pid] \in bad \ nameless => <<"attribute", snap[pid]>> \in Matches(found)
    OBVIOUS
<1>3. \A pid \in Pids : (snap[pid] # 0 /\ ParentOf(pid) \in bad) => <<"parent", snap[pid]>> \in Matches(found)
    OBVIOUS
<1>4. \A p : <<"parent", p>> \in Matches(found)
                 => \E pid \in Pids : snap[pid] = p /\ p # 0 /\ ParentOf(pid) \in bad
    OBVIOUS
<1> QED
    BY <1>1, <1>2, <1>3, <1>4

LEMMA InitEstablishes == Init => IInv
<1> SUFFICES ASSUME Init PROVE IInv
    OBVIOUS
<1> USE IOCAssumption DEF Init, NoProcesses, Processes
<1>1. TypeOK
  <2>1. table \in [Pids -> 0..MaxProcesses] /\ snap = table /\ holder = table
    OBVIOUS
  <2>2. parent \in [Processes -> 0..MaxProcesses] /\ born \in 0..MaxProcesses
    OBVIOUS
  <2>3. changes \in 0..MaxChanges /\ faults \in 0..MaxFaults
    OBVIOUS
  <2>4. outside \in BOOLEAN
    OBVIOUS
  <2> QED
    BY <2>1, <2>2, <2>3, <2>4 DEF TypeOK
<1>2. WorldInv
    BY DEF WorldInv
<1>3. SnapInv /\ HolderInv
    BY DEF SnapInv, HolderInv
<1>4. MadeInv /\ NoMatchMissed /\ ParentsTrue
    BY DEF MadeInv, NoMatchMissed, ParentsTrue
<1> QED
    BY <1>1, <1>2, <1>3, <1>4 DEF IInv

-----------------------------------------------------------------------------
\* The steps that matter, and what the others leave alone.
Scanned == <<table, born, home, parent, bad, todo, snap, nameless, holder, witnessed, pc, made>>

QuietStep == UNCHANGED <<Scanned, cache>>
FetchStep == pc = "idle" /\ UNCHANGED Scanned
DropStep == DropScan /\ UNCHANGED <<table, born, home, parent, bad>>

LEMMA Steps ==
    ASSUME TypeOK, [Next]_vars
    PROVE  \/ \E pid \in Pids : \/ Terminate(pid) \/ \E p \in 0..MaxProcesses : Spawn(pid, p)
                               \/ ReadProcess(pid) \/ ReadPartly(pid) \/ PassOver(pid)
           \/ \E found \in BOOLEAN : Match(found)
           \/ StartScan \/ QuietStep \/ FetchStep \/ DropStep
<1> USE DEF worldVars, scanVars
<1>1. CASE World
  <2>1. SetOutside \/ (\E r \in Rules : SetRule(r)) => QuietStep
    BY DEF SetOutside, SetRule, QuietStep, Scanned
  <2> QED
    BY <1>1, <2>1 DEF World
<1>2. CASE IOCJob \/ FetchFails
    BY <1>2 DEF IOCJob, Fetch, FetchFails, FetchStep, Scanned
<1>3. CASE Finish \/ ScanFails \/ Restart
    BY <1>3 DEF Finish, ScanFails, Restart, DropStep
<1>4. CASE \E a \in Alerts : SendAlert(a) \/ SendAlertFails(a)
    BY <1>4 DEF SendAlert, SendAlertFails, QuietStep, Scanned
<1>5. CASE UNCHANGED vars
    BY <1>5 DEF vars, QuietStep, Scanned
<1>6. CASE Match(outside)
  <2>1. outside \in BOOLEAN
    BY DEF TypeOK
  <2> QED
    BY <1>6, <2>1
<1> QED
    BY <1>1, <1>2, <1>3, <1>4, <1>5, <1>6 DEF Next, ProcessJob, Failure

\* A birth changes nothing of the processes before.
Birth(pid) ==
    /\ born + 1 \in Processes /\ born' = born + 1 /\ table[pid] = 0
    /\ \A x \in Pids : table'[x] = IF x = pid THEN born + 1 ELSE table[x]
    /\ \A q \in Processes : q # born + 1 => home'[q] = home[q] /\ parent'[q] = parent[q]
    /\ home'[born + 1] = pid /\ parent'[born + 1] \in 0..born
    /\ \A q \in Alive' : q = born + 1 \/ q \in Alive

LEMMA SpawnIs ==
    ASSUME IInv, NEW pid \in Pids, NEW p \in 0..MaxProcesses, Spawn(pid, p)
    PROVE  Birth(pid)
<1> USE IOCAssumption DEF IInv, TypeOK, Processes, Alive, WorldInv
<1>1. born + 1 \in Processes /\ born' = born + 1 /\ table[pid] = 0
    BY DEF Spawn
<1>2. \A x \in Pids : table'[x] = IF x = pid THEN born + 1 ELSE table[x]
    BY DEF Spawn
<1>3. \A q \in Processes : q # born + 1 => home'[q] = home[q] /\ parent'[q] = parent[q]
    BY DEF Spawn
<1>4. home'[born + 1] = pid /\ parent'[born + 1] = p
    BY <1>1 DEF Spawn
<1>5. p \in 0..born
    BY DEF Spawn
<1>6. \A q \in Alive' : q = born + 1 \/ q \in Alive
    BY <1>2
<1> QED
    BY <1>1, <1>2, <1>3, <1>4, <1>5, <1>6 DEF Birth

Death(pid) ==
    /\ \A x \in Pids : table'[x] = IF x = pid THEN 0 ELSE table[x]
    /\ Alive' \subseteq Alive

LEMMA TerminateIs ==
    ASSUME IInv, NEW pid \in Pids, Terminate(pid)
    PROVE  Death(pid)
<1>1. \A x \in Pids : table'[x] = IF x = pid THEN 0 ELSE table[x]
    BY DEF IInv, TypeOK, Terminate
<1> QED
    BY <1>1 DEF Alive, Death

LEMMA WorldTypesStep == TypeOK /\ [Next]_vars => WorldTypes'
<1> SUFFICES ASSUME TypeOK, WorldTypes, [Next]_vars PROVE WorldTypes'
    BY DEF TypeOK, WorldTypes
<1> USE IOCAssumption DEF WorldTypes, Processes
<1>1. ASSUME NEW pid \in Pids, Terminate(pid) PROVE WorldTypes'
  <2>1. table' = [table EXCEPT ![pid] = 0] /\ UNCHANGED <<born, home, parent, bad>>
    BY <1>1, Zenon DEF Terminate
  <2> QED
    BY <2>1
<1>2. ASSUME NEW pid \in Pids, NEW p \in 0..MaxProcesses, Spawn(pid, p) PROVE WorldTypes'
  <2>1. born + 1 \in Processes /\ born + 1 \in 0..MaxProcesses
    BY <1>2 DEF Spawn
  <2>2. table' \in [Pids -> 0..MaxProcesses] /\ born' \in 0..MaxProcesses
    BY <1>2, <2>1 DEF Spawn
  <2>3. home' \in [Processes -> Pids] /\ parent' \in [Processes -> 0..MaxProcesses]
    BY <1>2, <2>1 DEF Spawn
  <2> QED
    BY <1>2, <2>2, <2>3 DEF Spawn
<1>3. ASSUME NEW pid \in Pids, ReadProcess(pid) PROVE WorldTypes'
    BY <1>3 DEF ReadProcess, worldVars, scanVars, HolderOf
<1>4. ASSUME NEW pid \in Pids, ReadPartly(pid) PROVE WorldTypes'
    BY <1>4 DEF ReadPartly, worldVars, scanVars
<1>5. ASSUME NEW pid \in Pids, PassOver(pid) PROVE WorldTypes'
    BY <1>5 DEF PassOver, worldVars, scanVars
<1>6. ASSUME NEW found \in BOOLEAN, Match(found) PROVE WorldTypes'
    BY <1>6 DEF Match, worldVars, scanVars
<1>7. CASE StartScan
    BY <1>7 DEF StartScan, worldVars, Alive
<1>8. CASE QuietStep
    BY <1>8 DEF QuietStep, Scanned
<1>9. CASE FetchStep
    BY <1>9 DEF FetchStep, Scanned
<1>10. CASE DropStep
    BY <1>10 DEF DropStep, DropScan, NoProcesses
<1> QED
    BY Steps, <1>1, <1>2, <1>3, <1>4, <1>5, <1>6, <1>7, <1>8, <1>9, <1>10

LEMMA ScanTypesStep == TypeOK /\ [Next]_vars => ScanTypes'
<1> SUFFICES ASSUME TypeOK, [Next]_vars PROVE ScanTypes'
    OBVIOUS
<1> USE IOCAssumption DEF TypeOK, ScanTypes, Processes, NoProcesses
<1>1. ASSUME NEW pid \in Pids, Terminate(pid) PROVE ScanTypes'
    BY <1>1 DEF Terminate, worldVars, scanVars
<1>2. ASSUME NEW pid \in Pids, NEW p \in 0..MaxProcesses, Spawn(pid, p) PROVE ScanTypes'
    BY <1>2 DEF Spawn, worldVars, scanVars
<1>3. ASSUME NEW pid \in Pids, ReadProcess(pid) PROVE ScanTypes'
  <2>1. table[pid] \in Processes
    BY <1>3 DEF ReadProcess
  <2>2. HolderOf(table[pid]) \in 0..MaxProcesses
    BY <2>1 DEF HolderOf
  <2>3. snap' \in [Pids -> 0..MaxProcesses] /\ holder' \in [Pids -> 0..MaxProcesses]
    BY <1>3, <2>1, <2>2 DEF ReadProcess
  <2> QED
    BY <1>3, <2>3 DEF ReadProcess, worldVars
<1>4. ASSUME NEW pid \in Pids, ReadPartly(pid) PROVE ScanTypes'
  <2>1. table[pid] \in Processes
    BY <1>4 DEF ReadPartly
  <2>2. snap' \in [Pids -> 0..MaxProcesses] /\ nameless' \subseteq Processes
    BY <1>4, <2>1 DEF ReadPartly
  <2> QED
    BY <1>4, <2>2 DEF ReadPartly, worldVars
<1>5. ASSUME NEW pid \in Pids, PassOver(pid) PROVE ScanTypes'
    BY <1>5 DEF PassOver, worldVars, scanVars
<1>6. ASSUME NEW found \in BOOLEAN, Match(found) PROVE ScanTypes'
  <2>1. Matches(found) \subseteq Alerts
    BY MatchesAre
  <2> QED
    BY <1>6, <2>1 DEF Match, worldVars, scanVars
<1>7. CASE StartScan
    BY <1>7 DEF StartScan, worldVars, Alive
<1>8. CASE QuietStep
    BY <1>8 DEF QuietStep, Scanned
<1>9. CASE FetchStep
    BY <1>9 DEF FetchStep, Scanned
<1>10. CASE DropStep
    BY <1>10 DEF DropStep, DropScan, NoProcesses
<1> QED
    BY Steps, <1>1, <1>2, <1>3, <1>4, <1>5, <1>6, <1>7, <1>8, <1>9, <1>10

LEMMA OtherTypesStep == TypeOK /\ [Next]_vars => OtherTypes'
<1> SUFFICES ASSUME TypeOK, [Next]_vars PROVE OtherTypes'
    OBVIOUS
<1> USE IOCAssumption DEF TypeOK, OtherTypes, worldVars, scanVars, Fault, Changed
<1>1. ASSUME NEW pid \in Pids, Terminate(pid) PROVE OtherTypes'
    BY <1>1 DEF Terminate
<1>2. ASSUME NEW pid \in Pids, NEW p \in 0..MaxProcesses, Spawn(pid, p) PROVE OtherTypes'
    BY <1>2 DEF Spawn
<1>3. CASE SetOutside
    BY <1>3 DEF SetOutside
<1>4. ASSUME NEW r \in Rules, SetRule(r) PROVE OtherTypes'
    BY <1>4 DEF SetRule
<1>5. ASSUME NEW rules \in SUBSET Rules, Fetch(rules) PROVE OtherTypes'
    BY <1>5 DEF Fetch
<1>6. CASE FetchFails
    BY <1>6 DEF FetchFails
<1>7. CASE StartScan
    BY <1>7 DEF StartScan
<1>8. ASSUME NEW pid \in Pids, ReadProcess(pid) PROVE OtherTypes'
    BY <1>8 DEF ReadProcess
<1>9. ASSUME NEW pid \in Pids, ReadPartly(pid) PROVE OtherTypes'
    BY <1>9 DEF ReadPartly
<1>10. ASSUME NEW pid \in Pids, PassOver(pid) PROVE OtherTypes'
  <2>1. faults' \in 0..MaxFaults
    BY <1>10 DEF PassOver
  <2> QED
    BY <1>10, <2>1 DEF PassOver
<1>11. ASSUME NEW found \in BOOLEAN, Match(found) PROVE OtherTypes'
  <2>1. Matches(found) \subseteq Alerts
    BY MatchesAre
  <2>2. faults' \in 0..MaxFaults
    BY <1>11 DEF Match
  <2> QED
    BY <1>11, <2>1, <2>2 DEF Match
<1>12. ASSUME NEW a \in Alerts, SendAlert(a) PROVE OtherTypes'
    BY <1>12 DEF SendAlert
<1>13. ASSUME NEW a \in Alerts, SendAlertFails(a) PROVE OtherTypes'
    BY <1>13 DEF SendAlertFails
<1>14. CASE Finish
    BY <1>14 DEF Finish, DropScan
<1>15. CASE ScanFails
    BY <1>15 DEF ScanFails, DropScan
<1>16. CASE Restart
    BY <1>16 DEF Restart, DropScan
<1>17. CASE UNCHANGED vars
    BY <1>17 DEF vars
<1>18. outside \in BOOLEAN
    OBVIOUS
<1> QED
    BY <1>1, <1>2, <1>3, <1>4, <1>5, <1>6, <1>7, <1>8, <1>9, <1>10, <1>11, <1>12, <1>13, <1>14, <1>15, <1>16, <1>17, <1>18 DEF Next, World, IOCJob, ProcessJob, Failure

LEMMA TypeStep == IInv /\ [Next]_vars => TypeOK'
<1> SUFFICES ASSUME IInv, [Next]_vars PROVE TypeOK'
    OBVIOUS
<1>1. outside' = outside \/ outside' = ~outside
    BY DEF Next, World, IOCJob, ProcessJob, Failure, vars, worldVars, Terminate, Spawn, SetOutside, SetRule,
           Fetch, FetchFails, StartScan, ReadProcess, ReadPartly, PassOver, Match, SendAlert, SendAlertFails,
           Finish, ScanFails, Restart
<1>2. outside' \in BOOLEAN
    BY <1>1 DEF IInv, TypeOK
<1>3. WorldTypes' /\ ScanTypes' /\ OtherTypes'
    BY WorldTypesStep, ScanTypesStep, OtherTypesStep DEF IInv
<1> QED
    BY <1>2, <1>3 DEF TypeOK, WorldTypes, ScanTypes, OtherTypes

LEMMA WorldStep == IInv /\ [Next]_vars => WorldInv'
<1> SUFFICES ASSUME IInv, WorldTypes, WorldInv, [Next]_vars PROVE WorldInv'
    BY DEF IInv, TypeOK, WorldTypes
<1>t. TypeOK
    BY DEF IInv
<1> USE IOCAssumption DEF WorldTypes, WorldInv, Processes
<1>1. ASSUME NEW pid \in Pids, Terminate(pid) PROVE WorldInv'
  <2>1. UNCHANGED <<born, home, parent>>
    BY <1>1, Zenon DEF Terminate
  <2>2. \A x \in Pids : table'[x] \in {0, table[x]}
    BY <1>1, TerminateIs, Zenon DEF Death
  <2>3. \A x \in Pids : table'[x] <= born /\ (table'[x] # 0 => home[table'[x]] = x)
    BY <2>2
  <2> QED
    BY <2>1, <2>3
<1>2. ASSUME NEW pid \in Pids, NEW p \in 0..MaxProcesses, Spawn(pid, p) PROVE WorldInv'
  <2>0. Birth(pid)
    BY <1>2, SpawnIs
  <2>1. ASSUME NEW x \in Pids
        PROVE  table'[x] <= born' /\ (table'[x] # 0 => home'[table'[x]] = x)
    <3>1. CASE x = pid
      BY <2>0, <3>1 DEF Birth
    <3>2. CASE x # pid
      <4>1. table'[x] = table[x] /\ born' = born + 1
        BY <2>0, <3>2 DEF Birth
      <4>2. table[x] \in 0..born /\ (table[x] # 0 => table[x] \in Processes /\ home[table[x]] = x)
        OBVIOUS
      <4>3. table[x] # 0 => home'[table[x]] = home[table[x]]
        BY <2>0, <4>2 DEF Birth
      <4> QED
        BY <4>1, <4>2, <4>3
    <3> QED
      BY <3>1, <3>2
  <2>2. \A q \in Processes : parent'[q] <= born'
    <3>1. \A q \in Processes : q # born + 1 => parent'[q] = parent[q]
      BY <1>2 DEF Spawn
    <3>2. \A q \in Processes : parent[q] <= born + 1
      OBVIOUS
    <3>3. parent'[born + 1] <= born + 1 /\ born' = born + 1
      BY <2>0 DEF Birth
    <3> QED
      BY <3>1, <3>2, <3>3
  <2> QED
    BY <2>1, <2>2
<1>3. ASSUME NEW pid \in Pids, ReadProcess(pid) PROVE WorldInv'
    BY <1>3 DEF ReadProcess, worldVars, scanVars, HolderOf
<1>4. ASSUME NEW pid \in Pids, ReadPartly(pid) PROVE WorldInv'
    BY <1>4 DEF ReadPartly, worldVars, scanVars
<1>5. ASSUME NEW pid \in Pids, PassOver(pid) PROVE WorldInv'
    BY <1>5 DEF PassOver, worldVars, scanVars
<1>6. ASSUME NEW found \in BOOLEAN, Match(found) PROVE WorldInv'
    BY <1>6 DEF Match, worldVars, scanVars
<1>7. CASE StartScan
    BY <1>7 DEF StartScan, worldVars, Alive
<1>8. CASE QuietStep
    BY <1>8 DEF QuietStep, Scanned
<1>9. CASE FetchStep
    BY <1>9 DEF FetchStep, Scanned
<1>10. CASE DropStep
    BY <1>10 DEF DropStep, DropScan, NoProcesses
<1> QED
    BY Steps, <1>t, <1>1, <1>2, <1>3, <1>4, <1>5, <1>6, <1>7, <1>8, <1>9, <1>10

\* What was read had been born.
LEMMA ReadWasBorn ==
    ASSUME IInv, NEW pid \in Pids, snap[pid] # 0
    PROVE  snap[pid] \in Processes /\ snap[pid] <= born /\ snap[pid] # born + 1
<1>1. snap[pid] \in 0..MaxProcesses /\ snap[pid] <= born /\ born \in Nat
    BY DEF IInv, TypeOK, SnapInv
<1> QED
    BY <1>1, IOCAssumption DEF Processes

LEMMA SnapStep == IInv /\ [Next]_vars => SnapInv'
<1> SUFFICES ASSUME IInv, [Next]_vars PROVE SnapInv'
    OBVIOUS
<1> USE IOCAssumption DEF IInv, TypeOK, WorldInv, SnapInv, MadeInv, Processes, NoProcesses
<1>1. ASSUME NEW pid \in Pids, Terminate(pid) PROVE SnapInv'
    BY <1>1 DEF Terminate, worldVars, scanVars
<1>2. ASSUME NEW pid \in Pids, NEW p \in 0..MaxProcesses, Spawn(pid, p) PROVE SnapInv'
  <2>1. UNCHANGED <<bad, todo, snap, nameless, holder, witnessed, cache, pc, made>>
    BY <1>2 DEF Spawn, scanVars
  <2>0. Birth(pid)
    BY <1>2, SpawnIs
  <2>2. ASSUME NEW x \in Pids PROVE snap[x] <= born' /\ (snap[x] # 0 => home'[snap[x]] = x)
    <3>1. snap[x] <= born'
      BY <2>0 DEF Birth
    <3>2. snap[x] # 0 => home'[snap[x]] = home[snap[x]]
      BY <2>0, ReadWasBorn DEF Birth
    <3> QED
      BY <3>1, <3>2
  <2>3. \A x \in Pids : table'[x] \in witnessed => table'[x] = table[x]
    BY <2>0 DEF Birth
  <2>4. \A q \in witnessed' : q <= born'
    BY <2>0, <2>1 DEF Birth
  <2>5. \A x \in Pids : table'[x] \in witnessed' => snap'[x] \in {0, table'[x]}
    BY <2>1, <2>3
  <2> QED
    BY <2>1, <2>2, <2>4, <2>5
<1>3. ASSUME NEW pid \in Pids, ReadProcess(pid) PROVE SnapInv'
    BY <1>3 DEF ReadProcess, worldVars, scanVars, HolderOf
<1>4. ASSUME NEW pid \in Pids, ReadPartly(pid) PROVE SnapInv'
    BY <1>4 DEF ReadPartly, worldVars, scanVars
<1>5. ASSUME NEW pid \in Pids, PassOver(pid) PROVE SnapInv'
    BY <1>5 DEF PassOver, worldVars, scanVars
<1>6. ASSUME NEW found \in BOOLEAN, Match(found) PROVE SnapInv'
    BY <1>6 DEF Match, worldVars, scanVars
<1>7. CASE StartScan
    BY <1>7 DEF StartScan, worldVars, Alive
<1>8. CASE QuietStep
    BY <1>8 DEF QuietStep, Scanned
<1>9. CASE FetchStep
    BY <1>9 DEF FetchStep, Scanned
<1>10. CASE DropStep
    BY <1>10 DEF DropStep, DropScan, NoProcesses
<1> QED
    BY Steps, <1>1, <1>2, <1>3, <1>4, <1>5, <1>6, <1>7, <1>8, <1>9, <1>10

LEMMA HolderStep == IInv /\ [Next]_vars => HolderInv'
<1> SUFFICES ASSUME IInv, [Next]_vars PROVE HolderInv'
    OBVIOUS
<1> USE IOCAssumption DEF IInv, TypeOK, WorldInv, SnapInv, HolderInv, MadeInv, Processes, NoProcesses
<1>1. ASSUME NEW pid \in Pids, Terminate(pid) PROVE HolderInv'
  <2>1. UNCHANGED <<born, home, parent, bad, todo, snap, nameless, holder, witnessed, cache, pc, made>>
    BY <1>1 DEF Terminate, scanVars
  <2>0. Death(pid)
    BY <1>1, TerminateIs
  <2>2. ASSUME NEW q \in witnessed PROVE table'[home[q]] = q => table[home[q]] = q
    <3>1. q # 0 /\ home[q] \in Pids
      OBVIOUS
    <3> QED
      BY <2>0, <3>1, Zenon DEF Death
  <2> QED
    BY <2>1, <2>2
<1>2. ASSUME NEW pid \in Pids, NEW p \in 0..MaxProcesses, Spawn(pid, p) PROVE HolderInv'
  <2>1. UNCHANGED <<bad, todo, snap, nameless, holder, witnessed, cache, pc, made>>
    BY <1>2 DEF Spawn, scanVars
  <2>0. Birth(pid)
    BY <1>2, SpawnIs
  <2>2. ASSUME NEW q \in witnessed PROVE home'[q] = home[q] /\ (table'[home[q]] = q => table[home[q]] = q)
    <3>1. q \in Processes /\ q # born + 1
      OBVIOUS
    <3> QED
      BY <2>0, <3>1 DEF Birth
  <2>3. ASSUME NEW x \in Pids, snap[x] # 0 PROVE parent'[snap[x]] = parent[snap[x]]
    <3>1. snap[x] \in Processes /\ snap[x] # born + 1
      BY <2>3, ReadWasBorn
    <3> QED
      BY <2>0, <3>1 DEF Birth
  <2> QED
    BY <2>1, <2>2, <2>3
<1>3. ASSUME NEW pid \in Pids, ReadProcess(pid) PROVE HolderInv'
    BY <1>3 DEF ReadProcess, worldVars, scanVars, HolderOf
<1>4. ASSUME NEW pid \in Pids, ReadPartly(pid) PROVE HolderInv'
    BY <1>4 DEF ReadPartly, worldVars, scanVars
<1>5. ASSUME NEW pid \in Pids, PassOver(pid) PROVE HolderInv'
    BY <1>5 DEF PassOver, worldVars, scanVars
<1>6. ASSUME NEW found \in BOOLEAN, Match(found) PROVE HolderInv'
    BY <1>6 DEF Match, worldVars, scanVars
<1>7. CASE StartScan
    BY <1>7 DEF StartScan, worldVars, Alive
<1>8. CASE QuietStep
    BY <1>8 DEF QuietStep, Scanned
<1>9. CASE FetchStep
    BY <1>9 DEF FetchStep, Scanned
<1>10. CASE DropStep
    BY <1>10 DEF DropStep, DropScan, NoProcesses
<1> QED
    BY Steps, <1>1, <1>2, <1>3, <1>4, <1>5, <1>6, <1>7, <1>8, <1>9, <1>10

LEMMA MadeStep == IInv /\ [Next]_vars => MadeInv'
<1> SUFFICES ASSUME IInv, [Next]_vars PROVE MadeInv'
    OBVIOUS
<1> USE IOCAssumption DEF IInv, TypeOK, SnapInv, MadeInv, Processes, NoProcesses
<1>1. ASSUME NEW pid \in Pids, Terminate(pid) PROVE MadeInv'
    BY <1>1 DEF Terminate, worldVars, scanVars
<1>2. ASSUME NEW pid \in Pids, NEW p \in 0..MaxProcesses, Spawn(pid, p) PROVE MadeInv'
  <2>1. UNCHANGED <<bad, todo, snap, nameless, holder, witnessed, cache, pc, made>>
    BY <1>2 DEF Spawn, scanVars
  <2>0. Birth(pid)
    BY <1>2, SpawnIs
  <2>2. \A q \in Processes : <<"parent", q>> \in made => q <= born'
    BY <2>0 DEF Birth
  <2> QED
    BY <2>1, <2>2
<1>3. ASSUME NEW pid \in Pids, ReadProcess(pid) PROVE MadeInv'
    BY <1>3 DEF ReadProcess, worldVars, scanVars, HolderOf
<1>4. ASSUME NEW pid \in Pids, ReadPartly(pid) PROVE MadeInv'
    BY <1>4 DEF ReadPartly, worldVars, scanVars
<1>5. ASSUME NEW pid \in Pids, PassOver(pid) PROVE MadeInv'
    BY <1>5 DEF PassOver, worldVars, scanVars
<1>6. ASSUME NEW found \in BOOLEAN, Match(found) PROVE MadeInv'
  <2>1. \A q : <<"parent", q>> \in made' => \E pid \in Pids : snap[pid] = q
    BY <1>6, MatchesAre DEF Match
  <2>2. born' = born /\ pc' = "alerts"
    BY <1>6 DEF Match, worldVars
  <2>3. \A q \in Processes : <<"parent", q>> \in made' => q <= born'
    BY <2>1, <2>2
  <2> QED
    BY <2>2, <2>3
<1>7. CASE StartScan
    BY <1>7 DEF StartScan, worldVars, Alive
<1>8. CASE QuietStep
    BY <1>8 DEF QuietStep, Scanned
<1>9. CASE FetchStep
    BY <1>9 DEF FetchStep, Scanned
<1>10. CASE DropStep
    BY <1>10 DEF DropStep, DropScan, NoProcesses
<1> QED
    BY Steps, <1>1, <1>2, <1>3, <1>4, <1>5, <1>6, <1>7, <1>8, <1>9, <1>10

LEMMA MissedStep == IInv /\ [Next]_vars => NoMatchMissed'
<1> SUFFICES ASSUME IInv, [Next]_vars PROVE NoMatchMissed'
    OBVIOUS
<1> USE IOCAssumption DEF IInv, TypeOK, NoMatchMissed
<1>1. ASSUME NEW pid \in Pids, Terminate(pid) PROVE NoMatchMissed'
  <2>1. UNCHANGED <<born, home, parent, bad, todo, snap, nameless, holder, witnessed, cache, pc, made>>
    BY <1>1 DEF Terminate, scanVars
  <2>0. Death(pid)
    BY <1>1, TerminateIs
  <2>2. Seen' \subseteq Seen
    BY <2>0, <2>1 DEF Seen, Death
  <2> QED
    BY <2>1, <2>2
<1>2. ASSUME NEW pid \in Pids, NEW p \in 0..MaxProcesses, Spawn(pid, p) PROVE NoMatchMissed'
  <2>1. UNCHANGED <<bad, todo, snap, nameless, holder, witnessed, cache, pc, made>>
    BY <1>2 DEF Spawn, scanVars
  <2>0. Birth(pid)
    BY <1>2, SpawnIs
  <2>2. Seen' \subseteq Seen
    BY <2>0, <2>1 DEF Seen, SnapInv, Birth
  <2>3. \A q \in Seen : q \in Processes /\ q <= born
    BY DEF Seen, SnapInv
  <2>4. \A q \in Seen : parent'[q] = parent[q]
    BY <2>0, <2>3 DEF Birth
  <2> QED
    BY <2>1, <2>2, <2>4
<1>3. ASSUME NEW pid \in Pids, ReadProcess(pid) PROVE NoMatchMissed'
    BY <1>3 DEF ReadProcess, worldVars, scanVars, HolderOf
<1>4. ASSUME NEW pid \in Pids, ReadPartly(pid) PROVE NoMatchMissed'
    BY <1>4 DEF ReadPartly, worldVars, scanVars
<1>5. ASSUME NEW pid \in Pids, PassOver(pid) PROVE NoMatchMissed'
    BY <1>5 DEF PassOver, worldVars, scanVars
<1>6. ASSUME NEW found \in BOOLEAN, Match(found) PROVE NoMatchMissed'
  <2>1. UNCHANGED <<table, parent, bad, snap, nameless, witnessed, cache>>
    BY <1>6 DEF Match, worldVars, scanVars
  <2>2. Seen' = Seen
    BY <2>1 DEF Seen, Alive
  <2>3. made' = {m \in Matches(found) : m[1] \in cache}
    BY <1>6 DEF Match
  <2>4. ASSUME NEW q \in Seen, "attribute" \in cache, q \in bad \ nameless PROVE <<"attribute", q>> \in made'
    <3>1. PICK x \in Pids : snap[x] = q
      BY <2>4 DEF Seen
    <3>2. <<"attribute", q>> \in Matches(found)
      BY <2>4, <3>1, MatchesAre
    <3> QED
      BY <2>3, <2>4, <3>2
  <2>5. ASSUME NEW q \in Seen, "parent" \in cache, parent[q] \in (Seen \cap bad) \ nameless
        PROVE <<"parent", q>> \in made'
    <3>1. PICK x \in Pids : snap[x] = q /\ q # 0
      BY <2>5 DEF Seen, Alive
    <3>2. PICK y \in Pids : snap[y] = parent[q] /\ parent[q] # 0
      BY <2>5 DEF Seen, Alive
    <3>3. home[parent[q]] = y
      BY <3>2 DEF SnapInv
    <3>4. ParentOf(x) = parent[q]
      BY <2>5, <3>1, <3>2, <3>3 DEF ParentOf
    <3>5. <<"parent", q>> \in Matches(found)
      BY <2>5, <3>1, <3>4, MatchesAre
    <3> QED
      BY <2>3, <2>5, <3>5
  <2> QED
    BY <2>1, <2>2, <2>4, <2>5
<1>7. CASE StartScan
    BY <1>7 DEF StartScan, worldVars, Alive
<1>8. CASE QuietStep
  <2>2. Seen' = Seen
    BY <1>8 DEF QuietStep, Scanned, Seen, Alive
  <2> QED
    BY <1>8, <2>2 DEF QuietStep, Scanned
<1>9. CASE FetchStep
    BY <1>9 DEF FetchStep, Scanned
<1>10. CASE DropStep
    BY <1>10 DEF DropStep, DropScan, NoProcesses
<1> QED
    BY Steps, <1>1, <1>2, <1>3, <1>4, <1>5, <1>6, <1>7, <1>8, <1>9, <1>10

LEMMA ParentsStep == IInv /\ [Next]_vars => ParentsTrue'
<1> SUFFICES ASSUME IInv, [Next]_vars PROVE ParentsTrue'
    OBVIOUS
<1> USE IOCAssumption DEF IInv, TypeOK, ParentsTrue
<1>1. ASSUME NEW pid \in Pids, Terminate(pid) PROVE ParentsTrue'
  <2>1. UNCHANGED <<born, home, parent, bad, todo, snap, nameless, holder, witnessed, cache, pc, made>>
    BY <1>1 DEF Terminate, scanVars
  <2>0. Death(pid)
    BY <1>1, TerminateIs
  <2>2. Alive' \subseteq Alive
    BY <2>0 DEF Death
  <2> QED
    BY <2>1, <2>2
<1>2. ASSUME NEW pid \in Pids, NEW p \in 0..MaxProcesses, Spawn(pid, p) PROVE ParentsTrue'
  <2>1. UNCHANGED <<bad, todo, snap, nameless, holder, witnessed, cache, pc, made>>
    BY <1>2 DEF Spawn, scanVars
  <2>0. Birth(pid)
    BY <1>2, SpawnIs
  <2>2. \A q \in Alive' \cap witnessed : q \in Alive
    BY <2>0 DEF SnapInv, Processes, Birth
  <2>3. \A q \in Processes : <<"parent", q>> \in made => parent'[q] = parent[q]
    BY <2>0 DEF MadeInv, Birth
  <2> QED
    BY <2>1, <2>2, <2>3
<1>3. ASSUME NEW pid \in Pids, ReadProcess(pid) PROVE ParentsTrue'
    BY <1>3 DEF ReadProcess, worldVars, scanVars, HolderOf, Alive
<1>4. ASSUME NEW pid \in Pids, ReadPartly(pid) PROVE ParentsTrue'
    BY <1>4 DEF ReadPartly, worldVars, scanVars, Alive
<1>5. ASSUME NEW pid \in Pids, PassOver(pid) PROVE ParentsTrue'
    BY <1>5 DEF PassOver, worldVars, scanVars, Alive
<1>6. ASSUME NEW found \in BOOLEAN, Match(found) PROVE ParentsTrue'
  <2>1. UNCHANGED <<table, parent, bad, witnessed>>
    BY <1>6 DEF Match, worldVars, scanVars
  <2>2. Alive' = Alive
    BY <2>1 DEF Alive
  <2>3. made' = {m \in Matches(found) : m[1] \in cache}
    BY <1>6 DEF Match
  <2>4. ASSUME NEW p \in Processes, <<"parent", p>> \in made', parent[p] \in Alive \cap witnessed
        PROVE parent[p] \in bad
    <3>1. PICK x \in Pids : snap[x] = p /\ p # 0 /\ ParentOf(x) \in bad
      BY <2>3, <2>4, MatchesAre
    <3>2. PICK y \in Pids : table[y] = parent[p] /\ parent[p] # 0
      BY <2>4 DEF Alive
    <3>3. home[parent[p]] = y
      BY <3>2 DEF WorldInv
    <3>4. snap[y] \in {0, parent[p]}
      BY <2>4, <3>2 DEF SnapInv
    <3>5. holder[x] \in {0, parent[p]}
      BY <2>4, <3>1, <3>2, <3>3 DEF HolderInv
    <3>6. ParentOf(x) \in {0, parent[p]}
      BY <3>1, <3>2, <3>3, <3>4, <3>5 DEF ParentOf
    <3>7. 0 \notin bad
      BY DEF Processes
    <3> QED
      BY <3>1, <3>6, <3>7
  <2> QED
    BY <2>1, <2>2, <2>4
<1>7. CASE StartScan
  <2>1. made = {} /\ UNCHANGED <<parent, bad, made>>
    BY <1>7 DEF StartScan, worldVars, MadeInv
  <2> QED
    BY <2>1
<1>8. CASE QuietStep
    BY <1>8 DEF QuietStep, Scanned, Alive
<1>9. CASE FetchStep
    BY <1>9 DEF FetchStep, Scanned, Alive
<1>10. CASE DropStep
    BY <1>10 DEF DropStep, DropScan, NoProcesses, Alive
<1> QED
    BY Steps, <1>1, <1>2, <1>3, <1>4, <1>5, <1>6, <1>7, <1>8, <1>9, <1>10

THEOREM Invariance == Spec => []IInv
<1>1. IInv /\ [Next]_vars => IInv'
    BY TypeStep, WorldStep, SnapStep, HolderStep, MadeStep, MissedStep, ParentsStep DEF IInv
<1> QED
    BY InitEstablishes, <1>1, PTL DEF Spec

-----------------------------------------------------------------------------

\* Every variable keeps its type.
THEOREM TypeCorrect == Spec => []TypeOK
<1>1. IInv => TypeOK
    BY DEF IInv
<1> QED
    BY Invariance, <1>1, PTL

\* scan_system with the telemetry of check_processes: no process that lived through
\* the scan and was read is missed, nor one whose parent did and was.
THEOREM NothingMissed == Spec => []NoMatchMissed
<1>1. IInv => NoMatchMissed
    BY DEF IInv
<1> QED
    BY Invariance, <1>1, PTL

\* The parent lookup of scan_system and of get_process_info: a PID that has passed
\* on leads to a wrong parent only if the true one ended, or the scan is older.
THEOREM NoFalseParent == Spec => []ParentsTrue
<1>1. IInv => ParentsTrue
    BY DEF IInv
<1> QED
    BY Invariance, <1>1, PTL

=============================================================================
