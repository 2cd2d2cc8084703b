------------------------------ MODULE IOCEngine ------------------------------
(***************************************************************************)
(* The IOC engine (agent/modules/ioc_engine.py): its cache of the backend's *)
(* rules (run_ioc_update, get_active_iocs) and the matching in the process  *)
(* job (run_process_check), beside processes that come and go.              *)
(*                                                                         *)
(* There is one rule of each sort: "attribute" stands for the hash, file    *)
(* name, path and command line, which compare a field of the process that   *)
(* was read; "parent" is the parent's name; "outside" stands for addresses  *)
(* and registry values, which are looked up when the rules are matched.  A  *)
(* process is the number of its birth; its own fields match or not.         *)
(*                                                                         *)
(* The scan is ProcessMonitor's: PIDs first, then one process after the     *)
(* other.  A record holds the PID of the parent and the name that was found *)
(* under it just then.  Failures use one of MaxFaults faults each.          *)
(***************************************************************************)
EXTENDS Integers, FiniteSets

CONSTANTS
    Pids,         \* the process identifiers, used again when they are free
    MaxProcesses, \* bound: processes that are ever born
    PageSize,     \* rules in an answer of the backend
    MaxChanges,   \* bound: changes of rules, of connections and registry
    MaxFaults     \* bound: failures of any sort

Processes == 1..MaxProcesses

ASSUME IOCAssumption ==
    /\ MaxProcesses \in Nat
    /\ PageSize \in Nat
    /\ MaxChanges \in Nat
    /\ MaxFaults \in Nat

Rules == {"attribute", "parent", "outside"}

\* What an alert is about: a rule and a process, or no process.
Alerts == ({"attribute", "parent"} \X Processes) \cup {<<"outside", 0>>}

VARIABLES
    table,    \* table[pid]: the process that runs under pid
    born,     \* how many processes have been born
    home,     \* home[p]: the PID of p
    parent,   \* parent[p]: the process that started p
    bad,      \* the processes whose own fields match, when they are born
    outside,  \* is there a connection or registry value that matches
    active,   \* the rules that are active in the backend
    changes,  \* how many changes there have been
    cache,    \* self.active_iocs
    pc,       \* where the job is
    todo,     \* the listed PIDs the scan has still to read
    snap,     \* snap[pid]: the process in the telemetry
    nameless, \* the processes read without their fields
    holder,   \* holder[pid]: the process whose name is in parent_name
    alerts,   \* the alerts still to send
    told,     \* the alerts the backend has had about living processes
    faults    \* how many failures have happened

\* History, read by the properties only.
VARIABLES
    witnessed, \* the processes alive when the scan listed the PIDs
    made       \* the alerts the scan has made

worldVars == <<table, born, home, parent, bad, outside, active, changes>>
scanVars  == <<todo, snap, nameless, holder, witnessed>>
vars == <<worldVars, scanVars, cache, pc, alerts, told, faults, made>>

NoProcesses == [pid \in Pids |-> 0]

Alive == {table[pid] : pid \in Pids} \ {0}

Fault == faults < MaxFaults /\ faults' = faults + 1

Init ==
    /\ table = NoProcesses
    /\ born = 0
    /\ home \in [Processes -> Pids]
    /\ parent = [p \in Processes |-> 0]
    /\ bad \in SUBSET Processes
    /\ outside = FALSE
    /\ active \in SUBSET Rules
    /\ changes = 0
    /\ cache = {}
    /\ pc = "idle"
    /\ todo = {} /\ snap = NoProcesses /\ nameless = {} /\ holder = NoProcesses
    /\ witnessed = {}
    /\ alerts = {} /\ made = {} /\ told = {}
    /\ faults = 0

-----------------------------------------------------------------------------
(* Slips: wrong forms of operators defined below, for no specification here. *)

\* A fetch that is ignored when the cache has rules already.
FetchOnce(rules) ==
    /\ pc = "idle"
    /\ rules \subseteq active
    /\ cache' = IF cache = {} THEN rules ELSE cache
    /\ UNCHANGED <<worldVars, scanVars, pc, alerts, told, faults, made>>

\* One match ends the walk through the processes.
MatchesFirst(found) ==
    LET own == {snap[pid] : pid \in Pids} \cap (bad \ nameless)
    IN  IF own # {} THEN {<<"attribute", CHOOSE p \in own : TRUE>>} ELSE {}

\* The index of processes by PID is kept for the next scan.
DropScanKeeps ==
    /\ pc' = "idle"
    /\ todo' = {} /\ nameless' = {} /\ holder' = NoProcesses
    /\ witnessed' = {}
    /\ alerts' = {} /\ made' = {}
    /\ UNCHANGED snap

-----------------------------------------------------------------------------
(* Windows and the backend.                                                  *)

Spawn(pid, p) ==
    /\ table[pid] = 0
    /\ born < MaxProcesses
    /\ p \in Alive \cup {0}
    /\ born' = born + 1
    /\ table' = [table EXCEPT ![pid] = born + 1]
    /\ home' = [home EXCEPT ![born + 1] = pid]
    /\ parent' = [parent EXCEPT ![born + 1] = p]
    /\ UNCHANGED <<bad, outside, active, changes, scanVars, cache, pc, alerts,
                   told, faults, made>>

Terminate(pid) ==
    /\ table[pid] # 0
    /\ table' = [table EXCEPT ![pid] = 0]
    /\ told' = {a \in told : a[2] # table[pid]}
    /\ UNCHANGED <<born, home, parent, bad, outside, active, changes, scanVars, cache, pc,
                   alerts, faults, made>>

Changed == changes < MaxChanges /\ changes' = changes + 1

SetOutside ==
    /\ Changed
    /\ outside' = ~outside
    /\ told' = told \ {<<"outside", 0>>}
    /\ UNCHANGED <<table, born, home, parent, bad, active, scanVars, cache, pc, alerts,
                   faults, made>>

\* An analyst switches a rule on or off.
SetRule(r) ==
    /\ Changed
    /\ active' = IF r \in active THEN active \ {r} ELSE active \cup {r}
    /\ UNCHANGED <<table, born, home, parent, bad, outside, scanVars, cache, pc,
                   alerts, told, faults, made>>

-----------------------------------------------------------------------------
(* run_ioc_update                                                            *)

\* get_active_iocs takes the list, or the first page of it if it comes in pages.
Fetch(rules) ==
    /\ pc = "idle"
    /\ rules \subseteq active
    /\ rules = active \/ Cardinality(rules) = PageSize
    /\ cache' = rules
    /\ UNCHANGED <<worldVars, scanVars, pc, alerts, told, faults, made>>

\* A GET that fails is an empty list, which replaces the cache.
FetchFails ==
    /\ pc = "idle"
    /\ Fault
    /\ cache' = {}
    /\ UNCHANGED <<worldVars, scanVars, pc, alerts, told, made>>

-----------------------------------------------------------------------------
(* run_process_check: the scan.                                              *)

StartScan ==
    /\ pc = "idle"
    /\ pc' = "scan"
    /\ todo' = {pid \in Pids : table[pid] # 0}
    /\ witnessed' = Alive
    /\ UNCHANGED <<worldVars, snap, nameless, holder, cache, alerts,
                   told, faults, made>>

\* psutil.Process(ppid): whoever has the PID now.
HolderOf(p) == IF parent[p] = 0 THEN 0 ELSE table[home[parent[p]]]

ReadProcess(pid) ==
    /\ pc = "scan"
    /\ pid \in todo
    /\ table[pid] # 0
    /\ todo' = todo \ {pid}
    /\ snap' = [snap EXCEPT ![pid] = table[pid]]
    /\ holder' = [holder EXCEPT ![pid] = HolderOf(table[pid])]
    /\ UNCHANGED <<worldVars, nameless, witnessed, cache, pc, alerts,
                   told, faults, made>>

\* Access is denied to its fields and to its parent: they are "Unknown".
ReadPartly(pid) ==
    /\ pc = "scan"
    /\ pid \in todo
    /\ table[pid] # 0
    /\ Fault
    /\ todo' = todo \ {pid}
    /\ snap' = [snap EXCEPT ![pid] = table[pid]]
    /\ nameless' = nameless \cup {table[pid]}
    /\ UNCHANGED <<worldVars, holder, witnessed, cache, pc, alerts,
                   told, made>>

\* The process is gone, or cannot be read at all.
PassOver(pid) ==
    /\ pc = "scan"
    /\ pid \in todo
    /\ IF table[pid] = 0 THEN UNCHANGED faults ELSE Fault
    /\ todo' = todo \ {pid}
    /\ UNCHANGED <<worldVars, snap, nameless, holder, witnessed, cache, pc,
                   alerts, told, made>>

-----------------------------------------------------------------------------
(* scan_system                                                               *)

\* The parent by the telemetry, and if it is not there by parent_name.
ParentOf(pid) ==
    LET p == snap[pid]
    IN  IF parent[p] # 0 /\ snap[home[parent[p]]] # 0
        THEN IF snap[home[parent[p]]] \in nameless THEN 0 ELSE snap[home[parent[p]]]
        ELSE holder[pid]

OwnMatches == {<<"attribute", p>> : p \in {snap[pid] : pid \in Pids} \cap (bad \ nameless)}

ParentMatches ==
    {<<"parent", snap[pid]>> : pid \in {x \in Pids : snap[x] # 0 /\ ParentOf(x) \in bad}}

OutsideMatches(found) == IF found THEN {<<"outside", 0>>} ELSE {}

\* What matches some rule; `found` tells of connections and the registry.
Matches(found) == OwnMatches \cup ParentMatches \cup OutsideMatches(found)

\* get_connections may break off and keep what it has so far; a registry value
\* that cannot be read does not exist.
Match(found) ==
    /\ pc = "scan"
    /\ todo = {}
    /\ found => outside
    /\ IF found = outside THEN UNCHANGED faults ELSE Fault
    /\ pc' = "alerts"
    /\ alerts' = {m \in Matches(found) : m[1] \in cache}
    /\ made' = alerts'
    /\ UNCHANGED <<worldVars, scanVars, cache, told>>

-----------------------------------------------------------------------------
(* The alerts go out one by one, then the scan is dropped.                   *)

SendAlert(a) ==
    /\ pc = "alerts"
    /\ a \in alerts
    /\ alerts' = alerts \ {a}
    /\ told' = {b \in told \cup {a} : b[2] \in Alive \cup {0}}
    /\ UNCHANGED <<worldVars, scanVars, cache, pc, faults, made>>

SendAlertFails(a) ==
    /\ pc = "alerts"
    /\ a \in alerts
    /\ Fault
    /\ alerts' = alerts \ {a}
    /\ UNCHANGED <<worldVars, scanVars, cache, pc, told, made>>

DropScan ==
    /\ pc' = "idle"
    /\ todo' = {} /\ snap' = NoProcesses /\ nameless' = {} /\ holder' = NoProcesses
    /\ witnessed' = {}
    /\ alerts' = {} /\ made' = {}

Finish ==
    /\ pc = "alerts"
    /\ alerts = {}
    /\ DropScan
    /\ UNCHANGED <<worldVars, cache, told, faults>>

\* The listing of the processes breaks off: the exception ends the job.
ScanFails ==
    /\ pc = "scan"
    /\ Fault
    /\ DropScan
    /\ UNCHANGED <<worldVars, cache, told>>

\* The agent dies and starts again with an empty cache.
Restart ==
    /\ Fault
    /\ DropScan
    /\ cache' = {}
    /\ UNCHANGED <<worldVars, told>>

World ==
    \/ \E pid \in Pids : Terminate(pid) \/ \E p \in 0..MaxProcesses : Spawn(pid, p)
    \/ SetOutside
    \/ \E r \in Rules : SetRule(r)

IOCJob == \E rules \in SUBSET Rules : Fetch(rules)

\* Steps the process job takes when nothing goes wrong.
ProcessJob ==
    \/ StartScan \/ Match(outside) \/ Finish
    \/ \E pid \in Pids : ReadProcess(pid) \/ (table[pid] = 0 /\ PassOver(pid))
    \/ \E a \in Alerts : SendAlert(a)

Failure ==
    \/ FetchFails \/ ScanFails \/ Restart
    \/ \E pid \in Pids : ReadPartly(pid) \/ PassOver(pid)
    \/ \E found \in BOOLEAN : Match(found)
    \/ \E a \in Alerts : SendAlertFails(a)

Next == World \/ IOCJob \/ ProcessJob \/ Failure

Spec == Init /\ [][Next]_vars

\* Both jobs come up again and again on the scheduler's thread, and end.
Fairness == SF_vars(IOCJob) /\ SF_vars(ProcessJob)

FairSpec == Spec /\ Fairness

-----------------------------------------------------------------------------
(* Properties.                                                               *)

TypeOK ==
    /\ table \in [Pids -> 0..MaxProcesses]
    /\ born \in 0..MaxProcesses
    /\ home \in [Processes -> Pids]
    /\ parent \in [Processes -> 0..MaxProcesses]
    /\ bad \subseteq Processes
    /\ outside \in BOOLEAN
    /\ active \subseteq Rules
    /\ changes \in 0..MaxChanges
    /\ cache \subseteq Rules
    /\ pc \in {"idle", "scan", "alerts"}
    /\ todo \subseteq Pids
    /\ snap \in [Pids -> 0..MaxProcesses]
    /\ nameless \subseteq Processes
    /\ holder \in [Pids -> 0..MaxProcesses]
    /\ alerts \subseteq Alerts
    /\ told \subseteq Alerts
    /\ faults \in 0..MaxFaults
    /\ witnessed \subseteq Processes
    /\ made \subseteq Alerts

\* The processes of the telemetry that have lived since the scan began.
Seen == Alive \cap witnessed \cap {snap[pid] : pid \in Pids}

\* A scan misses no process that lived through it and could be read: not by its
\* own fields, and not by its parent if that lived and was read as well.
NoMatchMissed ==
    pc = "alerts" =>
        \A p \in Seen :
            /\ ("attribute" \in cache /\ p \in bad \ nameless) => <<"attribute", p>> \in made
            /\ ("parent" \in cache /\ parent[p] \in (Seen \cap bad) \ nameless)
                   => <<"parent", p>> \in made

\* No process is blamed on a parent that is not its own, unless the true one has
\* ended, or was born when the scan had begun: then its PID may show another one.
ParentsTrue ==
    \A p \in Processes :
        (<<"parent", p>> \in made /\ parent[p] \in Alive \cap witnessed) => parent[p] \in bad

\* Is there something to tell, and do the rules fit one page?
Lasting(a) ==
    /\ a[1] \in active
    /\ Cardinality(active) <= PageSize
    /\ CASE a[1] = "attribute" -> a[2] \in Alive \cap bad
         [] a[1] = "parent"    -> a[2] \in Alive /\ parent[a[2]] \in Alive \cap bad
         [] a[1] = "outside"   -> outside

\* A match that lasts while its rule is active, and the rules fit one page, gets
\* to the backend, however fetches, readings and POSTs fail before.
MatchTold == \A a \in Alerts : Lasting(a) ~> (~Lasting(a) \/ a \in told)

=============================================================================
