--------------------------- MODULE MonitorJobsProofs ---------------------------
(***************************************************************************)
(* For any services, volumes, bytes, changes and failures: the service job   *)
(* makes no alert without a stop, and the health job counts no byte twice.   *)
(***************************************************************************)
EXTENDS MonitorJobs, TLAPS

\* The alerts of stops of s that have been sent or are still to send.
Held(s) == IF <<"stop", s>> \in alerts THEN 1 ELSE 0
Made(s) == delivered[s] + lost[s] + Held(s)

\* A stop that no alert has been made for yet: the service was seen up by the
\* last scan or by the one under way, and is not up any more.
AlertInv ==
    /\ pc # "alerts" => alerts = {}
    /\ \A s \in Services :
          /\ Made(s) <= stops[s] + again[s]
          /\ (previous[s] \in Svc!Up /\ status[s] \notin Svc!Up) => Made(s) < stops[s] + again[s]
          /\ (pc = "scan" /\ found[s] \in Svc!Up /\ status[s] \notin Svc!Up)
                => Made(s) < stops[s] + again[s]
          /\ (pc = "scan" /\ previous[s] \in Svc!Up /\ found[s] \notin Svc!Up)
                => Made(s) < stops[s] + again[s]

\* What the next sample will report has been transferred, and not reported yet.
RateInv ==
    /\ prev > 0 => reported + (counter - prev) <= moved - base
    /\ reported <= moved - base
    /\ ~reset => reported + (counter - prev) = moved - base

IInv == TypeOK /\ AlertInv /\ RateInv

SvcData == <<status, found, previous, alerts, stops, delivered, lost, again>>
Rates   == <<counter, moved, prev, reported, base, reset>>

-----------------------------------------------------------------------------

LEMMA InitEstablishes == Init => IInv
<1> SUFFICES ASSUME Init PROVE IInv
    OBVIOUS
<1> USE MonitorJobsAssumption DEF Init, Svc!Init, Health!Init, Svc!None, Svc!Unseen, Svc!Statuses, Svc!Up,
        Svc!ServiceAssumption, Health!HealthAssumption
<1>1. pc \in Svc!Places \cup Health!Places
    BY DEF Svc!Places, Health!Places
<1>2. changes \in 0..MaxChanges /\ faults \in 0..MaxFaults
    OBVIOUS
<1>3. Svc!DataOK
    BY DEF Svc!DataOK
<1>4. Health!DataOK
  <2>1. load \in [Health!Loads -> Health!Levels] /\ full \subseteq Health!Volumes
    OBVIOUS
  <2>2. shell \in BOOLEAN /\ reset \in BOOLEAN
    OBVIOUS
  <2>3. counter \in Nat /\ moved \in Nat /\ prev \in Nat /\ base \in Nat /\ reported \in Int
    OBVIOUS
  <2>4. reading \in [Health!Measured -> Health!Levels]
    BY DEF Health!AllLow, Health!Levels
  <2>5. alarms \subseteq Health!Alarms /\ told \subseteq Health!Alarms
    OBVIOUS
  <2> QED
    BY <2>1, <2>2, <2>3, <2>4, <2>5 DEF Health!DataOK
<1>5. AlertInv
  <2>0. \A s \in Services : delivered[s] = 0 /\ lost[s] = 0 /\ Held(s) = 0
    BY DEF Held
  <2>a. \A s \in Services : stops[s] = 0 /\ again[s] = 0 /\ previous[s] = "absent"
    OBVIOUS
  <2>b. 0 + 0 + 0 = 0
    OBVIOUS
  <2>m. \A s \in Services : Made(s) = 0
    BY <2>0, <2>b, Zenon DEF Made
  <2>1. \A s \in Services : Made(s) = 0 /\ stops[s] = 0 /\ again[s] = 0 /\ previous[s] = "absent"
    BY <2>a, <2>m, Zenon
  <2>2. pc # "scan" /\ alerts = {} /\ "absent" \notin Svc!Up
    OBVIOUS
  <2>3. ASSUME NEW s \in Services PROVE Made(s) <= stops[s] + again[s]
    <3>1. 0 <= 0 + 0
        OBVIOUS
    <3> QED
        BY <2>1, <3>1
  <2>4. \A s \in Services : previous[s] \notin Svc!Up
    BY <2>1, <2>2
  <2> QED
    BY <2>2, <2>3, <2>4 DEF AlertInv
<1>6. RateInv
    BY DEF RateInv
<1> QED
    BY <1>1, <1>2, <1>3, <1>4, <1>5, <1>6 DEF IInv, TypeOK

LEMMA ServiceType ==
    ASSUME TypeOK, Svc!Job \/ Svc!Windows \/ Svc!Failure, UNCHANGED healthVars
    PROVE  TypeOK'
<1> USE MonitorJobsAssumption DEF TypeOK, Svc!DataOK, Svc!Places, Health!Places, healthVars, Svc!worldVars, Svc!histVars, Svc!Fault, Svc!Statuses, Svc!Up, Svc!Listed, Svc!StoppedNow, Svc!Suspicious, Svc!MakeAlerts, Svc!Alerts, Svc!ServiceAssumption, Health!DataOK
<1>1. CASE Svc!Enumerate
    BY <1>1 DEF Svc!Enumerate
<1>2. CASE Svc!EnumerateFails
    BY <1>2 DEF Svc!EnumerateFails
<1>3. CASE Svc!Finish
    BY <1>3 DEF Svc!Finish
<1>4. ASSUME NEW unread \in SUBSET Services, Svc!EndScan(unread) PROVE TypeOK'
    BY <1>4 DEF Svc!EndScan
<1>5. ASSUME NEW unread \in SUBSET Services, Svc!ScanRaises(unread) PROVE TypeOK'
    BY <1>5 DEF Svc!ScanRaises
<1>6. ASSUME NEW a \in Svc!Alerts, Svc!SendAlert(a) PROVE TypeOK'
    BY <1>6 DEF Svc!SendAlert, Svc!Counted
<1>7. ASSUME NEW a \in Svc!Alerts, Svc!SendAlertFails(a) PROVE TypeOK'
    BY <1>7 DEF Svc!SendAlertFails, Svc!Counted
<1>8. ASSUME NEW s \in Services, NEW st \in Svc!Statuses, Svc!Change(s, st) PROVE TypeOK'
    BY <1>8 DEF Svc!Change
<1>9. {s \in Svc!Listed : status[s] = "absent"} \in SUBSET Services
    BY DEF Svc!Listed
<1> QED
    BY <1>1, <1>2, <1>3, <1>4, <1>5, <1>6, <1>7, <1>8, <1>9 DEF Svc!Job, Svc!Windows, Svc!Failure

LEMMA HealthType ==
    ASSUME TypeOK, Health!Job \/ Health!Computer \/ Health!Failure, UNCHANGED serviceVars
    PROVE  TypeOK'
<1> USE MonitorJobsAssumption DEF TypeOK, Health!DataOK, Health!Places, Svc!Places, serviceVars, Health!worldVars, Health!jobVars, Health!histVars, Health!Fault, Health!Changed, Health!Levels, Health!Loads, Health!Measured, Health!Alarms, Health!HealthAssumption, Svc!DataOK
<1>1. CASE Health!SetShell
    BY <1>1 DEF Health!SetShell
<1>2. CASE Health!Transfer
    BY <1>2 DEF Health!Transfer
<1>3. CASE Health!ReadNetwork
    BY <1>3 DEF Health!ReadNetwork, Health!Sample
<1>4. CASE Health!ReadNetworkFails
    BY <1>4 DEF Health!ReadNetworkFails
<1>5. CASE Health!CheckConnections
    BY <1>5 DEF Health!CheckConnections, Health!Exceeded
<1>6. CASE Health!CheckConnectionsFails
    BY <1>6 DEF Health!CheckConnectionsFails, Health!Exceeded
<1>7. CASE Health!SendHealth
    BY <1>7 DEF Health!SendHealth, Health!AllLow
<1>8. ASSUME NEW r \in Health!Loads, Health!SetLoad(r) PROVE TypeOK'
    BY <1>8 DEF Health!SetLoad
<1>9. ASSUME NEW v \in Health!Volumes, Health!SetFull(v) PROVE TypeOK'
    BY <1>9 DEF Health!SetFull
<1>10. ASSUME NEW n \in 0..MaxBytes, Health!LoseAdapter(n) PROVE TypeOK'
    BY <1>10 DEF Health!LoseAdapter
<1>11. ASSUME NEW r \in Health!Loads, Health!ReadLoad(r) PROVE TypeOK'
    BY <1>11 DEF Health!ReadLoad, Health!Before, Health!After
<1>12. ASSUME NEW r \in Health!Loads, Health!ReadLoadFails(r) PROVE TypeOK'
    BY <1>12 DEF Health!ReadLoadFails, Health!Before, Health!After
<1>13. ASSUME NEW missed \in SUBSET Health!Volumes, Health!ReadDisk(missed) PROVE TypeOK'
    BY <1>13 DEF Health!ReadDisk, Health!DiskReading
<1>14. ASSUME NEW a \in Health!Alarms, Health!SendAlarm(a) PROVE TypeOK'
    BY <1>14 DEF Health!SendAlarm
<1>15. ASSUME NEW a \in Health!Alarms, Health!SendAlarmFails(a) PROVE TypeOK'
    BY <1>15 DEF Health!SendAlarmFails
<1>16. {} \in SUBSET Health!Volumes
    OBVIOUS
<1> QED
    BY <1>1, <1>2, <1>3, <1>4, <1>5, <1>6, <1>7, <1>8, <1>9, <1>10, <1>11, <1>12, <1>13, <1>14, <1>15, <1>16 DEF Health!Job, Health!Computer, Health!Failure

LEMMA TypeStep == IInv /\ [Next]_vars => TypeOK'
<1> SUFFICES ASSUME IInv, [Next]_vars PROVE TypeOK'
    OBVIOUS
<1>1. CASE ServiceJob \/ ServiceWorld
    BY <1>1, ServiceType DEF IInv, ServiceJob, ServiceWorld
<1>2. CASE HealthJob \/ HealthWorld
    BY <1>2, HealthType DEF IInv, HealthJob, HealthWorld
<1>3. CASE Restart
  <2> USE <1>3, MonitorJobsAssumption DEF Restart, IInv, TypeOK
  <2>1. pc' \in Svc!Places \cup Health!Places
    BY DEF Svc!Restart, Svc!Places
  <2>2. changes' \in 0..MaxChanges /\ faults' \in 0..MaxFaults
    BY DEF Svc!Restart, Svc!worldVars, Svc!Fault, Svc!ServiceAssumption
  <2>3. Svc!DataOK'
    BY DEF Svc!Restart, Svc!DataOK, Svc!worldVars, Svc!histVars, Svc!Unseen, Svc!Statuses
  <2>4. Health!DataOK'
    BY DEF Health!Restart, Health!DataOK, Health!worldVars, Health!AllLow, Health!Levels
  <2> QED
    BY <2>1, <2>2, <2>3, <2>4
<1>4. CASE UNCHANGED vars
    BY <1>4 DEF vars, serviceVars, healthVars, IInv, TypeOK, Svc!DataOK, Health!DataOK
<1> QED
    BY <1>1, <1>2, <1>3, <1>4 DEF Next

\* What has been made of a service's stops is a number; it changes only when a scan
\* makes its alerts.
LEMMA MadeIsNumber ==
    ASSUME TypeOK, NEW s \in Services
    PROVE  Held(s) \in 0..1 /\ Made(s) \in Nat
<1>1. delivered[s] \in Nat /\ lost[s] \in Nat
    BY DEF TypeOK, Svc!DataOK
<1> QED
    BY <1>1 DEF Held, Made

LEMMA MadeWhenSent ==
    ASSUME TypeOK, NEW a \in Svc!Alerts, Svc!SendAlert(a) \/ Svc!SendAlertFails(a), NEW s \in Services
    PROVE  Made(s)' = Made(s)
<1>1. a \in alerts /\ alerts' = alerts \ {a}
    BY DEF Svc!SendAlert, Svc!SendAlertFails
<1>2. delivered[s] \in Nat /\ lost[s] \in Nat /\ s \in DOMAIN delivered /\ s \in DOMAIN lost
    BY DEF TypeOK, Svc!DataOK
<1>3. \/ delivered' = Svc!Counted(delivered, a) /\ lost' = lost
      \/ lost' = Svc!Counted(lost, a) /\ delivered' = delivered
    BY DEF Svc!SendAlert, Svc!SendAlertFails
<1>4. CASE a = <<"stop", s>>
  <2>1. Svc!Counted(delivered, a)[s] = delivered[s] + 1 /\ Svc!Counted(lost, a)[s] = lost[s] + 1
    BY <1>2, <1>4 DEF Svc!Counted
  <2>2. Held(s) = 1 /\ Held(s)' = 0
    BY <1>1, <1>4 DEF Held
  <2> QED
    BY <1>2, <1>3, <2>1, <2>2 DEF Made
<1>5. CASE a # <<"stop", s>>
  <2>1. a[1] = "stop" => a[2] # s
    BY <1>5 DEF Svc!Alerts
  <2>2. Svc!Counted(delivered, a)[s] = delivered[s] /\ Svc!Counted(lost, a)[s] = lost[s]
    BY <1>2, <2>1 DEF Svc!Counted
  <2>3. Held(s)' = Held(s)
    BY <1>1, <1>5 DEF Held
  <2> QED
    BY <1>2, <1>3, <2>2, <2>3 DEF Made
<1> QED
    BY <1>4, <1>5

LEMMA MadeInScan ==
    ASSUME TypeOK, AlertInv, pc = "scan", NEW unread, Svc!MakeAlerts(unread),
           UNCHANGED <<delivered, lost>>, NEW s \in Services
    PROVE  Made(s)' = IF s \in Svc!StoppedNow THEN Made(s) + 1 ELSE Made(s)
<1>1. Held(s) = 0
    BY DEF AlertInv, Held
<1>2. <<"stop", s>> \in alerts' <=> s \in Svc!StoppedNow
    BY DEF Svc!MakeAlerts
<1>3. Held(s)' = IF s \in Svc!StoppedNow THEN 1 ELSE 0
    BY <1>2 DEF Held
<1>4. delivered[s] \in Nat /\ lost[s] \in Nat
    BY DEF TypeOK, Svc!DataOK
<1> QED
    BY <1>1, <1>3, <1>4 DEF Made

LEMMA ServiceAlerts ==
    ASSUME TypeOK, AlertInv, Svc!Job \/ Svc!Windows \/ Svc!Failure, UNCHANGED healthVars
    PROVE  AlertInv'
<1> USE DEF AlertInv, Svc!worldVars, Svc!histVars, Svc!Up
<1>t. \A s \in Services : Made(s) \in Nat /\ stops[s] \in Nat /\ again[s] \in Nat
    BY MadeIsNumber DEF TypeOK, Svc!DataOK
<1>k. status \in [Services -> Svc!Statuses] /\ found \in [Services -> Svc!Statuses]
      /\ stops \in [Services -> Nat] /\ again \in [Services -> Nat]
    BY DEF TypeOK, Svc!DataOK
<1>u. ASSUME UNCHANGED <<alerts, delivered, lost>>, NEW s \in Services PROVE Made(s)' = Made(s)
    BY <1>u DEF Made, Held
<1>1. CASE Svc!Enumerate
    BY <1>1, <1>u, <1>t DEF Svc!Enumerate
<1>2. CASE Svc!EnumerateFails
    BY <1>2, <1>u DEF Svc!EnumerateFails
<1>3. CASE Svc!Finish
    BY <1>3, <1>u DEF Svc!Finish
<1>4. ASSUME NEW unread \in SUBSET Services, Svc!EndScan(unread) PROVE AlertInv'
  <2>1. /\ pc = "scan" /\ pc' = "alerts" /\ previous' = found /\ Svc!MakeAlerts(unread)
        /\ UNCHANGED <<status, found, stops, delivered, lost, again>>
    BY <1>4 DEF Svc!EndScan
  <2>2. \A s \in Services : Made(s)' = IF s \in Svc!StoppedNow THEN Made(s) + 1 ELSE Made(s)
    BY <2>1, MadeInScan
  <2>3. \A s \in Svc!StoppedNow : Made(s) < stops[s] + again[s]
    BY <2>1, <1>k DEF Svc!StoppedNow, Svc!Statuses, TypeOK, Svc!DataOK
  <2>4. \A s \in Services : Made(s)' <= stops[s] + again[s]
    BY <2>2, <2>3, <1>t
  <2>5. ASSUME NEW s \in Services, found[s] \in Svc!Up, status[s] \notin Svc!Up
        PROVE  Made(s)' < stops[s] + again[s]
    BY <2>1, <2>2, <2>5 DEF Svc!StoppedNow
  <2> QED
    BY <2>1, <2>4, <2>5
<1>5. ASSUME NEW unread \in SUBSET Services, Svc!ScanRaises(unread) PROVE AlertInv'
  <2>1. /\ pc = "scan" /\ pc' = "alerts" /\ Svc!MakeAlerts(unread)
        /\ UNCHANGED <<status, found, previous, stops, delivered, lost>>
        /\ again' = [s \in Services |-> IF s \in Svc!StoppedNow THEN again[s] + 1 ELSE again[s]]
    BY <1>5 DEF Svc!ScanRaises
  <2>2. \A s \in Services : Made(s)' = IF s \in Svc!StoppedNow THEN Made(s) + 1 ELSE Made(s)
    BY <2>1, MadeInScan
  <2> QED
    BY <2>1, <2>2, <1>t
<1>6. ASSUME NEW a \in Svc!Alerts, Svc!SendAlert(a) \/ Svc!SendAlertFails(a) PROVE AlertInv'
  <2>1. pc = "alerts" /\ UNCHANGED <<status, pc, found, previous, stops, again>>
    BY <1>6 DEF Svc!SendAlert, Svc!SendAlertFails
  <2> QED
    BY <1>6, <2>1, MadeWhenSent
<1>8. ASSUME NEW s \in Services, NEW st \in Svc!Statuses, Svc!Change(s, st) PROVE AlertInv'
    BY <1>8, <1>u, <1>t, <1>k DEF Svc!Change, Svc!Moves, Svc!Statuses
<1>9. {s \in Svc!Listed : status[s] = "absent"} \in SUBSET Services
    BY DEF Svc!Listed
<1> QED
    BY <1>1, <1>2, <1>3, <1>4, <1>5, <1>6, <1>8, <1>9 DEF Svc!Job, Svc!Windows, Svc!Failure

LEMMA AlertStep == IInv /\ [Next]_vars => AlertInv'
<1> SUFFICES ASSUME IInv, [Next]_vars PROVE AlertInv'
    OBVIOUS
<1>1. CASE ServiceJob \/ ServiceWorld
    BY <1>1, ServiceAlerts DEF IInv, ServiceJob, ServiceWorld
<1>2. CASE HealthJob \/ HealthWorld
  <2>1. UNCHANGED SvcData
    BY <1>2 DEF HealthJob, HealthWorld, serviceVars, SvcData
  <2>2. (pc' = "scan" => pc = "scan") /\ (pc' # "alerts" => pc # "alerts")
    BY <1>2 DEF HealthJob, HealthWorld, Health!Job, Health!Computer, Health!Failure, Health!worldVars, Health!jobVars,
         Health!SetLoad, Health!SetFull, Health!SetShell, Health!Transfer, Health!LoseAdapter, Health!ReadLoad,
         Health!ReadLoadFails, Health!Before, Health!After, Health!ReadDisk, Health!ReadNetwork, Health!ReadNetworkFails,
         Health!CheckConnections, Health!CheckConnectionsFails, Health!SendAlarm, Health!SendAlarmFails, Health!SendHealth
  <2>3. \A s \in Services : Made(s)' = Made(s)
    BY <2>1 DEF SvcData, Made, Held
  <2> QED
    BY <2>1, <2>2, <2>3 DEF IInv, AlertInv, SvcData
<1>3. CASE Restart
  <2>1. /\ pc' = "idle" /\ alerts' = {} /\ previous' = [s \in Services |-> "absent"]
        /\ UNCHANGED <<status, found, stops, delivered, lost, again>>
    BY <1>3 DEF Restart, Svc!Restart, Svc!worldVars, Svc!histVars, Svc!Unseen
  <2>2. ASSUME NEW s \in Services PROVE Made(s)' <= Made(s)
    <3>1. Held(s)' = 0 /\ Held(s) \in 0..1 /\ delivered[s] \in Nat /\ lost[s] \in Nat
      BY <2>1, MadeIsNumber DEF Held, IInv, TypeOK, Svc!DataOK
    <3> QED
      BY <2>1, <3>1 DEF Made
  <2>3. ASSUME NEW s \in Services PROVE Made(s)' <= stops[s] + again[s]
    <3>1. Made(s) \in Nat /\ Made(s)' \in Nat /\ stops[s] \in Nat /\ again[s] \in Nat
      BY <2>1, MadeIsNumber DEF IInv, TypeOK, Svc!DataOK, Made, Held
    <3> QED
      BY <2>2, <3>1 DEF IInv, AlertInv
  <2> QED
    BY <2>1, <2>3 DEF AlertInv, Svc!Up
<1>4. CASE UNCHANGED vars
    BY <1>4 DEF vars, serviceVars, IInv, AlertInv, Made, Held
<1> QED
    BY <1>1, <1>2, <1>3, <1>4 DEF Next

LEMMA HealthRates ==
    ASSUME TypeOK, RateInv, Health!Job \/ Health!Computer \/ Health!Failure, UNCHANGED serviceVars
    PROVE  RateInv'
<1> USE MonitorJobsAssumption DEF RateInv, TypeOK, Health!DataOK, Health!worldVars, Health!jobVars, Health!histVars, Health!HealthAssumption
<1>1. CASE Health!SetShell
    BY <1>1 DEF Health!SetShell
<1>2. CASE Health!Transfer
    BY <1>2 DEF Health!Transfer
<1>3. CASE Health!ReadNetwork
  <2>1. reported' = reported + (IF prev > 0 THEN counter - prev ELSE 0) /\ prev' = counter
    BY <1>3 DEF Health!ReadNetwork, Health!Sample
  <2>2. ~reset' => ~reset /\ ~(prev = 0 /\ counter > 0)
    BY <1>3 DEF Health!ReadNetwork
  <2>3. UNCHANGED <<counter, moved, base>>
    BY <1>3 DEF Health!ReadNetwork, Health!worldVars
  <2>4. prev > 0 \/ prev = 0
    OBVIOUS
  <2> QED
    BY <2>1, <2>2, <2>3, <2>4
<1>4. CASE Health!ReadNetworkFails
    BY <1>4 DEF Health!ReadNetworkFails
<1>5. CASE Health!CheckConnections
    BY <1>5 DEF Health!CheckConnections
<1>6. CASE Health!CheckConnectionsFails
    BY <1>6 DEF Health!CheckConnectionsFails
<1>7. CASE Health!SendHealth
    BY <1>7 DEF Health!SendHealth
<1>8. ASSUME NEW r \in Health!Loads, Health!SetLoad(r) PROVE RateInv'
    BY <1>8 DEF Health!SetLoad
<1>9. ASSUME NEW v \in Health!Volumes, Health!SetFull(v) PROVE RateInv'
    BY <1>9 DEF Health!SetFull
<1>10. ASSUME NEW n \in 0..MaxBytes, Health!LoseAdapter(n) PROVE RateInv'
    BY <1>10 DEF Health!LoseAdapter
<1>11. ASSUME NEW r \in Health!Loads, Health!ReadLoad(r) PROVE RateInv'
    BY <1>11 DEF Health!ReadLoad
<1>12. ASSUME NEW r \in Health!Loads, Health!ReadLoadFails(r) PROVE RateInv'
    BY <1>12 DEF Health!ReadLoadFails
<1>13. ASSUME NEW missed \in SUBSET Health!Volumes, Health!ReadDisk(missed) PROVE RateInv'
    BY <1>13 DEF Health!ReadDisk
<1>14. ASSUME NEW a \in Health!Alarms, Health!SendAlarm(a) PROVE RateInv'
    BY <1>14 DEF Health!SendAlarm
<1>15. ASSUME NEW a \in Health!Alarms, Health!SendAlarmFails(a) PROVE RateInv'
    BY <1>15 DEF Health!SendAlarmFails
<1>16. {} \in SUBSET Health!Volumes
    OBVIOUS
<1> QED
    BY <1>1, <1>2, <1>3, <1>4, <1>5, <1>6, <1>7, <1>8, <1>9, <1>10, <1>11, <1>12, <1>13, <1>14, <1>15, <1>16 DEF Health!Job, Health!Computer, Health!Failure

LEMMA RateStep == IInv /\ [Next]_vars => RateInv'
<1> SUFFICES ASSUME IInv, [Next]_vars PROVE RateInv'
    OBVIOUS
<1>1. CASE ServiceJob \/ ServiceWorld
  <2>1. UNCHANGED Rates
    BY <1>1 DEF ServiceJob, ServiceWorld, healthVars, Rates
  <2> QED
    BY <2>1 DEF IInv, RateInv, Rates
<1>2. CASE HealthJob \/ HealthWorld
    BY <1>2, HealthRates DEF IInv, HealthJob, HealthWorld
<1>3. CASE Restart
  <2>1. reported' = 0 /\ base' = moved /\ moved' = moved /\ counter' = counter
    BY <1>3 DEF Restart, Health!Restart, Health!worldVars
  <2>2. prev' = 0 \/ prev' = counter
    BY <1>3 DEF Restart, Health!Restart
  <2>3. ~reset' => prev' = counter
    BY <1>3 DEF Restart, Health!Restart
  <2>4. counter \in Nat /\ moved \in Nat
    BY DEF IInv, TypeOK, Health!DataOK
  <2> QED
    BY <2>1, <2>2, <2>3, <2>4 DEF RateInv
<1>4. CASE UNCHANGED vars
    BY <1>4 DEF vars, healthVars, IInv, RateInv
<1> QED
    BY <1>1, <1>2, <1>3, <1>4 DEF Next

THEOREM Invariance == Spec => []IInv
<1>1. IInv /\ [Next]_vars => IInv'
    BY TypeStep, AlertStep, RateStep DEF IInv
<1> QED
    BY InitEstablishes, <1>1, PTL DEF Spec

-----------------------------------------------------------------------------

\* Every variable of both jobs keeps its type.
THEOREM TypeCorrect == Spec => []TypeOK
<1>1. IInv => TypeOK
    BY DEF IInv
<1> QED
    BY Invariance, <1>1, PTL

\* check_services: however services flap and scans fail, no alert of a stop is sent
\* without a stop, except anew in a scan that follows one that raised.
THEOREM NoAlertWithoutStop == Spec => []OneAlertPerStop
<1>1. IInv => OneAlertPerStop
  <2> SUFFICES ASSUME IInv, NEW s \in Services PROVE delivered[s] + lost[s] <= stops[s] + again[s]
    BY DEF OneAlertPerStop, Svc!OneAlertPerStop
  <2>1. Made(s) <= stops[s] + again[s] /\ Held(s) \in 0..1
    BY MadeIsNumber DEF IInv, AlertInv
  <2>2. delivered[s] \in Nat /\ lost[s] \in Nat /\ stops[s] \in Nat /\ again[s] \in Nat
    BY DEF IInv, TypeOK, Svc!DataOK
  <2> QED
    BY <2>1, <2>2 DEF Made
<1> QED
    BY Invariance, <1>1, PTL

\* get_metrics of the network monitor: samples that fail, counters that fall and
\* restarts never make the rates of a run add up to more than was transferred.
THEOREM NoByteCountedTwice == Spec => []BytesCountedOnce
<1>1. IInv => BytesCountedOnce
    BY DEF IInv, RateInv, BytesCountedOnce, Health!BytesCountedOnce
<1> QED
    BY Invariance, <1>1, PTL

=============================================================================
