------------------------ MODULE EventLogMonitorProofs ------------------------
(***************************************************************************)
(* What EventLogMonitor does for any number of channels, any batch size and *)
(* any number of records and failures: its bookmarks never skip a record,   *)
(* one run never collects a record twice, the bookmarks file only moves     *)
(* forward, what a bookmark has passed is accounted for, and the monitor is *)
(* the tail that EventTail describes.                                       *)
(***************************************************************************)
EXTENDS EventLogMonitor, TLAPS

\* Bookmarks and the age limit stay within what Windows has written, so that a
\* record still to come is never below one of them.
WithinLog ==
    \A c \in Channels :
        aged[c] <= last[c] /\ bookmarks[c] <= last[c] /\ disk[c] <= last[c]

\* While a query is open its cursor is ahead of the highest record parsed, which
\* is ahead of the bookmark, and everything up to the cursor is settled.
OpenQueryInv ==
    pc = "next" =>
        /\ cursor <= last[chan]
        /\ highest <= cursor
        /\ bookmarks[chan] <= highest
        /\ Covers(chan, cursor)

\* How far this run has collected channel c.
Reach(c) == IF pc = "next" /\ c = chan THEN highest ELSE bookmarks[c]

SeenInv == \A r \in seen : r[2] <= Reach(r[1])

\* A run that loaded its bookmarks is never behind the file.
DiskBehind ==
    ~amnesia /\ pc # "down" => \A c \in Channels : disk[c] <= bookmarks[c]

\* Logs are in memory only while a check is under way, and a process that is
\* down remembers nothing.
NoLogsAtRest ==
    /\ pc \in {"idle", "alerts", "down"} => logs = {}
    /\ pc = "down" => seen = {}

\* Every record some run collected is written, and is accounted for twice: as
\* telemetry, and as an alert when it is one.
AccountedInv ==
    \A r \in collected :
        /\ r[2] <= last[r[1]]
        /\ r \in logs \cup sent \cup lost
        /\ log[r[1]][r[2]] = "alert" => r \in alerts \cup raised \cup lost

\* Nothing is lost, and nothing but what never parses is dropped, before the first
\* failure.
FlawlessInv ==
    /\ \A r \in dropped : r[2] <= last[r[1]]
    /\ faults = 0 => lost = {} /\ \A r \in dropped : ~Parses(r[1], r[2])

IInv ==
    /\ TypeOK
    /\ WithinLog
    /\ BookmarksCover
    /\ OpenQueryInv
    /\ SeenInv
    /\ NoRepeatInRun
    /\ DiskBehind
    /\ NoLogsAtRest
    /\ CheckpointNotReread
    /\ AccountedInv
    /\ FlawlessInv

-----------------------------------------------------------------------------

LEMMA NoBookmarksType == NoBookmarks \in [Channels -> 0..MaxRecords]
BY EventLogAssumption DEF NoBookmarks

LEMMA InitEstablishes == Init => IInv
<1> SUFFICES ASSUME Init PROVE IInv
    OBVIOUS
<1> USE EventLogAssumption DEF Init, NoBookmarks
<1>1. TypeOK
    <2>1. log \in [Channels -> [Ids -> Kinds \cup {"none"}]]
        BY Zenon
    <2>2. /\ 0 \in 0..MaxRecords /\ 0 \in 0..MaxFaults /\ 1 \in Channels
        BY DEF Channels
    <2>3. /\ last \in [Channels -> 0..MaxRecords]
          /\ aged \in [Channels -> 0..MaxRecords]
          /\ disk \in [Channels -> 0..MaxRecords]
          /\ bookmarks \in [Channels -> 0..MaxRecords]
        BY <2>2
    <2> QED
        BY <2>1, <2>2, <2>3 DEF TypeOK
<1>2. WithinLog
    BY DEF WithinLog
<1>3. BookmarksCover
    BY DEF BookmarksCover, Covers
<1>4. OpenQueryInv /\ SeenInv /\ NoRepeatInRun /\ NoLogsAtRest
    BY DEF OpenQueryInv, SeenInv, NoRepeatInRun, NoLogsAtRest
<1>5. DiskBehind /\ CheckpointNotReread
    BY DEF DiskBehind, CheckpointNotReread
<1>6. AccountedInv /\ FlawlessInv
    BY DEF AccountedInv, FlawlessInv
<1> QED
    BY <1>1, <1>2, <1>3, <1>4, <1>5, <1>6 DEF IInv

\* Every action keeps the types; one step per action that changes more than pc.
LEMMA TypeStep == TypeOK /\ [Next]_vars => TypeOK'
<1> SUFFICES ASSUME TypeOK, [Next]_vars PROVE TypeOK'
    OBVIOUS
<1> USE EventLogAssumption
    DEF TypeOK, vars, envVars, queryVars, outVars, histVars, Fault
<1>1. ASSUME NEW c \in Channels, NEW kind \in Kinds, WriteRecord(c, kind)
      PROVE  TypeOK'
    <2>1. last[c] + 1 \in 0..MaxRecords /\ last[c] + 1 \in Ids
        BY <1>1 DEF WriteRecord, Ids
    <2>2. last' \in [Channels -> 0..MaxRecords]
        BY <1>1, <2>1 DEF WriteRecord
    <2>3. log' \in [Channels -> [Ids -> Kinds \cup {"none"}]]
        BY <1>1, <2>1, Zenon DEF WriteRecord
    <2> QED
        BY <1>1, <2>2, <2>3 DEF WriteRecord
<1>2. ASSUME NEW c \in Channels, Age(c) PROVE TypeOK'
    <2>1. aged[c] + 1 \in 0..MaxRecords
        BY <1>2 DEF Age
    <2> QED
        BY <1>2, <2>1 DEF Age
<1>3. NextChannel => pc' \in {"save", "query"} /\ chan' \in Channels
    BY DEF NextChannel, Channels
<1>4. CASE StartCheck
    BY <1>4 DEF StartCheck, Channels
<1>5. CASE OpenQuery
    <2>1. {<<chan, i>> : i \in 1..aged[chan]} \subseteq Records
        BY DEF Records, Ids
    <2> QED
        BY <1>5, <2>1 DEF OpenQuery, QueryStart
<1>6. ASSUME NEW n \in Ids, NEW unread \in SUBSET Ids, FetchBatch(n, unread)
      PROVE  TypeOK'
    <2> DEFINE batch == {i \in Matching(chan, cursor) : i <= n}
               read  == {i \in batch : Parses(chan, i)} \ unread
               new   == {<<chan, i>> : i \in read}
    <2>1. batch \subseteq Ids
        BY DEF Matching, Ids
    <2>2. new \subseteq Records /\ {<<chan, i>> : i \in batch \ read} \subseteq Records
        BY <2>1 DEF Records
    <2>3. highest' \in 0..MaxRecords
        BY <1>6, <2>1 DEF FetchBatch, RaiseHighest, Ids
    <2>4. faults' \in 0..MaxFaults
        BY <1>6 DEF FetchBatch
    <2>5. cursor' \in 0..MaxRecords
        BY <1>6 DEF FetchBatch, Ids
    <2> HIDE DEF batch, read, new
    <2>6. /\ logs' = logs \cup new
          /\ alerts' \subseteq alerts \cup new
          /\ seen' = seen \cup new
          /\ repeated' = repeated \cup (seen \cap new)
          /\ dropped' = dropped \cup {<<chan, i>> : i \in batch \ read}
          /\ collected' = collected \cup new
          /\ UNCHANGED <<envVars, disk, bookmarks, pc, chan, sent, raised,
                         windowed, lost, amnesia>>
        BY <1>6, Zenon DEF FetchBatch, batch, read, new
    <2> QED
        BY <2>2, <2>3, <2>4, <2>5, <2>6
<1>7. CASE QueryExhausted \/ EvtNextFails
    BY <1>3, <1>7 DEF QueryExhausted, EvtNextFails, EndQuery
<1>8. CASE QueryFails
    BY <1>3, <1>8 DEF QueryFails
<1>9. CASE SaveBookmarks \/ SaveFails
    BY <1>9 DEF SaveBookmarks, SaveFails
<1>10. CASE SendLogs \/ SendLogsFails
    BY <1>10 DEF SendLogs, SendLogsFails
<1>11. ASSUME NEW r \in Records, SendAlert(r) \/ SendAlertFails(r) PROVE TypeOK'
    BY <1>11 DEF SendAlert, SendAlertFails
<1>12. CASE FinishCheck
    BY <1>12 DEF FinishCheck
<1>13. CASE Crash
    <2>1. bookmarks' \in [Channels -> 0..MaxRecords]
        BY <1>13, NoBookmarksType, Zenon DEF Crash
    <2> QED
        <3>1. chan' \in Channels
            BY <1>13 DEF Crash, Channels
        <3> QED
            BY <1>13, <2>1, <3>1 DEF Crash
<1>14. CASE LoadBookmarks \/ LoadFails
    <2>1. bookmarks' \in [Channels -> 0..MaxRecords]
        BY <1>14, NoBookmarksType, Zenon DEF LoadBookmarks, LoadFails
    <2>2. amnesia' \in BOOLEAN
        BY <1>14, Zenon DEF LoadBookmarks, LoadFails
    <2>4. pc' = "idle" /\ faults' \in 0..MaxFaults
        BY <1>14 DEF LoadBookmarks, LoadFails
    <2>3. UNCHANGED <<envVars, disk, queryVars, outVars, histVars>>
        BY <1>14 DEF LoadBookmarks, LoadFails
    <2> QED
        BY <2>1, <2>2, <2>3, <2>4
<1>15. CASE UNCHANGED vars
    BY <1>15
<1>16. ASSUME NEW n \in Ids, FetchBatch(n, {}) PROVE TypeOK'
    BY <1>6, <1>16, {} \in SUBSET Ids, Zenon
<1> QED
    BY <1>1, <1>2, <1>4, <1>5, <1>6, <1>7, <1>8, <1>9, <1>10, <1>11, <1>12, <1>13,
       <1>14, <1>15, <1>16 DEF Next, Windows, Agent, Failure

\* What Windows writes goes behind what is written, which it leaves alone.
LEMMA WriteKeeps ==
    ASSUME TypeOK, NEW c \in Channels, NEW kind \in Kinds, WriteRecord(c, kind)
    PROVE  /\ UNCHANGED <<outVars, histVars, faults>>
           /\ \A d \in Channels : \A i \in Ids :
                  i <= last[d] => i <= last'[d] /\ log'[d][i] = log[d][i]
<1> USE EventLogAssumption
<1>1. /\ last[c] \in Nat /\ last[c] + 1 \in Ids
      /\ last' = [last EXCEPT ![c] = @ + 1]
      /\ log' = [log EXCEPT ![c][last[c] + 1] = kind]
      /\ UNCHANGED <<outVars, histVars, faults>>
    BY DEF WriteRecord, TypeOK, Ids
<1>2. ASSUME NEW d \in Channels, NEW i \in Ids, i <= last[d]
      PROVE  i <= last'[d] /\ log'[d][i] = log[d][i]
    <2>1. last[d] \in Nat /\ i \in Nat
        BY DEF TypeOK, Ids
    <2>2. CASE d = c
        <3>1. last'[d] = last[d] + 1 /\ i # last[c] + 1
            BY <1>1, <1>2, <2>1, <2>2 DEF TypeOK
        <3>2. log'[c] = [log[c] EXCEPT ![last[c] + 1] = kind] /\ log[c] \in [Ids -> Kinds \cup {"none"}]
            BY <1>1 DEF TypeOK
        <3>3. log'[d][i] = log[d][i]
            BY <2>2, <3>1, <3>2
        <3> QED
            BY <1>2, <2>1, <3>1, <3>3
    <2>3. CASE d # c
        <3>1. last'[d] = last[d] /\ log'[d] = log[d]
            BY <1>1, <2>3 DEF TypeOK
        <3> QED
            BY <1>2, <3>1
    <2> QED
        BY <2>2, <2>3
<1> QED
    BY <1>1, <1>2

\* Only a batch adds to what is collected, and it puts the new records in the
\* hands of the check; every other step moves records on and drops none.
LEMMA AccountedStep == TypeOK /\ AccountedInv /\ [Next]_vars => AccountedInv'
<1> SUFFICES ASSUME TypeOK, AccountedInv, [Next]_vars PROVE AccountedInv'
    OBVIOUS
<1> USE EventLogAssumption DEF vars, envVars, queryVars, outVars, histVars
<1>1. ASSUME UNCHANGED <<log, last, collected>>,
             logs \cup sent \cup lost \subseteq logs' \cup sent' \cup lost',
             alerts \cup raised \cup lost \subseteq alerts' \cup raised' \cup lost'
      PROVE  AccountedInv'
    BY <1>1 DEF AccountedInv
<1>2. ASSUME NEW c \in Channels, NEW kind \in Kinds, WriteRecord(c, kind)
      PROVE  AccountedInv'
    <2>1. UNCHANGED <<outVars, histVars, faults>>
        BY <1>2, WriteKeeps
    <2>2. ASSUME NEW r \in collected
          PROVE  r[2] <= last'[r[1]] /\ log'[r[1]][r[2]] = log[r[1]][r[2]]
        <3>1. r[1] \in Channels /\ r[2] \in Ids /\ r[2] <= last[r[1]]
            BY DEF TypeOK, Records, AccountedInv
        <3> QED
            BY <1>2, <3>1, WriteKeeps
    <2> QED
        BY <2>1, <2>2 DEF AccountedInv
<1>3. ASSUME NEW n \in Ids, NEW unread \in SUBSET Ids, FetchBatch(n, unread)
      PROVE  AccountedInv'
    <2> DEFINE batch == {i \in Matching(chan, cursor) : i <= n}
               read  == {i \in batch : Parses(chan, i)} \ unread
               new   == {<<chan, i>> : i \in read}
    <2>1. /\ logs' = logs \cup new
          /\ alerts' = alerts \cup {r \in new : log[chan][r[2]] = "alert"}
          /\ collected' = collected \cup new
          /\ UNCHANGED <<log, last, sent, raised, lost>>
        BY <1>3, Zenon DEF FetchBatch
    <2>2. \A i \in read : i <= last[chan]
        BY DEF Matching, TypeOK
    <2>3. \A r \in new : r[1] = chan /\ r[2] <= last[chan]
        BY <2>2
    <2> HIDE DEF new
    <2>4. ASSUME NEW r \in collected'
          PROVE  /\ r[2] <= last[r[1]]
                 /\ r \in logs' \cup sent \cup lost
                 /\ log[r[1]][r[2]] = "alert" => r \in alerts' \cup raised \cup lost
        <3>1. CASE r \in collected
            BY <2>1, <3>1 DEF AccountedInv
        <3>2. CASE r \in new
            BY <2>1, <2>3, <3>2
        <3> QED
            BY <2>1, <3>1, <3>2
    <2> QED
        BY <2>1, <2>4 DEF AccountedInv
<1>4. ASSUME NEW n \in Ids, FetchBatch(n, {}) PROVE AccountedInv'
    BY <1>3, <1>4, {} \in SUBSET Ids, Zenon
<1>5. ASSUME NEW c \in Channels, Age(c) PROVE AccountedInv'
    BY <1>1, <1>5 DEF Age
<1>6. CASE StartCheck \/ OpenQuery \/ QueryFails
    BY <1>1, <1>6 DEF StartCheck, OpenQuery, QueryFails
<1>7. CASE QueryExhausted \/ EvtNextFails
    BY <1>1, <1>7 DEF QueryExhausted, EvtNextFails, EndQuery
<1>8. CASE SaveBookmarks \/ SaveFails \/ FinishCheck
    BY <1>1, <1>8 DEF SaveBookmarks, SaveFails, FinishCheck
<1>9. CASE SendLogs \/ SendLogsFails
    BY <1>1, <1>9 DEF SendLogs, SendLogsFails
<1>10. ASSUME NEW r \in Records, SendAlert(r) \/ SendAlertFails(r) PROVE AccountedInv'
    BY <1>1, <1>10 DEF SendAlert, SendAlertFails
<1>11. CASE Crash \/ LoadBookmarks \/ LoadFails
    BY <1>1, <1>11 DEF Crash, LoadBookmarks, LoadFails
<1>12. CASE UNCHANGED vars
    BY <1>1, <1>12
<1> QED
    BY <1>2, <1>3, <1>4, <1>5, <1>6, <1>7, <1>8, <1>9, <1>10, <1>11, <1>12
       DEF Next, Windows, Agent, Failure

\* Every step that loses a record, or drops one that parses, counts a failure.
LEMMA FlawlessStep == TypeOK /\ FlawlessInv /\ [Next]_vars => FlawlessInv'
<1> SUFFICES ASSUME TypeOK, FlawlessInv, [Next]_vars PROVE FlawlessInv'
    OBVIOUS
<1> USE EventLogAssumption DEF vars, envVars, queryVars, outVars, histVars
<1>f. Fault => faults' # 0
    BY DEF Fault, TypeOK
<1>1. ASSUME UNCHANGED <<log, last, dropped>>,
             faults' # 0 \/ UNCHANGED <<faults, lost>>
      PROVE  FlawlessInv'
    BY <1>1 DEF FlawlessInv, Parses
<1>2. ASSUME NEW c \in Channels, NEW kind \in Kinds, WriteRecord(c, kind)
      PROVE  FlawlessInv'
    <2>1. UNCHANGED <<outVars, histVars, faults>>
        BY <1>2, WriteKeeps
    <2>2. ASSUME NEW r \in dropped
          PROVE  r[2] <= last'[r[1]] /\ log'[r[1]][r[2]] = log[r[1]][r[2]]
        <3>1. r[1] \in Channels /\ r[2] \in Ids /\ r[2] <= last[r[1]]
            BY DEF TypeOK, Records, FlawlessInv
        <3> QED
            BY <1>2, <3>1, WriteKeeps
    <2> QED
        BY <2>1, <2>2 DEF FlawlessInv, Parses
<1>3. ASSUME NEW n \in Ids, NEW unread \in SUBSET Ids, FetchBatch(n, unread)
      PROVE  FlawlessInv'
    <2> DEFINE batch == {i \in Matching(chan, cursor) : i <= n}
               read  == {i \in batch : Parses(chan, i)} \ unread
               away  == {<<chan, i>> : i \in batch \ read}
    <2>1. dropped' = dropped \cup away /\ UNCHANGED <<log, last, lost>>
        BY <1>3, Zenon DEF FetchBatch
    <2>2. \A r \in away : r[1] = chan /\ r[2] <= last[chan]
        BY DEF Matching, TypeOK
    <2>3. CASE unread = {}
        <3>1. faults' = faults
            BY <1>3, <2>3 DEF FetchBatch
        <3>2. \A r \in away : ~Parses(r[1], r[2])
            BY <2>3
        <3> HIDE DEF away
        <3> QED
            BY <2>1, <2>2, <3>1, <3>2 DEF FlawlessInv, Parses
    <2>4. CASE unread # {}
        <3>1. faults' # 0
            BY <1>3, <1>f, <2>4 DEF FetchBatch
        <3> HIDE DEF away
        <3> QED
            BY <2>1, <2>2, <3>1 DEF FlawlessInv
    <2> QED
        BY <2>3, <2>4
<1>4. ASSUME NEW n \in Ids, FetchBatch(n, {}) PROVE FlawlessInv'
    BY <1>3, <1>4, {} \in SUBSET Ids, Zenon
<1>5. ASSUME NEW c \in Channels, Age(c) PROVE FlawlessInv'
    BY <1>1, <1>5 DEF Age
<1>6. CASE StartCheck \/ OpenQuery \/ QueryFails
    BY <1>1, <1>f, <1>6 DEF StartCheck, OpenQuery, QueryFails
<1>7. CASE QueryExhausted \/ EvtNextFails
    BY <1>1, <1>f, <1>7 DEF QueryExhausted, EvtNextFails, EndQuery
<1>8. CASE SaveBookmarks \/ SaveFails \/ FinishCheck
    BY <1>1, <1>f, <1>8 DEF SaveBookmarks, SaveFails, FinishCheck
<1>9. CASE SendLogs \/ SendLogsFails
    BY <1>1, <1>f, <1>9 DEF SendLogs, SendLogsFails
<1>10. ASSUME NEW r \in Records, SendAlert(r) \/ SendAlertFails(r) PROVE FlawlessInv'
    BY <1>1, <1>f, <1>10 DEF SendAlert, SendAlertFails
<1>11. CASE Crash \/ LoadBookmarks \/ LoadFails
    BY <1>1, <1>f, <1>11 DEF Crash, LoadBookmarks, LoadFails
<1>12. CASE UNCHANGED vars
    BY <1>1, <1>12
<1> QED
    BY <1>2, <1>3, <1>4, <1>5, <1>6, <1>7, <1>8, <1>9, <1>10, <1>11, <1>12
       DEF Next, Windows, Agent, Failure

\* The inductive step.  TypeOK' comes from TypeStep, AccountedInv'
\* and FlawlessInv' from the lemmas above; each case below takes the other
\* conjuncts that its action can disturb.
LEMMA InvStep == IInv /\ [Next]_vars => IInv'
<1> SUFFICES ASSUME IInv, [Next]_vars PROVE IInv'
    OBVIOUS
<1>t. TypeOK /\ TypeOK'
    BY TypeStep DEF IInv
<1> USE EventLogAssumption DEF vars, envVars, queryVars, outVars, histVars
<1> DEFINE Rest == /\ WithinLog /\ BookmarksCover /\ OpenQueryInv /\ SeenInv
                   /\ NoRepeatInRun /\ DiskBehind /\ NoLogsAtRest /\ CheckpointNotReread
<1>i. Rest
    BY DEF IInv
<1>a. AccountedInv' /\ FlawlessInv'
    BY AccountedStep, FlawlessStep DEF IInv
<1> SUFFICES Rest'
    BY <1>t, <1>a DEF IInv
<1>1. ASSUME NEW c \in Channels, NEW kind \in Kinds, WriteRecord(c, kind) PROVE Rest'
    <2>1. /\ last' = [last EXCEPT ![c] = @ + 1]
          /\ UNCHANGED <<aged, disk, bookmarks, pc, queryVars, outVars, histVars, amnesia>>
        BY <1>1 DEF WriteRecord
    <2>2. \A d \in Channels : last[d] <= last'[d]
        BY <2>1, <1>t DEF TypeOK
    <2>3. \A d \in Channels : \A i \in 1..last[d] : log'[d][i] = log[d][i]
        BY <1>1, <1>t DEF WriteRecord, TypeOK, Ids
    <2>4. WithinLog'
        BY <1>i, <1>t, <2>1, <2>2 DEF WithinLog, TypeOK
    <2>5. ASSUME NEW d \in Channels, NEW m \in Int, Covers(d, m), m <= last[d]
          PROVE  Covers(d, m)'
        BY <1>t, <2>1, <2>2, <2>3, <2>5
           DEF Covers, Monitored, Settled, TypeOK
    <2>6. BookmarksCover'
        BY <1>i, <1>t, <2>1, <2>5 DEF BookmarksCover, WithinLog, TypeOK
    <2>7. OpenQueryInv'
        BY <1>i, <1>t, <2>1, <2>2, <2>5 DEF OpenQueryInv, TypeOK
    <2>8. SeenInv' /\ NoRepeatInRun' /\ DiskBehind' /\ NoLogsAtRest' /\ CheckpointNotReread'
        BY <1>i, <2>1 DEF SeenInv, Reach, NoRepeatInRun, DiskBehind, NoLogsAtRest, CheckpointNotReread
    <2> QED
        BY <2>4, <2>6, <2>7, <2>8
<1>m. ASSUME UNCHANGED <<log, last>>, Settled \subseteq Settled',
             NEW c \in Channels, NEW m \in Int, Covers(c, m)
      PROVE  Covers(c, m)'
    BY <1>m DEF Covers, Monitored
<1>b. ASSUME UNCHANGED <<log, last, bookmarks, disk>>, Settled \subseteq Settled'
      PROVE  BookmarksCover'
    BY <1>b, <1>m, <1>i, <1>t DEF BookmarksCover, TypeOK
<1>2. ASSUME NEW c \in Channels, Age(c) PROVE Rest'
    <2>1. /\ aged' = [aged EXCEPT ![c] = @ + 1]
          /\ aged[c] < last[c]
          /\ UNCHANGED <<log, last, disk, bookmarks, pc, queryVars, outVars, histVars, amnesia>>
        BY <1>2 DEF Age
    <2>2. WithinLog'
        BY <1>i, <1>t, <2>1 DEF WithinLog, TypeOK
    <2>3. BookmarksCover'
        BY <1>b, <2>1 DEF Settled
    <2>4. OpenQueryInv'
        BY <1>i, <2>1 DEF OpenQueryInv, Covers, Monitored, Settled
    <2> QED
        BY <1>i, <2>1, <2>2, <2>3, <2>4
           DEF SeenInv, Reach, NoRepeatInRun, DiskBehind, NoLogsAtRest, CheckpointNotReread
<1>3. CASE StartCheck
    <2>1. /\ pc = "idle" /\ pc' = "query"
          /\ UNCHANGED <<log, last, aged, disk, bookmarks, outVars, histVars, amnesia>>
        BY <1>3 DEF StartCheck
    <2>2. BookmarksCover'
        BY <1>b, <2>1 DEF Settled
    <2>3. logs' = {}
        BY <1>i, <2>1 DEF NoLogsAtRest
    <2> QED
        BY <1>i, <2>1, <2>2, <2>3
           DEF WithinLog, OpenQueryInv, SeenInv, Reach, NoRepeatInRun, DiskBehind,
               NoLogsAtRest, CheckpointNotReread
<1>4. CASE OpenQuery
    <2>1. /\ pc = "query" /\ pc' = "next"
          /\ cursor' = QueryStart(chan)
          /\ highest' = bookmarks[chan]
          /\ UNCHANGED <<log, last, aged, disk, bookmarks, chan, outVars,
                         seen, repeated, collected, dropped, amnesia>>
        BY <1>4 DEF OpenQuery
    <2>2. windowed \subseteq windowed'
        BY <1>4 DEF OpenQuery
    <2>3. Settled \subseteq Settled'
        BY <2>1, <2>2 DEF Settled
    <2>4. BookmarksCover'
        BY <1>b, <2>1, <2>3
    <2>5. chan \in Channels /\ bookmarks[chan] \in Int /\ aged[chan] \in Int
          /\ last[chan] \in Int /\ 0 <= bookmarks[chan] /\ 0 <= aged[chan]
        BY <1>t DEF TypeOK
    <2>6. cursor' <= last'[chan'] /\ highest' <= cursor' /\ bookmarks'[chan'] <= highest'
        BY <1>i, <2>1, <2>5 DEF QueryStart, WithinLog
    <2>7. Covers(chan, cursor)'
        <3>1. CASE bookmarks[chan] # 0
            <4>1. Covers(chan, bookmarks[chan])
                BY <1>i, <2>5 DEF BookmarksCover
            <4> QED
                BY <2>1, <2>3, <3>1, <4>1 DEF QueryStart, Covers, Monitored
        <3>2. CASE bookmarks[chan] = 0
            <4>1. cursor' = aged[chan]
                BY <2>1, <3>2 DEF QueryStart
            <4>2. \A i \in 1..aged[chan] : <<chan, i>> \in windowed'
                BY <1>4, <3>2 DEF OpenQuery
            <4> QED
                BY <2>1, <2>5, <4>1, <4>2 DEF Covers, Settled
        <3> QED
            BY <3>1, <3>2
    <2>8. SeenInv'
        BY <1>i, <2>1 DEF SeenInv, Reach
    <2> QED
        BY <1>i, <2>1, <2>4, <2>6, <2>7, <2>8
           DEF WithinLog, OpenQueryInv, NoRepeatInRun, DiskBehind, NoLogsAtRest,
               CheckpointNotReread
<1>5. ASSUME NEW n \in Ids, NEW unread \in SUBSET Ids, FetchBatch(n, unread)
      PROVE  Rest'
    <2> DEFINE batch == {i \in Matching(chan, cursor) : i <= n}
               read  == {i \in batch : Parses(chan, i)} \ unread
               new   == {<<chan, i>> : i \in read}
    <2>1. /\ pc = "next" /\ n \in batch
          /\ cursor' = n
          /\ RaiseHighest(read)
          /\ logs' = logs \cup new
          /\ seen' = seen \cup new
          /\ repeated' = repeated \cup (seen \cap new)
          /\ dropped' = dropped \cup {<<chan, i>> : i \in batch \ read}
          /\ collected' = collected \cup new
          /\ UNCHANGED <<log, last, aged, disk, bookmarks, pc, chan, windowed, amnesia>>
        BY <1>5, Zenon DEF FetchBatch
    <2>2. /\ chan \in Channels /\ cursor \in Nat /\ highest \in Nat /\ n \in Nat
          /\ last[chan] \in Nat /\ bookmarks[chan] \in Nat /\ disk[chan] \in Nat
        BY <1>t DEF TypeOK, Ids
    <2>3. batch = {i \in (cursor + 1)..last[chan] : Monitored(chan, i) /\ i <= n}
        BY DEF Matching
    <2>4. n <= last[chan] /\ cursor < n
        BY <2>1, <2>2, <2>3
    <2>5. highest <= cursor /\ bookmarks[chan] <= highest /\ Covers(chan, cursor)
        BY <1>i, <2>1 DEF OpenQueryInv
    <2>6. \A i \in read : i \in Nat /\ cursor < i /\ i <= n
        BY <2>2, <2>3
    <2>7. /\ \A i \in read : i <= highest'
          /\ highest <= highest'
          /\ highest' <= n
          /\ highest' \in Nat
        BY <2>1, <2>2, <2>4, <2>5, <2>6 DEF RaiseHighest
    <2>8. \A i \in batch : <<chan, i>> \in Settled'
        BY <2>1 DEF Settled
    <2>9. Settled \subseteq Settled'
        BY <2>1 DEF Settled
    <2> HIDE DEF batch, read
    <2>10. Covers(chan, cursor)'
        <3>1. ASSUME NEW i \in 1..last[chan], i <= n, Monitored(chan, i)
              PROVE  <<chan, i>> \in Settled'
            <4>1. CASE i <= cursor
                BY <2>5, <2>9, <3>1, <4>1 DEF Covers
            <4>2. CASE cursor < i
                BY <2>2, <2>3, <2>8, <3>1, <4>2
            <4> QED
                BY <2>2, <3>1, <4>1, <4>2
        <3> QED
            BY <2>1, <3>1 DEF Covers, Monitored
    <2>11. OpenQueryInv'
        BY <2>1, <2>2, <2>4, <2>5, <2>7, <2>10 DEF OpenQueryInv
    <2>12. BookmarksCover'
        BY <1>b, <2>1, <2>9
    <2>13. \A r \in new : r[1] = chan /\ r[2] \in Nat /\ cursor < r[2] /\ r[2] <= highest'
        BY <2>6, <2>7
    <2>14. \A r \in seen : r[2] \in Nat /\ r[2] <= Reach(r[1])
        <3>1. seen \subseteq Channels \X Ids
            BY <1>t DEF TypeOK, Records
        <3>2. \A r \in Channels \X Ids : r[2] \in Ids
            OBVIOUS
        <3> QED
            BY <1>i, <3>1, <3>2 DEF SeenInv, Ids
    <2> HIDE DEF new
    <2>15. SeenInv'
        <3>1. ASSUME NEW r \in seen PROVE r[2] <= Reach(r[1])'
            BY <2>1, <2>2, <2>7, <2>14, <3>1 DEF Reach
        <3>2. ASSUME NEW r \in new PROVE r[2] <= Reach(r[1])'
            BY <2>1, <2>13, <3>2 DEF Reach
        <3> QED
            BY <2>1, <3>1, <3>2 DEF SeenInv
    <2>16. seen \cap new = {}
        BY <2>1, <2>2, <2>5, <2>13, <2>14 DEF Reach
    <2>17. NoRepeatInRun'
        BY <1>i, <2>1, <2>16 DEF NoRepeatInRun
    <2>18. CheckpointNotReread'
        <3> SUFFICES ASSUME ~amnesia, NEW r \in logs' PROVE r[2] > disk[r[1]]
            BY <2>1 DEF CheckpointNotReread
        <3>1. CASE r \in logs
            BY <1>i, <2>1, <3>1 DEF CheckpointNotReread
        <3>2. CASE r \in new
            <4>1. disk[chan] <= bookmarks[chan]
                BY <1>i, <2>1, <2>2 DEF DiskBehind
            <4> QED
                BY <2>2, <2>5, <2>13, <3>2, <4>1
        <3> QED
            BY <2>1, <3>1, <3>2
    <2> QED
        BY <1>i, <2>1, <2>11, <2>12, <2>15, <2>17, <2>18
           DEF WithinLog, DiskBehind, NoLogsAtRest
<1>6. ASSUME NextChannel PROVE pc' \in {"query", "save"}
    BY <1>6 DEF NextChannel
<1>7. CASE QueryExhausted \/ EvtNextFails
    <2>1. /\ pc = "next" /\ pc' \in {"query", "save"}
          /\ bookmarks' = IF highest > 0 THEN [bookmarks EXCEPT ![chan] = highest]
                                         ELSE bookmarks
          /\ UNCHANGED <<log, last, aged, disk, outVars, histVars, amnesia>>
        BY <1>6, <1>7 DEF QueryExhausted, EvtNextFails, EndQuery
    <2>2. /\ chan \in Channels /\ cursor \in Nat /\ highest \in Nat
          /\ bookmarks \in [Channels -> Nat] /\ last \in [Channels -> Nat]
        BY <1>t DEF TypeOK
    <2>3. /\ highest <= cursor /\ bookmarks[chan] <= highest
          /\ cursor <= last[chan] /\ Covers(chan, cursor)
        BY <1>i, <2>1 DEF OpenQueryInv
    <2>4. \A c \in Channels : bookmarks'[c] = IF c = chan THEN highest ELSE bookmarks[c]
        BY <2>1, <2>2, <2>3
    <2>5. Covers(chan, highest)
        BY <2>2, <2>3 DEF Covers
    <2>6. Settled \subseteq Settled'
        BY <2>1 DEF Settled
    <2>7. BookmarksCover'
        <3> SUFFICES ASSUME NEW c \in Channels
                     PROVE  Covers(c, bookmarks[c])' /\ Covers(c, disk[c])'
            BY DEF BookmarksCover
        <3>1. Covers(c, bookmarks'[c])
            BY <1>i, <2>2, <2>4, <2>5 DEF BookmarksCover
        <3>2. Covers(c, disk[c])
            BY <1>i DEF BookmarksCover
        <3> QED
            BY <2>1, <2>6, <3>1, <3>2 DEF Covers, Monitored
    <2>8. \A c \in Channels : bookmarks'[c] <= last[c] /\ bookmarks[c] <= bookmarks'[c]
        BY <1>i, <2>2, <2>3, <2>4 DEF WithinLog
    <2>9. WithinLog'
        BY <1>i, <2>1, <2>8 DEF WithinLog
    <2>10. SeenInv'
        BY <1>i, <1>t, <2>1, <2>2, <2>4 DEF SeenInv, Reach, TypeOK, Records
    <2>11. DiskBehind'
        BY <1>i, <1>t, <2>1, <2>2, <2>8 DEF DiskBehind, TypeOK
    <2> QED
        BY <1>i, <2>1, <2>7, <2>9, <2>10, <2>11
           DEF OpenQueryInv, NoRepeatInRun, NoLogsAtRest, CheckpointNotReread
<1>8. CASE QueryFails
    <2>1. /\ pc = "query" /\ pc' \in {"query", "save"}
          /\ UNCHANGED <<log, last, aged, disk, bookmarks, outVars, histVars, amnesia>>
        BY <1>6, <1>8 DEF QueryFails
    <2>2. BookmarksCover'
        BY <1>b, <2>1 DEF Settled
    <2> QED
        BY <1>i, <2>1, <2>2
           DEF WithinLog, OpenQueryInv, SeenInv, Reach, NoRepeatInRun, DiskBehind,
               NoLogsAtRest, CheckpointNotReread
<1>9. CASE SaveBookmarks \/ SaveFails
    <2>1. /\ pc = "save" /\ pc' = "send" /\ disk' \in {disk, bookmarks}
          /\ UNCHANGED <<log, last, aged, bookmarks, queryVars, outVars, histVars, amnesia>>
        BY <1>9 DEF SaveBookmarks, SaveFails
    <2>2. BookmarksCover'
        BY <1>i, <2>1 DEF BookmarksCover, Covers, Monitored, Settled
    <2>3. WithinLog'
        BY <1>i, <2>1 DEF WithinLog
    <2>4. DiskBehind'
        BY <1>i, <1>t, <2>1 DEF DiskBehind, TypeOK
    <2> QED
        BY <1>i, <2>1, <2>2, <2>3, <2>4
           DEF OpenQueryInv, SeenInv, Reach, NoRepeatInRun, NoLogsAtRest, CheckpointNotReread
<1>10. ASSUME UNCHANGED <<log, last, aged, disk, bookmarks, chan, cursor, highest,
                          seen, repeated, collected, dropped, windowed, amnesia>>,
              logs' \in {logs, {}},
              \/ UNCHANGED <<pc, logs>>
              \/ pc \in {"send", "alerts"} /\ pc' = "alerts" /\ logs' = {}
              \/ pc = "alerts" /\ pc' = "idle"
       PROVE  Rest'
    <2>1. BookmarksCover'
        BY <1>b, <1>10 DEF Settled
    <2>2. OpenQueryInv'
        BY <1>i, <1>10 DEF OpenQueryInv, Covers, Monitored, Settled
    <2> QED
        BY <1>i, <1>10, <2>1, <2>2
           DEF WithinLog, SeenInv, Reach, NoRepeatInRun, DiskBehind,
               NoLogsAtRest, CheckpointNotReread
<1>11. CASE SendLogs \/ SendLogsFails
    BY <1>10, <1>11 DEF SendLogs, SendLogsFails
<1>12. ASSUME NEW r \in Records, SendAlert(r) \/ SendAlertFails(r) PROVE Rest'
    BY <1>10, <1>12 DEF SendAlert, SendAlertFails
<1>13. CASE FinishCheck
    BY <1>10, <1>13 DEF FinishCheck
<1>14. CASE UNCHANGED vars
    BY <1>10, <1>14
<1>15. CASE Crash
    <2>1. /\ pc' = "down" /\ logs' = {} /\ seen' = {} /\ repeated' = {}
          /\ \A c \in Channels : bookmarks'[c] = 0
          /\ UNCHANGED <<log, last, aged, disk, collected, dropped, windowed, amnesia>>
        BY <1>15 DEF Crash, NoBookmarks
    <2>2. BookmarksCover'
        BY <1>i, <2>1 DEF BookmarksCover, Covers, Monitored, Settled
    <2>3. WithinLog'
        BY <1>i, <1>t, <2>1 DEF WithinLog, TypeOK
    <2> QED
        BY <2>1, <2>2, <2>3
           DEF OpenQueryInv, SeenInv, NoRepeatInRun, DiskBehind, NoLogsAtRest,
               CheckpointNotReread
<1>16. CASE LoadBookmarks \/ LoadFails
    <2>1. /\ pc = "down" /\ pc' = "idle"
          /\ \/ bookmarks' = disk
             \/ \A c \in Channels : bookmarks'[c] = 0
          /\ UNCHANGED <<log, last, aged, disk, outVars, histVars>>
        BY <1>16 DEF LoadBookmarks, LoadFails, NoBookmarks
    <2>2. BookmarksCover'
        BY <1>i, <2>1 DEF BookmarksCover, Covers, Monitored, Settled
    <2>3. WithinLog'
        BY <1>i, <1>t, <2>1 DEF WithinLog, TypeOK
    <2>4. ~amnesia' => bookmarks' = disk'
        BY <1>16 DEF LoadBookmarks, LoadFails
    <2>5. DiskBehind'
        BY <1>t, <2>1, <2>4 DEF DiskBehind, TypeOK
    <2> QED
        BY <1>i, <2>1, <2>2, <2>3, <2>5
           DEF OpenQueryInv, SeenInv, Reach, NoRepeatInRun, NoLogsAtRest, CheckpointNotReread
<1>17. ASSUME NEW n \in Ids, FetchBatch(n, {}) PROVE Rest'
    BY <1>5, <1>17, {} \in SUBSET Ids, Zenon
<1> HIDE DEF Rest
<1> QED
    BY <1>1, <1>2, <1>3, <1>4, <1>5, <1>7, <1>8, <1>9, <1>11, <1>12, <1>13, <1>14, <1>15,
       <1>16, <1>17 DEF Next, Windows, Agent, Failure

\* The bookmarks file is written by save_bookmarks and by nothing else.
LEMMA OnlySaveWritesDisk == Next => SaveBookmarks \/ UNCHANGED disk
BY DEF Next, Windows, Agent, Failure, WriteRecord, Age, StartCheck, OpenQuery, QueryFails,
   FetchBatch, QueryExhausted, EvtNextFails, EndQuery, SaveFails, SendLogs, SendLogsFails,
   SendAlert, SendAlertFails, FinishCheck, Crash, LoadBookmarks, LoadFails

THEOREM Invariance == Spec => []IInv
<1>1. Init => IInv
    BY InitEstablishes
<1>2. IInv /\ [Next]_vars => IInv'
    BY InvStep
<1> QED
    BY <1>1, <1>2, PTL DEF Spec

\* Every variable keeps its type.
THEOREM TypeCorrect == Spec => []TypeOK
<1>1. IInv => TypeOK
    BY DEF IInv
<1> QED
    BY <1>1, Invariance, PTL

\* query_channel and save_bookmarks never let a bookmark pass a record that no
\* query handed out.
THEOREM BookmarksNeverSkip == Spec => []BookmarksCover
<1>1. IInv => BookmarksCover
    BY DEF IInv
<1> QED
    BY <1>1, Invariance, PTL

\* A process never collects the same record twice.
THEOREM CollectedOncePerRun == Spec => []NoRepeatInRun
<1>1. IInv => NoRepeatInRun
    BY DEF IInv
<1> QED
    BY <1>1, Invariance, PTL

\* Only records beyond the bookmarks file can be collected again after a restart.
THEOREM RereadOnlyBeyondDisk == Spec => []CheckpointNotReread
<1>1. IInv => CheckpointNotReread
    BY DEF IInv
<1> QED
    BY <1>1, Invariance, PTL

\* A record that the bookmarks file has passed is with the backend, in the hands
\* of the running check, or lost to a failure that can be named.
THEOREM PassedIsAccountedFor == Spec => []NothingVanishes
<1>1. IInv => NothingVanishes
    <2> SUFFICES ASSUME IInv, NEW c \in Channels, NEW i \in 1..disk[c]
                 PROVE  /\ Parses(c, i) => <<c, i>> \in logs \cup sent \cup lost \cup Forgone
                        /\ log[c][i] = "alert"
                             => <<c, i>> \in alerts \cup raised \cup lost \cup Forgone
        BY DEF NothingVanishes, IInv, FlawlessInv
    <2>1. i \in 1..last[c] /\ i <= disk[c]
        BY DEF IInv, TypeOK, WithinLog
    <2>2. Monitored(c, i) => <<c, i>> \in collected \cup Forgone
        BY <2>1 DEF IInv, BookmarksCover, Covers, Settled, Forgone
    <2>3. <<c, i>> \in collected =>
              /\ <<c, i>> \in logs \cup sent \cup lost
              /\ log[c][i] = "alert" => <<c, i>> \in alerts \cup raised \cup lost
        BY DEF IInv, AccountedInv
    <2> QED
        BY <2>2, <2>3 DEF Monitored, Parses
<1> QED
    BY <1>1, Invariance, PTL

\* The bookmarks file moves forward unless the run could not read it.
THEOREM DiskNeverRegresses == Spec => DiskMonotone
<1>1. IInv /\ [Next]_vars => [~amnesia => \A c \in Channels : disk[c] <= disk'[c]]_vars
    <2> SUFFICES ASSUME IInv, Next, ~amnesia, NEW c \in Channels
                 PROVE  disk[c] <= disk'[c]
        BY DEF vars, IInv
    <2>1. disk[c] \in Nat /\ bookmarks[c] \in Nat
        BY DEF IInv, TypeOK
    <2>2. CASE SaveBookmarks
        BY <2>1, <2>2 DEF SaveBookmarks, IInv, DiskBehind
    <2>3. CASE UNCHANGED disk
        BY <2>1, <2>3
    <2> QED
        BY <2>2, <2>3, OnlySaveWritesDisk
<1> QED
    BY <1>1, Invariance, PTL DEF Spec, DiskMonotone

-----------------------------------------------------------------------------

\* The records of channel c that the abstract tail sees.
Written(c) == {i \in 1..last[c] : Monitored(c, i)}

\* An unwritten log is an empty one, and starting without a file is trusted.
LEMMA TailInit == Init => BookmarkTail!Init
<1> SUFFICES ASSUME Init PROVE BookmarkTail!Init
    OBVIOUS
<1>1. [c \in Channels |-> Written(c)] = [c \in Channels |-> {}]
    <2>1. \A c \in Channels : Written(c) = {}
        BY DEF Init, NoBookmarks, Written
    <2> QED
        BY <2>1
<1>2. Settled = {} /\ disk = [c \in Channels |-> 0]
    BY DEF Init, Settled, NoBookmarks
<1>3. (~amnesia) = TRUE
    BY DEF Init
<1> QED
    BY <1>1, <1>2, <1>3, Zenon DEF BookmarkTail!Init, BookmarkTail!Logs, Channels, Written

\* What one step does to the four things the abstract tail consists of.
LEMMA StepEffect ==
    ASSUME Next
    PROVE  \/ \E c \in Channels, kind \in Kinds : WriteRecord(c, kind)
           \/ /\ Settled \subseteq Settled'
              /\ UNCHANGED <<log, last, disk, amnesia>>
           \/ SaveBookmarks
           \/ LoadBookmarks \/ LoadFails
<1> USE DEF envVars, queryVars, outVars, histVars, Settled
<1>1. ASSUME NEW c \in Channels, Age(c)
      PROVE  Settled \subseteq Settled' /\ UNCHANGED <<log, last, disk, amnesia>>
    BY <1>1 DEF Age
<1>2. CASE StartCheck \/ QueryFails \/ QueryExhausted \/ EvtNextFails \/ SaveFails
    BY <1>2 DEF StartCheck, QueryFails, QueryExhausted, EvtNextFails, EndQuery, SaveFails
<1>3. CASE OpenQuery
    BY <1>3 DEF OpenQuery
<1>4. ASSUME NEW n, NEW unread, FetchBatch(n, unread)
      PROVE  Settled \subseteq Settled' /\ UNCHANGED <<log, last, disk, amnesia>>
    BY <1>4 DEF FetchBatch
<1>5. CASE SendLogs \/ SendLogsFails \/ FinishCheck \/ Crash
    BY <1>5 DEF SendLogs, SendLogsFails, FinishCheck, Crash
<1>6. ASSUME NEW r, SendAlert(r) \/ SendAlertFails(r)
      PROVE  Settled \subseteq Settled' /\ UNCHANGED <<log, last, disk, amnesia>>
    BY <1>6 DEF SendAlert, SendAlertFails
<1> HIDE DEF Settled
<1> QED
    BY <1>1, <1>2, <1>3, <1>4, <1>5, <1>6 DEF Next, Windows, Agent, Failure

LEMMA TailStep == IInv /\ [Next]_vars => [BookmarkTail!Next]_BookmarkTail!tailVars
<1> SUFFICES ASSUME IInv, [Next]_vars PROVE [BookmarkTail!Next]_BookmarkTail!tailVars
    OBVIOUS
<1> USE EventLogAssumption DEF envVars, queryVars, outVars, histVars
<1> DEFINE W == [c \in Channels |-> Written(c)]
<1>t. TypeOK /\ WithinLog /\ BookmarksCover /\ DiskBehind
    BY DEF IInv
<1>u. UNCHANGED <<log, last>> => UNCHANGED W
    BY DEF Written, Monitored
<1>1. ASSUME NEW c \in Channels, NEW kind \in Kinds, WriteRecord(c, kind)
      PROVE  BookmarkTail!Write
    <2>1. /\ last' = [last EXCEPT ![c] = @ + 1]
          /\ log' = [log EXCEPT ![c][last[c] + 1] = kind]
          /\ UNCHANGED <<Settled, disk, ~amnesia>>
        BY <1>1 DEF WriteRecord, Settled
    <2>2. \A d \in Channels : \A i \in 1..last[d] : log'[d][i] = log[d][i]
        BY <1>t, <1>1 DEF WriteRecord, TypeOK, Ids
    <2>3. \A d \in Channels : last[d] <= last'[d] /\ disk[d] <= last[d]
        BY <1>t, <2>1 DEF TypeOK, WithinLog
    <2>4. W' \in [Channels -> SUBSET Nat]
        BY DEF Written
    <2>5. ASSUME NEW d \in Channels
          PROVE  /\ W[d] \subseteq W'[d]
                 /\ \A i \in W'[d] \ W[d] : i > disk[d]
        <3>1. /\ W[d] = {i \in 1..last[d] : log[d][i] # "other"}
              /\ W'[d] = {i \in 1..last'[d] : log'[d][i] # "other"}
            BY DEF Written, Monitored
        <3>2. last[d] \in Nat /\ last'[d] \in Nat /\ disk[d] \in Nat
            BY <1>t, <2>1 DEF TypeOK
        <3> HIDE DEF W
        <3>3. ASSUME NEW i \in W[d] PROVE i \in W'[d]
            BY <2>2, <2>3, <3>1, <3>2, <3>3
        <3>4. ASSUME NEW i \in W'[d] \ W[d] PROVE i > disk[d]
            BY <2>2, <2>3, <3>1, <3>2, <3>4
        <3> QED
            BY <3>3, <3>4
    <2> QED
        BY <2>1, <2>4, <2>5, Zenon DEF BookmarkTail!Write, BookmarkTail!Logs, Channels, Written
<1>2. CASE Settled \subseteq Settled' /\ UNCHANGED <<log, last, disk, amnesia>>
    <2>1. UNCHANGED <<W, disk, ~amnesia>>
        BY <1>2, <1>u
    <2> QED
        BY <1>2, <2>1 DEF BookmarkTail!Next, BookmarkTail!Account, Written
<1>3. CASE SaveBookmarks
    <2>1. /\ disk' = bookmarks /\ pc = "save"
          /\ UNCHANGED <<log, last, Settled, ~amnesia>>
        BY <1>3 DEF SaveBookmarks, Settled
    <2>2. disk' \in [Channels -> Nat]
        BY <1>t, <2>1 DEF TypeOK
    <2>3. \A c \in Channels : \A i \in Written(c) : i <= disk'[c] => <<c, i>> \in Settled
        BY <1>t, <2>1 DEF BookmarksCover, Covers, Written
    <2>4. ~amnesia => \A c \in Channels : disk[c] <= disk'[c]
        BY <1>t, <2>1 DEF DiskBehind
    <2>5. UNCHANGED <<W, Settled, ~amnesia>>
        BY <1>u, <2>1
    <2>6. \A c \in Channels : \A i \in W[c] : i <= disk'[c] => <<c, i>> \in Settled
        BY <2>3
    <2> QED
        BY <2>2, <2>4, <2>5, <2>6
           DEF BookmarkTail!Next, BookmarkTail!Checkpoint, BookmarkTail!Logs, Channels, Written
<1>4. CASE LoadBookmarks \/ LoadFails
    <2>1. UNCHANGED <<log, last, Settled, disk>>
        BY <1>4 DEF LoadBookmarks, LoadFails, Settled
    <2>2. UNCHANGED <<W, Settled, disk>> /\ (~amnesia)' \in BOOLEAN
        BY <1>u, <2>1
    <2> QED
        BY <2>2 DEF BookmarkTail!Next, BookmarkTail!Restart, Written
<1>5. CASE UNCHANGED vars
    <2>1. UNCHANGED <<log, last, Settled, disk, amnesia>>
        BY <1>5 DEF vars, Settled
    <2> QED
        BY <1>u, <2>1, Zenon DEF BookmarkTail!tailVars, Written
<1> QED
    BY <1>1, <1>2, <1>3, <1>4, <1>5, StepEffect, Zenon DEF BookmarkTail!Next

\* The monitor is the tail of EventTail, its bookmarks file the checkpoint.
THEOREM Refinement == Spec => ImplementsTail
<1> QED
    BY TailInit, TailStep, Invariance, PTL DEF Spec, ImplementsTail, BookmarkTail!Spec

=============================================================================
