--------------------------- MODULE EventLogMonitor ---------------------------
(***************************************************************************)
(* The Windows Event Log monitor (agent/modules/eventlog_monitor.py) with   *)
(* the job that runs it (AgentScheduler.run_eventlog_check) and the process *)
(* around them, which may die at any step and load its bookmarks again.     *)
(*                                                                         *)
(* A channel is its position in EventLogMonitor.channels, the order in      *)
(* which check_events polls.  A record is its EventRecordID, counted per    *)
(* channel from 1, with one of four kinds: "log" and "alert" are records    *)
(* with a monitored event id (an "alert" one is turned into an alert by     *)
(* evaluate_log_for_alerts), "bad" is monitored but its XML never parses,   *)
(* "other" has an id the XPath query leaves out.  A bookmark of 0 is a      *)
(* channel without a bookmark.                                              *)
(*                                                                         *)
(* Failures (a query, a batch, a rendering, a save, a load, a send, a       *)
(* crash) each use one of MaxFaults faults; MaxRecords bounds each log.     *)
(***************************************************************************)
EXTENDS Integers, FiniteSets

CONSTANTS
    NumChannels,    \* how many channels are polled
    Kinds,          \* the kinds of record that occur
    BatchSize,      \* how many handles EvtNext returns at most (10 in the code)
    MaxRecords,     \* bound: records a channel receives
    MaxFaults       \* bound: failures of any sort

ASSUME EventLogAssumption ==
    /\ NumChannels \in Nat \ {0}
    /\ Kinds \subseteq {"log", "alert", "bad", "other"}
    /\ BatchSize \in Nat \ {0}
    /\ MaxRecords \in Nat
    /\ MaxFaults \in Nat

Channels == 1..NumChannels
Ids == 1..MaxRecords
Records == Channels \X Ids

VARIABLES
    log,        \* log[c][i]: the kind of record i of channel c, "none" beyond last[c]
    last,       \* last[c]: the highest EventRecordID of channel c
    aged,       \* aged[c]: the records of c older than 60 minutes are 1..aged[c]
    disk,       \* the bookmarks file
    bookmarks,  \* self.bookmarks
    pc,         \* where the monitor's thread is
    chan,       \* the channel of the current iteration of check_events
    cursor,     \* the last record the open query handed out
    highest,    \* highest_record_id
    logs,       \* collected_logs, then what run_eventlog_check still has to send
    alerts,     \* the alerts still to send
    sent,       \* the records the backend has as telemetry
    raised,     \* the records the backend has an alert for
    faults      \* how many failures have happened

\* History of the run and of all runs, read by the properties only.
VARIABLES
    seen,       \* the records this run of the process has collected
    repeated,   \* the records this run collected a second time
    collected,  \* the records some run collected
    dropped,    \* the records a query passed over because rendering or parsing failed
    windowed,   \* the records a query without a bookmark left out as too old
    lost,       \* collected records whose telemetry or alert a failed POST or a crash lost
    amnesia     \* TRUE while this run works with bookmarks it failed to load

envVars   == <<log, last, aged>>
queryVars == <<chan, cursor, highest>>
outVars   == <<logs, alerts, sent, raised>>
histVars  == <<seen, repeated, collected, dropped, windowed, lost>>
vars      == <<envVars, disk, bookmarks, pc, queryVars, outVars, faults, histVars, amnesia>>

NoBookmarks == [c \in Channels |-> 0]

Monitored(c, i) == log[c][i] # "other"

\* Records that can be rendered into an event.
Parses(c, i) == log[c][i] \in {"log", "alert"}

\* What the XPath query of channel c still selects after the record `after`.
Matching(c, after) == {i \in (after + 1)..last[c] : Monitored(c, i)}

\* A record no bookmark has to wait for any more.
Settled == collected \cup dropped \cup windowed

Fault == faults < MaxFaults /\ faults' = faults + 1

Init ==
    /\ log = [c \in Channels |-> [i \in Ids |-> "none"]]
    /\ last = NoBookmarks
    /\ aged = NoBookmarks
    /\ disk = NoBookmarks
    /\ bookmarks = NoBookmarks
    /\ pc = "idle"
    /\ chan = 1
    /\ cursor = 0
    /\ highest = 0
    /\ logs = {}
    /\ alerts = {}
    /\ sent = {}
    /\ raised = {}
    /\ faults = 0
    /\ seen = {}
    /\ repeated = {}
    /\ collected = {}
    /\ dropped = {}
    /\ windowed = {}
    /\ lost = {}
    /\ amnesia = FALSE

-----------------------------------------------------------------------------
(* Slips: wrong forms of operators defined below.  No specification here     *)
(* uses them; each breaks a property that the true form keeps.               *)

\* `EventRecordID >= bookmark`, which reads the bookmarked record again.
QueryStartInclusive(c) == IF bookmarks[c] # 0 THEN bookmarks[c] - 1 ELSE aged[c]

\* The bookmark taken for the next record to read, not for the last one read.
RaiseHighestPast(read) ==
    IF read = {}
    THEN UNCHANGED highest
    ELSE \E m \in read : /\ \A i \in read : i <= m
                         /\ highest' = m + 1

\* A channel loop that ends before the last channel.
NextChannelShort ==
    IF chan >= NumChannels - 1
    THEN pc' = "save" /\ UNCHANGED chan
    ELSE pc' = "query" /\ chan' = chan + 1

\* A query that ends at the newest record of the channel, read or not.
EndQueryAtNewest ==
    /\ bookmarks' = [bookmarks EXCEPT ![chan] = last[chan]]
    /\ IF chan = NumChannels
       THEN pc' = "save" /\ UNCHANGED chan
       ELSE pc' = "query" /\ chan' = chan + 1
    /\ UNCHANGED <<envVars, disk, cursor, highest, outVars, histVars, amnesia>>

\* A check that returns after its POST of the logs.
SendLogsOnly ==
    /\ pc = "send"
    /\ sent' = sent \cup logs
    /\ logs' = {}
    /\ alerts' = {}
    /\ pc' = "alerts"
    /\ UNCHANGED <<envVars, disk, bookmarks, queryVars, raised, faults, histVars, amnesia>>

\* A start that goes on without the file it could have read.
LoadBookmarksForgets ==
    /\ pc = "down"
    /\ bookmarks' = NoBookmarks
    /\ amnesia' = FALSE
    /\ pc' = "idle"
    /\ UNCHANGED <<envVars, disk, queryVars, outVars, faults, histVars>>

-----------------------------------------------------------------------------
(* Windows: records are appended and grow older, whatever the agent does.    *)

WriteRecord(c, kind) ==
    /\ last[c] < MaxRecords
    /\ last' = [last EXCEPT ![c] = @ + 1]
    /\ log' = [log EXCEPT ![c][last[c] + 1] = kind]
    /\ UNCHANGED <<aged, disk, bookmarks, pc, queryVars, outVars, faults, histVars, amnesia>>

Age(c) ==
    /\ aged[c] < last[c]
    /\ aged' = [aged EXCEPT ![c] = @ + 1]
    /\ UNCHANGED <<log, last, disk, bookmarks, pc, queryVars, outVars, faults, histVars, amnesia>>

-----------------------------------------------------------------------------
(* check_events: query every channel in turn, then save the bookmarks.       *)

StartCheck ==
    /\ pc = "idle"
    /\ pc' = "query"
    /\ chan' = 1
    /\ UNCHANGED <<envVars, disk, bookmarks, cursor, highest, outVars, faults, histVars, amnesia>>

\* Where the records of channel c that a new query selects begin: after the
\* bookmark, or 60 minutes ago when there is none.
QueryStart(c) == IF bookmarks[c] # 0 THEN bookmarks[c] ELSE aged[c]

\* EvtQuery succeeds.  Without a bookmark the older records are out of reach.
OpenQuery ==
    /\ pc = "query"
    /\ pc' = "next"
    /\ cursor' = QueryStart(chan)
    /\ highest' = bookmarks[chan]
    /\ windowed' = IF bookmarks[chan] = 0
                   THEN windowed \cup {<<chan, i>> : i \in 1..aged[chan]}
                   ELSE windowed
    /\ UNCHANGED <<envVars, disk, bookmarks, chan, outVars, faults,
                   seen, repeated, collected, dropped, lost, amnesia>>

\* The next channel of `for channel in self.channels`, or save_bookmarks.
NextChannel ==
    IF chan = NumChannels
    THEN pc' = "save" /\ UNCHANGED chan
    ELSE pc' = "query" /\ chan' = chan + 1

\* EvtQuery raises: no event, and the channel's bookmark stays.
QueryFails ==
    /\ pc = "query"
    /\ Fault
    /\ NextChannel
    /\ UNCHANGED <<envVars, disk, bookmarks, cursor, highest, outVars, histVars, amnesia>>

\* highest_record_id after a batch: only parsed events raise it.
RaiseHighest(read) ==
    IF read = {}
    THEN UNCHANGED highest
    ELSE highest' \in read /\ \A i \in read : i <= highest'

\* EvtNext hands out the selected records up to n; each is rendered and parsed,
\* and one whose rendering or parsing fails is passed over.
FetchBatch(n, unread) ==
    LET batch == {i \in Matching(chan, cursor) : i <= n}
        read  == {i \in batch : Parses(chan, i)} \ unread
        new   == {<<chan, i>> : i \in read}
    IN  /\ pc = "next"
        /\ n \in batch
        /\ Cardinality(batch) <= BatchSize
        /\ unread \subseteq {i \in batch : Parses(chan, i)}
        /\ IF unread = {} THEN UNCHANGED faults ELSE Fault
        /\ cursor' = n
        /\ RaiseHighest(read)
        /\ logs' = logs \cup new
        /\ alerts' = alerts \cup {r \in new : log[chan][r[2]] = "alert"}
        /\ seen' = seen \cup new
        /\ repeated' = repeated \cup (seen \cap new)
        /\ dropped' = dropped \cup {<<chan, i>> : i \in batch \ read}
        /\ collected' = collected \cup new
        /\ UNCHANGED <<envVars, disk, bookmarks, pc, chan, sent, raised,
                       windowed, lost, amnesia>>

\* The loop over EvtNext ends and the channel's bookmark takes highest_record_id.
EndQuery ==
    /\ bookmarks' = IF highest > 0
                    THEN [bookmarks EXCEPT ![chan] = highest]
                    ELSE bookmarks
    /\ NextChannel
    /\ UNCHANGED <<envVars, disk, cursor, highest, outVars, histVars, amnesia>>

QueryExhausted ==
    /\ pc = "next"
    /\ Matching(chan, cursor) = {}
    /\ EndQuery
    /\ UNCHANGED faults

\* EvtNext raises: the loop breaks, and the bookmark is updated all the same.
EvtNextFails ==
    /\ pc = "next"
    /\ Fault
    /\ EndQuery

\* save_bookmarks: a temporary file renamed over the old one, so it is all or
\* nothing; a failure is logged and the check goes on.
SaveBookmarks ==
    /\ pc = "save"
    /\ disk' = bookmarks
    /\ pc' = "send"
    /\ UNCHANGED <<envVars, bookmarks, queryVars, outVars, faults, histVars, amnesia>>

SaveFails ==
    /\ pc = "save"
    /\ Fault
    /\ pc' = "send"
    /\ UNCHANGED <<envVars, disk, bookmarks, queryVars, outVars, histVars, amnesia>>

-----------------------------------------------------------------------------
(* run_eventlog_check: one POST with all logs, then one per alert.  Neither  *)
(* a failed POST nor the alerts' failures are looked at.                     *)

SendLogs ==
    /\ pc = "send"
    /\ sent' = sent \cup logs
    /\ logs' = {}
    /\ pc' = "alerts"
    /\ UNCHANGED <<envVars, disk, bookmarks, queryVars, alerts, raised,
                   faults, histVars, amnesia>>

SendLogsFails ==
    /\ pc = "send"
    /\ logs # {}
    /\ Fault
    /\ logs' = {}
    /\ lost' = lost \cup logs
    /\ pc' = "alerts"
    /\ UNCHANGED <<envVars, disk, bookmarks, queryVars, alerts, sent, raised,
                   seen, repeated, collected, dropped, windowed, amnesia>>

SendAlert(r) ==
    /\ pc = "alerts"
    /\ r \in alerts
    /\ alerts' = alerts \ {r}
    /\ raised' = raised \cup {r}
    /\ UNCHANGED <<envVars, disk, bookmarks, pc, queryVars, logs, sent,
                   faults, histVars, amnesia>>

SendAlertFails(r) ==
    /\ pc = "alerts"
    /\ r \in alerts
    /\ Fault
    /\ alerts' = alerts \ {r}
    /\ lost' = lost \cup {r}
    /\ UNCHANGED <<envVars, disk, bookmarks, pc, queryVars, logs, sent, raised,
                   seen, repeated, collected, dropped, windowed, amnesia>>

FinishCheck ==
    /\ pc = "alerts"
    /\ alerts = {}
    /\ pc' = "idle"
    /\ UNCHANGED <<envVars, disk, bookmarks, queryVars, outVars, faults, histVars, amnesia>>

-----------------------------------------------------------------------------
(* The process dies and starts again.                                        *)

\* Everything but the file and what the backend has is gone.
Crash ==
    /\ pc # "down"
    /\ Fault
    /\ pc' = "down"
    /\ logs' = {}
    /\ alerts' = {}
    /\ seen' = {}
    /\ repeated' = {}
    /\ bookmarks' = NoBookmarks
    /\ chan' = 1
    /\ cursor' = 0
    /\ highest' = 0
    /\ lost' = lost \cup logs \cup alerts
    /\ UNCHANGED <<envVars, disk, sent, raised, collected, dropped, windowed, amnesia>>

\* load_bookmarks in the constructor.
LoadBookmarks ==
    /\ pc = "down"
    /\ bookmarks' = disk
    /\ amnesia' = FALSE
    /\ pc' = "idle"
    /\ UNCHANGED <<envVars, disk, queryVars, outVars, faults, histVars>>

\* An unreadable file: the monitor starts without bookmarks.
LoadFails ==
    /\ pc = "down"
    /\ Fault
    /\ bookmarks' = NoBookmarks
    /\ amnesia' = TRUE
    /\ pc' = "idle"
    /\ UNCHANGED <<envVars, disk, queryVars, outVars, histVars>>

Windows ==
    \E c \in Channels : Age(c) \/ \E kind \in Kinds : WriteRecord(c, kind)

\* Steps the agent takes when nothing goes wrong.
Agent ==
    \/ StartCheck \/ OpenQuery
    \/ \E n \in Ids : FetchBatch(n, {})
    \/ QueryExhausted \/ SaveBookmarks \/ SendLogs
    \/ \E r \in Records : SendAlert(r)
    \/ FinishCheck \/ LoadBookmarks

Failure ==
    \/ QueryFails
    \/ \E n \in Ids : \E unread \in SUBSET Ids \ {{}} : FetchBatch(n, unread)
    \/ EvtNextFails \/ SaveFails \/ SendLogsFails
    \/ \E r \in Records : SendAlertFails(r)
    \/ Crash \/ LoadFails

Next == Windows \/ Agent \/ Failure

Spec == Init /\ [][Next]_vars

\* The scheduler runs the job again and again and a call into Windows or the
\* network returns, so the agent keeps taking steps as long as it can take one.
FairSpec == Spec /\ WF_vars(Agent)

-----------------------------------------------------------------------------
(* Properties.                                                               *)

TypeOK ==
    /\ log \in [Channels -> [Ids -> Kinds \cup {"none"}]]
    /\ last \in [Channels -> 0..MaxRecords]
    /\ aged \in [Channels -> 0..MaxRecords]
    /\ disk \in [Channels -> 0..MaxRecords]
    /\ bookmarks \in [Channels -> 0..MaxRecords]
    /\ pc \in {"idle", "query", "next", "save", "send", "alerts", "down"}
    /\ chan \in Channels
    /\ cursor \in 0..MaxRecords
    /\ highest \in 0..MaxRecords
    /\ logs \subseteq Records
    /\ alerts \subseteq Records
    /\ sent \subseteq Records
    /\ raised \subseteq Records
    /\ faults \in 0..MaxFaults
    /\ seen \subseteq Records
    /\ repeated \subseteq Records
    /\ collected \subseteq Records
    /\ dropped \subseteq Records
    /\ windowed \subseteq Records
    /\ lost \subseteq Records
    /\ amnesia \in BOOLEAN

\* Every monitored record up to `mark` is settled.
Covers(c, mark) ==
    \A i \in 1..last[c] : i <= mark /\ Monitored(c, i) => <<c, i>> \in Settled

\* No bookmark, in memory or on disk, passes a monitored record that no query
\* handed out, short of those older than the look-back of a query without a
\* bookmark: polling, failing, crashing and reloading never skip a record.
BookmarksCover ==
    \A c \in Channels : Covers(c, bookmarks[c]) /\ Covers(c, disk[c])

\* One run of the process collects a record at most once, however its queries
\* and batches fail: no duplicate telemetry, no duplicate alert from one run.
NoRepeatInRun == repeated = {}

\* What the running check has collected lies beyond the bookmarks file until the
\* file is saved, so a record is collected again after a restart only if the
\* crash or a failed save kept its bookmark from the disk.
CheckpointNotReread ==
    ~amnesia /\ pc \in {"query", "next", "save"} =>
        \A r \in logs : r[2] > disk[r[1]]

\* Records a query passed over, unrendered or older than its look-back.
Forgone == dropped \cup windowed

\* What a bookmark has passed is accounted for.  The telemetry of a record at or
\* below the bookmark on disk, which no later run reads again, is with the
\* backend, in the hands of the running check, or lost to a POST that failed or a
\* crash; so is its alert if it calls for one, whatever became of the telemetry.
\* As long as nothing has failed, only the look-back costs a record.
NothingVanishes ==
    /\ \A c \in Channels : \A i \in 1..disk[c] :
        /\ Parses(c, i) => <<c, i>> \in logs \cup sent \cup lost \cup Forgone
        /\ log[c][i] = "alert" => <<c, i>> \in alerts \cup raised \cup lost \cup Forgone
    /\ faults = 0 => lost = {} /\ \A r \in dropped : ~Parses(r[1], r[2])

\* The bookmarks file moves backwards only in a run that could not read it.
DiskMonotone ==
    [][~amnesia => \A c \in Channels : disk[c] <= disk'[c]]_vars

\* An abstract tail: the records that matter are the monitored ones, and the
\* monitor's bookmarks file is its checkpoint.
BookmarkTail == INSTANCE EventTail WITH
    NumLogs    <- NumChannels,
    written    <- [c \in Channels |-> {i \in 1..last[c] : Monitored(c, i)}],
    accounted  <- Settled,
    checkpoint <- disk,
    trusted    <- ~amnesia

\* The monitor is such a tail.
ImplementsTail == BookmarkTail!Spec

\* A comment of query_channel: "Update bookmark only after successful processing".
\* Read of every record: none at or below the bookmark failed to be processed.
BookmarkAfterProcessing ==
    \A c \in Channels : \A i \in 1..MaxRecords :
        <<c, i>> \in dropped => i > bookmarks[c]

\* With finitely many failures every record has its end: it reaches the backend
\* as telemetry (and as an alert if it is one), or one failed POST, one crash, a
\* failed rendering or the look-back window has cost it.  No channel starves
\* another and no record is overlooked for good.
EventuallyAccounted ==
    \A r \in Records :
        /\ (r[2] <= last[r[1]] /\ Parses(r[1], r[2]))
              ~> (r \in sent \cup lost \cup dropped \cup windowed)
        /\ (r[2] <= last[r[1]] /\ log[r[1]][r[2]] = "alert")
              ~> (r \in raised \cup lost \cup dropped \cup windowed)

=============================================================================
