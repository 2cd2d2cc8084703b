# Sentinel EDR agent: TLA+ specifications and proofs

This directory models the endpoint agent of the repository (`agent/`): how it
follows the Windows Event Log, how it watches processes, services, load and
network, how it matches indicators of compromise (IOCs), how its scheduler
starts, runs, reloads and stops, how its REST client stays authenticated against
the backend, what becomes of the configuration file they share, and how the
dashboard's script keeps up with the alerts. TLC checks the models on small
instances; TLAPS proves their safety properties for every value of the constants.

## 1. The system

| Component | Source | State it keeps | Operations |
|---|---|---|---|
| Event log monitor | `agent/modules/eventlog_monitor.py` | bookmark per channel, in memory and in `agent/bookmarks.json` | `load_bookmarks`, `query_channel`, `check_events`, `save_bookmarks` |
| Process monitor | `agent/modules/process_monitor.py` | the PIDs and records of the previous scan | `get_process_info`, `check_processes` |
| Service monitor | `agent/modules/service_monitor.py` | the status of each service at the previous scan | `check_services` |
| IOC engine | `agent/modules/ioc_engine.py` | the cached indicators | `update_iocs`, `scan_system` |
| Network monitor | `agent/modules/network_monitor.py` | the previous counters | `get_metrics`, `get_connections`, `check_suspicious_connections` |
| CPU, memory, disk monitors | `agent/modules/*_monitor.py` | nothing that lasts | one reading per call |
| Scheduler | `agent/scheduler.py` | `running`, the thread, the schedule and its lock, the configuration in force | `start`, `stop`, `_scheduler_loop`, `setup_schedules`, the jobs |
| Hosts | `agent/main.py` | one scheduler | Windows service, console |
| API client | `agent/api_client.py` | access and refresh token, header, login backoff | `_send_post`, `_send_get`, `login`, `refresh_access_token` |
| Configuration file | `agent/utils.py`, `agent/config.json` | the file | `load_config`, `save_config` |
| Backend | `backend/core/*` | settings only: the `monitoring` app is not in the repository | JWT issue, rotation, blacklist |
| Dashboard script | `static/js/app.js` | lists, toasts, a WebSocket | reconnect, handle events |

The hosts call `start()` and `stop()` of one scheduler. `start()` registers the
endpoint, builds the schedule, runs each job once and creates the loop thread.
The loop runs due jobs under a lock and rereads `config.json` every five seconds.
A job calls one monitor and hands what it returns to the API client, whose
senders log in, refresh and retry by themselves. Monitors and client share
nothing but the scheduler's thread; client, scheduler and operator share
`config.json`.

What is hard here: `stop()` runs on another thread than `start()` and the loop,
and waits for the loop for five seconds only; the event log monitor saves its
bookmarks before anything is sent; queries, batches, renderings, files and
requests fail one by one; processes come and go during a scan and their PIDs are
used again; tokens expire, are rotated and blacklisted; `config.json` is
rewritten in place. `PROJECT.json` lists each hazard at its line.

What makes each part correct:

- event log: no bookmark passes a record that was not read, given up or out of
  the query's window; one run reads no record twice; every record has an end;
- processes: a suspicious process that lives through a scan has its alert, and
  has one alert per life;
- scheduler: the job list is not touched while it is walked through; after `stop()`
  begins at most the one job whose check had been passed; `stop()` takes effect; the
  schedule converges to the file;
- client: one recovery is enough for a call; what it returns agrees with what the
  backend took; it is never locked out for good;
- services: a stop that two scans observe gets to the backend unless its one POST
  fails, and is told again only after a scan that raised at its end; a suspicious path
  gets there in any case;
- health: a threshold that stays passed gets to the backend; no byte counts twice;
- IOCs: a scan misses no match it could have read and blames no false parent; a
  match that lasts is told;
- configuration file: no whole write costs the settings; an edit the client has loaded
  stays; the newest access token is there for a restart;
- dashboard: one connection, current cards, a bounded list in order, no toast that
  stays for ever.

## 2. Modules

Three modules are abstract specifications, and the detailed ones are shown to
implement them. `EventTail` is a bookmarked tail of append-only logs: what a
checkpoint may pass and when it may move back. `Lifecycle` is a scheduler as its
host sees it: it is turned on and off once, its jobs never overlap, a walk takes
jobs from a registration that does not change under it, each once, and none is
taken up when it is off. `Delivery` is a call over a lossy network as its caller sees
it: a bounded number of attempts, a repeated one only after one that was not
answered, and an answer that stands.

`EventLogMonitor` models the monitor, its job `run_eventlog_check`, the process
around them and Windows beside them. `pc` follows the thread: `idle`, `query`
(before `EvtQuery`), `next` (before `EvtNext`), `save`, `send`, `alerts`, `down`.
`FetchBatch(n, unread)` is one `EvtNext` with the rendering and parsing of its
events; `unread` are those whose rendering failed. `EndQuery` moves the bookmark
whether the query ended or `EvtNext` raised, as the code does. A record is of one
of four kinds: `log`, `alert`, `bad` (its XML never parses), `other` (not
selected by the query). The refinement mapping takes the bookmarks file for the
checkpoint and the settled records for the accounted ones.

`ProcessMonitor` models `check_processes` and the alerts of `run_process_check`.
A process is the number of its birth, so that PID reuse can be told. A scan lists
the PIDs and then visits them one by one while processes start and end;
`ReadPartly` is psutil's `ad_value` for a denied attribute, `Skip` an exception
or a PID for which psutil still holds another process (psutil is not in the
repository: both what it may do, reading the new process or passing it over, are
allowed).

`AgentScheduler` models `start()`, `stop()`, `setup_schedules`, the loop and the
two hosts. `starter`, `stopper` and `loop` are the places of the three threads,
`lock` is `_schedule_lock`, `jobs` the schedule library's job list. `_safe_run` is
three steps: its look at `self.running` (`CheckInitial`, `CheckJob`), the call
(`InitialCheck`, `RunJob`) and the return; a `stop()` may come between any two. A
configuration is a record of the jobs that are on, of the intervals that the
schedule library refuses although `_get_intervals` lets them through, and of
whether one of them is the string `"nan"`, a new object at each reload that never
equals the last one (the JSON constant `NaN` is one object and does). A file being
rewritten reads as `{}`, which is the default configuration. The refinement mapping
to `Lifecycle` takes `running` and the place of the stopper for the phase, the loop
inside `run_pending` for the walk, its `todo` for what the walk has still to come
to, and `start()`'s initial checks for jobs of a second worker; a worker has taken up a
job as soon as the look has let it through.

`APIClient` models one call of a sender at a time: `check_token`, the two
attempts, `refresh_access_token`, `login` with its backoff. A token is what the
backend would say of it. Time is in ticks; a request may last as long as the
backoff. `_send_post` and `_send_get` share one control and are one model. To `Delivery`
it maps a call under way, the bodies the backend took and the answer; tokens,
logins and time are not seen there.

`ServiceMonitor` and `SystemHealth` model `check_services` with
`run_service_check`, and `run_health_check` with the monitors it reads. Each has
the actions of its job and of its world, and no specification of its own:
`MonitorJobs` composes them on the scheduler's one thread. They share `pc`, so
that a job begins only when no other is under way (`AgentScheduler` is proved to
behave so: `JobsNeverOverlap`), and the counts of changes and
faults; a restart makes both forget. A reading is low or high, a byte counter
stands for the two the code treats alike, and a service has one of four statuses. The
alerts of stops are counted where their POST ends: in `delivered` when the backend took
it, in `lost` when it failed, for `_send_alert` does not repeat it.

`IOCEngine` models `run_ioc_update`, and of `run_process_check` the scan as far as
matching reads it, `scan_system`, and the alerts. `snap[pid]` is the process in the
telemetry, `holder[pid]` the process whose name was found under the parent's PID
when it was read; `ParentOf` looks in the telemetry first, as the code does. There
is one rule of each sort: own field, parent, and address or registry. The process
scan repeats `ProcessMonitor`'s, because the parent's name is read in it.

`ConfigStore` models `config.json` between the API client, which is the only one in the
agent that writes it, and an operator, who opens it in an editor and writes it back
later. A content is a version of the settings with an access and a refresh token.
`BeginSave`, `EndSave`, `SaveFails` and `Crash` are the truncation, the write and its
failures in `save_config`; `client` is the whole copy that `_save_auth_tokens` writes
back. A login gives that copy both tokens, a refresh the access token only: it keeps
the refresh token, which the backend has blacklisted by then (`spent`). A text written
over another one may leave garbage, which reads as `{}` like the empty file. What the
scheduler makes of the file is `AgentScheduler`'s; the URL, the credentials and
`critical_services` are read once, when the agent is constructed.

`Dashboard` models one page of `app.js`. A socket is counted under the state it is
in; toasts have ids drawn from a small set, as `Math.random` draws them from 1000, and
a page rendered without messages has no place for them; each fetch of the statistics is
answered in its own time, and whatever is JSON gets on the cards, an error too
(`Undefined`); the list is the sequence
of the table body's DOM nodes, text nodes of the template included, because
`children.length` counts elements and `lastChild` removes any node. The process
table runs the same code under its own cap.

The `MC...` modules and the `.cfg` files instantiate them for TLC. The sections
"Slips" hold wrong forms of single operators; no specification uses them. Each is
the counterexample to one property: put in the place of the true operator it
makes TLC find the property violated, which shows that the property speaks of the
code.

## 3. What the runs check

| Run | Question | Bounds |
|---|---|---|
| `eventlog_channels` | does a fault at one channel touch another, and does every record have its end; refinement of `EventTail` | 2 channels, 1 record each, 2 faults; about 80,000 states |
| `eventlog_records` | unreadable, unselected and alerting records in one channel; does a record below a bookmark vanish; refinement | 3 records of 4 kinds in batches of 2, 2 faults; about 0.9 million states |
| `eventlog_comment` | the comment at `eventlog_monitor.py:572` | violated, see 5 |
| `process_scans` | do suspicious processes get one alert each | 2 PIDs, 3 processes, 1 fault; about 0.43 million states |
| `scheduler_threads` | start, stop, loop and file writer, safety and liveness; refinement of `Lifecycle` | 3 jobs, 4 configurations, 2 hosts, 3 writes; about 0.11 million states |
| `scheduler_comment` | the comment at `scheduler.py:981` | violated, see 5 |
| `client_calls` | tokens, recovery, backoff, answers, safety and liveness; refinement of `Delivery` | backoff 2, requests up to 2 ticks, 3 faults, 3 changes; about 14,000 states |
| `client_backoff` | the comment at `api_client.py:85` | violated, see 5 |
| `monitor_jobs` | are stops, paths and lasting causes told, and nothing counted twice | 1 service, 2 volumes, 2 bytes, 3 changes, 1 fault; about 0.3 million states |
| `ioc_matching` | what a scan may miss or blame, and is a lasting match told | 3 processes on 2 PIDs, pages of 2 rules, 1 change, 1 fault; about 0.42 million states |
| `config_writers` | what the file holds between writes: settings, edits, tokens | 2 edits, 3 access tokens, 2 faults; about 27,000 states |
| `dashboard_events` | connection, cards, list and toasts of a page | cap 1, 2 ids, 3 alerts, 1 fault; about 2.2 million states |

Why the bounds are enough. Event log: two channels let a failed or restarted
channel stand beside an untouched one; three records in batches of two give a full
batch, a partial one and a record that arrives during the query; two faults let a
crash follow a failed save, or a failed load follow a crash. Processes: three
processes on two PIDs make a PID change hands while another lives. Scheduler:
`config.json` written three times lets a torn read, an edit and its reversal meet
one reload; one configuration has a refused interval, another a `"nan"`. Client: a backoff
that a single request can use up, and more faults than one call has attempts.
Monitor jobs: services do not affect each other, so one is enough; three changes let it
stop, start and stop again, or stop while a resource runs out, and two volumes let one
stand in for the other. IOCs: three processes on two PIDs let a PID pass from a parent
to another process between two readings; two rules fit a page and a third does not.
Configuration: three access tokens let one be saved before, between and after two
edits, and two failures let a restart follow a broken write. Dashboard: with a cap
of 1, three alerts push rows and text nodes out of the list, two ids make toasts
collide, and two fetches at once can be answered in either order. The safety
properties are also proved without the bounds.

Two `MC` modules give TLC some of the behaviours only. `MCMonitorJobs` begins with a
computer at rest, whose service runs and whose byte counter is 1, and leaves the last
of the three changes to the service. `MCIOCEngine` begins with two rules switched on:
those on the process itself and on its parent, and the first process matches; or those
on the parent and on an address or a registry value, and the last one matches. The one
change is then a rule switched or an address or value that comes or goes, so that a
match of each of the three sorts can last.

The properties, in short:

- `BookmarksCover`, `NoRepeatInRun`, `CheckpointNotReread`, `DiskMonotone`,
  `NothingVanishes`, `ImplementsTail`, `EventuallyAccounted` (event log);
- `NothingSlipsBy`, `OneAlertPerLife`, `CachedIsTold`, `EventuallyRaised` (processes);
- `RunPendingUndisturbed`, `LoopQuietAfterStop`, `OneLateJobAtMost`,
  `StartRaisesOnlyIf`, `ImplementsLifecycle`, `StopTakesEffect`, `ScheduleConverges`
  (scheduler);
- `CleanCallDelivers`, `AnswerTellsDelivery`, `ImplementsDelivery`, `SendingRecovers`
  (client);
- `OneAlertPerStop`, `StopsTold`, `PathTold` (services), `BytesCountedOnce`,
  `LastingCauseTold` (health);
- `NoMatchMissed`, `ParentsTrue`, `MatchTold` (IOCs);
- `SettingsOutlast`, `LoadedStays`, `TokensMatch` (configuration file);
- `OneConnection`, `CardsCurrent`, `NewestFirst`, `ListBounded`, `NoToastStays`,
  `ComesBack` (dashboard);
- one `TypeOK` per module, which is proved and no run checks.

`NothingSlipsBy` and `EventuallyRaised` name their exceptions, and those are what
the code really misses: a process whose PID is in the cache under another
process, one that was first read without its name and path, an alert whose POST
failed. `CachedIsTold` has the same exceptions as `EventuallyRaised`, and says that no
others are needed: what the cache hides from later scans has had its alert.
`EventuallyAccounted` and `NothingVanishes` do the same for events: a failed POST or
a crash after the bookmarks were saved loses them, and what failed to render or is
older than the look-back is passed over; while nothing has failed only the look-back
costs a record. So do others:

- `OneLateJobAtMost` allows the one job that `_safe_run` had let through before `stop()`
  cleared the flag, on the service even after `stop()` has returned;
- `ScheduleConverges` is silent while the file on disk has an interval the schedule
  library refuses: a part of the jobs is then out;
- `OneAlertPerStop` counts the scans that raised at their end, whose alerts come again;
  `StopsTold` is satisfied by an alert whose POST failed, which nothing repeats, and a
  restart between two scans hides a stop from it;
- `BytesCountedOnce` only bounds what is reported once a counter has fallen, when the
  code reports a negative rate;
- `LastingCauseTold` does not bar a false alarm for a volume that stands in for another;
- `ParentsTrue` speaks of parents that live: a PID used again after a parent's end does
  get the blame; `MatchTold` asks for rules that fit one page, because `get_active_iocs`
  reads no other;
- `SettingsOutlast` and `TokensMatch` are silent after a write that broke off or ran
  into another one, and `SettingsOutlast` when the client has loaded such a file;
  `LoadedStays` leaves out an edit that no client has loaded yet, which the next save
  does undo, and `TokensMatch` an editor that was opened before the token was issued;
- `CardsCurrent` allows an older answer that comes later to take the cards back, and an
  error in JSON to put `undefined` there; `NoToastStays` excepts toasts that shared an id.

## 4. Fairness

`Agent` of the event log and process modules is weakly fair: the scheduler runs
its jobs again and again, and calls into Windows and the network return (requests
carry timeouts). Nothing is assumed of Windows or of failures, whose number is
bounded by `MaxFaults`. The scheduler's three threads are weakly fair; `Reload`
is strongly fair because the loop reaches it at least every five seconds while
`SkipReload` takes the other passes; `EditEnd` is weakly fair, a writer finishes.
`Start`, `Stop` and edits happen or not. In the client `Work`, the steps of a call
that nothing disturbs, is weakly fair, and `Tick` is strongly fair: time passes
between two jobs, however many calls come in between.

The two jobs of `MonitorJobs`, and the IOC and the process job of `IOCEngine`, are
strongly fair: `run_pending` takes the due jobs in the order of their times, so a
job that is due gets the thread although another is due as well. Services, load,
processes, rules and failures have no fairness. `ConfigStore` has no liveness property
and assumes none. In `Dashboard` `Open`, `Close` and `Reconnect` are weakly fair: a connection opens
unless it uses a fault, the browser fires `onclose`, timers run off; what the
backend answers, and when, is left open.

## 5. What the violations show

Three runs state what a comment of the code says and TLC refutes it.

- `BookmarkAfterProcessing`: "Update bookmark only after successful processing."
  The bookmark takes the highest record that parsed, so it passes an earlier one
  whose rendering or parsing failed, which is then never read.
- `RegistrationBeforeTelemetry`: "Registration must happen before telemetry." A
  failed POST makes `register_agent` return `None`; `register_endpoint` records
  success and the initial checks follow.
- `NoLoginDuringBackoff`: "Prevent continuous authentication spam when
  credentials are invalid." A refused token is never cleared, so each call forces
  a login, which the backoff does not bar.

## 6. Proofs

| Module | Theorems |
|---|---|
| `EventLogMonitorProofs` | `TypeCorrect`, `BookmarksNeverSkip`, `CollectedOncePerRun`, `RereadOnlyBeyondDisk`, `DiskNeverRegresses`, `PassedIsAccountedFor`, `Refinement` |
| `ProcessMonitorProofs` | `TypeCorrect`, `NoneSlipsBy`, `AlertedOncePerLife`, `WhatIsCachedIsTold` |
| `AgentSchedulerProofs` | `TypeCorrect`, `QuietAfterStop`, `StartFailures`, `RunPendingSafe`, `OneBeginsAfterStop`, `JobsNeverOverlap`, `ImplementsTheLifecycle` |
| `APIClientProofs` | `TypeCorrect`, `OneRecoveryIsEnough`, `AnswersAreSound`, `ImplementsASender` |
| `MonitorJobsProofs` | `TypeCorrect`, `NoAlertWithoutStop`, `NoByteCountedTwice` |
| `IOCEngineProofs` | `TypeCorrect`, `NothingMissed`, `NoFalseParent` |
| `ConfigStoreProofs` | `TypeCorrect`, `SettingsStay`, `LoadedIsKept`, `NewestTokensStay` |
| `DashboardProofs` | `TypeCorrect`, `NeverTwoConnections`, `NewestAnswerCounts`, `InOrder`, `NeverTooLong`, `OnlyCollidedStay` |

Each module has an inductive invariant `IInv`, a conjunction of named parts, and
the lemmas `InitEstablishes`, `TypeStep` and one or more for the steps; the
theorems follow from `Invariance`. The only assumptions are the ones on the
constants (`EventLogAssumption`, `ProcessAssumption`, `SchedulerAssumption`,
`APIClientAssumption`, `MonitorJobsAssumption`, `IOCAssumption`,
`ConfigAssumption`, `DashboardAssumption`).

- Event log: `BookmarksCover` is not inductive by itself; what is missing is that
  the open query has settled everything up to its cursor, that `highest` does not
  exceed the cursor, and that what this run has collected lies at or below the
  bookmark or the cursor, so that the next query starts behind it. `NothingVanishes`
  needs one more account: of every record some run has collected, the telemetry and
  the alert are each in hand, sent or lost (`AccountedInv`); its second half needs
  that nothing is dropped but what never parses before the first failure
  (`FlawlessInv`). `Refinement` follows from the same invariant.
- Processes: a suspicious process in the cache has its alert or is hidden
  (`CacheInv`); a living process with an alert stays in the cache until a scan
  passes it over (`AlertInv`); during a scan every visited PID is recorded or
  skipped (`ScanInv`); births are counted and PIDs are unique (`BornInv`, `PidInv`).
  `CachedIsTold` is `CacheInv` carried one step on: an alert that was made stays in the hands of its
  job until it is sent or lost, and no job ends before that (`ToldInv`).
- Scheduler: who is where says who holds the lock (`LockInv`), and once `stop()`
  has had the lock the loop is in no job (`QuietInv`). Late jobs are bounded because
  only one thread at a time is between its look at the flag and the call, and none gets
  there once the flag is cleared (`LateInv`). The refinement of `Lifecycle`
  needs that `running` is set from the flag in `start()` to the one in `stop()` and
  never again (`StoppedInv`), and that the loop lives only after the initial checks
  (`LoopInv`), which is also why no two jobs overlap. `LifecycleStep` takes the steps
  of the three threads in turn (`StarterSeen`, `StopperSeen`, `LoopSeen`); those that
  touch nothing a host can see are stutters (`SeenAsBefore`).
- Client: the header is the token (`HeaderInv`); a running call has told nothing
  and each body taken so far lost its answer (`ProgressInv`); a clean call meets at
  most one 401, in its first attempt (`CleanInv`). `DeliveryStep` maps each step to an
  attempt, a return or, for tokens, logins and time, a stutter; it rests on
  `ProgressInv`, which says that the bodies taken never outnumber the attempts.
- Monitor jobs: `OneAlertPerStop` counts over the whole history: an alert is held by the
  job (`Held`) until its POST delivers or loses it, and the three together (`Made`) are
  kept by a debit: a service the last listing saw up and that has stopped since has one stop
  not told yet, and one that the scan under way has found stopped keeps it until
  the scan ends (`AlertInv`). For the rates, what is reported plus what the last
  sample lacks is at most what was transferred, and equal to it until a counter
  falls (`RateInv`).
- IOCs: a process keeps its PID and no parent is younger than the newest process
  (`WorldInv`); a process that has lived since the scan began is what was read under
  its PID (`SnapInv`), and the name that was found for a parent which has lived since
  then is its own (`HolderInv`); nothing of a scan is left for the next (`MadeInv`).
- Configuration: who may write has settings for the file unless the client has loaded
  none (`SettingsInv`); what a client has loaded is the operator's last version or nothing
  (`LoadedInv`); during a save the client's token is the newest, and a text or draft that
  is not behind has it (`TokenInv`); a refresh token that has outlived its access token
  has been spent (`SpentInv`).
- Dashboard: the four counts of sockets and timers add up to one (`LinkInv`); alerts
  on their way are newer than those seen and in order (`FeedInv`); an answer to the
  newest fetch counts all that has been seen, or is an error (`CardInv`); toasts that have not
  collided have distinct ids, so that a timer finds its own toast (`ToastInv`); no row
  is newer than what has been seen (`ListInv`). `ListBounded` counts rows in a list
  that grows at one end and loses nodes at the other. Its invariant bounds the whole
  list by the cap and the text nodes the template left, of which the list has no more
  than these (`BoundInv`): an insertion makes the list longer only when its elements
  are within the cap, and then elements and text nodes together are within the bound.
  The lemmas `NodesCounted`, `TextNodesShift`, `TextNodesOfPrefix` and
  `InsertedBounded` count the nodes by their places, so that no induction is needed.

Only model-checked: the liveness properties (`EventuallyAccounted`,
`EventuallyRaised`, `StopTakesEffect`, `ScheduleConverges`, `SendingRecovers`,
`StopsTold`, `PathTold`, `LastingCauseTold`, `MatchTold`, `ComesBack`),
because liveness under fairness and ENABLED are out of the prover's reach, as are
induction over data and RECURSIVE operators (none is used here).

## 7. Abstractions to know of

- The EventRecordID of a parsed event is taken to be a number; the code's fallback
  to 0 for another one does not occur with Windows' own records.
- `setup_schedules` registers jobs in a fixed order and runs initial checks in
  another fixed order; the model allows any order (the heartbeat's check first),
  which only adds behaviours.
- One `start()` per scheduler, as both hosts do it. A second `start()` after
  `stop()`, which the class would allow, is not modelled. A `stop()` that comes
  before `start()` is ignored by the code and by the model.
- Jobs may stay registered after `stop()` when a rebuild was late; they never run.
- What a failed login's timeout does to the backoff follows the code: the backoff
  counts from before the request.
- A response other than 2xx or 401 is taken to mean that the backend did not keep
  the body.

- psutil's network counters fall only when an adapter goes away, whose share starts
  at zero should it come back (psutil itself smooths over wrapping counters).
- The alerts of the service monitor and of the IOC engine are sent in any order, those
  of the health job in the order of the code.
- The delivered `config.json` comes with tokens of some account; the model begins without
  one, and a restart after the first login begins with tokens.
- Address and registry rules are one sort ("outside"): both are looked up when the
  rules are matched, and their alerts name no process.
- A process that was read without its name has the name "Unknown" in the telemetry,
  which `scan_system` takes for the parent's name: the name that `parent_name` holds
  is then not tried. The model does the same.
- `update_iocs` logs that an unexpected answer is "ignored" and empties the cache;
  `get_active_iocs` makes an empty list of a failed request, with the same effect.
- Toast timers run off in the order they were set, as they all take four seconds.
- "Cap table size to 10 rows" and "Limit processes table to 50 items" hold of a list
  that was cleared; the text nodes of a rendered table are removed in the place of
  rows, so that the bound is the cap and their number.
- While a `"nan"` interval is configured, each reload rebuilds the schedule, and jobs
  slower than the reload get no turn. The scheduler's model has no clock and lets any
  job be due; it shows that an edit or a stop still takes effect.

## 8. Not modelled

The mocked services that `check_services` returns elsewhere than on Windows; start
types, accounts, top processes and disk I/O counters (data that decides nothing);
`run_network_check` and `run_heartbeat` beyond the scheduler's view, as they only
send; host name, address and file hashes; the XML of an event, alert texts and
ATT&CK labels; of the dashboard the service rows, the charts and the general alert
feed, which inserts without a cap, and the colours, which compare severities in lower
case while the service and event log monitors send them capitalised; the logger;
`seed_db.py`; templates other than the table the script fills, and design pages;
build and deployment files. The backend's `monitoring` app is not in the repository:
its answers are the models' environment. `tests/agent_tests.py` expects the word
"blacklisted" in the reason of a suspicious process, which `process_monitor.py` does
not write; wording is not modelled.

## 9. Plan

Done: `EventTail`, `Lifecycle` and `Delivery`; `EventLogMonitor`, `ProcessMonitor`,
`AgentScheduler`, `APIClient`, `MonitorJobs` with `ServiceMonitor` and `SystemHealth`,
`IOCEngine`, `ConfigStore` and `Dashboard`, each with runs and proofs; every safety
property that a run checks is a theorem. Left:

1. `Agent`: scheduler, event log monitor and client in one specification, at the
   grain of jobs and calls: what becomes of a record from Windows to the backend
   across `stop()`, a restart and an expired token. `Lifecycle` and `Delivery` are
   what it would take of the scheduler and the client.
2. An abstract specification for the configuration file, whose writers
   `SettingsOutlast`, `LoadedStays` and `TokensMatch` describe so far.
3. Service rows and charts of the dashboard.
