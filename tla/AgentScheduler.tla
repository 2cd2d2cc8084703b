--------------------------- MODULE AgentScheduler ---------------------------
(***************************************************************************)
(* The life of the agent's scheduler (agent/scheduler.py, AgentScheduler)   *)
(* under its two hosts (agent/main.py).                                     *)
(*                                                                         *)
(* Three threads share one AgentScheduler.  The starter calls start() and   *)
(* then waits; the loop thread that start() creates runs due jobs and       *)
(* reloads config.json; the stopper calls stop().  Under the Windows        *)
(* service the stopper is the control handler's thread, which runs beside   *)
(* the starter.  On the console it is the starter itself, that a            *)
(* KeyboardInterrupt took out of start() or out of its wait.                *)
(*                                                                         *)
(* A configuration says which jobs are on and which carry an interval that  *)
(* _get_intervals lets through and the schedule library refuses (infinity,  *)
(* a span beyond timedelta, "nan"), and whether one of them is "nan", which *)
(* never equals itself.  What a job does is its module's business:          *)
(* here it runs for a while and always sends something to the backend.      *)
(* setup_schedules registers jobs in a fixed order and runs the initial     *)
(* checks in another; here the order is any, the heartbeat's first initial  *)
(* check excepted.                                                          *)
(***************************************************************************)
EXTENDS Integers, FiniteSets

CONSTANTS
    Jobs,       \* the monitors and the heartbeat
    Heartbeat,  \* the job no configuration turns off
    Configs,    \* the configurations an operator may write
    Default,    \* what {} means to the agent: every module on, every interval good
    Hosts,      \* a subset of {"service", "console"}
    MaxEdits    \* bound: how many times config.json is written

ASSUME SchedulerAssumption ==
    /\ Heartbeat \in Jobs
    /\ Configs \subseteq [on : SUBSET Jobs, refused : SUBSET Jobs, nan : BOOLEAN]
    /\ Default \in Configs
    /\ Default = [on |-> Jobs, refused |-> {}, nan |-> FALSE]
    /\ Hosts \subseteq {"service", "console"}
    /\ MaxEdits \in Nat

VARIABLES
    host,       \* how the agent was launched
    running,    \* self.running
    thread,     \* self.thread: "none", "created" or "started"
    lock,       \* who holds _schedule_lock: "free", "starter", "loop" or "stopper"
    jobs,       \* schedule.jobs
    applied,    \* self.config, self.intervals and self.module_config
    registered, \* whether the backend knows the endpoint
    starter,    \* where start() is
    loop,       \* where _scheduler_loop is
    stopper,    \* where stop() is
    todo,       \* todo[t]: what thread t has still to register or to run
    entered,    \* entered[t]: the job that _safe_run of thread t is about to call
    file,       \* config.json
    torn,       \* TRUE while config.json is being written and reads as {}
    edits,      \* how often config.json was written
    telemetry,  \* history: TRUE once telemetry went out unregistered
    late        \* history: jobs begun after stop() had cleared self.running

threadVars == <<starter, loop, stopper>>
workVars   == <<todo, entered>>
fileVars   == <<file, torn, edits>>
histVars   == <<telemetry, late>>
vars == <<host, running, thread, lock, jobs, applied, registered, threadVars,
          workVars, fileVars, histVars>>

Wanted(config) == config.on \cup {Heartbeat}

\* Whether running job j now is telemetry of an endpoint the backend does not know.
Unregistered(j) == j # Heartbeat /\ ~registered

\* The job that thread t has entered now begins.
Begin(t) ==
    /\ telemetry' = (telemetry \/ \E j \in entered[t] : Unregistered(j))
    /\ late' = IF stopper \in {"ready", "ignored"} THEN late ELSE late + 1
    /\ entered' = [entered EXCEPT ![t] = {}]

\* load_config: {} when the file cannot be parsed.
LoadConfig == IF torn THEN Default ELSE file

Init ==
    /\ host \in Hosts
    /\ running = FALSE
    /\ thread = "none"
    /\ lock = "free"
    /\ jobs = {}
    /\ file \in Configs
    /\ applied = file
    /\ registered = FALSE
    /\ starter = "new"
    /\ loop = "none"
    /\ stopper = "ready"
    /\ todo = [t \in {"starter", "loop"} |-> {}]
    /\ entered = [t \in {"starter", "loop"} |-> {}]
    /\ torn = FALSE
    /\ edits = 0
    /\ telemetry = FALSE
    /\ late = 0

-----------------------------------------------------------------------------
(* Slips: wrong forms of operators defined below, for no specification here. *)

\* Taking the lock without waiting for it.
AcquireUnlocked(t) == lock' = t

\* An initial check that does not look at self.running.
CheckInitialBlind(j) ==
    /\ starter = "initial"
    /\ j \in todo["starter"]
    /\ Heartbeat \in todo["starter"] => j = Heartbeat
    /\ todo' = [todo EXCEPT !["starter"] = @ \ {j}]
    /\ entered' = [entered EXCEPT !["starter"] = {j}]
    /\ starter' = "checked"
    /\ UNCHANGED <<host, running, thread, lock, jobs, applied, registered, loop, stopper,
                   fileVars, histVars>>

\* A due job that does not look at self.running.
CheckJobBlind(j) ==
    /\ loop = "pending"
    /\ j \in todo["loop"]
    /\ todo' = [todo EXCEPT !["loop"] = @ \ {j}]
    /\ entered' = [entered EXCEPT !["loop"] = {j}]
    /\ loop' = "checked"
    /\ UNCHANGED <<host, running, thread, lock, jobs, applied, registered, starter,
                   stopper, fileVars, histVars>>

\* Two slips of the loop: one that never looks at self.running, and a reload that
\* records the configuration and leaves the schedule as it is.
LoopTopForever ==
    /\ loop = "top"
    /\ loop' = "locking"
    /\ UNCHANGED <<host, running, thread, lock, jobs, applied, registered, starter,
                   stopper, workVars, fileVars, histVars>>

ReloadNoRebuild ==
    /\ loop = "reload"
    /\ applied' = LoadConfig
    /\ loop' = "top"
    /\ UNCHANGED <<host, running, thread, lock, jobs, registered, starter, stopper,
                   workVars, fileVars, histVars>>

\* A start() whose reference to the thread is not made before it is used.
CreateThreadLate ==
    /\ starter = "initial"
    /\ todo["starter"] = {}
    /\ starter' = "launch"
    /\ UNCHANGED <<host, running, thread, lock, jobs, applied, registered, loop, stopper,
                   workVars, fileVars, histVars>>

-----------------------------------------------------------------------------
(* `with self._schedule_lock`                                                *)

Acquire(t) == lock = "free" /\ lock' = t
Release(t) == lock = t /\ lock' = "free"

-----------------------------------------------------------------------------
(* start()                                                                   *)

Start ==
    /\ starter = "new"
    /\ ~running
    /\ running' = TRUE
    /\ starter' = "register"
    /\ UNCHANGED <<host, thread, lock, jobs, applied, registered, loop, stopper,
                   workVars, fileVars, histVars>>

\* register_endpoint: whatever becomes of the POST, start() goes on.
Register ==
    /\ starter = "register"
    /\ registered' \in BOOLEAN
    /\ starter' = "setup"
    /\ UNCHANGED <<host, running, thread, lock, jobs, applied, loop, stopper,
                   workVars, fileVars, histVars>>

\* setup_schedules, first half: take the lock, clear the old jobs.
ClearFirst(t) ==
    /\ Acquire(t)
    /\ jobs' = {}
    /\ todo' = [todo EXCEPT ![t] = Wanted(applied)]

\* ... and register one job after the other.
AddJob(t, j) ==
    /\ j \in todo[t] \ applied.refused
    /\ jobs' = jobs \cup {j}
    /\ todo' = [todo EXCEPT ![t] = @ \ {j}]

SetupBegin ==
    /\ starter = "setup"
    /\ ClearFirst("starter")
    /\ starter' = "build"
    /\ UNCHANGED <<host, running, thread, applied, registered, loop, stopper,
                   entered, fileVars, histVars>>

SetupAdd(j) ==
    /\ starter = "build"
    /\ AddJob("starter", j)
    /\ UNCHANGED <<host, running, thread, lock, applied, registered, threadVars,
                   entered, fileVars, histVars>>

\* The schedule library refuses an interval: the exception leaves start().
SetupRaises ==
    /\ starter = "build"
    /\ todo["starter"] \cap applied.refused # {}
    /\ Release("starter")
    /\ todo' = [todo EXCEPT !["starter"] = {}]
    /\ starter' = "raised"
    /\ UNCHANGED <<host, running, thread, jobs, applied, registered, loop, stopper,
                   entered, fileVars, histVars>>

SetupEnd ==
    /\ starter = "build"
    /\ todo["starter"] = {}
    /\ Release("starter")
    /\ todo' = [todo EXCEPT !["starter"] = Wanted(applied)]
    /\ starter' = "initial"
    /\ UNCHANGED <<host, running, thread, jobs, applied, registered, loop, stopper,
                   entered, fileVars, histVars>>

\* _safe_run of one initial check, outside the lock: it looks at self.running, and
\* returns once that is False, ...
CheckInitial(j) ==
    /\ starter = "initial"
    /\ j \in todo["starter"]
    /\ Heartbeat \in todo["starter"] => j = Heartbeat
    /\ todo' = [todo EXCEPT !["starter"] = @ \ {j}]
    /\ IF running
       THEN starter' = "checked" /\ entered' = [entered EXCEPT !["starter"] = {j}]
       ELSE UNCHANGED <<starter, entered>>
    /\ UNCHANGED <<host, running, thread, lock, jobs, applied, registered, loop, stopper,
                   fileVars, histVars>>

\* ... or goes on to call the job, whatever becomes of self.running in between.
InitialCheck ==
    /\ starter = "checked"
    /\ Begin("starter")
    /\ starter' = "checking"
    /\ UNCHANGED <<host, running, thread, lock, jobs, applied, registered, loop, stopper,
                   todo, fileVars>>

InitialCheckEnds ==
    /\ starter = "checking"
    /\ starter' = "initial"
    /\ UNCHANGED <<host, running, thread, lock, jobs, applied, registered, loop, stopper,
                   workVars, fileVars, histVars>>

CreateThread ==
    /\ starter = "initial"
    /\ todo["starter"] = {}
    /\ thread' = "created"
    /\ starter' = "launch"
    /\ UNCHANGED <<host, running, lock, jobs, applied, registered, loop, stopper,
                   workVars, fileVars, histVars>>

\* self.thread.start(): an AttributeError when stop() has set it to None since.
StartThread ==
    /\ starter = "launch"
    /\ IF thread = "none"
       THEN starter' = "raised" /\ UNCHANGED <<thread, loop>>
       ELSE starter' = "started" /\ thread' = "started" /\ loop' = "top"
    /\ UNCHANGED <<host, running, lock, jobs, applied, registered, stopper,
                   workVars, fileVars, histVars>>

-----------------------------------------------------------------------------
(* stop(), called once: by the service's control handler at any time, by the *)
(* console after a KeyboardInterrupt or an exception in start().             *)

\* The console's starter leaves what it was doing, its lock and its job with it.
LeaveStart ==
    IF host = "console"
    THEN /\ starter' = "left"
         /\ lock' = IF lock = "starter" THEN "free" ELSE lock
         /\ todo' = [todo EXCEPT !["starter"] = {}]
         /\ entered' = [entered EXCEPT !["starter"] = {}]
    ELSE UNCHANGED <<starter, lock, workVars>>

Stop ==
    /\ stopper = "ready"
    /\ LeaveStart
    /\ IF running
       THEN running' = FALSE /\ stopper' = "join"
       ELSE stopper' = "ignored" /\ UNCHANGED running
    /\ UNCHANGED <<host, thread, jobs, applied, registered, loop, fileVars, histVars>>

\* thread.join(timeout=5), or no join when there is no live thread: it returns
\* because the thread ended or because the 5 seconds are over.
Join ==
    /\ stopper = "join"
    /\ stopper' = "clear"
    /\ thread' = "none"
    /\ UNCHANGED <<host, running, lock, jobs, applied, registered, starter, loop, workVars,
                   fileVars, histVars>>

StopClear ==
    /\ stopper = "clear"
    /\ Acquire("stopper")
    /\ jobs' = {}
    /\ stopper' = "release"
    /\ UNCHANGED <<host, running, thread, applied, registered, starter, loop, workVars,
                   fileVars, histVars>>

StopReturns ==
    /\ stopper = "release"
    /\ Release("stopper")
    /\ stopper' = "stopped"
    /\ UNCHANGED <<host, running, thread, jobs, applied, registered, starter, loop,
                   workVars, fileVars, histVars>>

-----------------------------------------------------------------------------
(* _scheduler_loop                                                           *)

LoopTop ==
    /\ loop = "top"
    /\ loop' = IF running THEN "locking" ELSE "ended"
    /\ UNCHANGED <<host, running, thread, lock, jobs, applied, registered, starter,
                   stopper, workVars, fileVars, histVars>>

\* run_pending works on the jobs that are due as it begins.
RunPending(due) ==
    /\ loop = "locking"
    /\ due \subseteq jobs
    /\ Acquire("loop")
    /\ todo' = [todo EXCEPT !["loop"] = due]
    /\ loop' = "pending"
    /\ UNCHANGED <<host, running, thread, jobs, applied, registered, starter, stopper,
                   entered, fileVars, histVars>>

\* _safe_run of a due job: the look at self.running, ...
CheckJob(j) ==
    /\ loop = "pending"
    /\ j \in todo["loop"]
    /\ todo' = [todo EXCEPT !["loop"] = @ \ {j}]
    /\ IF running
       THEN loop' = "checked" /\ entered' = [entered EXCEPT !["loop"] = {j}]
       ELSE UNCHANGED <<loop, entered>>
    /\ UNCHANGED <<host, running, thread, lock, jobs, applied, registered, starter,
                   stopper, fileVars, histVars>>

\* ... and the call.
RunJob ==
    /\ loop = "checked"
    /\ Begin("loop")
    /\ loop' = "job"
    /\ UNCHANGED <<host, running, thread, lock, jobs, applied, registered, starter,
                   stopper, todo, fileVars>>

JobEnds ==
    /\ loop = "job"
    /\ loop' = "pending"
    /\ UNCHANGED <<host, running, thread, lock, jobs, applied, registered, starter,
                   stopper, workVars, fileVars, histVars>>

PendingDone ==
    /\ loop = "pending"
    /\ todo["loop"] = {}
    /\ Release("loop")
    /\ loop' = "reload"
    /\ UNCHANGED <<host, running, thread, jobs, applied, registered, starter, stopper,
                   workVars, fileVars, histVars>>

\* After the 1 second sleep: less than 5 seconds since the last reload, ...
SkipReload ==
    /\ loop = "reload"
    /\ loop' = "top"
    /\ UNCHANGED <<host, running, thread, lock, jobs, applied, registered, starter,
                   stopper, workVars, fileVars, histVars>>

\* ... or not: the new configuration is recorded before the schedule is rebuilt,
\* and one with a "nan" is new each time.
Reload ==
    /\ loop = "reload"
    /\ IF LoadConfig # applied \/ applied.nan
       THEN applied' = LoadConfig /\ loop' = "rebuild"
       ELSE loop' = "top" /\ UNCHANGED applied
    /\ UNCHANGED <<host, running, thread, lock, jobs, registered, starter, stopper,
                   workVars, fileVars, histVars>>

RebuildBegin ==
    /\ loop = "rebuild"
    /\ ClearFirst("loop")
    /\ loop' = "build"
    /\ UNCHANGED <<host, running, thread, applied, registered, starter, stopper,
                   entered, fileVars, histVars>>

RebuildAdd(j) ==
    /\ loop = "build"
    /\ AddJob("loop", j)
    /\ UNCHANGED <<host, running, thread, lock, applied, registered, threadVars,
                   entered, fileVars, histVars>>

\* The end of the rebuild, or an exception that the loop logs: the jobs not yet
\* registered stay out.
RebuildEnd ==
    /\ loop = "build"
    /\ todo["loop"] = {} \/ todo["loop"] \cap applied.refused # {}
    /\ Release("loop")
    /\ todo' = [todo EXCEPT !["loop"] = {}]
    /\ loop' = "top"
    /\ UNCHANGED <<host, running, thread, jobs, applied, registered, starter, stopper,
                   entered, fileVars, histVars>>

-----------------------------------------------------------------------------
(* The world: config.json is written in place, and the process ends.         *)

EditBegin(config) ==
    /\ edits < MaxEdits
    /\ ~torn
    /\ edits' = edits + 1
    /\ torn' = TRUE
    /\ file' = config
    /\ UNCHANGED <<host, running, thread, lock, jobs, applied, registered, threadVars,
                   workVars, histVars>>

EditEnd ==
    /\ torn
    /\ torn' = FALSE
    /\ UNCHANGED <<host, running, thread, lock, jobs, applied, registered, threadVars,
                   workVars, file, edits, histVars>>

\* The host returns, and the daemon thread dies with the process wherever it is:
\* start() and stop() have returned, or start() raised out of the service.
Exit ==
    /\ loop # "killed"
    /\ \/ stopper \in {"ignored", "stopped"} /\ starter \in {"started", "raised", "left"}
       \/ stopper = "ready" /\ starter = "raised" /\ host = "service"
    /\ loop' = "killed"
    /\ UNCHANGED <<host, running, thread, lock, jobs, applied, registered, starter,
                   stopper, workVars, fileVars, histVars>>

Exited == loop = "killed" /\ UNCHANGED vars

StarterStep ==
    \/ Register \/ SetupBegin \/ SetupRaises \/ SetupEnd
    \/ \E j \in Jobs : SetupAdd(j) \/ CheckInitial(j)
    \/ InitialCheck \/ InitialCheckEnds \/ CreateThread \/ StartThread

StopperStep == Join \/ StopClear \/ StopReturns

LoopStep ==
    \/ LoopTop \/ RunJob \/ JobEnds \/ PendingDone \/ RebuildBegin \/ RebuildEnd
    \/ \E due \in SUBSET Jobs : RunPending(due)
    \/ \E j \in Jobs : CheckJob(j) \/ RebuildAdd(j)
    \/ Reload

Next ==
    \/ Start \/ StarterStep
    \/ Stop \/ StopperStep
    \/ LoopStep \/ SkipReload
    \/ EditEnd \/ \E config \in Configs : EditBegin(config)
    \/ Exit \/ Exited

Spec == Init /\ [][Next]_vars

\* Threads run, a job ends (its calls carry timeouts), a writer finishes its
\* write, and every five seconds the loop does reload.
FairSpec ==
    /\ Spec
    /\ WF_vars(StarterStep)
    /\ WF_vars(StopperStep)
    /\ WF_vars(LoopStep)
    /\ SF_vars(Reload)
    /\ WF_vars(EditEnd)

-----------------------------------------------------------------------------
(* Properties.                                                               *)

TypeOK ==
    /\ host \in Hosts
    /\ running \in BOOLEAN
    /\ thread \in {"none", "created", "started"}
    /\ lock \in {"free", "starter", "loop", "stopper"}
    /\ jobs \subseteq Jobs
    /\ applied \in Configs
    /\ registered \in BOOLEAN
    /\ starter \in {"new", "register", "setup", "build", "initial", "checked",
                    "checking", "launch", "started", "raised", "left"}
    /\ loop \in {"none", "top", "locking", "pending", "checked", "job", "reload",
                 "rebuild", "build", "ended", "killed"}
    /\ stopper \in {"ready", "join", "clear", "release", "stopped", "ignored"}
    /\ todo \in [{"starter", "loop"} -> SUBSET Jobs]
    /\ entered \in [{"starter", "loop"} -> SUBSET Jobs]
    /\ file \in Configs
    /\ torn \in BOOLEAN
    /\ edits \in 0..MaxEdits
    /\ telemetry \in BOOLEAN
    /\ late \in Nat

\* The jobs run_pending works through stay as they are until it is done: no
\* clear, registration or rebuild of another thread gets between them.
RunPendingUndisturbed ==
    [][(loop \in {"pending", "checked", "job"}) => UNCHANGED jobs]_vars

\* When stop() has returned the loop is in no job and about to begin none, although
\* its join may have given up after 5 seconds with a job still running.
LoopQuietAfterStop == stopper = "stopped" => loop \notin {"checked", "job"}

\* After stop() has cleared self.running one job may begin, on whatever thread: the
\* one whose _safe_run had looked before.  No second one does, be it an initial check
\* of a start() still under way, a due job, or a job that a late rebuild registers.
OneLateJobAtMost == late <= 1

\* start() raises only for an interval the library refuses, or because stop()
\* took the thread away between its creation and its start.
StartRaisesOnlyIf ==
    starter = "raised" =>
        applied.refused # {} \/ (stopper \in {"clear", "release", "stopped"} /\ ~running)

\* stop() returns, and the loop is or soon will be gone, whenever stop() hit.
StopTakesEffect ==
    stopper = "join" ~>
        [](stopper = "stopped" /\ loop \in {"none", "ended", "killed"})

\* A running agent ends up with the jobs of the configuration on disk, through
\* torn reads and any sequence of edits that ends with acceptable intervals, with
\* an interval in between that the library refuses or that never equals itself.
ScheduleConverges ==
    <>[](running /\ starter = "started" /\ loop # "killed") =>
        <>[](file.refused # {} \/ jobs = Wanted(file))

\* The scheduler as its host sees it: the loop thread walks through the jobs, and
\* what start() runs at once are jobs of another worker.  A worker is in a job from
\* its look at self.running on.
Phase ==
    IF stopper \in {"ready", "ignored"} THEN (IF running THEN "on" ELSE "off")
    ELSE IF stopper = "stopped" THEN "over" ELSE "ending"

Walking == loop \in {"pending", "checked", "job"}
Due     == {j \in todo["loop"] : Walking}
Busy    == {w \in {"starter", "loop"} :
                IF w = "starter" THEN starter \in {"checked", "checking"}
                                 ELSE loop \in {"checked", "job"}}

JobLifecycle == INSTANCE Lifecycle WITH
    Workers    <- {"starter", "loop"},
    Walker     <- "loop",
    phase      <- Phase,
    registered <- jobs,
    walking    <- Walking,
    due        <- Due,
    busy       <- Busy

\* The threads, their lock and config.json together are such a scheduler.
ImplementsLifecycle == JobLifecycle!Spec

\* A comment of start(): "Registration must happen before telemetry."
RegistrationBeforeTelemetry == ~telemetry

=============================================================================
