------------------------ MODULE AgentSchedulerProofs ------------------------
(***************************************************************************)
(* What AgentScheduler does for any set of jobs and configurations and any  *)
(* number of edits of config.json: the schedule lock keeps run_pending's    *)
(* jobs in place, no two jobs overlap, after stop() at most the job begins  *)
(* that had been let through before, the loop is quiet once stop() has      *)
(* returned, and the whole is the scheduler that Lifecycle describes.       *)
(***************************************************************************)
EXTENDS AgentScheduler, TLAPS

\* Who is where says who holds the lock.  A loop killed with the process may
\* have taken the lock with it.
LockInv ==
    /\ starter = "build" <=> lock = "starter"
    /\ stopper = "release" <=> lock = "stopper"
    /\ loop \in {"pending", "checked", "job", "build"} => lock = "loop"
    /\ lock = "loop" => loop \in {"pending", "checked", "job", "build", "killed"}

\* start() alone sets self.running, and a stop() that found it set clears it for good:
\* in between it is set.
StoppedInv ==
    /\ starter = "new" => ~running
    /\ stopper \notin {"ready", "ignored"} => ~running /\ starter # "new"
    /\ (stopper \in {"ready", "ignored"} /\ starter \notin {"new", "left"}) => running

\* Once stop() has had the lock the loop begins no job, and was in none.
QuietInv == stopper \in {"release", "stopped"} => loop \notin {"checked", "job"}

\* The reference to the thread exists from its creation until stop() drops it.
ThreadInv ==
    starter = "launch" => thread # "none" \/ stopper \in {"clear", "release", "stopped"}

\* The loop lives only when start() is through.
LoopInv ==
    /\ starter \notin {"started", "left", "raised"} => loop = "none"
    /\ starter = "raised" => loop \in {"none", "killed"}

\* The jobs that began late, and the one whose _safe_run has looked at self.running
\* and not yet called, are one together: the two threads are never both at it.
LateInv ==
    /\ stopper \in {"ready", "ignored"} => late = 0
    /\ starter = "checked" \/ loop = "checked" => late = 0
    /\ late <= 1

IInv ==
    /\ TypeOK
    /\ LockInv
    /\ StoppedInv
    /\ QuietInv
    /\ ThreadInv
    /\ LoopInv
    /\ LateInv
    /\ StartRaisesOnlyIf

-----------------------------------------------------------------------------

LEMMA InitEstablishes == Init => IInv
<1> SUFFICES ASSUME Init PROVE IInv
    OBVIOUS
<1> USE SchedulerAssumption DEF Init
<1>1. running \in BOOLEAN /\ registered \in BOOLEAN /\ torn \in BOOLEAN /\ telemetry \in BOOLEAN
    BY Zenon
<1>2. TypeOK
    BY <1>1 DEF TypeOK
<1>3. LockInv /\ QuietInv /\ ThreadInv /\ LoopInv /\ LateInv /\ StartRaisesOnlyIf
    BY DEF LockInv, QuietInv, ThreadInv, LoopInv, LateInv, StartRaisesOnlyIf
<1>4. StoppedInv
    BY DEF StoppedInv
<1> QED
    BY <1>2, <1>3, <1>4 DEF IInv

LEMMA LoadConfigType == TypeOK => LoadConfig \in Configs
BY SchedulerAssumption DEF TypeOK, LoadConfig

\* Every action keeps the types.
LEMMA TypeStep == TypeOK /\ [Next]_vars => TypeOK'
<1> SUFFICES ASSUME TypeOK, [Next]_vars PROVE TypeOK'
    OBVIOUS
<1> USE SchedulerAssumption DEF TypeOK, vars, threadVars, workVars, fileVars, histVars
<1>1. CASE Start
    BY <1>1 DEF Start
<1>2. CASE Register
    BY <1>2 DEF Register
<1>3. CASE SetupBegin
    BY <1>3 DEF SetupBegin, ClearFirst, Acquire, Wanted
<1>4. CASE SetupRaises
    BY <1>4 DEF SetupRaises, Release
<1>5. CASE SetupEnd
    BY <1>5 DEF SetupEnd, Release, Wanted
<1>6. CASE InitialCheckEnds
    BY <1>6 DEF InitialCheckEnds
<1>7. CASE CreateThread
    BY <1>7 DEF CreateThread
<1>8. CASE StartThread
    BY <1>8 DEF StartThread
<1>9. CASE Stop
    <2>1. running' \in BOOLEAN
        BY <1>9, Zenon DEF Stop
    <2>2. /\ stopper' \in {"join", "ignored"}
          /\ UNCHANGED <<host, thread, jobs, applied, registered, loop, fileVars, telemetry>>
        BY <1>9 DEF Stop
    <2>3. CASE host = "console"
        BY <1>9, <2>1, <2>2, <2>3 DEF Stop, LeaveStart
    <2>4. CASE host # "console"
        BY <1>9, <2>1, <2>2, <2>4 DEF Stop, LeaveStart
    <2> QED
        BY <2>3, <2>4
<1>10. CASE Join
    BY <1>10 DEF Join
<1>11. CASE StopClear
    BY <1>11 DEF StopClear, Acquire
<1>12. CASE StopReturns
    BY <1>12 DEF StopReturns, Release
<1>13. CASE LoopTop
    BY <1>13 DEF LoopTop
<1>14. CASE JobEnds
    BY <1>14 DEF JobEnds
<1>15. CASE PendingDone
    BY <1>15 DEF PendingDone, Release
<1>16. CASE SkipReload
    BY <1>16 DEF SkipReload
<1>17. CASE Reload
    <2>1. applied' \in Configs /\ loop' \in {"top", "rebuild"}
        BY <1>17, LoadConfigType, Zenon DEF Reload
    <2> QED
        BY <1>17, <2>1 DEF Reload
<1>18. CASE RebuildBegin
    BY <1>18 DEF RebuildBegin, ClearFirst, Acquire, Wanted
<1>19. CASE RebuildEnd
    BY <1>19 DEF RebuildEnd, Release
<1>20. CASE EditEnd
    <2>1. torn' \in BOOLEAN
        BY <1>20, Zenon DEF EditEnd
    <2> QED
        BY <1>20, <2>1 DEF EditEnd
<1>21. CASE Exit
    BY <1>21 DEF Exit
<1>22. CASE Exited
    BY <1>22 DEF Exited
<1>23. ASSUME NEW j \in Jobs, SetupAdd(j) PROVE TypeOK'
    BY <1>23 DEF SetupAdd, AddJob
<1>24. ASSUME NEW j \in Jobs, CheckInitial(j) PROVE TypeOK'
    BY <1>24 DEF CheckInitial
<1>25. ASSUME NEW j \in Jobs, CheckJob(j) PROVE TypeOK'
    BY <1>25 DEF CheckJob
<1>30. CASE InitialCheck \/ RunJob
    <2>1. telemetry' \in BOOLEAN
        BY <1>30, Zenon DEF InitialCheck, RunJob, Begin
    <2>2. late' \in Nat /\ entered' \in [{"starter", "loop"} -> SUBSET Jobs]
        BY <1>30 DEF InitialCheck, RunJob, Begin
    <2> QED
        BY <1>30, <2>1, <2>2 DEF InitialCheck, RunJob
<1>26. ASSUME NEW j \in Jobs, RebuildAdd(j) PROVE TypeOK'
    BY <1>26 DEF RebuildAdd, AddJob
<1>27. ASSUME NEW due \in SUBSET Jobs, RunPending(due) PROVE TypeOK'
    BY <1>27 DEF RunPending, Acquire
<1>28. ASSUME NEW config \in Configs, EditBegin(config) PROVE TypeOK'
    BY <1>28 DEF EditBegin
<1>29. CASE UNCHANGED vars
    BY <1>29
<1> QED
    BY <1>1, <1>2, <1>3, <1>4, <1>5, <1>6, <1>7, <1>8, <1>9, <1>10, <1>11, <1>12,
       <1>13, <1>14, <1>15, <1>16, <1>17, <1>18, <1>19, <1>20, <1>21, <1>22, <1>23,
       <1>24, <1>25, <1>26, <1>27, <1>28, <1>29, <1>30
       DEF Next, StarterStep, StopperStep, LoopStep

\* Every action keeps the rest of the inductive invariant.
LEMMA InvStep == IInv /\ [Next]_vars => IInv'
<1> SUFFICES ASSUME IInv, [Next]_vars PROVE IInv'
    OBVIOUS
<1>t. TypeOK /\ TypeOK'
    BY TypeStep DEF IInv
<1> DEFINE Rest == /\ LockInv /\ StoppedInv /\ QuietInv /\ ThreadInv /\ LoopInv
                   /\ LateInv /\ StartRaisesOnlyIf
<1> SUFFICES Rest'
    BY <1>t DEF IInv
<1>i. Rest
    BY DEF IInv
<1> USE <1>i DEF LockInv, StoppedInv, QuietInv, ThreadInv, LoopInv, LateInv,
                 StartRaisesOnlyIf, vars, threadVars, workVars, fileVars, histVars
<1>1. CASE Start
    BY <1>1 DEF Start
<1>2. CASE Register
    BY <1>2 DEF Register
<1>3. CASE SetupBegin
    BY <1>3 DEF SetupBegin, ClearFirst, Acquire, Wanted
<1>4. CASE SetupRaises
    BY <1>4 DEF SetupRaises, Release
<1>5. CASE SetupEnd
    BY <1>5 DEF SetupEnd, Release, Wanted
<1>6. CASE InitialCheckEnds
    BY <1>6 DEF InitialCheckEnds
<1>7. CASE CreateThread
    BY <1>7 DEF CreateThread
<1>8. CASE StartThread
    <2>1. /\ starter = "launch"
          /\ UNCHANGED <<running, lock, applied, stopper, late>>
          /\ \/ thread = "none" /\ starter' = "raised" /\ UNCHANGED loop
             \/ starter' = "started" /\ loop' = "top"
        BY <1>8 DEF StartThread
    <2> QED
        BY <2>1
<1>9. CASE Stop
    <2>1. /\ stopper = "ready"
          /\ UNCHANGED <<thread, applied, loop, late>>
          /\ \/ stopper' = "join" /\ ~running' /\ running
             \/ stopper' = "ignored" /\ ~running /\ ~running'
        BY <1>9 DEF Stop
    <2>2. \/ UNCHANGED <<starter, lock>>
          \/ starter' = "left" /\ lock' = IF lock = "starter" THEN "free" ELSE lock
        BY <1>9 DEF Stop, LeaveStart
    <2> QED
        BY <2>1, <2>2
<1>10. CASE Join
    BY <1>10 DEF Join
<1>11. CASE StopClear
    BY <1>11 DEF StopClear, Acquire
<1>12. CASE StopReturns
    BY <1>12 DEF StopReturns, Release
<1>13. CASE LoopTop
    BY <1>13 DEF LoopTop
<1>14. CASE JobEnds
    BY <1>14 DEF JobEnds
<1>15. CASE PendingDone
    BY <1>15 DEF PendingDone, Release
<1>16. CASE SkipReload
    BY <1>16 DEF SkipReload
<1>17. CASE Reload
    BY <1>17 DEF Reload, LoadConfig
<1>18. CASE RebuildBegin
    BY <1>18 DEF RebuildBegin, ClearFirst, Acquire, Wanted
<1>19. CASE RebuildEnd
    BY <1>19 DEF RebuildEnd, Release
<1>20. CASE EditEnd
    BY <1>20 DEF EditEnd
<1>21. CASE Exit
    BY <1>21 DEF Exit
<1>22. CASE Exited
    BY <1>22 DEF Exited
<1>23. ASSUME NEW j \in Jobs, SetupAdd(j) PROVE Rest'
    BY <1>23 DEF SetupAdd, AddJob
<1>24. ASSUME NEW j \in Jobs, CheckInitial(j) PROVE Rest'
    BY <1>24 DEF CheckInitial
<1>25. ASSUME NEW j \in Jobs, CheckJob(j) PROVE Rest'
    BY <1>25 DEF CheckJob
<1>30. CASE InitialCheck \/ RunJob
    <2>1. late' \in {0, 1} /\ (stopper \in {"ready", "ignored"} => late' = 0)
        BY <1>30 DEF InitialCheck, RunJob, Begin
    <2>2. starter' # "checked" /\ loop' # "checked"
        BY <1>30 DEF InitialCheck, RunJob
    <2> QED
        BY <1>30, <2>1, <2>2 DEF InitialCheck, RunJob
<1>26. ASSUME NEW j \in Jobs, RebuildAdd(j) PROVE Rest'
    BY <1>26 DEF RebuildAdd, AddJob
<1>27. ASSUME NEW due \in SUBSET Jobs, RunPending(due) PROVE Rest'
    BY <1>27 DEF RunPending, Acquire
<1>28. ASSUME NEW config \in Configs, EditBegin(config) PROVE Rest'
    BY <1>28 DEF EditBegin
<1>29. CASE UNCHANGED vars
    BY <1>29
<1> QED
    BY <1>1, <1>2, <1>3, <1>4, <1>5, <1>6, <1>7, <1>8, <1>9, <1>10, <1>11, <1>12,
       <1>13, <1>14, <1>15, <1>16, <1>17, <1>18, <1>19, <1>20, <1>21, <1>22, <1>23,
       <1>24, <1>25, <1>26, <1>27, <1>28, <1>29, <1>30
       DEF Next, StarterStep, StopperStep, LoopStep

THEOREM Invariance == Spec => []IInv
<1>1. Init => IInv
    BY InitEstablishes
<1>2. IInv /\ [Next]_vars => IInv'
    BY InvStep
<1> QED
    BY <1>1, <1>2, PTL DEF Spec

\* Every variable keeps its type.
THEOREM TypeCorrect == Spec => []TypeOK
<1>1. IInv => TypeOK
    BY DEF IInv
<1> QED
    BY <1>1, Invariance, PTL

\* stop() returns with the loop in no job, whether or not its join timed out.
THEOREM QuietAfterStop == Spec => []LoopQuietAfterStop
<1>1. IInv => LoopQuietAfterStop
    BY DEF IInv, QuietInv, LoopQuietAfterStop
<1> QED
    BY <1>1, Invariance, PTL

\* start() fails for a refused interval or a stop() beside it, for nothing else.
THEOREM StartFailures == Spec => []StartRaisesOnlyIf
<1>1. IInv => StartRaisesOnlyIf
    BY DEF IInv
<1> QED
    BY <1>1, Invariance, PTL

-----------------------------------------------------------------------------

\* Whoever changes the schedule has the lock, or takes it in that step.
LEMMA ScheduleChangesUnderLock ==
    ASSUME LockInv, Next
    PROVE  \/ UNCHANGED jobs
           \/ lock = "free"
           \/ starter = "build"
           \/ loop = "build"
<1> USE DEF ClearFirst, Acquire, AddJob, threadVars
<1>1. CASE Start \/ Register \/ SetupRaises \/ SetupEnd \/ InitialCheckEnds
           \/ InitialCheck \/ CreateThread \/ StartThread \/ Stop \/ Join \/ StopReturns
    BY <1>1 DEF Start, Register, SetupRaises, SetupEnd, InitialCheck, InitialCheckEnds,
       CreateThread, StartThread, Stop, Join, StopReturns
<1>2. CASE LoopTop \/ RunJob \/ JobEnds \/ PendingDone \/ SkipReload \/ Reload
           \/ RebuildEnd \/ EditEnd \/ Exit \/ Exited
    BY <1>2 DEF LoopTop, RunJob, JobEnds, PendingDone, SkipReload, Reload, RebuildEnd, EditEnd,
       Exit, Exited, vars
<1>3. CASE SetupBegin \/ RebuildBegin \/ StopClear
    BY <1>3 DEF SetupBegin, RebuildBegin, StopClear
<1>4. ASSUME NEW j, SetupAdd(j) \/ RebuildAdd(j)
      PROVE  starter = "build" \/ loop = "build"
    BY <1>4 DEF SetupAdd, RebuildAdd
<1>5. ASSUME NEW j, CheckInitial(j) \/ CheckJob(j) PROVE UNCHANGED jobs
    BY <1>5 DEF CheckInitial, CheckJob
<1>6. ASSUME NEW d, RunPending(d) \/ EditBegin(d) PROVE UNCHANGED jobs
    BY <1>6 DEF RunPending, EditBegin
<1> QED
    BY <1>1, <1>2, <1>3, <1>4, <1>5, <1>6 DEF Next, StarterStep, StopperStep, LoopStep

\* run_pending iterates over a schedule that no other thread touches.
THEOREM RunPendingSafe == Spec => RunPendingUndisturbed
<1>1. IInv /\ [Next]_vars => [(loop \in {"pending", "checked", "job"}) => UNCHANGED jobs]_vars
    <2> SUFFICES ASSUME IInv, Next, loop \in {"pending", "checked", "job"}
                 PROVE UNCHANGED jobs
        BY DEF vars
    <2>1. lock = "loop" /\ starter # "build" /\ loop # "build"
        BY DEF IInv, LockInv
    <2> QED
        BY <2>1, ScheduleChangesUnderLock DEF IInv
<1> QED
    BY <1>1, Invariance, PTL DEF Spec, RunPendingUndisturbed

\* Once stop() has cleared self.running one job more begins at most, on all threads
\* together: what was between its look at self.running and its call.
THEOREM OneBeginsAfterStop == Spec => []OneLateJobAtMost
<1>1. IInv => OneLateJobAtMost
    BY DEF IInv, LateInv, OneLateJobAtMost
<1> QED
    BY <1>1, Invariance, PTL

\* What the models of the monitors, of the API client and of the configuration
\* file take for granted: an initial check of start() and a job of the loop never
\* run at one time, and a reload or rebuild of the loop meets neither.
OneJobAtATime ==
    starter \in {"checked", "checking"} => loop = "none"

\* start() makes the loop's thread only when its own checks are through, and a
\* stop() in between does not change that.
THEOREM JobsNeverOverlap == Spec => []OneJobAtATime
<1>1. IInv => OneJobAtATime
    BY DEF IInv, LoopInv, OneJobAtATime
<1> QED
    BY <1>1, Invariance, PTL

-----------------------------------------------------------------------------
(* The refinement of Lifecycle.                                              *)

\* What the host sees stays as it is where the threads it is read from do.
LEMMA SeenAsBefore ==
    /\ UNCHANGED <<running, stopper>> => UNCHANGED Phase
    /\ UNCHANGED <<loop, todo>> => UNCHANGED Walking /\ UNCHANGED Due
    /\ (~Walking /\ ~Walking') => UNCHANGED Walking /\ UNCHANGED Due /\ Due = {}
    /\ UNCHANGED <<starter, loop>> => UNCHANGED Busy
    /\ (Busy = {} /\ Busy' = {}) => UNCHANGED Busy
BY DEF Phase, Walking, Due, Busy

LEMMA LifecycleInit == Init => JobLifecycle!Init
BY DEF Init, JobLifecycle!Init, Phase, Walking, Due, Busy

\* start(): it turns the scheduler on, builds the schedule while the loop is not
\* there, and runs its initial checks.
LEMMA StarterSeen ==
    IInv /\ (Start \/ StarterStep) => [JobLifecycle!Next]_(JobLifecycle!vars)
<1> SUFFICES ASSUME IInv, Start \/ StarterStep PROVE JobLifecycle!Next \/ UNCHANGED JobLifecycle!vars
    OBVIOUS
<1> USE DEF IInv, LockInv, LoopInv, threadVars, workVars
<1>1. CASE Start
  <2>1. Phase = "off" /\ Phase' = "on"
    BY <1>1 DEF Start, Phase, StoppedInv, TypeOK
  <2>2. UNCHANGED <<jobs, Walking, Due, Busy>>
    BY <1>1 DEF Start, Walking, Due, Busy
  <2> QED
    BY <2>1, <2>2 DEF JobLifecycle!Next, JobLifecycle!TurnOn
<1>2. CASE Register \/ SetupRaises \/ SetupEnd \/ CreateThread \/ StartThread
  <2>1. UNCHANGED <<running, stopper, jobs>>
    BY <1>2 DEF Register, SetupRaises, SetupEnd, CreateThread, StartThread
  <2>2. ~Walking /\ ~Walking' /\ Busy = {} /\ Busy' = {}
    BY <1>2 DEF Register, SetupRaises, SetupEnd, CreateThread, StartThread, Walking, Busy
  <2> QED
    BY <2>1, <2>2, SeenAsBefore DEF JobLifecycle!vars
<1>3. ASSUME NEW j \in Jobs, SetupBegin \/ SetupAdd(j) PROVE JobLifecycle!Next
  <2>1. UNCHANGED <<running, stopper>> /\ jobs' \in SUBSET Jobs
    BY <1>3 DEF SetupBegin, SetupAdd, ClearFirst, AddJob, TypeOK
  <2>2. ~Walking /\ ~Walking' /\ Busy = {} /\ Busy' = {}
    BY <1>3 DEF SetupBegin, SetupAdd, ClearFirst, Acquire, Walking, Busy
  <2> QED
    BY <2>1, <2>2, SeenAsBefore DEF JobLifecycle!Next, JobLifecycle!Register
<1>4. ASSUME NEW j \in Jobs, CheckInitial(j) PROVE JobLifecycle!Next \/ UNCHANGED JobLifecycle!vars
  <2>1. UNCHANGED <<running, stopper, jobs, loop>> /\ starter = "initial" /\ loop = "none"
    BY <1>4 DEF CheckInitial
  <2>2. UNCHANGED Phase /\ UNCHANGED Walking /\ UNCHANGED Due
    BY <2>1, SeenAsBefore DEF Walking
  <2>3. CASE running
    <3>1. starter' = "checked"
      BY <1>4, <2>3 DEF CheckInitial
    <3>2. Phase = "on"
      BY <2>3 DEF Phase, StoppedInv
    <3>3. Busy = {} /\ Busy' = {"starter"}
      BY <2>1, <3>1 DEF Busy
    <3> QED
      BY <2>1, <2>2, <3>2, <3>3 DEF JobLifecycle!Next, JobLifecycle!BeginJob
  <2>4. CASE ~running
    <3>1. UNCHANGED Busy
      BY <1>4, <2>1, <2>4, SeenAsBefore DEF CheckInitial
    <3> QED
      BY <2>1, <2>2, <3>1 DEF JobLifecycle!vars
  <2> QED
    BY <2>3, <2>4
<1>5. CASE InitialCheckEnds
  <2>1. UNCHANGED <<running, stopper, jobs, loop, todo>> /\ starter = "checking" /\ starter' = "initial"
    BY <1>5 DEF InitialCheckEnds
  <2>2. "starter" \in Busy /\ Busy' = Busy \ {"starter"}
    BY <2>1 DEF Busy
  <2> QED
    BY <2>1, <2>2, SeenAsBefore DEF JobLifecycle!Next, JobLifecycle!EndJob
<1>6. CASE SetupBegin
    BY <1>3, <1>6, SchedulerAssumption
<1>7. CASE InitialCheck
  <2>1. UNCHANGED <<running, stopper, jobs, loop, todo>>
        /\ starter = "checked" /\ starter' = "checking"
    BY <1>7 DEF InitialCheck
  <2>2. UNCHANGED Busy
    BY <2>1 DEF Busy
  <2> QED
    BY <2>1, <2>2, SeenAsBefore DEF JobLifecycle!vars
<1> QED
    BY <1>1, <1>2, <1>3, <1>4, <1>5, <1>6, <1>7 DEF StarterStep

\* stop(): it turns the scheduler off, and has the lock when it says so.
LEMMA StopperSeen ==
    IInv /\ (Stop \/ StopperStep) => [JobLifecycle!Next]_(JobLifecycle!vars)
<1> SUFFICES ASSUME IInv, Stop \/ StopperStep PROVE JobLifecycle!Next \/ UNCHANGED JobLifecycle!vars
    OBVIOUS
<1> USE DEF IInv, LockInv, workVars
<1>1. CASE Stop
  <2>1. stopper = "ready" /\ UNCHANGED <<jobs, loop>> /\ starter' \in {starter, "left"} /\ todo'["loop"] = todo["loop"]
    BY <1>1 DEF Stop, LeaveStart, TypeOK
  <2>2. UNCHANGED Walking /\ UNCHANGED Due
    BY <2>1 DEF Walking, Due
  <2>3. Busy' \subseteq Busy
    BY <2>1 DEF Busy
  <2>4. CASE running
    <3>1. Phase = "on" /\ Phase' = "ending"
      BY <1>1, <2>1, <2>4 DEF Stop, Phase
    <3> QED
      BY <2>1, <2>2, <2>3, <3>1 DEF JobLifecycle!Next, JobLifecycle!TurnOff
  <2>5. CASE ~running
    <3>1. stopper' = "ignored" /\ UNCHANGED running
      BY <1>1, <2>5 DEF Stop
    <3>2. UNCHANGED Phase
      BY <2>1, <3>1 DEF Phase
    <3>3. starter \notin {"checked", "checking"}
      BY <2>1, <2>5 DEF StoppedInv
    <3>4. UNCHANGED Busy
      BY <2>1, <3>3 DEF Busy
    <3> QED
      BY <2>1, <2>2, <3>2, <3>4 DEF JobLifecycle!vars
  <2> QED
    BY <2>4, <2>5
<1>2. CASE Join
  <2>1. UNCHANGED <<jobs, starter, loop, todo>> /\ stopper = "join" /\ stopper' = "clear"
    BY <1>2 DEF Join
  <2>2. UNCHANGED Phase
    BY <2>1 DEF Phase
  <2> QED
    BY <2>1, <2>2, SeenAsBefore DEF JobLifecycle!vars
<1>3. CASE StopClear
  <2>1. UNCHANGED <<starter, loop, todo>> /\ stopper = "clear" /\ stopper' = "release" /\ jobs' = {} /\ lock = "free"
    BY <1>3 DEF StopClear, Acquire
  <2>2. UNCHANGED Phase /\ ~Walking
    BY <2>1 DEF Phase, Walking
  <2> QED
    BY <2>1, <2>2, SeenAsBefore DEF JobLifecycle!Next, JobLifecycle!Register
<1>4. CASE StopReturns
  <2>1. UNCHANGED <<jobs, starter, loop, todo>> /\ stopper = "release" /\ stopper' = "stopped"
    BY <1>4 DEF StopReturns
  <2>2. Phase = "ending" /\ Phase' = "over" /\ ~Walking
    BY <2>1 DEF Phase, Walking
  <2> QED
    BY <2>1, <2>2, SeenAsBefore DEF JobLifecycle!Next, JobLifecycle!Over
<1> QED
    BY <1>1, <1>2, <1>3, <1>4 DEF StopperStep

\* The loop: run_pending is a walk, and a job of it begins while running is set.
LEMMA LoopSeen ==
    IInv /\ (LoopStep \/ SkipReload) => [JobLifecycle!Next]_(JobLifecycle!vars)
<1> SUFFICES ASSUME IInv, LoopStep \/ SkipReload PROVE JobLifecycle!Next \/ UNCHANGED JobLifecycle!vars
    OBVIOUS
<1> USE DEF IInv, TypeOK, threadVars, workVars
<1>1. CASE LoopTop \/ SkipReload \/ Reload \/ RebuildEnd
  <2>1. UNCHANGED <<running, stopper, jobs, starter>>
    BY <1>1 DEF LoopTop, SkipReload, Reload, RebuildEnd
  <2>2. ~Walking /\ ~Walking' /\ loop \notin {"checked", "job"} /\ loop' \notin {"checked", "job"}
    BY <1>1 DEF LoopTop, SkipReload, Reload, RebuildEnd, Walking
  <2>3. UNCHANGED Busy
    BY <2>1, <2>2 DEF Busy
  <2> QED
    BY <2>1, <2>2, <2>3, SeenAsBefore DEF JobLifecycle!vars
<1>2. ASSUME NEW j \in Jobs, RebuildBegin \/ RebuildAdd(j) PROVE JobLifecycle!Next
  <2>1. UNCHANGED <<running, stopper, starter>> /\ jobs' \in SUBSET Jobs
    BY <1>2 DEF RebuildBegin, RebuildAdd, ClearFirst, AddJob
  <2>2. ~Walking /\ ~Walking' /\ loop \notin {"checked", "job"} /\ loop' \notin {"checked", "job"}
    BY <1>2 DEF RebuildBegin, RebuildAdd, Walking
  <2>3. UNCHANGED Busy
    BY <2>1, <2>2 DEF Busy
  <2> QED
    BY <2>1, <2>2, <2>3, SeenAsBefore DEF JobLifecycle!Next, JobLifecycle!Register
<1>3. ASSUME NEW due \in SUBSET Jobs, RunPending(due) PROVE JobLifecycle!Next
  <2>1. UNCHANGED <<running, stopper, jobs, starter>> /\ loop = "locking" /\ loop' = "pending"
        /\ due \subseteq jobs /\ todo'["loop"] = due
    BY <1>3 DEF RunPending
  <2>2. ~Walking /\ Walking' /\ Due' = due /\ UNCHANGED Busy
    BY <2>1 DEF Walking, Due, Busy
  <2> QED
    BY <2>1, <2>2, SeenAsBefore DEF JobLifecycle!Next, JobLifecycle!BeginWalk
<1>4. ASSUME NEW j \in Jobs, CheckJob(j) PROVE JobLifecycle!Next
  <2>1. UNCHANGED <<running, stopper, jobs, starter>> /\ loop = "pending" /\ j \in todo["loop"]
        /\ todo'["loop"] = todo["loop"] \ {j}
    BY <1>4 DEF CheckJob
  <2>2. IF running THEN loop' = "checked" ELSE loop' = loop
    BY <1>4 DEF CheckJob
  <2>3. Walking /\ Walking' /\ UNCHANGED Walking
    BY <2>1, <2>2 DEF Walking
  <2>4. j \in Due /\ Due' = Due \ {j}
    BY <2>1, <2>3 DEF Due
  <2>5. Phase = "on" <=> running
    BY <2>1 DEF Phase, StoppedInv
  <2>6. Busy = {} /\ Busy' = IF Phase = "on" THEN {"loop"} ELSE Busy
    <3>1. starter \notin {"checked", "checking"}
      BY <2>1 DEF LoopInv
    <3> QED
      BY <2>1, <2>2, <2>5, <3>1 DEF Busy
  <2>7. UNCHANGED Phase
    BY <2>1, SeenAsBefore
  <2> QED
    BY <2>1, <2>3, <2>4, <2>6, <2>7 DEF JobLifecycle!Next, JobLifecycle!Visit
<1>5. CASE JobEnds
  <2>1. UNCHANGED <<running, stopper, jobs, starter, todo>> /\ loop = "job" /\ loop' = "pending"
    BY <1>5 DEF JobEnds
  <2>2. UNCHANGED Walking /\ UNCHANGED Due
    BY <2>1 DEF Walking, Due
  <2>3. "loop" \in Busy /\ Busy' = Busy \ {"loop"}
    BY <2>1 DEF Busy
  <2> QED
    BY <2>1, <2>2, <2>3, SeenAsBefore DEF JobLifecycle!Next, JobLifecycle!EndJob
<1>6. CASE PendingDone
  <2>1. UNCHANGED <<running, stopper, jobs, starter, todo>> /\ loop = "pending" /\ loop' = "reload" /\ todo["loop"] = {}
    BY <1>6 DEF PendingDone
  <2>2. Walking /\ ~Walking' /\ Due = {} /\ Due' = {}
    BY <2>1 DEF Walking, Due
  <2>3. "loop" \notin Busy /\ UNCHANGED Busy
    BY <2>1 DEF Busy
  <2> QED
    BY <2>1, <2>2, <2>3, SeenAsBefore DEF JobLifecycle!Next, JobLifecycle!EndWalk
<1>7. CASE RebuildBegin
    BY <1>2, <1>7, SchedulerAssumption
<1>8. CASE RunJob
  <2>1. UNCHANGED <<running, stopper, jobs, starter, todo>> /\ loop = "checked" /\ loop' = "job"
    BY <1>8 DEF RunJob
  <2>2. UNCHANGED Walking /\ UNCHANGED Due /\ UNCHANGED Busy
    BY <2>1 DEF Walking, Due, Busy
  <2> QED
    BY <2>1, <2>2, SeenAsBefore DEF JobLifecycle!vars
<1> QED
    BY <1>1, <1>2, <1>3, <1>4, <1>5, <1>6, <1>7, <1>8 DEF LoopStep

\* Every step of the scheduler is a step of the abstract one, or none.
LEMMA LifecycleStep == IInv /\ [Next]_vars => [JobLifecycle!Next]_(JobLifecycle!vars)
<1> SUFFICES ASSUME IInv, [Next]_vars PROVE JobLifecycle!Next \/ UNCHANGED JobLifecycle!vars
    OBVIOUS
<1>1. CASE EditEnd \/ (\E config \in Configs : EditBegin(config)) \/ UNCHANGED vars
  <2>1. UNCHANGED <<running, stopper, jobs, starter, loop, todo>>
    BY <1>1 DEF EditEnd, EditBegin, vars, threadVars, workVars
  <2> QED
    BY <2>1, SeenAsBefore DEF JobLifecycle!vars
<1>2. CASE Exit
  <2>1. UNCHANGED <<running, stopper, jobs, starter>> /\ loop' = "killed"
        /\ starter \notin {"checked", "checking"}
    BY <1>2 DEF Exit
  <2>2. ~Walking' /\ Due' = {} /\ Busy' = Busy \ {"loop"}
    BY <2>1 DEF Walking, Due, Busy
  <2> QED
    BY <2>1, <2>2, SeenAsBefore DEF JobLifecycle!Next, JobLifecycle!Kill
<1> QED
    BY <1>1, <1>2, StarterSeen, StopperSeen, LoopSeen DEF Next, Exited

\* start(), stop() and the loop, with their lock and all that config.json may do to
\* them, are a scheduler that is turned on and off once, begins jobs only while it is
\* on, walks through a list that stands still, and is idle when it says so.
THEOREM ImplementsTheLifecycle == Spec => ImplementsLifecycle
<1> QED
    BY LifecycleInit, LifecycleStep, Invariance, PTL DEF Spec, ImplementsLifecycle, JobLifecycle!Spec

=============================================================================
