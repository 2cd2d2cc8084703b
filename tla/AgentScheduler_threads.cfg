\* Both hosts, three writes of config.json: every interleaving of start, stop and the loop.
CONSTANTS
    Process = Process
    Network = Network
    Beat = Beat
    Jobs <- MCJobs
    Heartbeat = Beat
    Configs <- MCConfigs
    Default <- AllOn
    Hosts = {"service", "console"}
    MaxEdits = 3
SPECIFICATION FairSpec
INVARIANTS
    LoopQuietAfterStop
    StartRaisesOnlyIf
    OneLateJobAtMost
PROPERTIES
    StopTakesEffect
    ScheduleConverges
    RunPendingUndisturbed
    ImplementsLifecycle
