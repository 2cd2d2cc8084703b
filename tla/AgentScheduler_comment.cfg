\* What the comment in start says.
CONSTANTS
    Process = Process
    Network = Network
    Beat = Beat
    Jobs <- MCJobs
    Heartbeat = Beat
    Configs <- MCConfigs
    Default <- AllOn
    Hosts = {"service"}
    MaxEdits = 0
SPECIFICATION Spec
INVARIANT RegistrationBeforeTelemetry
