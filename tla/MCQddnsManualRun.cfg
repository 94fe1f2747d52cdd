CONSTANTS
    Daemon = daemon
    Cli = {ctl}
    CliOps = {"run"}
    Missing = Missing
    Corrupt = Corrupt
    None = None
    Addr = {a, b}
    Rule = {1}
    CheckInterval = 1
    ForceInterval = 2
    RetryCount = 1
    RetryBackoff = 1
    MaxAttempts = 3
    MaxTime = 1
    Poll = 1
    StepBacks = TRUE
    MaxFaults = 0
    MaxEvents = 2
    MaxShown = 1
SPECIFICATION Spec
PROPERTIES
    ManualRunKeepsDaemonRunning
CHECK_DEADLOCK FALSE
