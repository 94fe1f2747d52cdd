CONSTANTS
    Daemon = daemon
    Cli = {ctl}
    CliOps = {"run", "load"}
    Missing = Missing
    Corrupt = Corrupt
    None = None
    Addr = {a, b}
    Rule = {1}
    CheckInterval = 1
    ForceInterval = 2
    RetryCount = 1
    RetryBackoff = 1
    MaxAttempts = 3
    MaxTime = 1
    Poll = 1
    StepBacks = TRUE
    MaxFaults = 1
    MaxEvents = 2
    MaxShown = 1
SPECIFICATION Spec
PROPERTIES
    Converges
    DeletedRulesVanish
CHECK_DEADLOCK FALSE
