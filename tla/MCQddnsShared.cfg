\* The daemon and one qddnsctl over two rules; one failure and one command or
\* edit.
CONSTANTS
    Daemon = daemon
    Cli = {ctl}
    CliOps = {"run", "load", "once"}
    Missing = Missing
    Corrupt = Corrupt
    None = None
    Addr = {a}
    Rule = {1, 2}
    CheckInterval = 1
    ForceInterval = 2
    RetryCount = 1
    RetryBackoff = 1
    MaxAttempts = 3
    MaxTime = 2
    Poll = 1
    StepBacks = FALSE
    MaxFaults = 1
    MaxEvents = 1
    MaxShown = 1
SPECIFICATION Spec
INVARIANTS
    SuccessIsRecentlyPushed
    RecordsBounded
    NoRunPostponed
    NewestAreShown
CHECK_DEADLOCK FALSE
