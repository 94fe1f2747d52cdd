\* The daemon alone with one rule: failures, kills, late updates, damage and
\* reboots; the addresses are interchangeable.
CONSTANTS
    Daemon = daemon
    Cli = {}
    CliOps = {}
    Missing = Missing
    Corrupt = Corrupt
    None = None
    Addr = {a, b}
    Rule = {1}
    CheckInterval = 2
    ForceInterval = 3
    RetryCount = 1
    RetryBackoff = 1
    MaxAttempts = 2
    MaxTime = 3
    Poll = 1
    StepBacks = FALSE
    MaxFaults = 4
    MaxEvents = 1
    MaxShown = 1
SYMMETRY AddrSymmetry
SPECIFICATION Spec
INVARIANTS
    TypeOK
    RetryLaw
    ReportedAddressIsPublished
PROPERTIES
    ReportsNeverRegress
CHECK_DEADLOCK FALSE
