CONSTANTS
    Number <- Numerals
    MaxU32 = 100000
    MaxU64 = 1000000
    BlankText = {" "}
    HttpUrl = {"http:"}
    V4 = {"1.2.3.4"}
    V6 = {"2001::1"}
    IfaceName = {"wan", "wan6"}
    Files <- AllFiles
    NoFile = NoFile
    Retry = 2
    MaxFaults = 1
    MaxEvents = 3

SPECIFICATION Spec

INVARIANTS
    TypeOK
    PollsAreRunnable

PROPERTIES
    AppliedConfigRuns
    DisabledStops
CHECK_DEADLOCK FALSE
