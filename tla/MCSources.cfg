CONSTANTS
    Net = {0, 1, 2}
    Public = {1, 2}
    Subnet = {0, 1}
    Iid = {0, 1, 2, 9}
    EuiIid = 9
    Client = {"mine", "sameMac", "stranger"}
    Mine = {"mine"}
    MyMac = {"mine", "sameMac"}
    NoFilter = NoFilter
    BadFilter = BadFilter
    Iface = {"lo", "wan", "wanb"}
    Lo = "lo"
    Loopback <- LoAddr
    Configured <- AllSources
    RouterStates <- States
    NoAddr = NoAddr
    MaxEvents = 2

SPECIFICATION Spec

INVARIANTS
    TypeOK
    Grounded
    LeasesComeFirst

PROPERTIES
    FollowsRenumbering
    EndsUnlessHeld
