CONSTANTS
    Mac = {"m1", "m2", "m3"}
    NoMac = "?"
    Client = {"phone1", "phone2", "laptop", "tablet", "uuid"}
    NoClient = "none"
    MacOf <- Owners
    Iface = {"lan", "guest"}
    Name = {"phone", "handy", "book"}
    NoName = "-"
    Addr = {"p1", "p2", "p3", "a1", "a2", "e1", "e2", "ula"}
    Public = {"p1", "p2", "p3", "a1", "a2", "e1", "e2"}
    V4 = {"10.1", "10.2", "10.3", "8.8"}
    Private = {"10.1", "10.2", "10.3"}
    Net = {"N"}
    Eui <- Addresses
    Lan = "lan"
    NoIface = "none"
    RouterStates <- States
    MaxEntries = 3
    MaxPrefixes = 3
    MaxEvents = 2

SPECIFICATION Spec

INVARIANTS
    TypeOK
    ShownIsObserved
    LeasedIsShown
