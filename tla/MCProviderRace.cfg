\* Two runs of the same rule at a time, with a provider that needs four requests
\* and with one that knows no ids; two changes by others or late updates.
CONSTANTS
    Client = {daemon, ctl}
    Rule <- OneRule
    Addr = {ip1}
    NoAddr = NoAddr
    NoUpdate = NoUpdate
    Kinds = {"cloudflare", "custom_http"}
    RetryCount = 1
    MaxEvents = 2

SPECIFICATION Spec

INVARIANTS
    TypeOK
    UpdateSentOnce
    DuplicatesBounded

PROPERTIES
    ResultIsHonest
    ImplementsRecordService
