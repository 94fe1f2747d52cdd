\* One client in a zone with three rules, every kind of provider; one change by
\* others or late update.
CONSTANTS
    Client = {daemon}
    Rule <- ThreeRules
    Addr = {ip1}
    NoAddr = NoAddr
    NoUpdate = NoUpdate
    Kinds = {"cloudflare", "dnspod", "aliyun", "custom_http"}
    RetryCount = 1
    MaxEvents = 1

SPECIFICATION Spec

PROPERTIES
    OthersUntouched
    EveryRunEnds
