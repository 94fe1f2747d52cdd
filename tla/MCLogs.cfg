CONSTANTS
    Daemon = daemon
    Other = qddnsctl
    Limit = 2

SPECIFICATION Spec

INVARIANTS
    TypeOK
    TailIntact

PROPERTIES
    Heals
