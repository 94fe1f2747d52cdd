CONSTANTS
    Daemon = daemon
    Other = qddnsctl
    Limit = 2

SPECIFICATION Spec

PROPERTY
    StaysReadable
