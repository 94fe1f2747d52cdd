\* Two processes, two runtime documents and one marker document; two attempts
\* at the lock stand for the 500 of the code.
CONSTANTS
    Proc = {daemon, ctl}
    RuntimeDoc = {r1, r2}
    MarkerDoc = {running}
    Absent = Absent
    Torn = Torn
    Free = Free
    Orphan = Orphan
    MaxTries = 2

SPECIFICATION Spec

INVARIANTS
    TypeOK
    LockHolderAlone
    CompleteDocuments
    OkMeansDurable

PROPERTIES
    OrphanStopsPublishing
    EveryCallReturns
    ImplementsAtomicStore
