\* Two callers of one key, and a clock that outlives an entry.
CONSTANTS
    Callers = {p1, p2}
    Keys = {k1}
    Entries = {e1, e2, e3}
    TTL = 1
    MaxTime = 2
    None = None
SPECIFICATION FairSpec
INVARIANTS
    TypeOK
    NoHalfFilledRead
    FreshResult
    EmptyEntryIsTransient
    LockDiscipline
PROPERTY
    EveryCallReturns
