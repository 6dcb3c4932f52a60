\* Two callers of one key.
CONSTANTS
    Callers = {p1, p2}
    Keys = {k1}
    Entries = {e1, e2, e3}
    TTL = 1
    MaxTime = 1
    None = None
SPECIFICATION Spec
INVARIANT ReadyAfterWait
