\* Both runners of a new NodeConfig store their first value.
CONSTANTS
    Configs = {c1}
    Nodes = {n1}
    Runners = {r1, r2}
    MetricTTL = 1
    MaxTime = 1
    None = None
SPECIFICATION Spec
PROPERTY
    InitOnlyIfNotFound
