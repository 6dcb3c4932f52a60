\* Two runners on one node: both value types of a NodeConfig, or an old and a new runner
\* of one.  A reading is too old one tick after it was stored.
CONSTANTS
    Configs = {c1}
    Nodes = {n1}
    Runners = {r1, r2}
    MetricTTL = 0
    MaxTime = 1
    None = None
SPECIFICATION FairSpec
INVARIANTS
    OneLateWrite
    WholeReadings
PROPERTIES
    ImplementsController
    StoppedRunnersExit
