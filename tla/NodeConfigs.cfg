\* The adapter's controller: one NodeConfig that moves between two nodes; five runners, so
\* that it can be registered, updated, and fail an update half way.  wao-core's: two
\* templates that may select the same node, which may change its data, or two nodes with a
\* NodeConfig name in common.
CONSTANTS
    t1 = t1  t2 = t2  n1 = n1  n2 = n2
    Configs = {c1}
    Nodes = {n1, n2}
    Runners = {r1, r2, r3, r4, r5}
    Templates = {t1, t2}
    TemplateNodes = {n1, n2}
    ObjectName <- MCObjectName
    Labels = {l1}
    Data = {d1, d2}
    Raw = {"", "{{.Hostname}}"}
    NumFields = 1
    MaxUID = 2
    None = None
SPECIFICATION MCSpec
SYMMETRY Symmetry
VIEW Observed
INVARIANTS
    ControllerTypeOK
    Reconciled
    StoppedOnce
    Registry
    Converged
    Owned
