\* One NodeConfig on one node, updated once.
CONSTANTS
    Configs = {c1}
    Nodes = {n1, n2}
    Runners = {r1, r2, r3, r4}
    None = None
SPECIFICATION ControllerSpec
SYMMETRY Symmetry
VIEW Observed
INVARIANT
    OneRunnerPerValue
