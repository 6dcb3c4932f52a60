SPECIFICATION Spec
CONSTANTS
    n1 = n1  n2 = n2  n3 = n3  bmc = bmc  api = api  ml1 = ml1  ml2 = ml2  prov = prov  key = key
    e1 = e1  e2 = e2  e3 = e3  a = a  b = b
    None = None
    Processes = {"balancer"}
    ReplicaSets = {r1}
    SpreadPods = {p1, p2, p3}
    Topologies <- SmallTopologies
    NameOf <- MCNameOf
    MaxReplicas = 3
    Rates = {2}
    RateUnit = 3
    Nodes = {n1, n2, n3}
    Capacity <- MCCapacity
    Usages = {3}
    Configs <- MCConfigs
    Servers = {bmc, api, ml1, ml2, prov}
    Protected = {ml1, bmc}
    Secrets = {key}
    Vendor <- MCVendor
    Published <- MCPublished
    Power <- MCPower
    Reading <- MCReading
    FetchedAtStart = {n2, n3}
    Percent = FALSE
    MaxChanges = 0
    Pods <- MCPods
    PodUsageAssumption = 50
    ScoreBase = 20
    MaxNodeScore = 100
    ServicePorts = {a, b}
    Slices <- MCSlices
    NodeOf <- MCNodeOf
    CPUPerRequest <- MCCPUPerRequest
    DefaultCPUPerRequest = 1
    Parallelism = 2
    ScoreTop = 100
INVARIANT WritesAreSafe
CHECK_DEADLOCK FALSE
