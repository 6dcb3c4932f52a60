SPECIFICATION MCSpec
CONSTANTS
    s1 = s1  s2 = s2  e1 = e1  e2 = e2  z1 = z1  z2 = z2  c1 = c1  x1 = x1  g1 = g1  n1 = n1
    pod = pod  near = near  far = far
    None = None
    Services <- MCServices
    Specs <- MCSpecs
    Endpoints = {e1, e2}
    Local = {e1}
    Hint <- MCHint
    Zones = {z1}
    NodeAddress = n1
    NodeIP = n1
    Pods = {pod}
    Node = {n1}
    Others = {near, far}
    LargeCluster = 1
    MaxFailures = 1
    IPVSFailures = 2
    IPVSChanges = 2
    MaxChanges = 3
INVARIANTS RoutesCurrent NeverRejected IPVSRoutesCurrent
PROPERTY EventuallyRouted
CHECK_DEADLOCK FALSE
