SPECIFICATION Spec
CONSTANTS
  a = a
  b = b
  e1 = e1
  e2 = e2
  k1 = k1
  k2 = k2
  k3 = k3
  z1 = z1
  z2 = z2
  None = None
  Services <- MCServices
  Specs <- MCSpecs
  Endpoints <- MCEndpoints
  Slices <- MCSlices
  Local = {e1}
  Hint <- MCHint
  Zones = {z2}
  MaxScore = 1
  MaxChanges = 3
  MaxFaults = 0
INVARIANTS
  WeightsFollowScores
