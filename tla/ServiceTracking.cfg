SPECIFICATION MCSpec
SYMMETRY Symmetry
CONSTANTS
  s1 = s1
  l1 = l1
  l2 = l2
  l6 = l6
  dns = dns
  web = web
  e1 = e1
  e2 = e2
  c1 = c1
  x4 = x4
  x6 = x6
  None = None
  Services = {s1}
  Slices = {l1, l2, l6}
  Ports = {dns, web}
  UDPPorts = {dns}
  Endpoints = {e1, e2}
  Local = {e2}
  Specs <- MCSpecs
  Contents <- MCContents
  ServiceOf <- MCServiceOf
  AddressType <- MCAddressType
  Family = "IPv4"
  FamilyOf <- MCFamilyOf
  ClusterIP <- MCClusterIP
  Orders <- MCOrders
  MaxEvents = 4
  MaxFaults = 1
INVARIANTS
  TypeOK
  EndpointsMapCurrent
  ChangeAnnounced
  NoStaleFlows
PROPERTIES
  ImplementsServiceView
