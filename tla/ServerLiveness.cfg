\* Liveness: one port, so that two names compete for it; hence at most
\* one listener at a time; no symmetry.
CONSTANTS
  Names = {n1, n2}
  Conns = {c1, c2}
  ProxyIds = {x1}
  Requests = {r1}
  PortStart = 1
  PortEnd = 1
  MaxDevices = 0
  ForeignPorts = {}
  None = None
SPECIFICATION FairSpec
PROPERTIES
  DueListenerCloses LostDeviceLeaves SilentDeviceLeaves
CHECK_DEADLOCK FALSE
