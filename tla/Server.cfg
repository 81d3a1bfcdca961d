\* Safety of the registry: two names, two connections (objects are reused, so
\* any number of sessions), two ports, two proxy objects, two admins.
CONSTANTS
  Names = {n1, n2}
  Conns = {c1, c2}
  ProxyIds = {x1, x2}
  Requests = {r1, r2}
  PortStart = 1
  PortEnd = 2
  MaxDevices = 1
  ForeignPorts = {}
  None = None
SPECIFICATION Spec
INVARIANTS
  TablesAgree OneOwnerPerListener RoutesToOwner NoMisdelivery
  EndedHandlerHoldsNothing StopEndsExposure
PROPERTY ImplementsLease
SYMMETRY Symmetry
CHECK_DEADLOCK FALSE
