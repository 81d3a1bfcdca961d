CONSTANTS
  PortStart = 3
  PortEnd = 6
  Holders = {d1, d2}
  None = None
  NoPort = NoPort
SPECIFICATION PoolSpec
PROPERTY AllocationFollowsLoop
