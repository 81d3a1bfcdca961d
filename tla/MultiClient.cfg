\* Two names, a client being removed beside its successor under the same name
\* or another, and two threads of the host.
CONSTANTS
  Names = {n1, n2}
  Clients = {k1, k2}
  Threads = {t1, t2}
  None = None
SPECIFICATION FairSpec
INVARIANTS
  MapTracksClients StopsOnceAndEnds GoneIsNotConnecting
PROPERTIES
  CallsReturn
CHECK_DEADLOCK FALSE
