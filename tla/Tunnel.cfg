\* One message fits into each direction of the WebSocket.
CONSTANT Cap = 1
SPECIFICATION FairSpec
INVARIANTS
  DataFindsReceiver StallHasHeartbeat
PROPERTIES
  NobodyWaitsForever BothForget
CHECK_DEADLOCK FALSE
