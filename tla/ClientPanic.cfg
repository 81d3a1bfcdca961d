\* Finding: a heartbeat that fails makes the message loop use nil.
CONSTANTS
  Sessions = {s1, s2}
  Streams = {i1}
  None = None
SPECIFICATION Spec
INVARIANT HeartbeatTriggersReconnect
CHECK_DEADLOCK FALSE
