\* One client over any number of sessions (two at a time, so that goroutines
\* of the last one meet the next) and two streams at a time.
CONSTANTS
  Sessions = {s1, s2}
  Streams = {i1, i2}
  None = None
SPECIFICATION FairSpec
INVARIANTS
  SessionLeavesNothing HeartbeatPerSession StopWakesReader
PROPERTIES
  RedialsAfterLoss StopTerminates GoroutinesEnd ImplementsLife
CHECK_DEADLOCK FALSE
