\* One thread that calls one export after the other is enough.
CONSTANTS
  Names = {n1}
  Clients = {k1, k2}
  Threads = {t1}
  None = None
SPECIFICATION Spec
INVARIANT
  StopLeavesNone
CHECK_DEADLOCK FALSE
