\* One proxy with a slot less than users, from Start
\* to the last goroutine; safety and liveness, hence no symmetry.
CONSTANTS
  Users = {u1, u2}
  MaxConns = 1
  None = None
SPECIFICATION FairSpec
INVARIANTS
  OpenWithinLimit QuietAfterStop AnnouncedIsKnown
PROPERTIES
  UserIsAnswered ClosedFreesSlot StopDrains KeepsSlots
CHECK_DEADLOCK FALSE
