\* A page, to which its own handler, that of a device, an admin's request and
\* the checker write; the table may change any number of times.
CONSTANTS
  Pages = {p1}
  Handlers = {h1}
  Requests = {r1}
  Expirer = expirer
  None = None
SPECIFICATION FairSpec
INVARIANTS
  NoChangeMissed
PROPERTIES
  PagesCatchUp LostPageLeaves
CHECK_DEADLOCK FALSE
