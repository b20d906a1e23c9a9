\* Two processes break the lock of a third one that was killed.
SPECIFICATION Spec
CONSTANTS
  c1 = c1
  c2 = c2
  c3 = c3
  Client = {c1, c2, c3}
  Crashers = {c1}
  SlowHolders = FALSE
  MaxTree = 2
  Torn = Torn
  NoClient = NoClient
SYMMETRY Interchangeable
INVARIANTS
  AcceptedStaysRecorded
CHECK_DEADLOCK FALSE
