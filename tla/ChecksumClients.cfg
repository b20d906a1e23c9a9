\* Two processes, one of which may be killed; live ones are prompt.
SPECIFICATION FairSpec
CONSTANTS
  c1 = c1
  c2 = c2
  c3 = c3
  Client = {c1, c2}
  Crashers = {c1}
  SlowHolders = FALSE
  MaxTree = 3
  Torn = Torn
  NoClient = NoClient
INVARIANTS
  TypeOK
  Exclusive
  ReadsWhole
PROPERTIES
  GuardsRollback
  Terminates
CHECK_DEADLOCK FALSE
