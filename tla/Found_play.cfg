SPECIFICATION Spec
CHECK_DEADLOCK FALSE
CONSTANTS
  c1 = c1
  c2 = c2
  ana = ana
  k1 = k1
  k2 = k2
  Calls = {c1, c2}
  Joiners = {ana}
  Codes = {k1, k2}
  MaxJoinCodeAttempts = 2
  LastMatchday = 2
  MaxTime = 2
  MaxFaults = 2
INVARIANTS
  FoundingTypeOK
  CreatedIsPlayable
  RefusedLeavesNothing
PROPERTIES
  NextCreatorRepairs
