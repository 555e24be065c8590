SPECIFICATION Spec
CONSTANTS
  p1 = p1
  p2 = p2
  e1 = e1
  e2 = e2
  w1 = w1
  w2 = w2
  o1 = o1
  o2 = o2
  c1 = c1
  s1 = s1
  river = river
  boca = boca
  NoTeam = NoTeam
  Teams = {river, boca}
  Penkas = {p1, p2}
  Founded = {p1, p2}
  Entries = {e1, e2}
  Owner <- OneEach
  Fixtures <- OneFixture
  IslandEnabled <- Afloat
  Workers = {w1}
  Presses = {o1, o2}
  Closers = {c1}
  Scorers = {s1}
  StartStatus = {"open"}
  StartOutcomes <- Missing
  StartEntries <- LastLifeOrIsland
  StartPicks = {river}
  MaxAttempts = 2
  MaxTime = 2
  FaultKinds = {"read", "republish", "finalize"}
  MaxFaults = 1
INVARIANTS
  AtMostOnce
  OneFanOut
PROPERTIES
  ImplementsPromise
CHECK_DEADLOCK FALSE
