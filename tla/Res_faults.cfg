SPECIFICATION Spec
CONSTANTS
  p1 = p1
  p2 = p2
  e1 = e1
  e2 = e2
  w1 = w1
  w2 = w2
  o1 = o1
  o2 = o2
  c1 = c1
  s1 = s1
  river = river
  boca = boca
  NoTeam = NoTeam
  Teams = {river, boca}
  Penkas = {p1, p2}
  Founded = {p1}
  Entries = {e1}
  Owner <- AllInFirst
  Fixtures <- OneFixture
  IslandEnabled <- Afloat
  Workers = {w1}
  Presses = {o1}
  Closers = {}
  Scorers = {}
  StartStatus = {"locked"}
  StartOutcomes <- Decided
  StartEntries <- TwoLives
  StartPicks = {river, NoTeam}
  MaxAttempts = 2
  MaxTime = 2
  FaultKinds = {"crash","apply","marker","republish","finalize","read","publish","clear","pressCrash","create"}
  MaxFaults = 2
INVARIANTS
  MarkerMeansApplied
  NoSiblingSkipped
  CommandsAccountedFor
CHECK_DEADLOCK FALSE
