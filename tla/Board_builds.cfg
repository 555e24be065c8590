SPECIFICATION Spec
CONSTANTS
  p1 = p1
  p2 = p2
  r1 = r1
  r2 = r2
  boca = boca
  NoTeam = NoTeam
  Teams = {}
  Viewed <- FirstPenka
  LockAt <- OneEachDay
  Penkas = {p1, p2}
  Founded = {p1}
  Requests = {}
  LastMatchday = 2
  Cadences = {}
  NearLock = 1
  MaxTime = 0
  Deploys = FALSE
INVARIANTS
  PastIsComplete
PROPERTIES
  OwnBoardIsAfter
