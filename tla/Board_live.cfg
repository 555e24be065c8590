SPECIFICATION Spec
CONSTANTS
  p1 = p1
  p2 = p2
  r1 = r1
  r2 = r2
  boca = boca
  NoTeam = NoTeam
  Teams = {boca}
  Viewed <- FirstPenka
  LockAt <- OneEachDay
  Penkas = {p1}
  Founded = {}
  Requests = {r1}
  LastMatchday = 1
  Cadences = {"slow"}
  NearLock = 1
  MaxTime = 1
  Deploys = TRUE
INVARIANTS
  BoardsTypeOK
  SecretUntilLock
PROPERTIES
  ResolutionReachesTheBoard
