SPECIFICATION Spec
CONSTANTS
  e1 = e1
  s1 = s1
  o1 = o1
  river = river
  boca = boca
  NoTeam = NoTeam
  Teams = {river, boca}
  LastMatchday = 2
  Fixtures <- ReturnMatches
  LockAt <- OneEachDay
  Players = {e1}
  Submissions = {s1}
  Player <- FirstPlayer
  Desks = {o1}
  StartLives = 1
  IslandEnabled = TRUE
  Scores <- HomeOrDraw
  MaxTime = 1
INVARIANTS
  SeasonTypeOK
  AccountsBalance
  EliminatedOnce
  JoinedInTimeFaces

  
