SPECIFICATION Spec
CONSTANTS
  a = a
  b = b
  ana = ana
  None = None
  Pending = Pending
  Failed = Failed
  Penkas = {a, b}
  Users = {ana}
  Changing = {a}
  MaxFetches = 2
  MaxEvents = 1
INVARIANTS
  PlayerAppTypeOK
  OwnBoard
  SentWhereTapped
  PolledWhileWatched
PROPERTIES
  StayingCatchesUp
