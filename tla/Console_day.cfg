SPECIFICATION Spec
CHECK_DEADLOCK FALSE
CONSTANTS
  liga = liga
  copa = copa
  None = None
  Pending = Pending
  Failed = Failed
  Leagues = {liga, copa}
  LastMatchday = 2
  ResolvePollAttempts = 2
  LinkLeague = None
  LinkNumber = 2
  StartStatus <- OneToPlay
  MaxReads = 2
  MaxEvents = 1
INVARIANTS
  ShowsNothingAhead
  MisledOnlyByStaleReads
PROPERTIES
  SpinnerEnds
