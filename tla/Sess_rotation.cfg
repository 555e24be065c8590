SPECIFICATION Spec
CONSTANTS
  t1 = t1
  t2 = t2
  r1 = r1
  r2 = r2
  f1 = f1
  f2 = f2
  Tabs = {t1}
  Requests = {r1, r2}
  Home <- AllInFirst
  Refreshes = {f1, f2}
  NoRefresh = NoRefresh
  MaxPairs = 4
  FaultKinds = {"issue","consume","revoke","slow","week","network","reload"}
  MaxFaults = 2
INVARIANTS
  OneLivePair
  StaysRefreshable
  StorageFollows
PROPERTIES
  OnlyFaultsSignOut
CHECK_DEADLOCK FALSE
