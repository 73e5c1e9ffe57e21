CONSTANTS
  Thread = {t1, t2}
  Name = {main, site}
  Main = main
  main = main
  site = site
  t1 = t1
  t2 = t2
  RequestNames = {site}
  Failures <- AllFails
  HeldCalls = TRUE
  MaxInterp = 3
  MaxDepth = 1
  NoThread = NoThread
  NoName = NoName
SPECIFICATION Spec
SYMMETRY Symmetry
VIEW NoHistory
INVARIANTS TstateExclusive NoTstateLost
PROPERTY ImplementsLease
CHECK_DEADLOCK FALSE
