CONSTANTS
  Thread = {t1, t2}
  Name = {main}
  Main = main
  main = main
  t1 = t1
  t2 = t2
  RequestNames = {}
  Failures = {}
  HeldCalls = FALSE
  MaxInterp = 1
  MaxDepth = 2
  NoThread = NoThread
  NoName = NoName
SPECIFICATION FairSpec
INVARIANT ReadyToRun
PROPERTY Served
CHECK_DEADLOCK FALSE
