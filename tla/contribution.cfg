SPECIFICATION FairSpec
CONSTANTS
  app = app
  mcp = mcp
  a1 = a1
  a2 = a2
  m1 = m1
  old = old
  new = new
  x1 = x1
  x2 = x2
  Procs = {app, mcp}
  Threads = {a1, m1}
  ProcOf <- TwoThreads
  Objects = {old, new}
  Txns = {x1, x2}
  RootSets <- DeferredOrAll
  Base = Base
  Absent = Absent
  Torn = Torn
  None = None
  Existing = {old}
  MaxFaults = 1
  MaxCrashes = 1
  MaxDepth = 2
  Breaks = {}
INVARIANTS TypeOK HolderSeesTruth NoEventWithoutChange OneWriter
PROPERTY ComesToRest
