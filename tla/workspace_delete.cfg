SPECIFICATION Spec
CONSTANTS
  Procs = {app, mcp}
  Files = {volume, chapter}
  Marker = volume
  t1 = t1  t2 = t2
  Tokens <- TwoTokens
  OldFormat <- FirstOld
  MaxFaults = 1
  Syncing = {app}
INVARIANTS
  NothingForgotten
  HistoryInStep
PROPERTY JournalsFinish
