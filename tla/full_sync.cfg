SPECIFICATION FairInStates
CONSTANTS
  Devices = {d1, d2}
  Files = {f1, f2}
  Main = f1
  MaxStamp = 3
  MaxFaults = 1
  Automatic = TRUE
CHECK_DEADLOCK FALSE
INVARIANTS
  TreeMatchesRecord
PROPERTIES
  RemoteOnlyAdvances
  RemovedByNewerDeletion
  Settles
