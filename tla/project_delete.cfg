SPECIFICATION Spec
CONSTANTS
  u1 = u1  u2 = u2
  Asked <- TwoRequests
  Told = {r}
  Maps = {m1}
  MaxFaults = 2
  MaxAnswers = 1
  Racing = FALSE
INVARIANTS
  DeletionQueued
  NothingDangles
PROPERTY DeletionsFinish
