CONSTANTS
  f1 = f1  f2 = f2  t1 = t1  t2 = t2
  Files <- MCFiles
  Txs <- OneTx
  Old = Old  Absent = Absent  None = None
  Modes <- EitherMode
  MaxFaults = 2
SPECIFICATION FairSpec
INVARIANT RollbackRestores
PROPERTY LeftoversReclaimed
