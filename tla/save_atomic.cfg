CONSTANTS
  f1 = f1  f2 = f2  t1 = t1  t2 = t2
  Files <- MCFiles
  Txs <- MCTxs
  Old = Old  Absent = Absent  None = None
  Modes <- Production
  MaxFaults = 2
SPECIFICATION Spec
SYMMETRY Symmetry
INVARIANTS NoTornSave RecordedOnlyWhenLanded ProofMaterialRetained
VIEW ViewWithoutBase
PROPERTY KeepsPromise
