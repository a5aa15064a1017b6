SPECIFICATION HistorySpec
CONSTANTS
  c1 = c1  c2 = c2  a = a  b = b
  Chapters = {c1, c2}
  Texts = {a, b}
  Recorded = {c2}
  None = None
  MaxRounds = 2
  MaxFaults = 2
  MaxSaves = 1
INVARIANTS PendingMarked InOrder
PROPERTY EventsSettle
