SPECIFICATION FairOneKindOfLoss
CONSTANTS
  Devices = {d1, d2}
  Versions = {v1, v2, v3}
  Empty = Empty
  None = None
  Breaks = {"merged", "published"}
  MaxFaults = 2
  MaxDeletes = 1
  MaxVanish = 1
INVARIANTS
  NoEditLost
  BaseShared
  ResolutionSticks
PROPERTIES
  DeletionMeant
  Converges
