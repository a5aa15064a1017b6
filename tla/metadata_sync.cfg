SPECIFICATION MetadataSpec
CONSTANTS
  N = 2
  Second = 2
  PurgeAfter = 1
  MaxTime = 3
  MaxEdits = 3
  Allowed = {}
INVARIANT MetadataTypeOK
PROPERTIES
  NeverOlder
  NewerOnly
  FilesAgree
