SPECIFICATION Spec
CONSTANTS
  c1 = c1
  c2 = c2
  i1 = i1
  i2 = i2
  path = path
  text = text
  other = other
  blank = blank
  uri = uri
  Paths = {path}
  Types <- MCTypes
  Empty = ""
  Canonical <- MCCanonical
  Bodies = {text, other, blank}
  Blank = blank
  Heading = heading
  Resources = {uri}
  Null = null
  Absent = absent
  Clients = {c1, c2}
  Ids = {i1, i2}
  Menu <- AnyoneDoesAnything
  MaxRequests = 4
SYMMETRY Interchangeable
INVARIANT TypeOK
INVARIANT ActiveSlugUnique
INVARIANT SnapshotsAuthentic
INVARIANT HistoryContiguous
INVARIANT TrackedReadCounted
PROPERTY DeletedRowFrozen
PROPERTY ReadsNeverLost
PROPERTY ImplementsRacyMap
CHECK_DEADLOCK FALSE
