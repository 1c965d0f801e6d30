SPECIFICATION Spec
CONSTANTS
  c1 = c1
  c2 = c2
  i1 = i1
  i2 = i2
  path = path
  text = text
  other = other
  blank = blank
  uri = uri
  Paths = {path}
  Types <- MCTypes
  Empty = ""
  Canonical <- MCCanonical
  Bodies = {text, other, blank}
  Blank = blank
  Heading = heading
  Resources = {uri}
  Null = null
  Absent = absent
  Clients = {c1, c2}
  Ids = {i1, i2}
  Menu <- OneWriter
  MaxRequests = 4
SYMMETRY RowIds
INVARIANT HistoryComplete
 
PROPERTY ImplementsMap
CHECK_DEADLOCK FALSE
