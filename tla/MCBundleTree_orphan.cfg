SPECIFICATION Spec
CONSTANTS
  Clients = {c1, c2}
  Bundles = {b1}
  Concepts = {k1}
  Spellings <- MCSpellings
  Canonical <- MCCanonical
  Valid = {"global", "a", "b"}
  Global = "global"
  Names = {"n"}
  Titles = {"t", "new"}
  Null = null
  Menu <- Filing
  MaxRequests = 3
INVARIANT NoOrphans
CHECK_DEADLOCK FALSE
