SPECIFICATION Spec
CONSTANTS
  Clients = {c1, c2}
  Bundles = {b1, b2, b3, b4}
  Concepts = {k1, k2}
  Spellings <- MCSpellings
  Canonical <- MCCanonical
  Valid = {"global", "a", "b"}
  Global = "global"
  Names = {"n"}
  Titles = {"t", "new"}
  Null = null
  Menu <- Everything
  MaxRequests = 4
SYMMETRY Interchangeable
INVARIANT TypeOK
INVARIANT SiblingsUnique
 
PROPERTY GlobalStays
PROPERTY DeletedBundleFrozen
PROPERTY DeleteTakesSubtree
PROPERTY ImplementsNamespace
CHECK_DEADLOCK FALSE
