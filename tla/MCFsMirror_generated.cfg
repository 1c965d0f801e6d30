SPECIFICATION Spec
CONSTANTS
  Clients = {c1, c2}
  Startup = startup
  Root = root
  Children = {d}
  Names = {n}
  Derived = {"index.md", "log.md"}
  Contents = {x}
  Unrenderable = unrenderable
  Torn = torn
  Null = null
  Vaults <- MCVaults
  MaxRequests = 2
  MaxCrashes = 0
INVARIANT GeneratedFilesMirrored
CHECK_DEADLOCK FALSE
