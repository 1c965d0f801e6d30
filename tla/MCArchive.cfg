SPECIFICATION ArchiveSpec
CONSTANTS
  Clients = {c1, importer}
  Importer = importer
  Startup = startup
  sub = sub
  n = n
  m = m
  x = x
  y = y
  Root = root
  Children = {sub}
  Names = {n, m}
  Derived = {"index.md"}
  Contents = {x, y}
  Unrenderable = unrenderable
  Torn = torn
  Malformed = malformed
  Null = null
  Lost = lost
  BySlug <- MCBySlug
  Safe <- MCSafe
  Bare <- MCBare
  Long <- MCLong
  Uploads <- MCUploads
  Vaults <- MCVaults
  Workloads <- MCWorkloads
  MaxRequests = 2
  MaxCrashes = 1
INVARIANT TypeOK
INVARIANT QuietSyncMirrorsConcepts
INVARIANT StartupMirrorsAll
INVARIANT ArchiveTypeOK
INVARIANT ExportFaithful
 
PROPERTY SyncsEnd
PROPERTY ImportsEnd
CHECK_DEADLOCK FALSE
