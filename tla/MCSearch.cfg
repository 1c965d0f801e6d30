\* The caller stops after an empty page.
CONSTANTS
  Bundles <- MCBundles
  Slugs <- MCSlugs
  Path <- MCPath
  Concepts <- MCConcepts
  Pool <- MCPool
  Rank <- MCRank
  Global = "global"
  ScopesDir = "scopes"
  ProjectsDir = "projects"
  Junk = "junk"
  DefaultLimit = 3
  MaxLimit = 4
  Null = Null
  Queries <- MCQueries
SPECIFICATION Spec
CHECK_DEADLOCK FALSE
INVARIANTS TypeOK PagingComplete ShortPageIsLast RootLinksResolve 
