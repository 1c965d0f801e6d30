SPECIFICATION ServerSpec
CONSTANTS
  k1 = k1
  k2 = k2
  Keys = {k1, k2}
  Max = 2
  Window = 2
  Calls = {r1, r2, r3}
  Sessions = {s1, s2, s3}
  Null = Null
  Workloads <- MCWorkloads
INVARIANT TypeOK
INVARIANT ServerTypeOK
INVARIANT SessionsReachable
INVARIANT DrainedBeforeClosing
PROPERTY CutOnlyWithItsSession
 
PROPERTY DecidesLikeIdeal
PROPERTY NeverStarved
PROPERTY Forgotten
