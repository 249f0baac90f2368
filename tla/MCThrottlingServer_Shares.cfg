CONSTANTS
  c1 = c1
  c2 = c2
  t1 = t1
  t2 = t2
  Nobody = Nobody
  Client <- MCClient
  Thread <- MCThread
  Resource = {r1}
  RateLimits <- MCRateLimits
  HeartbeatTimeout = 0
  Instant = {0, 1}
SPECIFICATION FairSpec
INVARIANT TypeOK
INVARIANT SharesWithinLimit
INVARIANT GrantsAreFair
PROPERTY MutexReleased
