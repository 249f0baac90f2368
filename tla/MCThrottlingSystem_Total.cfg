CONSTANTS
  late = late
  timely = timely
  r1 = r1
  Client = {late, timely}
  Resource = {r1}
  HeartbeatTimeout = 2
  RateLimits <- MCRateLimits
  Interests <- MCInterests
  Lasting = {timely}
  Timely = {timely}
  Interval = 1
  MaxFaults = 0
SPECIFICATION FairSpec
PROPERTY TotalWithinLimit
