CONSTANTS
  late = late
  timely = timely
  r1 = r1
  Client = {late, timely}
  Resource = {r1}
  HeartbeatTimeout = 1
  RateLimits <- MCRateLimits
  Interests <- MCInterests
  Lasting = {timely}
  Timely = {timely}
  Interval = 1
  MaxFaults = 1
SPECIFICATION FairSpec
INVARIANT TypeOK
INVARIANT StalenessBounded
INVARIANT RatesInTime
PROPERTY TimelyIsKept
PROPERTY RatesConverge
PROPERTY DepartedIsForgotten
