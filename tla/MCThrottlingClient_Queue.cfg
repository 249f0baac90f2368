CONSTANTS
  a1 = a1
  a2 = a2
  q1 = q1
  q2 = q2
  q3 = q3
  r1 = r1
  NoRequest = NoRequest
  App = {a1, a2}
  Manager = {a1}
  Request = {q1, q2, q3}
  Resource = {r1}
  resource_id <- MCResourceId
  count <- MCCount
  Rates <- MCRates
SPECIFICATION FairSpec
INVARIANT TypeOK
INVARIANT StoppedIsQuiet
INVARIANT NeverTerminates
PROPERTY ImplementsRequestQueue
PROPERTY StopReturns
PROPERTY QueueDrains
