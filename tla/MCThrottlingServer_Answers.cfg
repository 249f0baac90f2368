CONSTANTS
  c1 = c1
  c2 = c2
  t1 = t1
  t2 = t2
  Nobody = Nobody
  Client = {c1}
  Thread <- MCThread
  Resource = {r1, r2}
  RateLimits = {2}
  HeartbeatTimeout = 1
  Instant <- MCInstant
SPECIFICATION Spec
INVARIANT HeartbeatAnswered
