CONSTANTS
  c1 = c1
  c2 = c2
  t1 = t1
  t2 = t2
  Client <- MCClient
  Thread <- MCThread
  Resource = {r1, r2}
  HeartbeatTimeout = 1
  Instant <- MCInstant
SYMMETRY Symmetry
SPECIFICATION Spec
INVARIANT TypeOK
INVARIANT ReverseIndexExact
INVARIANT ListenerMirrors
INVARIANT AckedClientsKept
INVARIANT QueryFresh
