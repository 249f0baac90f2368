CONSTANTS
  Signal <- MCSignal
  MaxCalls = 2
SPECIFICATION FairSpec
PROPERTY SignalEndsIt
CHECK_DEADLOCK FALSE
