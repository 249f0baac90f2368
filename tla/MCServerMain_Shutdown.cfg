CONSTANTS
  Signal <- MCSignal
  MaxCalls = 2
SPECIFICATION FairSpec
INVARIANT ExitIsClean
PROPERTY RepeatedSignalsEndIt
CHECK_DEADLOCK FALSE
