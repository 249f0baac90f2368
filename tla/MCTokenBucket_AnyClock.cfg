CONSTANTS
  Rates <- MCRates
  BurstSizes <- MCBurstSizes
  Counts <- MCCounts
  Instant <- MCInstant
  MaxAllowance <- MCAllowance
SPECIFICATION Spec
INVARIANT TypeOK
INVARIANT WindowBound
INVARIANT LevelWithinAllowance
