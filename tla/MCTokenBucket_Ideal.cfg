CONSTANTS
  Rates <- MCRates
  BurstSizes <- MCBurstSizes
  Counts <- MCCounts
  Instant <- MCInstant
  MaxAllowance <- MCAllowance
SPECIFICATION SteadySpec
PROPERTY RefinesIdealBucket
