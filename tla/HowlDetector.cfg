SPECIFICATION DetectorHistorySpec
CONSTANTS
  N = 3
  Slots = 3
  HoldTicks = 1
  Banks <- OneLine
  Powers <- Loudness
  Level <- Log2
  Prominence = 2
  GrowthTick = 2
  Linearity = 4
  Rise = 6
  LevelCatch = TRUE
  Ceiling = 3
  OverProgram = 2
  LevelProminence = 2
  Track <- Towards
INVARIANT DetectorTypeOK
INVARIANT RiseIsOfOneLine
INVARIANT OnsetNeverTrips
INVARIANT HowlNotLearned
INVARIANT HeldAfterVerdict
