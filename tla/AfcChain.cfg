SPECIFICATION ChainSpec
CONSTANTS
  Samples <- Levels
  Zero = 0
  Add <- Wrapped
  B = 2
  R = 1
  O = 1
  Stage <- Chained
  M = 2
  Residuals <- Swings
  Tracks <- Backing
  Shadow <- BothShadows
  Guards <- FitAndMisfit
INVARIANT ChainTypeOK
PROPERTY KeepsPromise
