SPECIFICATION HistorySpec
CONSTANTS
  Mics = {1, 2}
  KBig = 2
  StrikeCap = 1
  Policies <- BriefPolicies
  Caps <- OneCap
  Inputs <- TwoMicInputs
  OwnThr <- NoThr
INVARIANT TripShuts
VIEW LiveView
PROPERTY DeclarationEarned
PROPERTY RestartRearms
PROPERTY BusCutOnTrip
