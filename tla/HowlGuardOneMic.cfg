SPECIFICATION HistorySpec
CONSTANTS
  Mics = {1}
  KBig = 3
  StrikeCap = 3
  Policies <- OnePolicy
  Caps <- OneCap
  Inputs <- OneMicInputs
  OwnThr <- SoundcheckThr
INVARIANT GuardTypeOK
INVARIANT UndeclaredNeedsCap
INVARIANT FlagsMatchState
INVARIANT TripShuts
INVARIANT LevelFollowsStrikes
PROPERTY NeverRaisedPastCap
PROPERTY TripNeverRaises
PROPERTY DeclarationEarned
PROPERTY NoPumping
VIEW LiveView
