SPECIFICATION HSpec
CONSTANTS
  Units <- AllUnits
  MaxFaults <- FaultsPerKind
  GuardHold = 2
  RescueHold = 2
  Cooldown = 2
  ShadowHold = 2
INVARIANTS PolicyTypeOK OnlyOverflowLeaks CertificateEarned LiftsSpaced LiftOnEvidence Caught Heals
PROPERTIES TripStartsAfresh
