SPECIFICATION HSpec
CONSTANTS
  Units <- OneChain
  MaxFaults <- FaultsPerKind
  GuardHold = 2
  RescueHold = 2
  Cooldown = 2
  ShadowHold = 2
INVARIANT CertificateIsOfEcho
