SPECIFICATION CheckHistorySpec
CONSTANTS
  Mics = {m1, m2}
  Stats <- Readings
  DLo <- DFloor
  DBins = 4
  ALo <- AFloor
  ABins = 6
  MaxCount = 3
  DMin <- DLeast
  AMin <- ALeast
  ThrMax = 12
  Policies <- LongAndShort
  Stored <- OneStored
INVARIANT NonFiniteSkipped
