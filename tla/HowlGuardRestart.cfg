SPECIFICATION HistorySpec
CONSTANTS
  Mics = {1}
  KBig = 3
  StrikeCap = 3
  Policies <- OnePolicy
  Caps <- OneCap
  Inputs <- OneMicInputs
  OwnThr <- SoundcheckThr
PROPERTY RestartRearms
VIEW LiveView
