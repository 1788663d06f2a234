SPECIFICATION Spec
CONSTANTS
  Mics = {1}
  KBig = 3
  StrikeCap = 3
  Policies <- OnePolicy
  Caps <- OneCap
  Inputs <- OneMicInputs
  OwnThr <- NoThr
INVARIANT UnprotectedIsUncertified
