SPECIFICATION PacedSpec
CONSTANTS
  Mics = {1}
  KBig = 3
  StrikeCap = 2
  Policies <- OnePolicy
  Caps <- OneCap
  Inputs <- FewOneMicInputs
  OwnThr <- NoThr
PROPERTY RearmsWhenQuiet
PROPERTY Recovers
