SPECIFICATION Spec
CONSTANTS
  Modulus = 65536
  Sources <- MCSources
  SrcTensor <- MCSrcTensor
  Cfgs <- MCCfgs
  DstInit <- MCDstInit
  Cells = 16
  Own = "own"
  MaxCalls = 2
INVARIANTS DescriptorFits InsideBuffers ParamsFollowInPlace
PROPERTY MoveExact
CHECK_DEADLOCK FALSE
