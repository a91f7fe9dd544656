SPECIFICATION Spec
CONSTANTS
  Modulus = 65536
  Rounding = "UP"
  Calls <- MCCalls
INVARIANTS ConvertedNear ConvertedOnce InsideBuffers
CHECK_DEADLOCK FALSE
