SPECIFICATION Spec
CONSTANTS
  Modulus = 65536
  Rounding = "UP"
  Byte = 4
  Calls <- MCCalls
INVARIANTS ResultNear BiasExtended InsideBuffers OutputDescribed
CHECK_DEADLOCK FALSE
