SPECIFICATION Spec
CONSTANTS
  Modulus = 65536
  Rounding = "UP"
  Byte = 4
  Calls <- MCCalls
INVARIANTS EveryBias
CHECK_DEADLOCK FALSE
