SPECIFICATION Spec
CONSTANTS
  Modulus = 65536
  Calls <- MCCalls
INVARIANTS ResultExact InsideBuffers ComputedOnce AreaNotEmpty
CHECK_DEADLOCK FALSE
