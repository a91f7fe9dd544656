SPECIFICATION Spec
CONSTANTS
  Modulus = 65536
  Calls <- MCCalls
INVARIANTS ResultExact OthersKept InsideBuffers ParamsFollow
CHECK_DEADLOCK FALSE
