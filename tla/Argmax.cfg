SPECIFICATION Spec
CONSTANTS
  Modulus = 65536
  Calls <- MCCalls
INVARIANTS TopFound HeapKept InsideBuffers
PROPERTY Returns
CHECK_DEADLOCK FALSE
