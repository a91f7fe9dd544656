SPECIFICATION ViewSpec
CONSTANTS
  Modulus = 65536
  MaxSize = 3
  KeepAxis = TRUE
  Bases <- MCBases
INVARIANTS ViewIsWindow ViewAccepted ParamsFollow
