SPECIFICATION CellSpec
CONSTANT Series <- MCSeries
INVARIANTS ResultExact CellInside
PROPERTY PrevKept
CHECK_DEADLOCK FALSE
