SPECIFICATION CellSpec
CONSTANT Series <- MCSeries
INVARIANT CellAcceptedAgain
CHECK_DEADLOCK FALSE
