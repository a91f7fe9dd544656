SPECIFICATION PoolSpec
CONSTANTS
  MaxDmaChan = 2
  Async = {a1, a2}
  Sync = {s1}
  Requests = {1, 2}
  MaxReq = 2
  DocumentedStart = TRUE
  NoCb = NoCb
  Free = Free
  Outside = Outside
INVARIANTS TypeOK ChannelsExclusive DoneMeansMoved SyncRefusedOnlyByEmptyPool
PROPERTIES CallbackDelivered SyncReturns ImplementsPool
CHECK_DEADLOCK TRUE
