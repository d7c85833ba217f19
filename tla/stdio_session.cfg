CONSTANTS
  MaxStream = 5
  RidOf <- MC_RidOf
  ControlBytes <- MC_ControlBytes
  BlobBytes <- MC_BlobBytes
  Compile = {2}
  MaxActiveStreams = 3
  MaxPendingControlBytes = 4
  MaxConcurrentDispatch = 2
  MaxReservedBlobBytes = 3
  MaxFatal = 1
  NoStream = NoStream
SPECIFICATION Spec
CHECK_DEADLOCK FALSE
INVARIANT TypeOK
INVARIANT CreditBalance
INVARIANT NoIdleCredit
INVARIANT AnswerIsWinner
INVARIANT OrderlyEnd
PROPERTY SealedIsAnswered
PROPERTY DrainCompletes
