CONSTANTS
  r1 = r1
  r2 = r2
  o1 = o1
  o2 = o2
  k1 = k1
  k2 = k2
  Request = {r1}
  Op = {o1}
  Key = {k1}
  OpOf <- MC_OwnOp
  KeyOf <- MC_OwnKey
  External = {r1}
  Root = Root
  Foreign = Foreign
  Partial = Partial
  NoRecord = NoRecord
  NoStage = NoStage
  c1 = c1
  c2 = c2
  Caller = {c1}
  MaxCalls = 1
  MaxFaults = 0
  MaxCrashes = 0
  MaxRecoveryItems = 4
  ConcurrentRetries = FALSE
  RecoverWhileLive = FALSE
SPECIFICATION Spec
PROPERTY ForeignEditIsKept
