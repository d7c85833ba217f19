CONSTANTS
  r1 = r1
  r2 = r2
  o1 = o1
  o2 = o2
  k1 = k1
  k2 = k2
  Request = {r1}
  Op = {o1}
  Key = {k1}
  OpOf <- MC_SameOp
  KeyOf <- MC_SameKey
  External = {}
  Root = Root
  Foreign = Foreign
  Partial = Partial
  NoRecord = NoRecord
  NoStage = NoStage
  c1 = c1
  c2 = c2
  Caller = {c1, c2}
  MaxCalls = 2
  MaxFaults = 0
  MaxCrashes = 0
  MaxRecoveryItems = 4
  ConcurrentRetries = TRUE
  RecoverWhileLive = FALSE
SPECIFICATION Spec
INVARIANT RejectedNeverPublished
