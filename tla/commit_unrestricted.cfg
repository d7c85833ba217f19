CONSTANTS
  r1 = r1
  r2 = r2
  o1 = o1
  o2 = o2
  k1 = k1
  k2 = k2
  Request = {r1, r2}
  Op = {o1}
  Key = {k1, k2}
  OpOf <- MC_SameOp
  KeyOf <- MC_OwnKey
  External = {}
  Root = Root
  Foreign = Foreign
  Partial = Partial
  NoRecord = NoRecord
  NoStage = NoStage
  c1 = c1
  c2 = c2
  Caller = {c1, c2}
  MaxCalls = 3
  MaxFaults = 0
  MaxCrashes = 0
  MaxRecoveryItems = 4
  ConcurrentRetries = TRUE
  RecoverWhileLive = TRUE
SPECIFICATION Spec
SYMMETRY SharedOpSymmetry
INVARIANT PublishedIsJournaled
INVARIANT CommittedIsPublished
PROPERTY JournalIsAppendOnly
