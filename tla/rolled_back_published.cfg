SPECIFICATION RegistrySpec
CONSTANTS
  Tx = {t1, t2}
  Op = {o1, o2}
  Caller = {c1, c2}
  View = {v1}
  MaxRevision = 2
  MaxRegistryFault = 1
  NoTx = NoTx
  NoOp = NoOp
  NoView = NoView
INVARIANT RolledBackNeverPublished
CHECK_DEADLOCK FALSE
