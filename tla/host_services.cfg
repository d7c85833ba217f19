SPECIFICATION Spec
CONSTANTS
  Tx = {a1, a2}
  Op = {b1, b2}
  Caller = {c1, c2}
  View = {d1}
  MaxRevision = 2
  MaxRegistryFault = 1
  NoTx = NoTx
  NoOp = NoOp
  NoView = NoView
  Proposal = {a1, a2}
  MaxGeneration = 3
  MaxHead = 2
  MaxReviewFault = 1
  NoProposal = NoProposal
  Session = {s1, s2}
  Delegated = {s1}
  Client = {a1, a2}
  Job = {b1, b2}
  NoSession = NoSession
  NoClient = NoClient
  NoJob = NoJob
  Writer = {a1, a2}
  EventId = {1, 2, 3}
  MaxVersion = 2
  MaxClock = 1
  TTL = 1
  PageSize = 1
  NoWriter = NoWriter
  ToolCall = {a1, a2}
  Cursor = {b1, b2}
  MaxCursors = 1
  MaxStarts = 2
  Project = {a1, a2}
  Place = {b1, b2}
  MaxBindingFault = 1
  MaxHostStarts = 2
  NoPlace = NoPlace
  NoProject = NoProject
SYMMETRY Symmetry
INVARIANT TypeOK
INVARIANT PublishedOnPlannedBase
INVARIANT RegistryNeverAhead
INVARIANT SuccessIsDurable
INVARIANT AppliedIsPublished
INVARIANT PublishedIsRecorded
INVARIANT AutosavesExclude
INVARIANT ClosedIsQuiet
INVARIANT NobodyWaitsForEver
PROPERTY RevokedNeverPublishes
INVARIANT FencedWrites
INVARIANT ExportIsCommitted
INVARIANT AuditListingComplete
INVARIANT OldGenerationIsQuiet
INVARIANT BindingsAgree
CHECK_DEADLOCK FALSE
