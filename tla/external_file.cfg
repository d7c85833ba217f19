CHECK_DEADLOCK FALSE
CONSTANTS
  p1 = p1
  p2 = p2
  r1 = r1
  r2 = r2
  Path = {p1, p2}
  Entry = p1
  Project = TRUE
  Request = {r1, r2}
  Root = Root
  Content <- MC_Content
  Absent = Absent
  Source <- MC_Project
  Edited = "edited"
  NoStage = NoStage
  Nobody = Nobody
  MaxEdits = 2
  MaxFaults = 1
  MaxCrashes = 2
  Foreign = Foreign
  Partial = Partial
  NoRecord = NoRecord
SPECIFICATION PortFairSpec
INVARIANT EditsSurvive
INVARIANT NewestIsShown
PROPERTY RecoveredIsWhole
PROPERTY PublicationSettles
PROPERTY CallIsOneStep
