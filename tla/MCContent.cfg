SPECIFICATION ContentSpec
CONSTANTS
  Documents = {d1, d2}
  Uploads = {x1, x2}
  Users = {u1, u2}
  Nobody = Nobody
  Foreign = Foreign
  NoFile = NoFile
  NoRow = NoRow
  Videos = {v1}
  MaxAge = 2
  MaxWork = 1
  MaxTime = 4
  Hosts = {h1, h2}
  AllowedHosts = {h1}
  Addresses = {n1, n2}
  Public = {n1}
  MaxHops = 2
  NoOrigin = NoOrigin
  Critical = {"hazardous_action"}
  High = {"unsupported_numeric_claim"}
  Shapes <- SomeShapes
  Notes <- SomeNotes
  Others = {50, 75, 100}
  MaxPasses = 3
  Signals = {"hazardous_action", "unsupported_numeric_claim"}
  Endpoints <- AllEndpoints
  Files = {d1, d2}
  Large = {d2}
  Searches = {x1, x2}
  MaxStamp = 2
  Limits = {1, 10}
  Offers = {0, 1, 10}
  MaxCached = 1
  Versions = {x1, x2}
  Entries = {"saved", "updated"}
  Payloads = {u1, u2}
  NoPayload = NoPayload
  MaxEvents = 2
  MaxDamages = 2
  FrameCounts = {0, 1, 2, 4, 5, 9}
  Requested = {1, 2, 3}
  PerKeyframe = 1
  Fewest = 4
  Levels = {0, 3, 6}
  Scores = {1, 2}
  MinDifference = 4
  MinGap = 3
  MaxSegments = 2
  VisionMax = 1
SYMMETRY Symm
INVARIANTS
  ContentTypeOK
  UploadedIsStored
  ConnectsWhereChecked
  ScoreIsCapped
  ScoreIsMonotone
  SignalsStayBlockers
  SearchIsComplete
  VerifiedIsWritten
  FramesAreChosen
PROPERTIES
  ReconcilesAllOrNothing
  SweepSparesUsed
CHECK_DEADLOCK FALSE
