SPECIFICATION PlatformSpec
CONSTANTS
  Requests = {a1, a2, a3}
  MaxLag = 1
  MaxTime = 4
  Clients = {c1}
  NoClient = NoClient
  AuthLimit = 1
  AuthSeconds = 2
  NarrowLimit = 1
  NarrowSeconds = 1
  ApiLimit = 2
  ApiSeconds = 1
  TicksPerSecond = 2
  Servers = {s1}
  Categories = {"success", "server_error"}
  BucketTicks = 2
  WindowTicks = 2
  RetentionTicks = 2
  AlertMin = 2
  AvailabilitySlo = 60
  LatencySlo = 60
  Emails = {i1, i2}
  Projects = {j1}
  Invitations = {i1, i2}
  Legacy = Legacy
  Founded = Founded
  Nobody = Nobody
  MaxEvents = 4
  p1 = p1
  p2 = p2
  Processes <- Procs
  Build <- Builds
  Current = 2
  Oldest = 0
  Paths = {b1, b2}
  NoPath = NoPath
  MaxWrites = 1
  Users = {u1}
  Tokens = {a1, a2, a3}
  NoUser = NoUser
  NoToken = NoToken
  Calls = {i1, i2}
  MaxFailed = 2
  LockTicks = 2
  TtlTicks = 4
  IdleTicks = 3
  RefreshTicks = 2
  MaxSessions = 2
SYMMETRY Symm
INVARIANTS
  PlatformTypeOK
  AdmittedWithinLimit
  ReportIsExact
  TrailTellsAccess
  IdleTellsUse
  SessionCap
  MigrationsRunOnceInOrder
  RestoreCanBeUndone
PROPERTIES
  
  KeepsAdmin
CHECK_DEADLOCK FALSE
