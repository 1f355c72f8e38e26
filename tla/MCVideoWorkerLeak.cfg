\* One job and one worker; no process is killed or suspended.
SPECIFICATION WorkersSpec
CONSTANTS
  Jobs = {1}
  Kinds = {"upload", "url"}
  Workers = {w1}
  NoWorker = NoWorker
  NoJob = NoJob
  Artifacts = {0, 1, 2}
  NoArtifact = NoArtifact
  MaxAttempts = 2
  LeaseTicks = 1
  BackoffCap = 1
  MaxCrashes = 0
  Stalls = FALSE
INVARIANTS
  NothingIsLeft
