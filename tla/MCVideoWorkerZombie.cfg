\* One job and two workers, which may be suspended for longer than their leases.
SPECIFICATION WorkersSpec
CONSTANTS
  Jobs = {1}
  Kinds = {"upload", "url"}
  Workers = {w1, w2}
  NoWorker = NoWorker
  NoJob = NoJob
  Artifacts = {0, 1, 2}
  NoArtifact = NoArtifact
  MaxAttempts = 2
  LeaseTicks = 1
  BackoffCap = 1
  MaxCrashes = 0
  Stalls = TRUE
SYMMETRY Symmetry
INVARIANTS
  PublishedIsKept
