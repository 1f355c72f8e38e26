\* One job, uploaded or to be downloaded, and two worker processes, which may
\* be killed twice and may be suspended for longer than their leases.
SPECIFICATION WorkersSpec
CONSTANTS
  Jobs = {1}
  Kinds = {"upload", "url"}
  Workers = {w1, w2}
  NoWorker = NoWorker
  NoJob = NoJob
  Artifacts = {0, 1, 2}
  NoArtifact = NoArtifact
  MaxAttempts = 2
  LeaseTicks = 1
  BackoffCap = 2
  MaxCrashes = 2
  Stalls = TRUE
SYMMETRY Symmetry
INVARIANTS
  OutcomeIsEarned
  WorkNeedsLease
  PublishedIsKeptByPromptWorkers
  UploadIsKeptInNeed
