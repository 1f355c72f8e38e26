\* Two requests, with one key or two; two lease owners, two attempts; a lease
\* of one tick, and a backoff of one, which is its cap.
SPECIFICATION ApiSpec
CONSTANTS
  Jobs = {1, 2}
  Workers = {w1, w2}
  NoWorker = NoWorker
  Artifacts = {1, 2}
  NoArtifact = 0
  MaxAttempts = 2
  LeaseTicks = 1
  BackoffCap = 1
  Keys = {k1, k2}
  NoJob = 0
SYMMETRY Symmetry
INVARIANTS
  QueuedIsServable
  StagedFilesAreAccounted
PROPERTIES
  ImplementsLifecycle
  ImplementsIntake
