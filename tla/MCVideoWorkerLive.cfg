\* Two uploads, the one worker process that Compose runs, and one kill.
SPECIFICATION FairSpec
CONSTANTS
  Jobs = {1, 2}
  Kinds = {"upload"}
  Workers = {w1}
  NoWorker = NoWorker
  NoJob = NoJob
  Artifacts = {0, 1, 2}
  NoArtifact = NoArtifact
  MaxAttempts = 2
  LeaseTicks = 1
  BackoffCap = 1
  MaxCrashes = 1
  Stalls = FALSE
PROPERTIES
  EveryJobEnds
  EveryCancellationEnds
