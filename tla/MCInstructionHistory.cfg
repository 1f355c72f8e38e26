\* One instruction with up to two versions, the second of which has a legacy
\* record and a legacy execution; two processes; five audit events.
SPECIFICATION Spec
CONSTANTS
  i1 = i1
  technologist = technologist
  master = master
  r1 = r1
  c1 = c1
  c2 = c2
  Instructions = {i1}
  MaxVersion = 2
  MaxEvents = 5
  Claims = {claim}
  Roles = {technologist, master}
  Approvers = {technologist}
  NoRole = NoRole
  Callers = {c1, c2}
  Directory <- MCDirectory
  LegacyStatus <- MCLegacyStatus
  LegacyTrail <- MCLegacyTrail
  LegacyRuns <- MCLegacyRuns
INVARIANTS
  TrailFitsContent
  TrailTellsStatus
  ValidationsAreWitnessed
  ImportsAreWhole
PROPERTIES
  ImplementsReview
