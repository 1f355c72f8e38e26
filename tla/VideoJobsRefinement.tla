-------------------------- MODULE VideoJobsRefinement --------------------------
(***************************************************************************)
(* The queue of VideoJobs implements the abstract VideoJobLifecycle: the   *)
(* phase of a job is read off its status and its cancellation flag.        *)
(***************************************************************************)
EXTENDS VideoJobs

PhaseOf(r) ==
  IF r.status = "none" THEN "absent"
  ELSE IF r.status \in Terminal THEN r.status
  ELSE IF r.cancel THEN "stopping" ELSE "pending"

phaseOfRows == [j \in Jobs |-> PhaseOf(rows[j])]

Lifecycle == INSTANCE VideoJobLifecycle WITH phase <- phaseOfRows

\* Every step of the queue is a step a client was promised, or invisible.
ImplementsLifecycle == Lifecycle!Spec
=============================================================================
