--------------------------------- MODULE Sweep ---------------------------------
(***************************************************************************)
(* The cleanup command with --delete and --reconcile-video-ownership,      *)
(* scripts/cleanup_artifacts.py, beside the requests and workers that      *)
(* store videos and their frames.  It takes no lock: every file is looked  *)
(* at and removed in two steps, and the active jobs are read once.         *)
(***************************************************************************)
EXTENDS Integers, FiniteSets

CONSTANTS
  Videos,    \* each has an id of its own
  MaxAge,    \* --max-age-hours
  MaxWork,   \* what a request or an attempt takes at most, in ticks
  MaxTime    \* bound of the clock

\* Work on a video is over long before its files are old.
ASSUME SweepAssumption ==
  MaxAge \in Nat /\ MaxWork \in Nat \ {0} /\ MaxWork < MaxAge /\ MaxTime \in Nat

VARIABLES
  time,
  video,    \* who works on each video, its job, its files and its ownership row
  sweep     \* the command

sweepVars == <<time, video, sweep>>

Absent == -1

Times == {Absent} \cup 0 .. MaxTime

\* upload and frames are the times at which the files were written; dir is the directory
\* of the frames.  The work on a synchronous request has no job.
Video == [pc : {"none", "storing", "queued", "opened", "made", "extracted", "registered", "ended"},
          job : {"none", "queued", "running", "terminal", "removed"},
          upload : Times, frames : Times, dir : BOOLEAN, row : BOOLEAN,
          complete : BOOLEAN, began : 0 .. MaxTime, ended : 0 .. MaxTime]

NoVideo == [pc |-> "none", job |-> "none", upload |-> Absent, frames |-> Absent, dir |-> FALSE,
            row |-> FALSE, complete |-> FALSE, began |-> 0, ended |-> 0]

Working(v) == video[v].pc \in {"storing", "opened", "made", "extracted", "registered"}

ActiveJob(v) == video[v].job \in {"queued", "running"}

Becomes(v, new) == /\ video' = [video EXCEPT ![v] = new]
                   /\ UNCHANGED <<time, sweep>>

-----------------------------------------------------------------------------
(* The work on a video.                                                    *)

\* A request stores its video.
StoreVideo(v) ==
  /\ video[v].pc = "none"
  /\ Becomes(v, [NoVideo EXCEPT !.pc = "storing", !.upload = time, !.dir = FALSE, !.began = time])

\* Its job is queued, or it goes on by itself.
Enqueue(v) ==
  /\ video[v].pc = "storing"
  /\ \/ Becomes(v, [video[v] EXCEPT !.pc = "queued", !.job = "queued"])
     \/ Becomes(v, [video[v] EXCEPT !.pc = "opened"])

ClaimJob(v) ==
  /\ video[v].pc = "queued"
  /\ Becomes(v, [video[v] EXCEPT !.pc = "opened", !.job = "running", !.began = time])

\* extract_keyframes makes the directory, then decodes and scores frames.
MakeDirectory(v) ==
  /\ video[v].pc = "opened"
  /\ Becomes(v, [video[v] EXCEPT !.pc = "made", !.dir = TRUE])

\* A frame that cannot be written is left out of the result, which is no failure.
WriteFrames(v) ==
  /\ video[v].pc = "made"
  /\ Becomes(v, [video[v] EXCEPT !.pc = "extracted", !.complete = video[v].dir,
                                 !.frames = IF video[v].dir THEN time ELSE @])

RegisterVideo(v) ==
  /\ video[v].pc = "extracted"
  /\ Becomes(v, [video[v] EXCEPT !.pc = "registered", !.row = TRUE])

Over(v) == [video[v] EXCEPT !.pc = "ended", !.ended = time,
                            !.job = IF @ = "none" THEN "none" ELSE "terminal"]

Succeed(v) ==
  /\ video[v].pc = "registered"
  /\ Becomes(v, Over(v))

\* cleanup_video_artifacts
CleanedUp(new) == [new EXCEPT !.upload = Absent, !.frames = Absent, !.dir = FALSE]

\* The work fails for good, or is cancelled; once it was registered, a job that is
\* cancelled takes its row back.
GiveUp(v) ==
  /\ Working(v) \/ video[v].pc = "queued"
  /\ video[v].pc = "registered" => ActiveJob(v)
  /\ \/ Becomes(v, CleanedUp(Over(v)))
     \/ video[v].pc = "registered" /\ Becomes(v, [CleanedUp(Over(v)) EXCEPT !.row = FALSE])

\* The attempt fails, or its worker is killed and its lease expires: the job is queued
\* again.  A killed request leaves what it has stored.
Interrupt(v) ==
  /\ Working(v)
  /\ Becomes(v, IF video[v].job = "running" THEN [video[v] EXCEPT !.pc = "queued", !.job = "queued"]
                ELSE Over(v))

\* The assumption on MaxWork.
SweepTick ==
  /\ \A v \in Videos : Working(v) => time - video[v].began < MaxWork
  /\ time < MaxTime
  /\ time' = time + 1
  /\ UNCHANGED <<video, sweep>>

-----------------------------------------------------------------------------
(* cleanup_artifacts.                                                      *)

Kinds == {"upload", "frames"}

\* found is the path past the check before its removal; todo what the step has to look at.
NoSweep == [pc |-> "idle", cutoff |-> 0, active |-> {}, todo |-> {}, found |-> {}]

Sweeps(new) == sweep' = new /\ UNCHANGED <<time, video>>

\* Fault: the artifacts of jobs that wait are not protected.
SweepUnprotected ==
  /\ sweep.pc = "idle"
  /\ Sweeps([pc |-> "files", cutoff |-> time - MaxAge, found |-> {},
             active |-> {v \in Videos : video[v].job = "running"}, todo |-> Videos \X Kinds])

\* The cutoff, and the artifacts of active jobs.
BeginSweep ==
  /\ sweep.pc = "idle"
  /\ Sweeps([pc |-> "files", cutoff |-> time - MaxAge, found |-> {},
             active |-> {v \in Videos : ActiveJob(v)}, todo |-> Videos \X Kinds])

\* Only the upload is named by the job's row.
InspectFile(v, kind) ==
  LET written == IF kind = "upload" THEN video[v].upload ELSE video[v].frames
      matches == /\ written # Absent /\ written <= sweep.cutoff
                 /\ ~ (kind = "upload" /\ v \in sweep.active)
  IN  /\ sweep.pc = "files" /\ sweep.found = {} /\ <<v, kind>> \in sweep.todo
      /\ Sweeps([sweep EXCEPT !.todo = @ \ {<<v, kind>>},
                              !.found = IF matches THEN {<<v, kind>>} ELSE {}])

\* A file that is gone stops the command.
Unlink(v, kind) ==
  LET there == video[v][kind] # Absent
  IN  /\ sweep.pc = "files" /\ <<v, kind>> \in sweep.found
      /\ video' = [video EXCEPT ![v][kind] = Absent]
      /\ sweep' = IF there THEN [sweep EXCEPT !.found = {}] ELSE NoSweep
      /\ UNCHANGED time

\* _remove_empty_dirs
ListDirectories ==
  /\ sweep.pc = "files" /\ sweep.todo = {} /\ sweep.found = {}
  /\ Sweeps([sweep EXCEPT !.pc = "directories", !.todo = {v \in Videos : video[v].dir}])

LookInto(v) ==
  /\ sweep.pc = "directories" /\ sweep.found = {} /\ v \in sweep.todo
  /\ Sweeps(IF video[v].dir
            THEN [sweep EXCEPT !.todo = @ \ {v}, !.found = IF video[v].frames = Absent THEN {v} ELSE {}]
            ELSE NoSweep)

\* A directory that is not empty any more, or gone, stops the command.
RemoveDirectory(v) ==
  LET empty == video[v].dir /\ video[v].frames = Absent
  IN  /\ sweep.pc = "directories" /\ v \in sweep.found
      /\ video' = IF empty THEN [video EXCEPT ![v].dir = FALSE] ELSE video
      /\ sweep' = IF empty THEN [sweep EXCEPT !.found = {}] ELSE NoSweep
      /\ UNCHANGED time

\* _reconcile_video_ownership
ReadRows ==
  /\ sweep.pc = "directories" /\ sweep.todo = {} /\ sweep.found = {}
  /\ Sweeps([sweep EXCEPT !.pc = "rows", !.todo = {v \in Videos : video[v].row}])

\* _video_artifacts_exist
LookForArtifacts(v) ==
  /\ sweep.pc = "rows" /\ v \in sweep.todo
  /\ Sweeps([sweep EXCEPT !.todo = @ \ {v},
       !.found = IF video[v].upload = Absent /\ video[v].frames = Absent THEN @ \cup {v} ELSE @])

\* One transaction, which does not look again.
DeleteRows ==
  /\ sweep.pc = "rows" /\ sweep.todo = {}
  /\ video' = [v \in Videos |-> IF v \in sweep.found THEN [video[v] EXCEPT !.row = FALSE] ELSE video[v]]
  /\ sweep' = [sweep EXCEPT !.pc = "jobs", !.found = {}]
  /\ UNCHANGED time

\* _reconcile_terminal_video_jobs: no job leaves a terminal status, so that it is read and
\* deleted in one step.
DeleteJobs ==
  /\ sweep.pc = "jobs"
  /\ video' = [v \in Videos |-> IF video[v].job = "terminal" /\ video[v].ended <= sweep.cutoff
                                THEN [video[v] EXCEPT !.job = "removed"] ELSE video[v]]
  /\ sweep' = NoSweep
  /\ UNCHANGED time

\* The command fails or is killed.
SweepStops ==
  /\ sweep.pc # "idle"
  /\ Sweeps(NoSweep)

SweepInit ==
  /\ time = 0
  /\ video = [v \in Videos |-> NoVideo]
  /\ sweep = NoSweep

SweepNext ==
  \/ \E v \in Videos :
       \/ StoreVideo(v) \/ Enqueue(v) \/ ClaimJob(v) \/ MakeDirectory(v) \/ WriteFrames(v)
       \/ RegisterVideo(v) \/ Succeed(v) \/ GiveUp(v) \/ Interrupt(v)
       \/ \E kind \in Kinds : InspectFile(v, kind) \/ Unlink(v, kind)
       \/ LookInto(v) \/ RemoveDirectory(v) \/ LookForArtifacts(v)
  \/ BeginSweep \/ ListDirectories \/ ReadRows \/ DeleteRows \/ DeleteJobs \/ SweepStops
  \/ SweepTick

SweepSpec == SweepInit /\ [][SweepNext]_sweepVars

-----------------------------------------------------------------------------
(* Properties.                                                             *)

SweepTypeOK ==
  /\ time \in 0 .. MaxTime
  /\ video \in [Videos -> Video]
  /\ sweep.pc \in {"idle", "files", "directories", "rows", "jobs"}

ActiveUploadIsKept == \A v \in Videos : ActiveJob(v) => video[v].upload # Absent

\* However long a job has waited, and whatever becomes of it between the reading of the
\* active jobs and the walk, its upload is there until it ends; and the command removes an
\* ownership row only when neither the upload nor a frame is there, not only at the time at
\* which it has looked for them.
SweepSparesUsed ==
  [][/\ ActiveUploadIsKept'
     /\ \A v \in Videos : sweep.pc = "rows" /\ video[v].row /\ ~ video'[v].row /\ sweep' # sweep =>
          video[v].upload = Absent /\ video[v].frames = Absent]_sweepVars

\* "Active video-job artifacts and rows are preserved": the frames that a running job has
\* extracted are there.
ActiveFramesAreKept ==
  \A v \in Videos : video[v].job = "running" /\ video[v].pc \in {"extracted", "registered"} =>
    video[v].complete /\ video[v].frames # Absent
=============================================================================
