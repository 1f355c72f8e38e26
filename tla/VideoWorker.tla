------------------------------ MODULE VideoWorker ------------------------------
(***************************************************************************)
(* The worker processes of app/workers/video_jobs.py over the queue of     *)
(* VideoJobs, with the files and the ownership rows a job leaves behind    *)
(* and the two API handlers that reach the same job (enqueue and cancel).  *)
(*                                                                         *)
(* Each worker process runs _process_claimed_job; its program counter says *)
(* which call comes next.  A step is one such call: one transaction, one   *)
(* removal of files, or one isolated stage.  Between two steps of a worker *)
(* anything may happen: its heartbeat thread, other workers, the API, the  *)
(* passing of time, a crash.                                               *)
(*                                                                         *)
(* A video is known by its id.  A job's ids are numbered: 0 is the id the  *)
(* API gave an upload, a is the uuid drawn by the attempt number a.        *)
(***************************************************************************)
EXTENDS VideoJobs

CONSTANTS
  Kinds,        \* the kinds of source that are used
  NoJob,
  MaxCrashes,   \* bounds how often a process is killed
  Stalls        \* may a worker be suspended for longer than its lease?

\* artifact_path names the video by its id.
ASSUME IdsAssumption == Artifacts = 0 .. MaxAttempts
ASSUME KindsAssumption == Kinds \subseteq {"upload", "url"}
ASSUME NoJobAssumption == NoJob \notin Jobs
ASSUME CrashAssumption == MaxCrashes \in Nat /\ Stalls \in BOOLEAN

VARIABLES
  kind,      \* kind[j] is the source_kind of job j, known before it exists
  proc,      \* proc[w] is the state of worker process w
  files,     \* <<j, id>>: the video file, or a partial download, of that id
  frames,    \* <<j, id>>: the keyframe directory of that id
  owned,     \* <<j, id>>: the resource_ownership row of that video
  deleting,  \* jobs whose DELETE request has yet to remove the staged upload
  crashes,   \* how often a process was killed so far
  stalled    \* was a worker suspended for longer than its lease so far?

vars == <<kind, rows, proc, files, frames, owned, deleting, crashes, stalled>>
fileVars == <<files, frames>>
runVars == <<kind, crashes, stalled>>

Uploads == {j \in Jobs : kind[j] = "upload"}

-----------------------------------------------------------------------------
(* The worker process.                                                     *)

\* Where each checkpoint leads when it neither raises nor cancels.
Checkpoints == {"preparing", "downloading", "extracting", "analyzing", "finalizing"}

\* The isolated stages.
Stages == {"download", "extract", "analyze"}

\* The labels inside the try block of _process_claimed_job.
Trying == Checkpoints \cup Stages \cup
          {"validating", "discarding", "recording", "registering", "completing",
           "retracting_files", "retracting_ownership"}

\* The labels of its handlers, and the shared last call.
Handling == {"on_cancel", "on_download_timeout", "failing", "cleaning", "closing"}

Off == {"idle", "dead"}

\* What the failing handler is handling.
Errors == {"timeout", "value_retry", "value_final", "error"}

Proc == [pc   : Off \cup Trying \cup Handling,
         job  : Jobs \cup {NoJob},
         try  : 0 .. MaxAttempts,             \* job.attempts as claimed
         vid  : Artifacts \cup {NoArtifact},  \* the local video_id
         path : Artifacts \cup {NoArtifact},  \* the id in the local video_path
         lost : BOOLEAN,                   \* heartbeat.lost
         why  : Errors]

Idle == [pc |-> "idle", job |-> NoJob, try |-> 0, vid |-> NoArtifact, path |-> NoArtifact,
         lost |-> FALSE, why |-> "error"]

Busy(w) == proc[w].pc \notin Off
HoldsLease(w) == Busy(w) /\ Owns(w, proc[w].job)
CancelSeen(w) == HoldsLease(w) /\ rows[proc[w].job].cancel
IsUpload(w) == proc[w].job \in Uploads
HasArtifact(w) == proc[w].vid # NoArtifact /\ proc[w].path # NoArtifact

Goto(w, pc) == proc' = [proc EXCEPT ![w].pc = pc]

\* An exception reaches the handler that will call fail_video_job.
Raise(w, why) == proc' = [proc EXCEPT ![w].pc = "failing", ![w].why = why]

\* The worker returns from _process_claimed_job and stops its heartbeat.
Return(w) == proc' = [proc EXCEPT ![w] = Idle]

\* cleanup_video_artifacts
Cleanup(j, vid, path) ==
  /\ files' = files \ {<<j, path>>}
  /\ frames' = frames \ {<<j, vid>>}

\* What a stage that does not finish may leave of its output.
MayLeaveOutput(w) ==
  LET output == <<proc[w].job, proc[w].vid>>
  IN  /\ proc[w].pc = "download" => files' \in {files, files \cup {output}}
      /\ proc[w].pc # "download" => files' = files
      /\ proc[w].pc = "extract" => frames' \in {frames, frames \cup {output}}
      /\ proc[w].pc # "extract" => frames' = frames

-----------------------------------------------------------------------------
(* run_one_video_job and _process_claimed_job.                             *)

ClaimJob(w, j) ==
  /\ proc[w].pc = "idle"
  /\ Claim(w, j)
  /\ proc' = [proc EXCEPT ![w] =
                [pc |-> "preparing", job |-> j, try |-> rows'[j].attempts,
                 vid |-> rows'[j].artifact, path |-> rows'[j].artifact,
                 lost |-> FALSE, why |-> "error"]]
  /\ UNCHANGED <<files, frames, owned, deleting, runVars>>

\* A claim that finds no job to run.
Poll ==
  /\ \E w \in Workers : proc[w].pc = "idle"
  /\ ClaimNothing
  /\ UNCHANGED <<proc, files, frames, owned, deleting, runVars>>

\* Fault: a retry reuses the download of the attempt before it.
AfterCheckpointReusing(w) ==
  CASE proc[w].pc = "preparing"   -> IF IsUpload(w) THEN "validating"
                                     ELSE IF HasArtifact(w) THEN "extracting"
                                     ELSE "downloading"
    [] proc[w].pc = "downloading" -> "download"
    [] proc[w].pc = "extracting"  -> "extract"
    [] proc[w].pc = "analyzing"   -> "analyze"
    [] proc[w].pc = "finalizing"  -> "registering"

AfterCheckpoint(w) ==
  CASE proc[w].pc = "preparing"   -> IF IsUpload(w) THEN "validating"
                                     ELSE IF HasArtifact(w) THEN "discarding"
                                     ELSE "downloading"
    [] proc[w].pc = "downloading" -> "download"
    [] proc[w].pc = "extracting"  -> "extract"
    [] proc[w].pc = "analyzing"   -> "analyze"
    [] proc[w].pc = "finalizing"  -> "registering"

\* _checkpoint.  A lost lease raises, a requested cancellation is obeyed, and
\* so is losing the lease between the two queries.  The id of a download is
\* drawn right after the checkpoint before it.
Checkpoint(w) ==
  /\ proc[w].pc \in Checkpoints
  /\ \/ /\ proc[w].lost \/ ~HoldsLease(w)
        /\ Raise(w, "error")
     \/ /\ ~proc[w].lost /\ CancelSeen(w)
        /\ Goto(w, "on_cancel")
     \/ /\ ~proc[w].lost /\ HoldsLease(w) /\ ~CancelSeen(w)
        /\ proc' = [proc EXCEPT
                      ![w].pc = AfterCheckpoint(w),
                      ![w].vid = IF proc[w].pc = "downloading" THEN proc[w].try ELSE @]
  /\ UNCHANGED <<rows, files, frames, owned, deleting, runVars>>

\* _validated_upload_path
Validate(w) ==
  /\ proc[w].pc = "validating"
  /\ IF HasArtifact(w) /\ <<proc[w].job, proc[w].path>> \in files
       THEN Goto(w, "extracting")
       ELSE Raise(w, "value_final")
  /\ UNCHANGED <<rows, files, frames, owned, deleting, runVars>>

\* A retried URL job removes what its previous attempt downloaded.
Discard(w) ==
  /\ proc[w].pc = "discarding"
  /\ Cleanup(proc[w].job, proc[w].vid, proc[w].path)
  /\ Goto(w, "downloading")
  /\ UNCHANGED <<rows, owned, deleting, runVars>>

\* A stage returns a result.
StageSucceeds(w) ==
  LET output == <<proc[w].job, proc[w].vid>>
  IN  /\ \/ /\ proc[w].pc = "download"
            /\ files' = files \cup {output}
            /\ proc' = [proc EXCEPT ![w].pc = "recording", ![w].path = proc[w].vid]
            /\ UNCHANGED frames
         \/ /\ proc[w].pc = "extract"
            /\ frames' = frames \cup {output}
            /\ Goto(w, "analyzing")
            /\ UNCHANGED files
         \/ /\ proc[w].pc = "analyze"
            /\ Goto(w, "finalizing")
            /\ UNCHANGED fileVars
      /\ UNCHANGED <<rows, owned, deleting, runVars>>

\* The parent notices a lost lease or a cancellation and kills the child.
StageInterrupted(w) ==
  /\ proc[w].pc \in Stages
  /\ \/ proc[w].lost /\ Raise(w, "error")
     \/ ~proc[w].lost /\ CancelSeen(w) /\ Goto(w, "on_cancel")
  /\ MayLeaveOutput(w)
  /\ UNCHANGED <<rows, owned, deleting, runVars>>

\* StageTimeoutError
StageTimesOut(w) ==
  /\ proc[w].pc \in Stages
  /\ IF proc[w].pc = "download" THEN Goto(w, "on_download_timeout")
                                ELSE Raise(w, "timeout")
  /\ MayLeaveOutput(w)
  /\ UNCHANGED <<rows, owned, deleting, runVars>>

\* The child reports a ValueError, or its result does not validate.  A failed
\* download removes its candidates itself, and only it is worth a retry.
StageRejects(w) ==
  /\ proc[w].pc \in Stages
  /\ \/ proc[w].pc = "download" /\ Raise(w, "value_retry") /\ UNCHANGED fileVars
     \/ proc[w].pc = "download" /\ Raise(w, "value_final") /\ UNCHANGED fileVars
     \/ proc[w].pc # "download" /\ Raise(w, "value_final") /\ MayLeaveOutput(w)
  /\ UNCHANGED <<rows, owned, deleting, runVars>>

\* StageExecutionError, or any exception of the child or of the parent.
StageErrors(w) ==
  /\ proc[w].pc \in Stages
  /\ Raise(w, "error")
  /\ MayLeaveOutput(w)
  /\ UNCHANGED <<rows, owned, deleting, runVars>>

\* set_video_job_artifact
RecordArtifact(w) ==
  /\ proc[w].pc = "recording"
  /\ \/ /\ SetArtifact(w, proc[w].job, proc[w].vid)
        /\ Goto(w, "extracting")
     \/ /\ ~HoldsLease(w)
        /\ Raise(w, "error")
        /\ UNCHANGED rows
  /\ UNCHANGED <<files, frames, owned, deleting, runVars>>

\* register_resource_ownership; an existing row is kept.  It refuses when the
\* project or the owner is gone by now, with a ValueError.
Register(w) ==
  /\ proc[w].pc = "registering"
  /\ \/ owned' = owned \cup {<<proc[w].job, proc[w].vid>>} /\ Goto(w, "completing")
     \/ UNCHANGED owned /\ Raise(w, "value_final")
  /\ UNCHANGED <<rows, files, frames, deleting, runVars>>

\* complete_video_job; when it publishes nothing, the result is taken back.
CompleteJob(w) ==
  /\ proc[w].pc = "completing"
  /\ \/ Complete(w, proc[w].job) /\ Return(w)
     \/ (~HoldsLease(w) \/ CancelSeen(w)) /\ Goto(w, "retracting_files") /\ UNCHANGED rows
  /\ UNCHANGED <<files, frames, owned, deleting, runVars>>

RetractFiles(w) ==
  /\ proc[w].pc = "retracting_files"
  /\ Cleanup(proc[w].job, proc[w].vid, proc[w].path)
  /\ Goto(w, "retracting_ownership")
  /\ UNCHANGED <<rows, owned, deleting, runVars>>

\* _remove_video_ownership
RetractOwnership(w) ==
  /\ proc[w].pc = "retracting_ownership"
  /\ owned' = owned \ {<<proc[w].job, proc[w].vid>>}
  /\ Goto(w, "closing")
  /\ UNCHANGED <<rows, files, frames, deleting, runVars>>

\* except JobCancelled
OnCancel(w) ==
  /\ proc[w].pc = "on_cancel"
  /\ IF HasArtifact(w) THEN Cleanup(proc[w].job, proc[w].vid, proc[w].path)
                       ELSE UNCHANGED fileVars
  /\ Goto(w, "closing")
  /\ UNCHANGED <<rows, owned, deleting, runVars>>

\* cancel_claimed_video_job
Close(w) ==
  /\ proc[w].pc = "closing"
  /\ \/ CancelClaimed(w, proc[w].job)
     \/ ~HoldsLease(w) /\ UNCHANGED rows
  /\ Return(w)
  /\ UNCHANGED <<files, frames, owned, deleting, runVars>>

\* remove_video_download_candidates
OnDownloadTimeout(w) ==
  /\ proc[w].pc = "on_download_timeout"
  /\ files' = files \ {<<proc[w].job, proc[w].vid>>}
  /\ Raise(w, "timeout")
  /\ UNCHANGED <<rows, frames, owned, deleting, runVars>>

\* Fault: every handler cleans up, whatever becomes of the job.
CleansRetryAlways(w) == TRUE

\* Does the handler of this error clean up a job that goes back to the queue?
CleansRetry(w) == proc[w].why \in {"value_retry", "value_final"} /\ ~IsUpload(w)

\* fail_video_job, and the decision to clean up after it.
FailJob(w) ==
  /\ proc[w].pc = "failing"
  /\ \/ /\ Fail(w, proc[w].job, proc[w].why # "value_final")
        /\ IF /\ rows'[proc[w].job].status # "queued" \/ CleansRetry(w)
              /\ HasArtifact(w)
             THEN Goto(w, "cleaning")
             ELSE Return(w)
     \/ ~HoldsLease(w) /\ Return(w) /\ UNCHANGED rows
  /\ UNCHANGED <<files, frames, owned, deleting, runVars>>

CleanUp(w) ==
  /\ proc[w].pc = "cleaning"
  /\ Cleanup(proc[w].job, proc[w].vid, proc[w].path)
  /\ Return(w)
  /\ UNCHANGED <<rows, owned, deleting, runVars>>

\* A query, a removal or a write inside the try block raises.
CallFails(w) ==
  /\ proc[w].pc \in Trying \ Stages
  /\ Raise(w, "error")
  /\ UNCHANGED <<rows, files, frames, owned, deleting, runVars>>

-----------------------------------------------------------------------------
(* The heartbeat thread of a busy worker.                                  *)

Beat(w) ==
  /\ Busy(w) /\ ~proc[w].lost
  /\ \/ Heartbeat(w, proc[w].job) /\ UNCHANGED proc
     \/ ~HoldsLease(w) /\ proc' = [proc EXCEPT ![w].lost = TRUE] /\ UNCHANGED rows
  /\ UNCHANGED <<files, frames, owned, deleting, runVars>>

\* heartbeat_video_job raises: the thread gives the lease up for lost.
BeatFails(w) ==
  /\ Busy(w) /\ ~proc[w].lost
  /\ proc' = [proc EXCEPT ![w].lost = TRUE]
  /\ UNCHANGED <<rows, files, frames, owned, deleting, runVars>>

-----------------------------------------------------------------------------
(* The API, time, and crashes.                                             *)

\* enqueue_video_job, reduced to its effect (VideoApi has its steps).
Enqueue(j) ==
  /\ Create(j, IF j \in Uploads THEN 0 ELSE NoArtifact)
  /\ files' = IF j \in Uploads THEN files \cup {<<j, 0>>} ELSE files
  /\ UNCHANGED <<proc, frames, owned, deleting, runVars>>

\* Fault: the handler removes the files of every upload that is over.
CancelFinished(j) ==
  /\ \/ RequestCancellation(j)
     \/ rows[j].status \in Terminal /\ UNCHANGED rows
  /\ deleting' = IF j \in Uploads /\ rows'[j].status \in Terminal
                   THEN deleting \cup {j} ELSE deleting
  /\ UNCHANGED <<proc, files, frames, owned, runVars>>

\* cancel_video_job up to its transaction.  The handler goes on to remove the
\* staged file of an upload that is cancelled by now.
Cancel(j) ==
  /\ \/ RequestCancellation(j)
     \/ rows[j].status = "cancelled" /\ UNCHANGED rows
  /\ deleting' = IF j \in Uploads /\ rows'[j].status = "cancelled"
                   THEN deleting \cup {j} ELSE deleting
  /\ UNCHANGED <<proc, files, frames, owned, runVars>>

\* _cleanup_cancelled_upload_job
DeleteUpload(j) ==
  /\ j \in deleting
  /\ Cleanup(j, 0, 0)
  /\ deleting' = deleting \ {j}
  /\ UNCHANGED <<rows, proc, owned, runVars>>

\* No worker that still runs lets its lease run out, unless it may stall:
\* the heartbeat interval is less than half the lease, and every other step
\* is far shorter than a lease.
LeasesKept ==
  \A w \in Workers : HoldsLease(w) => rows[proc[w].job].lease > 0

Time ==
  /\ Stalls \/ LeasesKept
  /\ stalled' = (stalled \/ ~LeasesKept)
  /\ Tick
  /\ UNCHANGED <<kind, proc, files, frames, owned, deleting, crashes>>

\* A worker is killed.  Its child may have written before it, too, was gone.
Crash(w) ==
  /\ Busy(w) /\ crashes < MaxCrashes
  /\ crashes' = crashes + 1
  /\ proc' = [proc EXCEPT ![w] = [Idle EXCEPT !.pc = "dead"]]
  /\ MayLeaveOutput(w)
  /\ UNCHANGED <<kind, rows, owned, deleting, stalled>>

Restart(w) ==
  /\ proc[w].pc = "dead"
  /\ Return(w)
  /\ UNCHANGED <<rows, files, frames, owned, deleting, runVars>>

\* The API process is killed, and its requests with it.
ApiCrash ==
  /\ deleting # {} /\ crashes < MaxCrashes
  /\ crashes' = crashes + 1
  /\ deleting' = {}
  /\ UNCHANGED <<kind, rows, proc, files, frames, owned, stalled>>

-----------------------------------------------------------------------------
(* The specification.                                                      *)

WorkersInit ==
  /\ Init
  /\ proc = [w \in Workers |-> Idle]
  /\ files = {} /\ frames = {} /\ owned = {} /\ deleting = {}
  /\ kind \in [Jobs -> Kinds]
  /\ crashes = 0 /\ stalled = FALSE

\* The next step of a worker's main thread, whatever its outcome.
WorkerStep(w) ==
  \/ Checkpoint(w) \/ Validate(w) \/ Discard(w)
  \/ StageSucceeds(w) \/ StageInterrupted(w) \/ StageTimesOut(w)
  \/ StageRejects(w) \/ StageErrors(w)
  \/ RecordArtifact(w) \/ Register(w) \/ CompleteJob(w)
  \/ RetractFiles(w) \/ RetractOwnership(w)
  \/ OnCancel(w) \/ Close(w) \/ OnDownloadTimeout(w)
  \/ FailJob(w) \/ CleanUp(w) \/ CallFails(w)

WorkersNext ==
  \/ \E w \in Workers :
       \/ WorkerStep(w)
       \/ \E j \in Jobs : ClaimJob(w, j)
       \/ Beat(w) \/ BeatFails(w)
       \/ Crash(w) \/ Restart(w)
  \/ \E j \in Jobs : Enqueue(j) \/ Cancel(j) \/ DeleteUpload(j)
  \/ Poll \/ Time \/ ApiCrash

WorkersSpec == WorkersInit /\ [][WorkersNext]_vars

\* A worker's main thread takes its next step (a stage ends at the latest by
\* its deadline), a killed worker is started again (restart: unless-stopped),
\* an idle worker polls, and time passes.
Fairness ==
  /\ \A w \in Workers : /\ WF_vars(WorkerStep(w))
                        /\ WF_vars(Restart(w))
                        /\ WF_vars(\E j \in Jobs : ClaimJob(w, j))
  /\ WF_vars(Poll)
  /\ WF_vars(Time)

FairSpec == WorkersSpec /\ Fairness

-----------------------------------------------------------------------------
(* Properties.                                                             *)

WorkersTypeOK ==
  /\ TypeOK
  /\ kind \in [Jobs -> Kinds]
  /\ proc \in [Workers -> Proc]
  /\ files \subseteq Jobs \X Artifacts
  /\ frames \subseteq Jobs \X Artifacts
  /\ owned \subseteq Jobs \X Artifacts
  /\ deleting \subseteq Uploads
  /\ crashes \in 0 .. MaxCrashes
  /\ stalled \in BOOLEAN

\* A job is cancelled only if somebody asked for it, although
\* cancel_claimed_video_job does not look at the request.
CancelledOnRequest ==
  \A j \in Jobs : rows[j].status = "cancelled" => rows[j].cancel

\* The published result of a URL job is made of the download of its last
\* attempt, never of one an earlier attempt recorded.
ResultIsOfLastAttempt ==
  \A j \in Jobs \ Uploads :
    rows[j].status = "succeeded" => rows[j].artifact = rows[j].attempts

\* A job ends as it is told: cancelled because somebody asked for it, or with a
\* result of the attempt that succeeded.
OutcomeIsEarned == CancelledOnRequest /\ ResultIsOfLastAttempt

\* As long as no worker was suspended for longer than its lease, a worker
\* inside the try block holds the lease of its job: two workers never process
\* one job, across heartbeats that fail, kills, recoveries and retries.
WorkNeedsLease ==
  ~stalled => \A w \in Workers : proc[w].pc \in Trying => HoldsLease(w)

\* A published result keeps what it points at: the ownership row and the
\* keyframes of its video, which no cleanup of any worker or request removes.
PublishedIsKept ==
  \A j \in Jobs : rows[j].status = "succeeded" =>
    /\ <<j, rows[j].artifact>> \in owned
    /\ <<j, rows[j].artifact>> \in frames

\* That holds as long as no worker was suspended for longer than its lease.
PublishedIsKeptByPromptWorkers == ~stalled => PublishedIsKept

\* An upload that may still be processed has its staged file: no failed or
\* crashed attempt takes it away from the retry.
UploadIsThere ==
  ~stalled => \A j \in Uploads :
    \/ rows[j].status = "queued"
    \/ rows[j].status = "running" /\ ~rows[j].cancel
    => <<j, 0>> \in files

\* The job is over, without a result, and nobody has anything left to do for it.
Abandoned(j) ==
  /\ rows[j].status \in {"failed", "cancelled"}
  /\ \A w \in Workers : proc[w].job # j
  /\ j \notin deleting

\* As long as no process was killed and none suspended, a failed or cancelled
\* upload leaves neither its file nor keyframes, whatever failed.
UploadIsRemoved ==
  crashes = 0 /\ ~stalled =>
    \A j \in Uploads : Abandoned(j) => <<j, 0>> \notin files \cup frames

\* The file of an upload is kept exactly as long as it is needed, without kills and
\* suspensions; with kills, at least as long.
UploadIsKeptInNeed == UploadIsThere /\ UploadIsRemoved

\* No job that failed or was cancelled leaves a video file behind, be it a
\* staged upload, a recorded download or a partial one.
NothingIsLeft ==
  \A j \in Jobs, id \in Artifacts : Abandoned(j) => <<j, id>> \notin files

\* Every job that was accepted comes to an end.
EveryJobEnds ==
  \A j \in Jobs : rows[j].status # "none" ~> rows[j].status \in Terminal

\* A requested cancellation is carried out.
EveryCancellationEnds ==
  \A j \in Jobs : rows[j].cancel ~> rows[j].status = "cancelled"
=============================================================================
