-------------------------------- MODULE VideoApi --------------------------------
(***************************************************************************)
(* The handlers of app/api/videos.py that enqueue and cancel video jobs,   *)
(* over the queue of VideoJobs.  Requests run in parallel; a step is one   *)
(* transaction or one file operation of a handler.  Of the workers nothing *)
(* is assumed: any of them may make any call of the queue at any time.     *)
(*                                                                         *)
(* A job is named after the request that creates it, and so is the staged  *)
(* file of an upload.  Keys stands for the idempotency keys of one project *)
(* of one organization; the UNIQUE constraint and every query have the     *)
(* same three columns.                                                     *)
(***************************************************************************)
EXTENDS VideoJobsRefinement

CONSTANTS Keys, NoJob

ASSUME NoJobAssumption == NoJob \notin Jobs
ASSUME StagingAssumption == Jobs \subseteq Artifacts

VARIABLES
  key,       \* key[r] is the Idempotency-Key of request r
  kind,      \* kind[r] is the kind of source request r has
  call,      \* call[r] is the next step of request r
  answer,    \* answer[r] is the job that request r was answered with
  staged,    \* the requests whose uploaded file is on disk
  deleting   \* jobs with a DELETE request that has yet to remove the upload

apiVars == <<rows, key, kind, call, answer, staged, deleting>>

Calls == {"finding", "staging", "creating", "discarding",
          "answered", "refused", "failed"}

\* The calls that are over.
Over == {"answered", "refused", "failed"}

\* SELECT ... WHERE organization_id = ? AND project_id = ? AND idempotency_key = ?
JobsOfKey(k) == {j \in Jobs : rows[j].status # "none" /\ key[j] = k}

Proceed(r, step) == call' = [call EXCEPT ![r] = step]

AnswerWith(r, j, step) ==
  /\ answer' = [answer EXCEPT ![r] = j]
  /\ Proceed(r, step)

-----------------------------------------------------------------------------
(* enqueue_video_job                                                       *)

\* find_video_job_by_idempotency_key, and the validation of a new request.
Find(r) ==
  /\ call[r] = "finding"
  /\ \/ \E j \in JobsOfKey(key[r]) : AnswerWith(r, j, "answered")
     \/ /\ JobsOfKey(key[r]) = {}
        /\ \/ Proceed(r, IF kind[r] = "upload" THEN "staging" ELSE "creating")
           \/ Proceed(r, "refused")
        /\ UNCHANGED answer
  /\ UNCHANGED <<rows, key, kind, staged, deleting>>

\* save_uploaded_video_stream, which leaves no file when it raises.
Stage(r) ==
  /\ call[r] = "staging"
  /\ \/ staged' = staged \cup {r} /\ Proceed(r, "creating")
     \/ UNCHANGED staged /\ Proceed(r, "refused")
  /\ UNCHANGED <<rows, key, kind, answer, deleting>>

\* Fault: it relies on the first look-up.
CreateJobBlindly(r) ==
  /\ call[r] = "creating"
  /\ Create(r, IF kind[r] = "upload" THEN r ELSE NoArtifact)
  /\ AnswerWith(r, r, "answered")
  /\ UNCHANGED <<key, kind, staged, deleting>>

\* Fault: the second request keeps what it has staged.
CreateJobKeeping(r) ==
  /\ call[r] = "creating"
  /\ \/ /\ JobsOfKey(key[r]) = {}
        /\ Create(r, IF kind[r] = "upload" THEN r ELSE NoArtifact)
        /\ AnswerWith(r, r, "answered")
     \/ \E j \in JobsOfKey(key[r]) : AnswerWith(r, j, "answered") /\ UNCHANGED rows
  /\ UNCHANGED <<key, kind, staged, deleting>>

\* create_video_job.  It looks the key up again in its transaction; a request
\* that comes second removes the file it has staged.
CreateJob(r) ==
  /\ call[r] = "creating"
  /\ \/ /\ JobsOfKey(key[r]) = {}
        /\ Create(r, IF kind[r] = "upload" THEN r ELSE NoArtifact)
        /\ AnswerWith(r, r, "answered")
     \/ \E j \in JobsOfKey(key[r]) :
          /\ AnswerWith(r, j, IF kind[r] = "upload" THEN "discarding" ELSE "answered")
          /\ UNCHANGED rows
  /\ UNCHANGED <<key, kind, staged, deleting>>

\* create_video_job raises what is no ValueError: the staged file remains.
CreateFails(r) ==
  /\ call[r] = "creating"
  /\ Proceed(r, "failed")
  /\ UNCHANGED <<rows, key, kind, answer, staged, deleting>>

Discard(r) ==
  /\ call[r] = "discarding"
  /\ staged' = staged \ {r}
  /\ Proceed(r, "answered")
  /\ UNCHANGED <<rows, key, kind, answer, deleting>>

-----------------------------------------------------------------------------
(* cancel_video_job, the workers and crashes                               *)

Cancel(j) ==
  /\ \/ RequestCancellation(j)
     \/ rows[j].status \in Terminal /\ UNCHANGED rows
  /\ deleting' = IF rows'[j].status = "cancelled" /\ kind[j] = "upload"
                   THEN deleting \cup {j} ELSE deleting
  /\ UNCHANGED <<key, kind, call, answer, staged>>

\* _cleanup_cancelled_upload_job
DeleteUpload(j) ==
  /\ j \in deleting
  /\ staged' = staged \ {j}
  /\ deleting' = deleting \ {j}
  /\ UNCHANGED <<rows, key, kind, call, answer>>

\* A worker calls the queue.  Only a URL job is given another artifact.
WorkerCalls(w, j) ==
  /\ WorkerCall(w, j)
  /\ kind[j] = "upload" => rows'[j].artifact = rows[j].artifact
  /\ UNCHANGED <<key, kind, call, answer, staged, deleting>>

\* A worker finds nothing to claim.
WorkerPolls ==
  /\ ClaimNothing
  /\ UNCHANGED <<key, kind, call, answer, staged, deleting>>

\* A worker removes the upload of a job that is over and has no result.
WorkerRemoves(j) ==
  /\ rows[j].status \in {"failed", "cancelled"}
  /\ staged' = staged \ {j}
  /\ UNCHANGED <<rows, key, kind, call, answer, deleting>>

Time ==
  /\ Tick
  /\ UNCHANGED <<key, kind, call, answer, staged, deleting>>

\* The API process is killed with all its requests.
ApiCrash ==
  /\ deleting # {} \/ \E r \in Jobs : call[r] \notin Over \cup {"finding"}
  /\ call' = [r \in Jobs |-> IF call[r] \in Over \cup {"finding"} THEN call[r] ELSE "failed"]
  /\ deleting' = {}
  /\ UNCHANGED <<rows, key, kind, answer, staged>>

-----------------------------------------------------------------------------
ApiInit ==
  /\ Init
  /\ key \in [Jobs -> Keys]
  /\ kind \in [Jobs -> {"upload", "url"}]
  /\ call = [r \in Jobs |-> "finding"]
  /\ answer = [r \in Jobs |-> NoJob]
  /\ staged = {} /\ deleting = {}

Request(r) == Find(r) \/ Stage(r) \/ CreateJob(r) \/ CreateFails(r) \/ Discard(r)

ApiNext ==
  \/ \E r \in Jobs : Request(r) \/ Cancel(r) \/ DeleteUpload(r) \/ WorkerRemoves(r)
  \/ \E w \in Workers, j \in Jobs : WorkerCalls(w, j)
  \/ WorkerPolls \/ Time \/ ApiCrash

ApiSpec == ApiInit /\ [][ApiNext]_apiVars

-----------------------------------------------------------------------------
(* Properties.                                                             *)

ApiTypeOK ==
  /\ TypeOK
  /\ key \in [Jobs -> Keys] /\ kind \in [Jobs -> {"upload", "url"}]
  /\ call \in [Jobs -> Calls]
  /\ answer \in [Jobs -> Jobs \cup {NoJob}]
  /\ staged \subseteq Jobs /\ deleting \subseteq Jobs

TheJob(jobs) == IF jobs = {} THEN NoJob ELSE CHOOSE j \in jobs : TRUE

\* The jobs that the keys stand for.
acceptedJobs == [k \in Keys |-> TheJob(JobsOfKey(k))]

Intake == INSTANCE VideoIntake WITH Requests <- Jobs, accepted <- acceptedJobs

\* Requests with one key that race get one job, whatever they stage, however
\* they interleave and whichever of them fails; the key is never given away.
ImplementsIntake == Intake!Spec

\* There are never two jobs for one key.
OneJobPerKey ==
  \A i, j \in Jobs :
    rows[i].status # "none" /\ rows[j].status # "none" /\ key[i] = key[j] => i = j

\* Every staged file is one that somebody will still remove or process: it is
\* the artifact of a job, or of a request that goes on, or was left behind by
\* a request that died.  And a job that waits has its file.
StagedFilesAreAccounted ==
  \A r \in Jobs : kind[r] = "upload" =>
    /\ r \in staged => rows[r].artifact = r \/ call[r] \in {"creating", "discarding", "failed"}
    /\ rows[r].status \in {"queued", "running"} /\ ~rows[r].cancel => r \in staged
=============================================================================
