---------------------------- MODULE VideoWorkerProofs ----------------------------
(***************************************************************************)
(* Theorems about the workers of VideoWorker, for every number of jobs,    *)
(* workers, attempts and kills.                                            *)
(***************************************************************************)
EXTENDS VideoWorker, VideoJobsProofs

-----------------------------------------------------------------------------
(* The worker processes.                                                   *)

Labels == Off \cup Trying \cup Handling

\* The labels at which the id of the video is known.
Located ==
  {"download", "recording", "extracting", "extract", "analyzing", "analyze",
   "finalizing", "registering", "completing", "retracting_files",
   "retracting_ownership", "on_download_timeout"}

ProcOK ==
  /\ proc \in [Workers -> Proc]
  /\ \A w \in Workers : /\ Busy(w) => proc[w].job \in Jobs
                        /\ proc[w].pc \in Located => proc[w].vid \in Artifacts

\* Worker w goes on at l with the same job, and no other worker moves.
Jumps(w, l) ==
  /\ proc' \in [Workers -> Proc]
  /\ proc'[w].pc = l
  /\ proc'[w].job = proc[w].job
  /\ proc'[w].try = proc[w].try
  /\ proc'[w].vid = proc[w].vid
  /\ proc'[w].path = proc[w].path
  /\ \A v \in Workers \ {w} : proc'[v] = proc[v]

\* Worker w is idle again.
Returns(w) ==
  /\ proc' \in [Workers -> Proc]
  /\ proc'[w] = Idle
  /\ \A v \in Workers \ {w} : proc'[v] = proc[v]

LEMMA IdleType == Idle \in Proc
<1>1. 0 \in 0 .. MaxAttempts
  BY AttemptsAssumption
<1> QED
  BY <1>1, Zenon DEF Idle, Proc, Off, Errors

LEMMA GotoJumps ==
  ASSUME proc \in [Workers -> Proc], NEW w \in Workers, NEW l \in Labels, Goto(w, l)
  PROVE  Jumps(w, l)
<1>1. PICK p : p = [proc[w] EXCEPT !.pc = l]
  OBVIOUS
<1>2. proc[w] \in Proc
  OBVIOUS
<1>3. p \in Proc
  BY <1>1, <1>2, Zenon DEF Proc, Labels
<1>4. /\ p.pc = l /\ p.job = proc[w].job /\ p.try = proc[w].try
      /\ p.vid = proc[w].vid /\ p.path = proc[w].path
  BY <1>1, <1>2, Zenon DEF Proc
<1>5. proc' = [proc EXCEPT ![w] = p]
  BY <1>1 DEF Goto
<1> QED
  BY <1>3, <1>4, <1>5 DEF Jumps

LEMMA RaiseJumps ==
  ASSUME proc \in [Workers -> Proc], NEW w \in Workers, NEW why \in Errors, Raise(w, why)
  PROVE  Jumps(w, "failing") /\ proc'[w].why = why
<1>1. PICK p : p = [[proc[w] EXCEPT !.pc = "failing"] EXCEPT !.why = why]
  OBVIOUS
<1>2. proc[w] \in Proc
  OBVIOUS
<1>3. p \in Proc
  BY <1>1, <1>2, Zenon DEF Proc, Handling
<1>4. /\ p.pc = "failing" /\ p.job = proc[w].job /\ p.try = proc[w].try
      /\ p.vid = proc[w].vid /\ p.path = proc[w].path /\ p.why = why
  BY <1>1, <1>2, Zenon DEF Proc
<1>5. proc' = [proc EXCEPT ![w] = p]
  BY <1>1, <1>2 DEF Raise
<1> QED
  BY <1>3, <1>4, <1>5 DEF Jumps

LEMMA ReturnReturns ==
  ASSUME proc \in [Workers -> Proc], NEW w \in Workers, Return(w)
  PROVE  Returns(w)
BY IdleType DEF Return, Returns

\* A checkpoint that lets the worker go on may draw the id of a download.
LEMMA PassesCheckpoint ==
  ASSUME proc \in [Workers -> Proc], NEW w \in Workers, NEW l \in Labels,
         proc' = [proc EXCEPT
                    ![w].pc = l,
                    ![w].vid = IF proc[w].pc = "downloading" THEN proc[w].try ELSE @]
  PROVE  /\ proc' \in [Workers -> Proc]
         /\ proc'[w].pc = l /\ proc'[w].job = proc[w].job /\ proc'[w].try = proc[w].try
         /\ proc'[w].vid = IF proc[w].pc = "downloading" THEN proc[w].try ELSE proc[w].vid
         /\ proc'[w].path = proc[w].path
         /\ \A v \in Workers \ {w} : proc'[v] = proc[v]
<1>1. PICK id : id = IF proc[w].pc = "downloading" THEN proc[w].try ELSE proc[w].vid
  OBVIOUS
<1>2. PICK p : p = [[proc[w] EXCEPT !.pc = l] EXCEPT !.vid = id]
  OBVIOUS
<1>3. proc[w] \in Proc
  OBVIOUS
<1>4. id \in Artifacts \cup {NoArtifact}
  BY <1>1, <1>3, IdsAssumption DEF Proc
<1>5. p \in Proc
  BY <1>2, <1>3, <1>4, Zenon DEF Proc, Labels
<1>6. /\ p.pc = l /\ p.job = proc[w].job /\ p.try = proc[w].try
      /\ p.vid = id /\ p.path = proc[w].path
  BY <1>2, <1>3, Zenon DEF Proc
<1>7. proc' = [proc EXCEPT ![w] = p]
  BY <1>1, <1>2, <1>3
<1> QED
  BY <1>1, <1>5, <1>6, <1>7

\* A download that succeeds tells the worker where it is.
LEMMA LearnsPath ==
  ASSUME proc \in [Workers -> Proc], NEW w \in Workers,
         proc' = [proc EXCEPT ![w].pc = "recording", ![w].path = proc[w].vid]
  PROVE  /\ proc' \in [Workers -> Proc]
         /\ proc'[w].pc = "recording" /\ proc'[w].job = proc[w].job
         /\ proc'[w].try = proc[w].try /\ proc'[w].vid = proc[w].vid
         /\ proc'[w].path = proc[w].vid
         /\ \A v \in Workers \ {w} : proc'[v] = proc[v]
<1>1. PICK id : id = proc[w].vid
  OBVIOUS
<1>2. PICK p : p = [[proc[w] EXCEPT !.pc = "recording"] EXCEPT !.path = id]
  OBVIOUS
<1>3. proc[w] \in Proc /\ "recording" \in Trying
  BY DEF Trying
<1>4. id \in Artifacts \cup {NoArtifact}
  BY <1>1, <1>3 DEF Proc
<1>5. p \in Proc
  BY <1>2, <1>3, <1>4, Zenon DEF Proc
<1>6. /\ p.pc = "recording" /\ p.job = proc[w].job /\ p.try = proc[w].try
      /\ p.vid = proc[w].vid /\ p.path = id
  BY <1>2, <1>3, Zenon DEF Proc
<1>7. proc' = [proc EXCEPT ![w] = p]
  BY <1>1, <1>2, <1>3
<1> QED
  BY <1>1, <1>5, <1>6, <1>7

\* The heartbeat thread touches nothing but heartbeat.lost.
LEMMA LosesHeart ==
  ASSUME proc \in [Workers -> Proc], NEW w \in Workers,
         proc' = [proc EXCEPT ![w].lost = TRUE]
  PROVE  Jumps(w, proc[w].pc) /\ proc'[w].why = proc[w].why
<1>1. PICK p : p = [proc[w] EXCEPT !.lost = TRUE]
  OBVIOUS
<1>2. proc[w] \in Proc
  OBVIOUS
<1>3. p \in Proc
  BY <1>1, <1>2, Zenon DEF Proc
<1>4. /\ p.pc = proc[w].pc /\ p.job = proc[w].job /\ p.try = proc[w].try
      /\ p.vid = proc[w].vid /\ p.path = proc[w].path /\ p.why = proc[w].why
  BY <1>1, <1>2, Zenon DEF Proc
<1>5. proc' = [proc EXCEPT ![w] = p]
  BY <1>1
<1> QED
  BY <1>3, <1>4, <1>5 DEF Jumps

\* A worker that is killed leaves the others alone.
LEMMA Dies ==
  ASSUME proc \in [Workers -> Proc], NEW w \in Workers,
         proc' = [proc EXCEPT ![w] = [Idle EXCEPT !.pc = "dead"]]
  PROVE  /\ proc' \in [Workers -> Proc]
         /\ proc'[w].pc = "dead" /\ proc'[w].job = NoJob
         /\ \A v \in Workers \ {w} : proc'[v] = proc[v]
<1>1. PICK p : p = [Idle EXCEPT !.pc = "dead"]
  OBVIOUS
<1>2. p \in Proc /\ p.pc = "dead"
  BY <1>1, IdleType, Zenon DEF Proc, Off
<1>3. p.job = NoJob
  BY <1>1 DEF Idle
<1> QED
  BY <1>1, <1>2, <1>3

\* The state of a worker that has claimed job j.
LEMMA Claims ==
  ASSUME proc \in [Workers -> Proc], NEW w \in Workers, NEW j \in Jobs,
         rows'[j] \in Row, rows'[j].attempts <= MaxAttempts,
         ClaimJob(w, j)
  PROVE  /\ proc' \in [Workers -> Proc]
         /\ proc'[w].pc = "preparing" /\ proc'[w].job = j
         /\ proc'[w].try = rows'[j].attempts
         /\ proc'[w].vid = rows'[j].artifact /\ proc'[w].path = rows'[j].artifact
         /\ \A v \in Workers \ {w} : proc'[v] = proc[v]
<1>1. PICK n, a : n = rows'[j].attempts /\ a = rows'[j].artifact
  OBVIOUS
<1>2. n \in 0 .. MaxAttempts /\ a \in Artifacts \cup {NoArtifact}
  BY <1>1, AttemptsAssumption DEF Row
<1>3. PICK p : p = [pc |-> "preparing", job |-> j, try |-> n, vid |-> a, path |-> a,
                    lost |-> FALSE, why |-> "error"]
  OBVIOUS
<1>4. p \in Proc
  BY <1>2, <1>3, Zenon DEF Proc, Trying, Checkpoints, Errors
<1>5. proc' = [proc EXCEPT ![w] = p]
  BY <1>1, <1>3 DEF ClaimJob
<1>6. p.pc = "preparing" /\ p.job = j /\ p.try = n /\ p.vid = a /\ p.path = a
  BY <1>3
<1> QED
  BY <1>1, <1>4, <1>5, <1>6

-----------------------------------------------------------------------------
(* The workers over the queue.                                             *)

LEMMA IdIsArtifact == 0 \in Artifacts
BY IdsAssumption, AttemptsAssumption

\* Every step of the workers, the API and the clock is a step of the queue.
LEMMA WorkersStepIsQueueStep ==
  ASSUME ProcOK, [WorkersNext]_vars
  PROVE  [Next]_jobVars
<1>1. ASSUME NEW w \in Workers, NEW j \in Jobs, WorkerCall(w, j) PROVE [Next]_jobVars
  BY <1>1 DEF Next
<1>2. ASSUME NEW w \in Workers, WorkerStep(w) PROVE [Next]_jobVars
  <2> DEFINE j == proc[w].job
  <2>1. CASE RecordArtifact(w)
    <3>1. j \in Jobs /\ proc[w].vid \in Artifacts
      BY <2>1 DEF RecordArtifact, ProcOK, Busy, Off, Located
    <3> QED
      BY <1>1, <2>1, <3>1 DEF RecordArtifact, WorkerCall, jobVars
  <2>2. CASE CompleteJob(w)
    <3>1. j \in Jobs
      BY <2>2 DEF CompleteJob, ProcOK, Busy, Off
    <3> QED
      BY <1>1, <2>2, <3>1 DEF CompleteJob, WorkerCall, jobVars
  <2>3. CASE Close(w)
    <3>1. j \in Jobs
      BY <2>3 DEF Close, ProcOK, Busy, Off
    <3> QED
      BY <1>1, <2>3, <3>1 DEF Close, WorkerCall, jobVars
  <2>4. CASE FailJob(w)
    <3>1. j \in Jobs
      BY <2>4 DEF FailJob, ProcOK, Busy, Off
    <3>2. CASE Fail(w, j, proc[w].why # "value_final")
      <4>1. PICK retryable \in BOOLEAN : retryable = (proc[w].why # "value_final")
        OBVIOUS
      <4>2. WorkerCall(w, j)
        BY <3>2, <4>1 DEF WorkerCall
      <4> QED
        BY <1>1, <3>1, <4>2
    <3> QED
      BY <2>4, <3>2 DEF FailJob, jobVars
  <2>5. ASSUME WorkerStep(w), ~RecordArtifact(w), ~CompleteJob(w), ~Close(w), ~FailJob(w)
        PROVE  UNCHANGED rows
    BY <2>5 DEF WorkerStep, Checkpoint, Validate, Discard, StageSucceeds, StageInterrupted,
                StageTimesOut, StageRejects, StageErrors, Register, RetractFiles,
                RetractOwnership, OnCancel, OnDownloadTimeout, CleanUp, CallFails
  <2> QED
    BY <1>2, <2>1, <2>2, <2>3, <2>4, <2>5 DEF jobVars
<1>3. ASSUME NEW w \in Workers, NEW j \in Jobs, ClaimJob(w, j) PROVE [Next]_jobVars
  BY <1>1, <1>3 DEF ClaimJob, WorkerCall
<1>4. ASSUME NEW w \in Workers, Beat(w) PROVE [Next]_jobVars
  <2>1. proc[w].job \in Jobs
    BY <1>4 DEF Beat, ProcOK
  <2> QED
    BY <1>1, <1>4, <2>1 DEF Beat, WorkerCall, jobVars
<1>5. ASSUME NEW w \in Workers, BeatFails(w) \/ Crash(w) \/ Restart(w) PROVE [Next]_jobVars
  BY <1>5 DEF BeatFails, Crash, Restart, jobVars
<1>6. ASSUME NEW j \in Jobs, Enqueue(j) PROVE [Next]_jobVars
  <2>1. Create(j, IF j \in Uploads THEN 0 ELSE NoArtifact)
    BY <1>6 DEF Enqueue
  <2> QED
    BY <2>1, IdIsArtifact DEF Next, ApiCall
<1>7. ASSUME NEW j \in Jobs, Cancel(j) \/ DeleteUpload(j) PROVE [Next]_jobVars
  BY <1>7 DEF Cancel, DeleteUpload, Next, ApiCall, jobVars
<1>8. CASE Poll \/ Time
  BY <1>8 DEF Poll, Time, Next
<1>9. CASE ApiCrash \/ UNCHANGED vars
  BY <1>9 DEF ApiCrash, vars, jobVars
<1> QED
  BY <1>2, <1>3, <1>4, <1>5, <1>6, <1>7, <1>8, <1>9 DEF WorkersNext

\* A worker that goes on with its job.
LEMMA JumpKeepsProcOK ==
  ASSUME ProcOK, NEW w \in Workers, NEW l, Jumps(w, l),
         Busy(w), l \notin Off, l \in Located => proc[w].vid \in Artifacts
  PROVE  ProcOK'
BY DEF ProcOK, Jumps, Busy

LEMMA ReturnKeepsProcOK ==
  ASSUME ProcOK, NEW w \in Workers, Returns(w)
  PROVE  ProcOK'
<1>1. proc'[w].pc \notin Located /\ proc'[w].pc \in Off
  BY DEF Returns, Idle, Off, Located
<1> QED
  BY <1>1 DEF ProcOK, Returns, Busy

\* No step of a worker's main thread loses its job or its video.
LEMMA WorkerStepKeepsProcOK ==
  ASSUME ProcOK, NEW w \in Workers, WorkerStep(w)
  PROVE  ProcOK'
<1> USE DEF Labels, Off, Trying, Handling, Checkpoints, Stages, Busy
<1>1. proc \in [Workers -> Proc] /\ proc[w] \in Proc
  BY DEF ProcOK
<1>2. Busy(w)
  BY DEF WorkerStep, Checkpoint, Validate, Discard, StageSucceeds, StageInterrupted,
         StageTimesOut, StageRejects, StageErrors, RecordArtifact, Register, CompleteJob,
         RetractFiles, RetractOwnership, OnCancel, Close, OnDownloadTimeout, FailJob,
         CleanUp, CallFails
<1>3. ASSUME NEW why \in Errors, Raise(w, why) PROVE ProcOK'
  BY <1>1, <1>2, <1>3, RaiseJumps, JumpKeepsProcOK DEF Located
<1>4. ASSUME NEW l \in Trying \cup Handling, Goto(w, l),
             l \in Located => proc[w].vid \in Artifacts
      PROVE  ProcOK'
  <2>1. Jumps(w, l)
    BY <1>1, <1>4, GotoJumps
  <2> QED
    BY <1>2, <1>4, <2>1, JumpKeepsProcOK
<1>5. ASSUME Return(w) PROVE ProcOK'
  BY <1>1, <1>5, ReturnReturns, ReturnKeepsProcOK
<1>6. proc[w].pc \in Located => proc[w].vid \in Artifacts
  BY DEF ProcOK
<1>7. HasArtifact(w) => proc[w].vid \in Artifacts
  BY <1>1 DEF HasArtifact, Proc
<1>8. {"timeout", "value_retry", "value_final", "error"} \subseteq Errors
  BY DEF Errors
<1>9. CASE Checkpoint(w)
  <2>1. CASE ~proc[w].lost /\ HoldsLease(w) /\ ~CancelSeen(w)
    <3>1. AfterCheckpoint(w) \in {"validating", "discarding", "downloading", "download",
                                  "extract", "analyze", "registering"}
      BY <1>9 DEF Checkpoint, AfterCheckpoint
    <3> DEFINE l == AfterCheckpoint(w)
    <3>2. proc' = [proc EXCEPT
                     ![w].pc = l,
                     ![w].vid = IF proc[w].pc = "downloading" THEN proc[w].try ELSE @]
      BY <1>9, <2>1 DEF Checkpoint
    <3>3. /\ l \in Labels /\ l \notin Off
          /\ l \in Located => proc[w].pc = "downloading" \/ proc[w].pc \in Located
      BY <1>9, <3>1 DEF Checkpoint, AfterCheckpoint, Located
    <3> HIDE DEF l
    <3>4. /\ proc' \in [Workers -> Proc]
          /\ proc'[w].pc = l /\ proc'[w].job = proc[w].job
          /\ proc'[w].vid = IF proc[w].pc = "downloading" THEN proc[w].try ELSE proc[w].vid
          /\ \A v \in Workers \ {w} : proc'[v] = proc[v]
      BY <1>1, <3>2, <3>3, PassesCheckpoint
    <3>5. l \in Located => proc'[w].vid \in Artifacts
      BY <1>1, <1>6, <3>3, <3>4, IdsAssumption DEF Proc
    <3> QED
      BY <1>2, <3>3, <3>4, <3>5 DEF ProcOK
  <2> QED
    BY <1>3, <1>4, <1>8, <1>9, <2>1 DEF Checkpoint, Located
<1>10. CASE Validate(w)
  BY <1>3, <1>4, <1>7, <1>8, <1>10 DEF Validate
<1>11. CASE Discard(w) \/ OnCancel(w)
  BY <1>4, <1>11 DEF Discard, OnCancel, Located
<1>12. CASE StageSucceeds(w)
  <2>1. CASE proc[w].pc = "download"
    <3>1. proc' = [proc EXCEPT ![w].pc = "recording", ![w].path = proc[w].vid]
      BY <1>12, <2>1 DEF StageSucceeds
    <3>2. /\ proc' \in [Workers -> Proc]
          /\ proc'[w].pc = "recording" /\ proc'[w].job = proc[w].job
          /\ proc'[w].vid = proc[w].vid
          /\ \A v \in Workers \ {w} : proc'[v] = proc[v]
      BY <1>1, <3>1, LearnsPath
    <3> QED
      BY <1>2, <1>6, <2>1, <3>2 DEF ProcOK, Located
  <2> QED
    BY <1>4, <1>6, <1>12, <2>1 DEF StageSucceeds, Located
<1>13. CASE StageInterrupted(w) \/ StageTimesOut(w)
  BY <1>3, <1>4, <1>6, <1>8, <1>13 DEF StageInterrupted, StageTimesOut, Located
<1>14. CASE StageRejects(w) \/ StageErrors(w) \/ OnDownloadTimeout(w) \/ CallFails(w)
  BY <1>3, <1>8, <1>14 DEF StageRejects, StageErrors, OnDownloadTimeout, CallFails
<1>15. CASE RecordArtifact(w)
  BY <1>3, <1>4, <1>6, <1>8, <1>15 DEF RecordArtifact, Located
<1>16. CASE Register(w) \/ CompleteJob(w) \/ RetractFiles(w) \/ RetractOwnership(w)
  BY <1>3, <1>4, <1>5, <1>6, <1>8, <1>16
     DEF Register, CompleteJob, RetractFiles, RetractOwnership, Located
<1>17. CASE Close(w) \/ FailJob(w) \/ CleanUp(w)
  BY <1>4, <1>5, <1>17 DEF Close, FailJob, CleanUp, Located
<1> QED
  BY <1>9, <1>10, <1>11, <1>12, <1>13, <1>14, <1>15, <1>16, <1>17 DEF WorkerStep

LEMMA ProcOKStep ==
  ASSUME IInv, ProcOK, [WorkersNext]_vars
  PROVE  ProcOK'
<1>1. ASSUME NEW w \in Workers, WorkerStep(w) PROVE ProcOK'
  BY <1>1, WorkerStepKeepsProcOK
<1>2. ASSUME NEW w \in Workers, NEW j \in Jobs, ClaimJob(w, j) PROVE ProcOK'
  <2>1. RowInv(rows'[j])
    BY <1>2, ClaimStep DEF ClaimJob, TableStep, RowStep
  <2>2. /\ proc' \in [Workers -> Proc]
        /\ proc'[w].pc = "preparing" /\ proc'[w].job = j
        /\ \A v \in Workers \ {w} : proc'[v] = proc[v]
    BY <1>2, <2>1, Claims DEF RowInv, ProcOK
  <2> QED
    BY <2>2 DEF ProcOK, Busy, Located
<1>3. ASSUME NEW w \in Workers, Beat(w) \/ BeatFails(w) PROVE ProcOK'
  <2>1. CASE proc' = [proc EXCEPT ![w].lost = TRUE]
    BY <1>3, <2>1, LosesHeart, JumpKeepsProcOK DEF Beat, BeatFails, Busy, ProcOK
  <2> QED
    BY <1>3, <2>1 DEF Beat, BeatFails, ProcOK, Busy
<1>4. ASSUME NEW w \in Workers, Crash(w) PROVE ProcOK'
  <2>1. /\ proc' \in [Workers -> Proc] /\ proc'[w].pc = "dead"
        /\ \A v \in Workers \ {w} : proc'[v] = proc[v]
    BY <1>4, Dies DEF Crash, ProcOK
  <2> QED
    BY <2>1 DEF ProcOK, Busy, Off, Located
<1>5. ASSUME NEW w \in Workers, Restart(w) PROVE ProcOK'
  BY <1>5, ReturnReturns, ReturnKeepsProcOK DEF Restart, ProcOK
<1>6. ASSUME NEW j \in Jobs, Enqueue(j) \/ Cancel(j) \/ DeleteUpload(j) PROVE UNCHANGED proc
  BY <1>6 DEF Enqueue, Cancel, DeleteUpload
<1>7. ASSUME Poll \/ Time \/ ApiCrash \/ UNCHANGED vars PROVE UNCHANGED proc
  BY <1>7 DEF Poll, Time, ApiCrash, vars
<1>8. ASSUME UNCHANGED proc PROVE ProcOK'
  BY <1>8 DEF ProcOK, Busy
<1> QED
  BY <1>1, <1>2, <1>3, <1>4, <1>5, <1>6, <1>7, <1>8 DEF WorkersNext

-----------------------------------------------------------------------------
(* What the calls of the queue do to leases and cancellation requests.     *)

\* The calls a worker makes about the job it holds.
HonestCall(w, j) ==
  \/ Heartbeat(w, j)
  \/ \E artifact \in Artifacts : SetArtifact(w, j, artifact)
  \/ Complete(w, j)
  \/ \E retryable \in BOOLEAN : Fail(w, j, retryable)

\* The last of them does not look at the request it carries out.
HeldCall(w, j) == HonestCall(w, j) \/ CancelClaimed(w, j)

\* Worker v does not come into the lease of job i.
GainsNothing(v, i) == Owns(v, i)' => Owns(v, i)

\* Worker v does not lose an unexpired lease of job i.
KeepsLive(v, i) ==
  Owns(v, i) /\ rows[i].lease >= 0 => Owns(v, i)' /\ rows'[i].lease >= 0

\* Recovery only takes leases away, and only expired ones.  It cancels only
\* what was asked for.
LEMMA RecoveredLease ==
  ASSUME NEW r, RowInv(r)
  PROVE  /\ Recovered(r).status = "running" => Recovered(r) = r
         /\ r.status = "running" /\ r.lease >= 0 => Recovered(r) = r
         /\ Recovered(r).status = "cancelled" => r.status = "cancelled" \/ r.cancel
         /\ Recovered(r).cancel = r.cancel
<1>1. r \in Row
  BY DEF RowInv
<1>2. CASE ~Expired(r)
  BY <1>2 DEF Recovered
<1>3. CASE Expired(r)
  <2>1. \A status : /\ Released(r, status).status = status
                    /\ Released(r, status).cancel = r.cancel
    BY <1>1, Zenon DEF Row, Released
  <2>2. PICK f : f = [Released(r, "failed") EXCEPT !.error = TRUE]
    OBVIOUS
  <2>3. PICK q : q = [Released(r, "queued") EXCEPT !.wait = 0]
    OBVIOUS
  <2>4. f.status = "failed" /\ f.cancel = r.cancel
    BY <1>1, <2>2, Zenon DEF Row, Released
  <2>5. q.status = "queued" /\ q.cancel = r.cancel
    BY <1>1, <2>3, Zenon DEF Row, Released
  <2>6. \/ Recovered(r) = Released(r, "cancelled") /\ r.cancel
        \/ Recovered(r) \in {f, q}
    BY <1>3, <2>2, <2>3 DEF Recovered
  <2>7. ~(r.lease >= 0)
    BY <1>1, <1>3, TimesAssumption DEF Expired, Row
  <2> QED
    BY <2>1, <2>4, <2>5, <2>6, <2>7
<1> QED
  BY <1>2, <1>3

\* The rows that a claim leaves.
LEMMA ClaimRows ==
  ASSUME IInv, NEW w \in Workers, NEW j \in Jobs, Claim(w, j)
  PROVE  /\ \A i \in Jobs \ {j} : rows'[i] = Recovered(rows[i])
         /\ Recovered(rows[j]).status = "queued"
         /\ rows'[j].status = "running" /\ rows'[j].owner = w
         /\ rows'[j].lease = LeaseTicks
         /\ rows'[j].cancel = Recovered(rows[j]).cancel
         /\ rows'[j].attempts = Recovered(rows[j]).attempts + 1
<1> DEFINE r == Recovered(rows[j])
<1>1. r \in Row
  BY RecoveredStep DEF IInv, RowStep, RowInv
<1>2. /\ r.status = "queued"
      /\ rows' = [RecoveredRows EXCEPT ![j] = Leased(r, w)]
  BY DEF Claim, Claimable, RecoveredRows
<1>3. rows'[j] = Leased(r, w)
  BY <1>2 DEF RecoveredRows
<1>4. \A i \in Jobs \ {j} : rows'[i] = Recovered(rows[i])
  BY <1>2 DEF RecoveredRows
<1> HIDE DEF r
<1>5. /\ Leased(r, w).status = "running" /\ Leased(r, w).owner = w
      /\ Leased(r, w).lease = LeaseTicks /\ Leased(r, w).cancel = r.cancel
      /\ Leased(r, w).attempts = r.attempts + 1
  BY <1>1, Zenon DEF Leased, Row
<1> QED
  BY <1>2, <1>3, <1>4, <1>5 DEF r

\* The rows that a call about a held job leaves.
LEMMA HeldCallRows ==
  ASSUME IInv, NEW w \in Workers, NEW j \in Jobs, HeldCall(w, j)
  PROVE  /\ \A i \in Jobs \ {j} : rows'[i] = rows[i]
         /\ Owns(w, j)
         /\ rows'[j].status = "running" =>
              /\ rows'[j].owner = w
              /\ rows'[j].lease \in {rows[j].lease, LeaseTicks}
         /\ rows'[j].cancel = rows[j].cancel
         /\ HonestCall(w, j) => (rows'[j].status = "cancelled" => rows[j].cancel)
         /\ Heartbeat(w, j) => rows'[j].status = "running"
         /\ (\E artifact \in Artifacts : SetArtifact(w, j, artifact))
              => rows'[j].status = "running"
<1> DEFINE Kept == /\ rows'[j].status = "running" =>
                        /\ rows'[j].owner = w
                        /\ rows'[j].lease \in {rows[j].lease, LeaseTicks}
                   /\ rows'[j].cancel = rows[j].cancel
           Honest == rows'[j].status = "cancelled" => rows[j].cancel
<1>1. rows[j] \in Row /\ rows \in [Jobs -> Row]
  BY DEF IInv
<1>2. Owns(w, j) /\ rows[j].status = "running" /\ rows[j].owner = w
  BY DEF HeldCall, HonestCall, Heartbeat, SetArtifact, Complete, CancelClaimed, Fail, Owns
<1>3. \A i \in Jobs \ {j} : rows'[i] = rows[i]
  BY <1>1 DEF HeldCall, HonestCall, Heartbeat, SetArtifact, Complete, CancelClaimed, Fail
<1>4. ASSUME Heartbeat(w, j) PROVE Kept /\ Honest /\ rows'[j].status = "running"
  <2>1. PICK s : s = [rows[j] EXCEPT !.lease = LeaseTicks]
    OBVIOUS
  <2>2. rows'[j] = s
    BY <1>1, <1>4, <2>1 DEF Heartbeat
  <2>3. s.status = "running" /\ s.owner = w /\ s.lease = LeaseTicks /\ s.cancel = rows[j].cancel
    BY <1>1, <1>2, <2>1, Zenon DEF Row
  <2> QED
    BY <1>2, <1>3, <2>2, <2>3
<1>5. ASSUME NEW artifact \in Artifacts, SetArtifact(w, j, artifact)
      PROVE  Kept /\ Honest /\ rows'[j].status = "running"
  <2>1. PICK s : s = [rows[j] EXCEPT !.artifact = artifact]
    OBVIOUS
  <2>2. rows'[j] = s
    BY <1>1, <1>5, <2>1 DEF SetArtifact
  <2>3. s.status = "running" /\ s.owner = w /\ s.lease = rows[j].lease /\ s.cancel = rows[j].cancel
    BY <1>1, <1>2, <2>1, Zenon DEF Row
  <2> QED
    BY <2>2, <2>3
<1>6. ASSUME Complete(w, j) PROVE Kept /\ Honest
  <2>1. PICK s : s = [[Released(rows[j], "succeeded") EXCEPT !.result = TRUE] EXCEPT !.error = FALSE]
    OBVIOUS
  <2>2. rows'[j] = s
    BY <1>1, <1>6, <2>1 DEF Complete
  <2>3. s.status = "succeeded" /\ s.cancel = rows[j].cancel
    BY <1>1, <2>1, Zenon DEF Row, Released
  <2> QED
    BY <1>2, <1>3, <2>2, <2>3
<1>7. ASSUME CancelClaimed(w, j) PROVE Kept
  <2>1. rows'[j] = Released(rows[j], "cancelled")
    BY <1>1, <1>7 DEF CancelClaimed
  <2>2. /\ Released(rows[j], "cancelled").status = "cancelled"
        /\ Released(rows[j], "cancelled").cancel = rows[j].cancel
    BY <1>1, Zenon DEF Row, Released
  <2> QED
    BY <1>2, <1>3, <1>7, <2>1, <2>2
<1>8. ASSUME NEW retryable \in BOOLEAN, Fail(w, j, retryable)
      PROVE  Kept /\ Honest
  <2>1. PICK f : f = [rows[j] EXCEPT !.error = TRUE]
    OBVIOUS
  <2>2. f \in Row /\ f.cancel = rows[j].cancel
    BY <1>1, <2>1, Zenon DEF Row
  <2>3. \A status : /\ Released(f, status).status = status
                    /\ Released(f, status).cancel = f.cancel
    BY <2>2, Zenon DEF Row, Released
  <2>4. PICK q : q = [Released(f, "queued") EXCEPT !.wait = Backoff(rows[j].attempts)]
    OBVIOUS
  <2>5. q.status = "queued" /\ q.cancel = f.cancel
    BY <2>2, <2>4, Zenon DEF Row, Released
  <2>6. \/ rows'[j] = Released(f, "cancelled") /\ rows[j].cancel
        \/ rows'[j] = Released(f, "failed")
        \/ rows'[j] = q
    BY <1>1, <1>8, <2>1, <2>4 DEF Fail, Failed
  <2> QED
    BY <2>2, <2>3, <2>5, <2>6
<1> QED
  BY <1>2, <1>3, <1>4, <1>5, <1>6, <1>7, <1>8 DEF HeldCall, HonestCall

LEMMA ClaimLeases ==
  ASSUME IInv, NEW w \in Workers, NEW j \in Jobs, Claim(w, j),
         NEW v \in Workers, NEW i \in Jobs, v # w \/ i # j
  PROVE  GainsNothing(v, i) /\ KeepsLive(v, i)
<1>1. CASE i = j
  <2>1. rows'[j].owner = w /\ Recovered(rows[j]).status = "queued"
    BY ClaimRows
  <2>2. ~(rows[j].status = "running" /\ rows[j].lease >= 0)
    BY <2>1, RecoveredLease DEF IInv
  <2> QED
    BY <1>1, <2>1, <2>2 DEF GainsNothing, KeepsLive, Owns
<1>2. CASE i # j
  <2>1. rows'[i] = Recovered(rows[i])
    BY <1>2, ClaimRows
  <2> QED
    BY <2>1, RecoveredLease DEF IInv, GainsNothing, KeepsLive, Owns
<1> QED
  BY <1>1, <1>2

LEMMA HeldCallLeases ==
  ASSUME IInv, NEW w \in Workers, NEW j \in Jobs, HeldCall(w, j),
         NEW v \in Workers, NEW i \in Jobs
  PROVE  GainsNothing(v, i) /\ (v # w \/ i # j => KeepsLive(v, i))
<1>1. CASE i = j
  BY <1>1, HeldCallRows DEF GainsNothing, KeepsLive, Owns
<1>2. CASE i # j
  BY <1>2, HeldCallRows DEF GainsNothing, KeepsLive, Owns
<1> QED
  BY <1>1, <1>2

\* The calls that are not a worker's.
QuietCall ==
  \/ ClaimNothing
  \/ \E j \in Jobs, artifact \in Artifacts \cup {NoArtifact} : Create(j, artifact)
  \/ \E j \in Jobs : RequestCancellation(j)
  \/ UNCHANGED rows

LEMMA QuietCallLeases ==
  ASSUME IInv, QuietCall, NEW i \in Jobs
  PROVE  /\ \A v \in Workers : GainsNothing(v, i) /\ KeepsLive(v, i)
         /\ rows'[i].status = "cancelled" => rows[i].status = "cancelled" \/ rows'[i].cancel
<1>1. rows[i] \in Row /\ rows \in [Jobs -> Row]
  BY DEF IInv
<1>2. CASE ClaimNothing
  <2>1. rows'[i] = Recovered(rows[i])
    BY <1>2 DEF ClaimNothing, RecoveredRows
  <2> QED
    BY <2>1, RecoveredLease DEF IInv, GainsNothing, KeepsLive, Owns
<1>3. ASSUME NEW j \in Jobs, NEW artifact \in Artifacts \cup {NoArtifact}, Create(j, artifact)
      PROVE  /\ \A v \in Workers : GainsNothing(v, i) /\ KeepsLive(v, i)
             /\ rows'[i].status = "cancelled" => rows[i].status = "cancelled" \/ rows'[i].cancel
  <2>1. CASE i # j
    BY <1>1, <1>3, <2>1 DEF Create, GainsNothing, KeepsLive, Owns
  <2>2. CASE i = j
    BY <1>1, <1>3, <2>2 DEF Create, NoRow, GainsNothing, KeepsLive, Owns
  <2> QED
    BY <2>1, <2>2
<1>4. ASSUME NEW j \in Jobs, RequestCancellation(j)
      PROVE  /\ \A v \in Workers : GainsNothing(v, i) /\ KeepsLive(v, i)
             /\ rows'[i].status = "cancelled" => rows[i].status = "cancelled" \/ rows'[i].cancel
  <2>1. CASE i # j
    BY <1>1, <1>4, <2>1 DEF RequestCancellation, GainsNothing, KeepsLive, Owns
  <2>2. CASE i = j
    <3>1. PICK s, t : /\ s = [[rows[i] EXCEPT !.status = "cancelled"] EXCEPT !.cancel = TRUE]
                      /\ t = [rows[i] EXCEPT !.cancel = TRUE]
      OBVIOUS
    <3>2. \/ rows[i].status = "queued" /\ rows'[i] = s
          \/ rows[i].status = "running" /\ rows'[i] = t
      BY <1>1, <1>4, <2>2, <3>1 DEF RequestCancellation
    <3>3. s.status = "cancelled" /\ s.cancel = TRUE
      BY <1>1, <3>1, Zenon DEF Row
    <3>4. /\ t.status = rows[i].status /\ t.owner = rows[i].owner /\ t.lease = rows[i].lease
      BY <1>1, <3>1, Zenon DEF Row
    <3> QED
      BY <3>2, <3>3, <3>4 DEF GainsNothing, KeepsLive, Owns
  <2> QED
    BY <2>1, <2>2
<1>5. CASE UNCHANGED rows
  BY <1>5 DEF GainsNothing, KeepsLive, Owns
<1> QED
  BY <1>2, <1>3, <1>4, <1>5 DEF QuietCall

\* A unit of time takes no lease away that was not down to its last one.
LEMMA TickLeases ==
  ASSUME IInv, Tick, NEW i \in Jobs
  PROVE  /\ \A v \in Workers :
              /\ GainsNothing(v, i)
              /\ Owns(v, i) /\ rows[i].lease > 0 => Owns(v, i)' /\ rows'[i].lease >= 0
         /\ rows'[i].status = rows[i].status /\ rows'[i].cancel = rows[i].cancel
<1>1. rows[i] \in Row
  BY DEF IInv
<1>2. PICK l, m : /\ l = IF rows[i].status = "running" /\ rows[i].lease >= 0
                         THEN rows[i].lease - 1 ELSE rows[i].lease
                 /\ m = IF rows[i].status = "queued" /\ rows[i].wait > 0
                         THEN rows[i].wait - 1 ELSE rows[i].wait
  OBVIOUS
<1>3. PICK s : s = [[rows[i] EXCEPT !.lease = l] EXCEPT !.wait = m]
  OBVIOUS
<1>4. rows'[i] = s
  BY <1>1, <1>2, <1>3 DEF Tick
<1>5. /\ s.status = rows[i].status /\ s.owner = rows[i].owner
      /\ s.lease = l /\ s.cancel = rows[i].cancel
  BY <1>1, <1>3, Zenon DEF Row
<1>6. rows[i].lease \in Int
  BY <1>1, TimesAssumption DEF Row
<1> QED
  BY <1>2, <1>4, <1>5, <1>6 DEF GainsNothing, Owns

-----------------------------------------------------------------------------
(* What a step of a worker's main thread comes to.                         *)

\* The labels at which a worker carries out a cancellation.
Cancelling == {"on_cancel", "retracting_files", "retracting_ownership", "closing"}

\* The labels before the call that gives the lease back.
Holding == Trying \cup (Handling \ {"cleaning"})

\* It goes on, without touching the table.
GoesOn(w) ==
  /\ UNCHANGED rows
  /\ proc'[w].job = proc[w].job
  /\ proc'[w].pc \in Holding => proc[w].pc \in Holding
  /\ proc'[w].pc \in Cancelling =>
       proc[w].pc \in Cancelling \/ ~HoldsLease(w) \/ CancelSeen(w)

\* It records the artifact of its job.
Records(w) ==
  /\ SetArtifact(w, proc[w].job, proc[w].vid)
  /\ proc[w].pc = "recording" /\ proc'[w].pc = "extracting"
  /\ proc'[w].job = proc[w].job

\* It reports a failure and cleans up.
Reports(w) ==
  /\ \E retryable \in BOOLEAN : Fail(w, proc[w].job, retryable)
  /\ proc'[w].pc = "cleaning"
  /\ proc'[w].job = proc[w].job

\* It is done with its job.
Ends(w) ==
  /\ \/ UNCHANGED rows
     \/ HonestCall(w, proc[w].job)
     \/ proc[w].pc = "closing" /\ CancelClaimed(w, proc[w].job)
  /\ proc'[w] = Idle

LEMMA WorkerStepEffect ==
  ASSUME ProcOK, NEW w \in Workers, WorkerStep(w)
  PROVE  GoesOn(w) \/ Records(w) \/ Reports(w) \/ Ends(w)
<1> USE DEF Labels, Off, Trying, Handling, Holding, Checkpoints, Stages, Cancelling
<1>1. proc \in [Workers -> Proc] /\ proc[w] \in Proc
  BY DEF ProcOK
<1>2. ASSUME NEW why \in Errors, Raise(w, why), UNCHANGED rows, proc[w].pc \in Holding
      PROVE  GoesOn(w)
  BY <1>1, <1>2, RaiseJumps DEF Jumps, GoesOn
<1>3. ASSUME NEW l \in Trying \cup Handling, Goto(w, l)
      PROVE  proc'[w].pc = l /\ proc'[w].job = proc[w].job
  BY <1>1, <1>3, GotoJumps DEF Jumps
<1>4. ASSUME NEW l \in Trying \cup Handling, Goto(w, l), UNCHANGED rows,
             l \in Holding => proc[w].pc \in Holding,
             l \in Cancelling =>
               proc[w].pc \in Cancelling \/ ~HoldsLease(w) \/ CancelSeen(w)
      PROVE  GoesOn(w)
  BY <1>3, <1>4 DEF GoesOn
<1>5. ASSUME Return(w) PROVE proc'[w] = Idle
  BY <1>1, <1>5, ReturnReturns DEF Returns
<1>6. {"timeout", "value_retry", "value_final", "error"} \subseteq Errors
  BY DEF Errors
<1>7. CASE Checkpoint(w)
  <2>1. CASE ~proc[w].lost /\ HoldsLease(w) /\ ~CancelSeen(w)
    <3> DEFINE l == AfterCheckpoint(w)
    <3>1. l \in {"validating", "discarding", "downloading", "download",
                 "extract", "analyze", "registering"}
      BY <1>7 DEF Checkpoint, AfterCheckpoint
    <3>2. /\ proc' = [proc EXCEPT
                        ![w].pc = l,
                        ![w].vid = IF proc[w].pc = "downloading" THEN proc[w].try ELSE @]
          /\ proc[w].pc \in Holding /\ UNCHANGED rows
      BY <1>7, <2>1 DEF Checkpoint
    <3> HIDE DEF l
    <3>3. proc'[w].pc = l /\ proc'[w].job = proc[w].job
      BY <1>1, <3>1, <3>2, PassesCheckpoint
    <3> QED
      BY <3>1, <3>2, <3>3 DEF GoesOn
  <2> QED
    BY <1>2, <1>4, <1>6, <1>7, <2>1 DEF Checkpoint
<1>8. CASE Validate(w) \/ Discard(w) \/ OnCancel(w)
  BY <1>2, <1>4, <1>6, <1>8 DEF Validate, Discard, OnCancel
<1>9. CASE StageSucceeds(w)
  <2>1. CASE proc[w].pc = "download"
    <3>1. proc' = [proc EXCEPT ![w].pc = "recording", ![w].path = proc[w].vid]
      BY <1>9, <2>1 DEF StageSucceeds
    <3>2. proc'[w].pc = "recording" /\ proc'[w].job = proc[w].job
      BY <1>1, <3>1, LearnsPath
    <3> QED
      BY <1>9, <2>1, <3>2 DEF GoesOn, StageSucceeds
  <2> QED
    BY <1>4, <1>9, <2>1 DEF StageSucceeds
<1>10. CASE StageInterrupted(w) \/ StageTimesOut(w)
  BY <1>2, <1>4, <1>6, <1>10 DEF StageInterrupted, StageTimesOut
<1>11. CASE StageRejects(w) \/ StageErrors(w) \/ OnDownloadTimeout(w) \/ CallFails(w)
  BY <1>2, <1>6, <1>11 DEF StageRejects, StageErrors, OnDownloadTimeout, CallFails
<1>12. CASE RecordArtifact(w)
  BY <1>2, <1>3, <1>6, <1>12 DEF RecordArtifact, Records
<1>13. CASE Register(w) \/ RetractFiles(w) \/ RetractOwnership(w)
  BY <1>2, <1>4, <1>6, <1>13 DEF Register, RetractFiles, RetractOwnership
<1>14. CASE CompleteJob(w)
  BY <1>4, <1>5, <1>14 DEF CompleteJob, Ends, HonestCall
<1>15. CASE Close(w) \/ CleanUp(w)
  BY <1>5, <1>15 DEF Close, CleanUp, Ends
<1>16. CASE FailJob(w)
  <2>1. CASE Fail(w, proc[w].job, proc[w].why # "value_final")
    <3>1. PICK retryable \in BOOLEAN : retryable = (proc[w].why # "value_final")
      OBVIOUS
    <3>2. Fail(w, proc[w].job, retryable)
      BY <2>1, <3>1
    <3>3. Goto(w, "cleaning") \/ Return(w)
      BY <1>16 DEF FailJob
    <3> QED
      BY <1>3, <1>5, <3>2, <3>3 DEF Reports, Ends, HonestCall
  <2> QED
    BY <1>5, <1>16, <2>1 DEF FailJob, Ends
<1> QED
  BY <1>7, <1>8, <1>9, <1>10, <1>11, <1>12, <1>13, <1>14, <1>15, <1>16 DEF WorkerStep

\* No step of a worker is another worker's, or one of the world around it.
LEMMA WorkerStepIsOwn ==
  ASSUME ProcOK, NEW w \in Workers, WorkerStep(w)
  PROVE  /\ Busy(w) /\ proc[w].job \in Jobs
         /\ \A v \in Workers \ {w} : proc'[v] = proc[v]
         /\ UNCHANGED runVars
<1>1. Busy(w)
  BY DEF WorkerStep, Checkpoint, Validate, Discard, StageSucceeds, StageInterrupted,
         StageTimesOut, StageRejects, StageErrors, RecordArtifact, Register, CompleteJob,
         RetractFiles, RetractOwnership, OnCancel, Close, OnDownloadTimeout, FailJob,
         CleanUp, CallFails, Busy, Off, Checkpoints, Stages, Trying
<1>2. UNCHANGED runVars
  BY DEF WorkerStep, Checkpoint, Validate, Discard, StageSucceeds, StageInterrupted,
         StageTimesOut, StageRejects, StageErrors, RecordArtifact, Register, CompleteJob,
         RetractFiles, RetractOwnership, OnCancel, Close, OnDownloadTimeout, FailJob,
         CleanUp, CallFails
<1>3. PICK p : proc' = [proc EXCEPT ![w] = p]
  BY Zenon
     DEF WorkerStep, Checkpoint, Validate, Discard, StageSucceeds, StageInterrupted,
         StageTimesOut, StageRejects, StageErrors, RecordArtifact, Register, CompleteJob,
         RetractFiles, RetractOwnership, OnCancel, Close, OnDownloadTimeout, FailJob,
         CleanUp, CallFails, Goto, Raise, Return
<1>4. \A v \in Workers \ {w} : proc'[v] = proc[v]
  BY <1>3 DEF ProcOK
<1> QED
  BY <1>1, <1>2, <1>4 DEF ProcOK

-----------------------------------------------------------------------------
(* The invariants of the workers.                                          *)

\* As long as nobody was suspended for longer than a lease, a busy worker's
\* lease has not expired, and a worker that has not reported yet has one.
LeaseInv ==
  ~stalled =>
    \A v \in Workers : /\ HoldsLease(v) => rows[proc[v].job].lease >= 0
                       /\ proc[v].pc \in Holding => HoldsLease(v)

\* A worker that carries out a cancellation, and can, was asked to.
CancelInv ==
  \A v \in Workers :
    proc[v].pc \in Cancelling /\ HoldsLease(v) => rows[proc[v].job].cancel

WorkersInv == IInv /\ ProcOK /\ LeaseInv /\ CancelInv /\ CancelledOnRequest

\* A worker to whose lease nothing happens.
LEMMA BystanderLease ==
  ASSUME ProcOK, LeaseInv, ~stalled, NEW v \in Workers, proc'[v] = proc[v],
         proc[v].job \in Jobs =>
           GainsNothing(v, proc[v].job) /\ KeepsLive(v, proc[v].job)
  PROVE  /\ HoldsLease(v)' => rows'[proc'[v].job].lease >= 0
         /\ proc'[v].pc \in Holding => HoldsLease(v)'
<1>1. Busy(v) => proc[v].job \in Jobs
  BY DEF ProcOK
<1> QED
  BY <1>1 DEF LeaseInv, HoldsLease, GainsNothing, KeepsLive, Busy, Owns

LEMMA SteppedLease ==
  ASSUME IInv, ProcOK, LeaseInv, ~stalled, NEW w \in Workers, WorkerStep(w)
  PROVE  /\ HoldsLease(w)' => rows'[proc'[w].job].lease >= 0
         /\ proc'[w].pc \in Holding => HoldsLease(w)'
<1>1. PICK j \in Jobs : j = proc[w].job /\ Busy(w)
  BY WorkerStepIsOwn
<1>2. rows[j].lease \in Int /\ LeaseTicks >= 0 /\ LeaseTicks \in Int
  BY <1>1, TimesAssumption DEF IInv, Row
<1>3. /\ Owns(w, j) => rows[j].lease >= 0
      /\ proc[w].pc \in Holding => Owns(w, j)
  BY <1>1 DEF LeaseInv, HoldsLease
<1>4. CASE GoesOn(w)
  <2>1. proc'[w].job = j /\ UNCHANGED rows
    BY <1>1, <1>4 DEF GoesOn
  <2>2. proc'[w].pc \in Holding => Busy(w)'
    BY DEF Busy, Holding, Handling, Trying, Off, Checkpoints, Stages
  <2>3. proc'[w].pc \in Holding => proc[w].pc \in Holding
    BY <1>4 DEF GoesOn
  <2> QED
    BY <1>3, <2>1, <2>2, <2>3 DEF HoldsLease, Owns
<1>5. CASE Records(w)
  <2>1. proc[w].vid \in Artifacts
    BY <1>5 DEF Records, ProcOK, Located
  <2>2. HeldCall(w, j) /\ \E artifact \in Artifacts : SetArtifact(w, j, artifact)
    BY <1>1, <1>5, <2>1 DEF Records, HeldCall, HonestCall
  <2>3. Owns(w, j)' /\ rows'[j].lease \in {rows[j].lease, LeaseTicks} /\ Owns(w, j)
    BY <1>1, <2>2, HeldCallRows DEF Owns
  <2> QED
    BY <1>1, <1>2, <1>3, <1>5, <2>3 DEF Records, HoldsLease, Busy, Off, Owns
<1>6. CASE Reports(w)
  <2>1. HeldCall(w, j)
    BY <1>1, <1>6 DEF Reports, HeldCall, HonestCall
  <2>2. /\ rows'[j].status = "running" => rows'[j].lease \in {rows[j].lease, LeaseTicks}
        /\ Owns(w, j)
    BY <1>1, <2>1, HeldCallRows
  <2> QED
    BY <1>1, <1>2, <1>3, <1>6, <2>2
       DEF Reports, HoldsLease, Owns, Holding, Handling, Trying, Checkpoints, Stages
<1>7. CASE Ends(w)
  BY <1>7 DEF Ends, Idle, HoldsLease, Busy, Off, Holding, Handling, Trying, Checkpoints, Stages
<1> QED
  BY <1>4, <1>5, <1>6, <1>7, WorkerStepEffect

\* The calls a worker's step makes.
LEMMA WorkerStepCalls ==
  ASSUME ProcOK, NEW w \in Workers, WorkerStep(w)
  PROVE  \/ UNCHANGED rows
         \/ HonestCall(w, proc[w].job)
         \/ proc[w].pc = "closing" /\ CancelClaimed(w, proc[w].job)
<1>1. CASE Records(w)
  <2>1. proc[w].vid \in Artifacts
    BY <1>1 DEF Records, ProcOK, Located
  <2> QED
    BY <1>1, <2>1 DEF Records, HonestCall
<1> QED
  BY <1>1, WorkerStepEffect DEF GoesOn, Reports, Ends, HonestCall

LEMMA LeaseStep ==
  ASSUME IInv, ProcOK, LeaseInv, [WorkersNext]_vars
  PROVE  LeaseInv'
<1> DEFINE Ok(v) == /\ HoldsLease(v) => rows[proc[v].job].lease >= 0
                    /\ proc[v].pc \in Holding => HoldsLease(v)
<1>1. SUFFICES ASSUME ~stalled', NEW v \in Workers PROVE Ok(v)'
  BY DEF LeaseInv
<1>2. ~stalled
  BY <1>1
     DEF WorkersNext, WorkerStep, Checkpoint, Validate, Discard, StageSucceeds,
         StageInterrupted, StageTimesOut, StageRejects, StageErrors, RecordArtifact,
         Register, CompleteJob, RetractFiles, RetractOwnership, OnCancel, Close,
         OnDownloadTimeout, FailJob, CleanUp, CallFails, ClaimJob, Beat, BeatFails,
         Crash, Restart, Enqueue, Cancel, DeleteUpload, Poll, Time, ApiCrash, runVars, vars
<1>3. ASSUME proc'[v] = proc[v],
             proc[v].job \in Jobs =>
               GainsNothing(v, proc[v].job) /\ KeepsLive(v, proc[v].job)
      PROVE  Ok(v)'
  BY <1>2, <1>3, BystanderLease
<1>4. ASSUME NEW w \in Workers, WorkerStep(w) PROVE Ok(v)'
  <2>1. CASE v = w
    BY <1>2, <1>4, <2>1, SteppedLease
  <2>2. CASE v # w
    <3>1. proc'[v] = proc[v] /\ proc[w].job \in Jobs
      BY <1>4, <2>2, WorkerStepIsOwn
    <3>2. UNCHANGED rows \/ HeldCall(w, proc[w].job)
      BY <1>4, WorkerStepCalls DEF HeldCall
    <3>3. QuietCall \/ HeldCall(w, proc[w].job)
      BY <3>2 DEF QuietCall
    <3> QED
      BY <1>3, <2>2, <3>1, <3>3, HeldCallLeases, QuietCallLeases
  <2> QED
    BY <2>1, <2>2
<1>5. ASSUME NEW w \in Workers, NEW j \in Jobs, ClaimJob(w, j) PROVE Ok(v)'
  <2>1. RowInv(rows'[j]) /\ Claim(w, j)
    BY <1>5, ClaimStep DEF ClaimJob, TableStep, RowStep
  <2>2. /\ proc'[w].pc = "preparing" /\ proc'[w].job = j
        /\ \A u \in Workers \ {w} : proc'[u] = proc[u]
    BY <1>5, <2>1, Claims DEF RowInv, ProcOK
  <2>3. CASE v = w
    <3>1. Owns(w, j)' /\ rows'[j].lease = LeaseTicks
      BY <2>1, ClaimRows DEF Owns
    <3> QED
      BY <2>2, <2>3, <3>1, TimesAssumption DEF HoldsLease, Owns, Busy, Off
  <2>4. CASE v # w
    BY <1>3, <2>1, <2>2, <2>4, ClaimLeases
  <2> QED
    BY <2>3, <2>4
<1>6. ASSUME NEW w \in Workers, Beat(w) \/ BeatFails(w) PROVE Ok(v)'
  <2>1. PICK j \in Jobs : j = proc[w].job /\ Busy(w) /\ proc \in [Workers -> Proc]
    BY <1>6 DEF Beat, BeatFails, ProcOK
  <2>2. /\ proc'[w].pc = proc[w].pc /\ proc'[w].job = j
        /\ \A u \in Workers \ {w} : proc'[u] = proc[u]
    <3>1. CASE proc' = [proc EXCEPT ![w].lost = TRUE]
      BY <2>1, <3>1, LosesHeart DEF Jumps
    <3>2. CASE UNCHANGED proc
      BY <2>1, <3>2
    <3> QED
      BY <1>6, <3>1, <3>2 DEF Beat, BeatFails
  <2>3. UNCHANGED rows \/ Heartbeat(w, j)
    BY <1>6, <2>1 DEF Beat, BeatFails
  <2>4. CASE v # w
    <3>1. QuietCall \/ HeldCall(w, j)
      BY <2>3 DEF QuietCall, HeldCall, HonestCall
    <3> QED
      BY <1>3, <2>1, <2>2, <2>4, <3>1, HeldCallLeases, QuietCallLeases
  <2>5. CASE v = w
    <3>1. CASE UNCHANGED rows
      BY <1>2, <2>1, <2>2, <2>5, <3>1 DEF LeaseInv, HoldsLease, Busy, Owns
    <3>2. CASE Heartbeat(w, j)
      <4>1. Owns(w, j) /\ Owns(w, j)' /\ rows'[j].lease \in {rows[j].lease, LeaseTicks}
        <5>1. HeldCall(w, j)
          BY <3>2 DEF HeldCall, HonestCall
        <5> QED
          BY <2>1, <3>2, <5>1, HeldCallRows DEF Owns
      <4>2. rows[j].lease >= 0 /\ LeaseTicks >= 0
        BY <1>2, <2>1, <4>1, TimesAssumption DEF LeaseInv, HoldsLease
      <4> QED
        BY <2>1, <2>2, <2>5, <4>1, <4>2 DEF HoldsLease, Busy, Owns
    <3> QED
      BY <2>3, <3>1, <3>2
  <2> QED
    BY <2>4, <2>5
<1>7. ASSUME NEW w \in Workers, Crash(w) \/ Restart(w) PROVE Ok(v)'
  <2>1. /\ proc'[w].pc \in Off /\ UNCHANGED rows
        /\ \A u \in Workers \ {w} : proc'[u] = proc[u]
    <3>1. CASE Crash(w)
      BY <3>1, Dies DEF Crash, ProcOK, Off
    <3>2. CASE Restart(w)
      BY <3>2, ReturnReturns DEF Restart, ProcOK, Returns, Idle, Off
    <3> QED
      BY <1>7, <3>1, <3>2
  <2>2. CASE v # w
    BY <1>3, <2>1, <2>2, QuietCallLeases DEF QuietCall
  <2>3. CASE v = w
    BY <2>1, <2>3 DEF HoldsLease, Busy, Off, Holding, Handling, Trying, Checkpoints, Stages
  <2> QED
    BY <2>2, <2>3
<1>8. ASSUME QuietCall, UNCHANGED proc PROVE Ok(v)'
  BY <1>3, <1>8, QuietCallLeases
<1>9. ASSUME NEW j \in Jobs, Enqueue(j) \/ Cancel(j) \/ DeleteUpload(j)
      PROVE  QuietCall /\ UNCHANGED proc
  <2>1. CASE Enqueue(j)
    <3>1. PICK artifact \in Artifacts \cup {NoArtifact} : Create(j, artifact)
      BY <2>1, IdIsArtifact DEF Enqueue
    <3> QED
      BY <2>1, <3>1 DEF QuietCall, Enqueue
  <2> QED
    BY <1>9, <2>1 DEF Cancel, DeleteUpload, QuietCall
<1>10. CASE Poll \/ ApiCrash \/ UNCHANGED vars
  BY <1>8, <1>10 DEF Poll, ApiCrash, vars, QuietCall
<1>11. CASE Time
  <2>1. /\ UNCHANGED proc /\ Tick
        /\ HoldsLease(v) => rows[proc[v].job].lease > 0
    BY <1>1, <1>11 DEF Time, LeasesKept
  <2>2. Busy(v) => proc[v].job \in Jobs
    BY DEF ProcOK
  <2>3. Ok(v)
    BY <1>2 DEF LeaseInv
  <2> QED
    BY <2>1, <2>2, <2>3, TickLeases DEF HoldsLease, Busy, GainsNothing, Owns
<1> QED
  BY <1>4, <1>5, <1>6, <1>7, <1>8, <1>9, <1>10, <1>11 DEF WorkersNext

\* The calls that any step makes.
LEMMA StepCalls ==
  ASSUME ProcOK, [WorkersNext]_vars
  PROVE  \/ QuietCall \/ Tick
         \/ \E w \in Workers, j \in Jobs : proc[w].pc = "idle" /\ Claim(w, j)
         \/ \E w \in Workers, j \in Jobs :
              /\ Busy(w) /\ proc[w].job = j
              /\ \/ HonestCall(w, j)
                 \/ proc[w].pc = "closing" /\ CancelClaimed(w, j)
<1>1. ASSUME NEW w \in Workers, WorkerStep(w)
      PROVE  \/ QuietCall
             \/ \E j \in Jobs : /\ Busy(w) /\ proc[w].job = j
                                /\ \/ HonestCall(w, j)
                                   \/ proc[w].pc = "closing" /\ CancelClaimed(w, j)
  BY <1>1, WorkerStepIsOwn, WorkerStepCalls DEF QuietCall
<1>2. ASSUME NEW w \in Workers, NEW j \in Jobs, ClaimJob(w, j)
      PROVE  proc[w].pc = "idle" /\ Claim(w, j)
  BY <1>2 DEF ClaimJob
<1>3. ASSUME NEW w \in Workers, Beat(w) \/ BeatFails(w)
      PROVE  \/ QuietCall
             \/ \E j \in Jobs : Busy(w) /\ proc[w].job = j /\ HonestCall(w, j)
  BY <1>3 DEF Beat, BeatFails, ProcOK, HonestCall, QuietCall
<1>4. ASSUME NEW w \in Workers, Crash(w) \/ Restart(w) PROVE QuietCall
  BY <1>4 DEF Crash, Restart, QuietCall
<1>5. ASSUME NEW j \in Jobs, Enqueue(j) PROVE QuietCall
  <2>1. PICK artifact \in Artifacts \cup {NoArtifact} : Create(j, artifact)
    BY <1>5, IdIsArtifact DEF Enqueue
  <2> QED
    BY <2>1 DEF QuietCall
<1>6. ASSUME NEW j \in Jobs, Cancel(j) \/ DeleteUpload(j) PROVE QuietCall
  BY <1>6 DEF Cancel, DeleteUpload, QuietCall
<1>7. CASE Poll \/ ApiCrash \/ UNCHANGED vars
  BY <1>7 DEF Poll, ApiCrash, QuietCall, vars
<1>8. CASE Time
  BY <1>8 DEF Time
<1> QED
  BY <1>1, <1>2, <1>3, <1>4, <1>5, <1>6, <1>7, <1>8 DEF WorkersNext

\* What a step does to the processes.
LEMMA StepMoves ==
  ASSUME IInv, ProcOK, [WorkersNext]_vars, NEW v \in Workers
  PROVE  \/ proc'[v].pc = proc[v].pc /\ proc'[v].job = proc[v].job
         \/ WorkerStep(v)
         \/ proc'[v].pc \in Off \cup {"preparing"}
<1>1. ASSUME NEW w \in Workers, WorkerStep(w), w # v PROVE proc'[v] = proc[v]
  BY <1>1, WorkerStepIsOwn
<1>2. ASSUME NEW w \in Workers, NEW j \in Jobs, ClaimJob(w, j)
      PROVE  proc'[v] = proc[v] \/ proc'[v].pc = "preparing"
  <2>1. RowInv(rows'[j])
    BY <1>2, ClaimStep DEF ClaimJob, TableStep, RowStep
  <2> QED
    BY <1>2, <2>1, Claims DEF RowInv, ProcOK
<1>3. ASSUME NEW w \in Workers, Beat(w) \/ BeatFails(w)
      PROVE  proc'[v].pc = proc[v].pc /\ proc'[v].job = proc[v].job
  <2>1. CASE proc' = [proc EXCEPT ![w].lost = TRUE]
    BY <2>1, LosesHeart DEF ProcOK, Jumps
  <2> QED
    BY <1>3, <2>1 DEF Beat, BeatFails
<1>4. ASSUME NEW w \in Workers, Crash(w) \/ Restart(w)
      PROVE  proc'[v] = proc[v] \/ proc'[v].pc \in Off
  <2>1. CASE Crash(w)
    BY <2>1, Dies DEF Crash, ProcOK, Off
  <2>2. CASE Restart(w)
    BY <2>2, ReturnReturns DEF Restart, ProcOK, Returns, Idle, Off
  <2> QED
    BY <1>4, <2>1, <2>2
<1>5. ASSUME NEW j \in Jobs, Enqueue(j) \/ Cancel(j) \/ DeleteUpload(j) PROVE UNCHANGED proc
  BY <1>5 DEF Enqueue, Cancel, DeleteUpload
<1>6. ASSUME Poll \/ Time \/ ApiCrash \/ UNCHANGED vars PROVE UNCHANGED proc
  BY <1>6 DEF Poll, Time, ApiCrash, vars
<1> QED
  BY <1>1, <1>2, <1>3, <1>4, <1>5, <1>6 DEF WorkersNext

\* Only a claim gives a lease, and it gives it to an idle worker.
LEMMA BusyGainsNothing ==
  ASSUME IInv, ProcOK, [WorkersNext]_vars, NEW v \in Workers, NEW i \in Jobs, Busy(v)
  PROVE  GainsNothing(v, i)
<1>1. CASE QuietCall
  BY <1>1, QuietCallLeases
<1>2. CASE Tick
  BY <1>2, TickLeases
<1>3. ASSUME NEW w \in Workers, NEW j \in Jobs, proc[w].pc = "idle", Claim(w, j)
      PROVE  GainsNothing(v, i)
  <2>1. v # w
    BY <1>3 DEF Busy, Off
  <2> QED
    BY <1>3, <2>1, ClaimLeases
<1>4. ASSUME NEW w \in Workers, NEW j \in Jobs, HeldCall(w, j) PROVE GainsNothing(v, i)
  BY <1>4, HeldCallLeases
<1> QED
  BY <1>1, <1>2, <1>3, <1>4, StepCalls DEF HeldCall

LEMMA CancelStep ==
  ASSUME IInv, ProcOK, CancelInv, [WorkersNext]_vars
  PROVE  CancelInv'
<1>1. SUFFICES ASSUME NEW v \in Workers, proc'[v].pc \in Cancelling, HoldsLease(v)'
               PROVE  rows'[proc'[v].job].cancel
  BY DEF CancelInv
<1>2. \A i \in Jobs : rows[i].cancel => rows'[i].cancel
  BY WorkersStepIsQueueStep, QueueStep DEF TableStep, RowStep
<1>3. CASE proc'[v].pc = proc[v].pc /\ proc'[v].job = proc[v].job
  <2>1. PICK j \in Jobs : j = proc[v].job /\ Busy(v)
    BY <1>1, <1>3 DEF ProcOK, Cancelling, Busy, Off
  <2>2. Owns(v, j)'
    BY <1>1, <1>3, <2>1 DEF HoldsLease, Owns
  <2>3. Owns(v, j)
    BY <2>1, <2>2, BusyGainsNothing DEF GainsNothing
  <2> QED
    BY <1>1, <1>2, <1>3, <2>1, <2>3 DEF CancelInv, HoldsLease
<1>4. CASE WorkerStep(v)
  <2>1. PICK j \in Jobs : j = proc[v].job /\ Busy(v)
    BY <1>4, WorkerStepIsOwn
  <2>2. GoesOn(v)
    BY <1>1, <1>4, WorkerStepEffect DEF Records, Reports, Ends, Idle, Cancelling
  <2>3. proc'[v].job = j /\ UNCHANGED rows /\ Owns(v, j)
    BY <1>1, <2>1, <2>2 DEF GoesOn, HoldsLease, Owns
  <2>4. proc[v].pc \in Cancelling \/ CancelSeen(v)
    BY <1>1, <2>1, <2>2, <2>3 DEF GoesOn, HoldsLease
  <2> QED
    BY <2>1, <2>3, <2>4 DEF CancelInv, CancelSeen, HoldsLease
<1>5. CASE proc'[v].pc \in Off \cup {"preparing"}
  BY <1>1, <1>5 DEF Cancelling, Off
<1> QED
  BY <1>3, <1>4, <1>5, StepMoves

LEMMA CancelledOnRequestStep ==
  ASSUME IInv, ProcOK, CancelInv, CancelledOnRequest, [WorkersNext]_vars
  PROVE  CancelledOnRequest'
<1>1. SUFFICES ASSUME NEW i \in Jobs, rows'[i].status = "cancelled"
               PROVE  rows'[i].cancel
  BY DEF CancelledOnRequest
<1>2. rows[i].cancel => rows'[i].cancel
  BY WorkersStepIsQueueStep, QueueStep DEF TableStep, RowStep
<1>3. SUFFICES ASSUME ~rows'[i].cancel PROVE rows[i].status = "cancelled"
  BY <1>2 DEF CancelledOnRequest
<1>4. CASE QuietCall \/ Tick
  BY <1>1, <1>3, <1>4, QuietCallLeases, TickLeases
<1>5. ASSUME NEW w \in Workers, NEW j \in Jobs, Claim(w, j)
      PROVE  rows[i].status = "cancelled"
  <2>1. i # j
    BY <1>1, <1>5, ClaimRows
  <2>2. rows'[i] = Recovered(rows[i])
    BY <1>5, <2>1, ClaimRows
  <2> QED
    BY <1>1, <1>3, <2>2, RecoveredLease DEF IInv
<1>6. ASSUME NEW w \in Workers, NEW j \in Jobs, Busy(w), proc[w].job = j,
             HonestCall(w, j) \/ (proc[w].pc = "closing" /\ CancelClaimed(w, j))
      PROVE  rows[i].status = "cancelled"
  <2>1. HeldCall(w, j)
    BY <1>6 DEF HeldCall
  <2>2. CASE i # j
    BY <1>1, <2>1, <2>2, HeldCallRows
  <2>3. CASE i = j
    <3>1. ~rows[j].cancel /\ Owns(w, j)
      BY <1>3, <2>1, <2>3, HeldCallRows
    <3>2. ~HonestCall(w, j)
      BY <1>1, <2>1, <2>3, <3>1, HeldCallRows
    <3> QED
      BY <1>6, <3>1, <3>2 DEF CancelInv, Cancelling, HoldsLease
  <2> QED
    BY <2>2, <2>3
<1>7. CASE \E w \in Workers, j \in Jobs : proc[w].pc = "idle" /\ Claim(w, j)
  BY <1>5, <1>7
<1>8. CASE \E w \in Workers, j \in Jobs :
             /\ Busy(w) /\ proc[w].job = j
             /\ \/ HonestCall(w, j)
                \/ proc[w].pc = "closing" /\ CancelClaimed(w, j)
  BY <1>6, <1>8
<1> QED
  BY <1>4, <1>7, <1>8, StepCalls

-----------------------------------------------------------------------------
(* The theorems.                                                           *)

LEMMA WorkersInitially == WorkersInit => WorkersInv
<1> SUFFICES ASSUME WorkersInit PROVE WorkersInv
  OBVIOUS
<1>1. IInv
  BY InitialInvariant DEF WorkersInit
<1>2. \A w \in Workers : proc[w] = Idle
  BY DEF WorkersInit
<1>3. proc \in [Workers -> Proc]
  BY IdleType DEF WorkersInit
<1>4. Idle.pc = "idle"
  BY DEF Idle
<1>5. ProcOK /\ LeaseInv /\ CancelInv
  BY <1>2, <1>3, <1>4
     DEF ProcOK, LeaseInv, CancelInv, HoldsLease, Busy, Off, Located, Holding, Handling, Trying, Checkpoints,
         Stages, Cancelling
<1>6. CancelledOnRequest
  BY DEF WorkersInit, Init, NoRow, CancelledOnRequest
<1> QED
  BY <1>1, <1>5, <1>6 DEF WorkersInv

LEMMA WorkersStepKeeps == WorkersInv /\ [WorkersNext]_vars => WorkersInv'
<1> SUFFICES ASSUME WorkersInv, [WorkersNext]_vars PROVE WorkersInv'
  OBVIOUS
<1>1. IInv /\ ProcOK /\ LeaseInv /\ CancelInv /\ CancelledOnRequest
  BY DEF WorkersInv
<1>2. IInv'
  <2>1. TableStep
    BY <1>1, WorkersStepIsQueueStep, QueueStep
  <2> QED
    BY <2>1 DEF TableStep, RowStep, IInv
<1>3. ProcOK' /\ LeaseInv' /\ CancelInv' /\ CancelledOnRequest'
  BY <1>1, ProcOKStep, LeaseStep, CancelStep, CancelledOnRequestStep
<1> QED
  BY <1>2, <1>3 DEF WorkersInv

\* The inductive invariant of the workers: that of the queue, the programs of
\* the processes, and what each worker knows of the row of its job.
THEOREM WorkersInvariant == WorkersSpec => []WorkersInv
BY WorkersInitially, WorkersStepKeeps, PTL DEF WorkersSpec

\* The workers, their heartbeat threads, the API and the clock together do
\* nothing to the table but what the operations of the queue do, so every
\* theorem about the queue holds of them.
THEOREM WorkersImplementQueue == WorkersSpec => Spec
<1>1. WorkersInit => Init
  BY DEF WorkersInit
<1>2. WorkersInv /\ [WorkersNext]_vars => [Next]_jobVars
  BY WorkersStepIsQueueStep DEF WorkersInv
<1> QED
  BY <1>1, <1>2, WorkersInvariant, PTL DEF WorkersSpec, Spec

\* What the queue promises holds of them: a client sees the lifecycle it was promised, and
\* takeovers, kills, suspensions and retries wear every job out.
THEOREM WorkersWearJobsOut == WorkersSpec => ImplementsLifecycle /\ RetriesRunOut
BY WorkersImplementQueue, RefinementTheorem, RetriesTheorem, PTL

\* Two workers never process one job, whatever heartbeats fail, processes are
\* killed, leases expire and jobs are retried, unless a worker was suspended
\* for longer than its lease.
THEOREM WorkNeedsLeaseTheorem == WorkersSpec => []WorkNeedsLease
<1>1. WorkersInv => WorkNeedsLease
  BY DEF WorkersInv, LeaseInv, WorkNeedsLease, Holding
<1> QED
  BY <1>1, WorkersInvariant, PTL

\* No job is cancelled that nobody asked to cancel, although the transaction
\* that closes it does not test the request.
THEOREM CancelledOnRequestTheorem == WorkersSpec => []CancelledOnRequest
<1>1. WorkersInv => CancelledOnRequest
  BY DEF WorkersInv
<1> QED
  BY <1>1, WorkersInvariant, PTL

\* What the disk and the run look like.
RunTypeOK ==
  /\ kind \in [Jobs -> Kinds]
  /\ files \subseteq Jobs \X Artifacts
  /\ frames \subseteq Jobs \X Artifacts
  /\ owned \subseteq Jobs \X Artifacts
  /\ deleting \subseteq Uploads
  /\ crashes \in 0 .. MaxCrashes
  /\ stalled \in BOOLEAN

LEMMA WorkerStepKeepsRunType ==
  ASSUME ProcOK, RunTypeOK, NEW w \in Workers, WorkerStep(w)
  PROVE  RunTypeOK'
<1>1. proc[w].job \in Jobs /\ UNCHANGED runVars
  BY WorkerStepIsOwn
<1>2. UNCHANGED deleting
  BY DEF WorkerStep, Checkpoint, Validate, Discard, StageSucceeds, StageInterrupted,
         StageTimesOut, StageRejects, StageErrors, RecordArtifact, Register, CompleteJob,
         RetractFiles, RetractOwnership, OnCancel, Close, OnDownloadTimeout, FailJob,
         CleanUp, CallFails
<1>3. proc[w].pc \in {"download", "extract", "registering"} =>
        <<proc[w].job, proc[w].vid>> \in Jobs \X Artifacts
  BY <1>1 DEF ProcOK, Located
<1>4. files' \subseteq Jobs \X Artifacts /\ frames' \subseteq Jobs \X Artifacts
  BY <1>3
     DEF RunTypeOK, WorkerStep, Checkpoint, Validate, Discard, StageSucceeds,
         StageInterrupted, StageTimesOut, StageRejects, StageErrors, RecordArtifact,
         Register, CompleteJob, RetractFiles, RetractOwnership, OnCancel, Close,
         OnDownloadTimeout, FailJob, CleanUp, CallFails, MayLeaveOutput, Cleanup, fileVars
<1>5. owned' \subseteq Jobs \X Artifacts
  BY <1>3
     DEF RunTypeOK, WorkerStep, Checkpoint, Validate, Discard, StageSucceeds,
         StageInterrupted, StageTimesOut, StageRejects, StageErrors, RecordArtifact,
         Register, CompleteJob, RetractFiles, RetractOwnership, OnCancel, Close,
         OnDownloadTimeout, FailJob, CleanUp, CallFails
<1> QED
  BY <1>1, <1>2, <1>4, <1>5 DEF RunTypeOK, runVars, Uploads

LEMMA RunTypeStep ==
  ASSUME ProcOK, RunTypeOK, [WorkersNext]_vars
  PROVE  RunTypeOK'
<1>1. ASSUME NEW w \in Workers, WorkerStep(w) PROVE RunTypeOK'
  BY <1>1, WorkerStepKeepsRunType
<1>2. ASSUME NEW w \in Workers, NEW j \in Jobs, ClaimJob(w, j) PROVE RunTypeOK'
  BY <1>2 DEF ClaimJob, RunTypeOK, runVars, Uploads
<1>3. ASSUME NEW w \in Workers, Beat(w) \/ BeatFails(w) \/ Restart(w) PROVE RunTypeOK'
  BY <1>3 DEF Beat, BeatFails, Restart, RunTypeOK, runVars, Uploads
<1>4. ASSUME NEW w \in Workers, Crash(w) PROVE RunTypeOK'
  <2>1. proc[w].pc \in {"download", "extract"} =>
          <<proc[w].job, proc[w].vid>> \in Jobs \X Artifacts
    BY <1>4 DEF Crash, ProcOK, Located
  <2>2. files' \subseteq Jobs \X Artifacts /\ frames' \subseteq Jobs \X Artifacts
    BY <1>4, <2>1 DEF Crash, MayLeaveOutput, RunTypeOK
  <2>3. crashes' \in 0 .. MaxCrashes
    BY <1>4, CrashAssumption DEF Crash, RunTypeOK
  <2> QED
    BY <1>4, <2>2, <2>3 DEF Crash, RunTypeOK, Uploads
<1>5. ASSUME NEW j \in Jobs, Enqueue(j) PROVE RunTypeOK'
  BY <1>5, IdIsArtifact DEF Enqueue, RunTypeOK, runVars, Uploads
<1>6. ASSUME NEW j \in Jobs, Cancel(j) \/ DeleteUpload(j) PROVE RunTypeOK'
  BY <1>6 DEF Cancel, DeleteUpload, Cleanup, RunTypeOK, runVars, Uploads
<1>7. CASE Poll \/ UNCHANGED vars
  BY <1>7 DEF Poll, RunTypeOK, runVars, vars, Uploads
<1>8. CASE Time
  BY <1>8 DEF Time, RunTypeOK, Uploads
<1>9. CASE ApiCrash
  BY <1>9, CrashAssumption DEF ApiCrash, RunTypeOK, Uploads
<1> QED
  BY <1>1, <1>2, <1>3, <1>4, <1>5, <1>6, <1>7, <1>8, <1>9 DEF WorkersNext

LEMMA RunTypeInitially == WorkersInit => RunTypeOK
<1> SUFFICES ASSUME WorkersInit PROVE RunTypeOK
  OBVIOUS
<1>1. /\ kind \in [Jobs -> Kinds] /\ stalled = FALSE /\ crashes = 0
      /\ files = {} /\ frames = {} /\ owned = {} /\ deleting = {}
  BY DEF WorkersInit
<1>2. 0 \in 0 .. MaxCrashes
  BY CrashAssumption
<1> QED
  BY <1>1, <1>2, Zenon DEF RunTypeOK

\* The table, the processes and what they leave on disk have their types.
THEOREM WorkersTypeTheorem == WorkersSpec => []WorkersTypeOK
<1>1. WorkersInv /\ RunTypeOK /\ [WorkersNext]_vars => RunTypeOK'
  BY RunTypeStep DEF WorkersInv
<1>2. WorkersInv /\ RunTypeOK => WorkersTypeOK
  BY DEF WorkersInv, IInv, ProcOK, RunTypeOK, WorkersTypeOK, TypeOK
<1> QED
  BY <1>1, <1>2, RunTypeInitially, WorkersInvariant, PTL DEF WorkersSpec
=============================================================================
