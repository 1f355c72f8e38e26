----------------------------- MODULE VideoFilesProofs -----------------------------
(***************************************************************************)
(* Theorems about what the workers of VideoWorker leave on disk, for every *)
(* number of jobs, workers, attempts and kills.                            *)
(*                                                                         *)
(* A published result points at keyframes and at an ownership row that     *)
(* five handlers and one request may remove.  The argument is about ids:   *)
(* IdInv says which id each worker has in hand and how it relates to the   *)
(* attempt that the row of its job has reached, DiskInv what is on disk    *)
(* under those ids, and RemovalInv who has yet to remove an upload.        *)
(***************************************************************************)
EXTENDS VideoWorkerProofs

-----------------------------------------------------------------------------
(* The control flow of _process_claimed_job.                               *)

\* Where a label may lead, with the job still in hand.
Follows(a, b) ==
  \/ b = "failing" /\ a \in Trying \cup {"on_download_timeout"}
  \/ b = "on_cancel" /\ a \in Checkpoints \cup Stages
  \/ <<a, b>> \in {<<"preparing", "validating">>, <<"preparing", "discarding">>,
                   <<"preparing", "downloading">>, <<"validating", "extracting">>,
                   <<"discarding", "downloading">>, <<"downloading", "download">>,
                   <<"download", "recording">>, <<"download", "on_download_timeout">>,
                   <<"recording", "extracting">>, <<"extracting", "extract">>,
                   <<"extract", "analyzing">>, <<"analyzing", "analyze">>,
                   <<"analyze", "finalizing">>, <<"finalizing", "registering">>,
                   <<"registering", "completing">>, <<"completing", "retracting_files">>,
                   <<"retracting_files", "retracting_ownership">>,
                   <<"retracting_ownership", "closing">>, <<"on_cancel", "closing">>,
                   <<"failing", "cleaning">>}

\* Worker w keeps its job and its attempt, draws an id for a download and
\* learns where the download is.
Advances(w) ==
  /\ Follows(proc[w].pc, proc'[w].pc)
  /\ proc'[w].job = proc[w].job
  /\ proc'[w].try = proc[w].try
  /\ proc'[w].vid = IF proc'[w].pc = "download" THEN proc[w].try ELSE proc[w].vid
  /\ proc'[w].path = IF proc'[w].pc = "recording" THEN proc[w].vid ELSE proc[w].path
  /\ proc[w].pc = "preparing" =>
       /\ proc'[w].pc = "validating" => IsUpload(w)
       /\ proc'[w].pc \in {"discarding", "downloading"} => ~IsUpload(w)
  /\ proc'[w].pc = "failing" /\ proc'[w].why = "value_retry" => proc[w].pc = "download"

LEMMA WorkerStepAdvances ==
  ASSUME ProcOK, NEW w \in Workers, WorkerStep(w)
  PROVE  \/ Advances(w)
         \/ /\ proc'[w] = Idle
            /\ CompleteJob(w) \/ Close(w) \/ FailJob(w) \/ CleanUp(w)
<1> USE DEF Labels, Off, Trying, Handling, Checkpoints, Stages
<1>1. proc \in [Workers -> Proc] /\ proc[w] \in Proc
  BY DEF ProcOK
<1>2. ASSUME NEW why \in Errors, Raise(w, why), Follows(proc[w].pc, "failing"),
             why = "value_retry" => proc[w].pc = "download"
      PROVE  Advances(w)
  BY <1>1, <1>2, RaiseJumps DEF Jumps, Advances
<1>3. ASSUME NEW l \in Labels, Goto(w, l), Follows(proc[w].pc, l),
             l \notin {"download", "recording", "failing"},
             proc[w].pc = "preparing" =>
               /\ l = "validating" => IsUpload(w)
               /\ l \in {"discarding", "downloading"} => ~IsUpload(w)
      PROVE  Advances(w)
  BY <1>1, <1>3, GotoJumps DEF Jumps, Advances
<1>4. ASSUME Return(w) PROVE proc'[w] = Idle
  BY <1>1, <1>4, ReturnReturns DEF Returns
<1>5. {"timeout", "value_retry", "value_final", "error"} \subseteq Errors
  BY DEF Errors
<1>6. CASE Checkpoint(w)
  <2>1. CASE ~proc[w].lost /\ HoldsLease(w) /\ ~CancelSeen(w)
    <3> DEFINE l == AfterCheckpoint(w)
    <3>1. /\ l \in {"validating", "discarding", "downloading", "download",
                    "extract", "analyze", "registering"}
          /\ Follows(proc[w].pc, l)
          /\ l = "download" <=> proc[w].pc = "downloading"
          /\ proc[w].pc = "preparing" =>
               /\ l = "validating" => IsUpload(w)
               /\ l \in {"discarding", "downloading"} => ~IsUpload(w)
      BY <1>6 DEF Checkpoint, AfterCheckpoint, Follows
    <3>2. proc' = [proc EXCEPT
                     ![w].pc = l,
                     ![w].vid = IF proc[w].pc = "downloading" THEN proc[w].try ELSE @]
      BY <1>6, <2>1 DEF Checkpoint
    <3> HIDE DEF l
    <3>3. /\ proc'[w].pc = l /\ proc'[w].job = proc[w].job /\ proc'[w].try = proc[w].try
          /\ proc'[w].vid = IF proc[w].pc = "downloading" THEN proc[w].try ELSE proc[w].vid
          /\ proc'[w].path = proc[w].path
      BY <1>1, <3>1, <3>2, PassesCheckpoint
    <3> QED
      BY <3>1, <3>3 DEF Advances
  <2> QED
    BY <1>2, <1>3, <1>5, <1>6, <2>1 DEF Checkpoint, Follows
<1>7. CASE StageSucceeds(w)
  <2>1. CASE proc[w].pc = "download"
    <3>1. proc' = [proc EXCEPT ![w].pc = "recording", ![w].path = proc[w].vid]
      BY <1>7, <2>1 DEF StageSucceeds
    <3>2. /\ proc'[w].pc = "recording" /\ proc'[w].job = proc[w].job
          /\ proc'[w].try = proc[w].try /\ proc'[w].vid = proc[w].vid
          /\ proc'[w].path = proc[w].vid
      BY <1>1, <3>1, LearnsPath
    <3> QED
      BY <2>1, <3>2 DEF Advances, Follows
  <2> QED
    BY <1>3, <1>7, <2>1 DEF StageSucceeds, Follows
<1>8. CASE Validate(w) \/ Discard(w) \/ OnCancel(w)
  BY <1>2, <1>3, <1>5, <1>8 DEF Validate, Discard, OnCancel, Follows
<1>9. CASE StageInterrupted(w) \/ StageTimesOut(w)
  BY <1>2, <1>3, <1>5, <1>9 DEF StageInterrupted, StageTimesOut, Follows
<1>10. CASE StageRejects(w) \/ StageErrors(w) \/ OnDownloadTimeout(w) \/ CallFails(w)
  BY <1>2, <1>5, <1>10 DEF StageRejects, StageErrors, OnDownloadTimeout, CallFails, Follows
<1>11. CASE RecordArtifact(w)
  BY <1>2, <1>3, <1>5, <1>11 DEF RecordArtifact, Follows
<1>12. CASE Register(w) \/ RetractFiles(w) \/ RetractOwnership(w)
  BY <1>2, <1>3, <1>5, <1>12 DEF Register, RetractFiles, RetractOwnership, Follows
<1>13. CASE CompleteJob(w)
  BY <1>3, <1>4, <1>13 DEF CompleteJob, Follows
<1>14. CASE Close(w) \/ CleanUp(w)
  BY <1>4, <1>14 DEF Close, CleanUp
<1>15. CASE FailJob(w)
  BY <1>3, <1>4, <1>15 DEF FailJob, Follows
<1> QED
  BY <1>6, <1>7, <1>8, <1>9, <1>10, <1>11, <1>12, <1>13, <1>14, <1>15 DEF WorkerStep

\* What a step does to the processes.
LEMMA ProcMoves ==
  ASSUME IInv, ProcOK, [WorkersNext]_vars, NEW v \in Workers
  PROVE  \/ /\ proc'[v].pc = proc[v].pc /\ proc'[v].job = proc[v].job
            /\ proc'[v].try = proc[v].try /\ proc'[v].vid = proc[v].vid
            /\ proc'[v].path = proc[v].path /\ proc'[v].why = proc[v].why
         \/ WorkerStep(v) /\ Advances(v)
         \/ proc'[v].pc \in Off
         \/ \E j \in Jobs : ClaimJob(v, j)
<1>1. ASSUME NEW w \in Workers, WorkerStep(w)
      PROVE  \/ proc'[v] = proc[v]
             \/ WorkerStep(v) /\ Advances(v)
             \/ proc'[v].pc \in Off
  BY <1>1, WorkerStepIsOwn, WorkerStepAdvances DEF Idle, Off
<1>2. ASSUME NEW w \in Workers, NEW j \in Jobs, ClaimJob(w, j)
      PROVE  proc'[v] = proc[v] \/ ClaimJob(v, j)
  <2>1. RowInv(rows'[j])
    BY <1>2, ClaimStep DEF ClaimJob, TableStep, RowStep
  <2> QED
    BY <1>2, <2>1, Claims DEF RowInv, ProcOK
<1>3. ASSUME NEW w \in Workers, Beat(w) \/ BeatFails(w)
      PROVE  \/ proc'[v] = proc[v]
             \/ Jumps(v, proc[v].pc) /\ proc'[v].why = proc[v].why
  <2>1. CASE proc' = [proc EXCEPT ![w].lost = TRUE]
    BY <2>1, LosesHeart DEF ProcOK, Jumps
  <2> QED
    BY <1>3, <2>1 DEF Beat, BeatFails
<1>4. ASSUME NEW w \in Workers, Crash(w) \/ Restart(w)
      PROVE  proc'[v] = proc[v] \/ proc'[v].pc \in Off
  <2>1. CASE Crash(w)
    BY <2>1, Dies DEF Crash, ProcOK, Off
  <2>2. CASE Restart(w)
    BY <2>2, ReturnReturns DEF Restart, ProcOK, Returns, Idle, Off
  <2> QED
    BY <1>4, <2>1, <2>2
<1>5. ASSUME NEW j \in Jobs, Enqueue(j) \/ Cancel(j) \/ DeleteUpload(j) PROVE UNCHANGED proc
  BY <1>5 DEF Enqueue, Cancel, DeleteUpload
<1>6. ASSUME Poll \/ Time \/ ApiCrash \/ UNCHANGED vars PROVE UNCHANGED proc
  BY <1>6 DEF Poll, Time, ApiCrash, vars
<1> QED
  BY <1>1, <1>2, <1>3, <1>4, <1>5, <1>6 DEF WorkersNext, Jumps

-----------------------------------------------------------------------------
(* What the calls do to the attempts and the artifact of a row.            *)

\* A row is written without a new lease, a new artifact or a result.
Plain(r, s) ==
  /\ s.attempts = r.attempts /\ s.artifact = r.artifact
  /\ s.status = "running" => r.status = "running" /\ s.owner = r.owner
  /\ s.status = "succeeded" => r.status = "succeeded"
  /\ r.status = "none" => s.status = "none"

\* The calls that do so to every row.
PlainHeldCall(w, j) ==
  \/ Heartbeat(w, j) \/ CancelClaimed(w, j)
  \/ \E retryable \in BOOLEAN : Fail(w, j, retryable)

PlainCall ==
  \/ ClaimNothing \/ Tick \/ UNCHANGED rows
  \/ \E j \in Jobs : RequestCancellation(j)
  \/ \E w \in Workers, j \in Jobs : PlainHeldCall(w, j)

\* The others: a worker claims a job, records its download or publishes its
\* result, or the API enqueues a job.
Publishes(w) ==
  /\ proc[w].pc = "completing"
  /\ Complete(w, proc[w].job) /\ Return(w)

LEMMA RecoveredPlain ==
  ASSUME NEW r, RowInv(r)
  PROVE  Plain(r, Recovered(r))
<1>1. r \in Row
  BY DEF RowInv
<1>2. CASE ~Expired(r)
  BY <1>1, <1>2 DEF Recovered, Plain
<1>3. CASE Expired(r)
  <2>1. \A status : /\ Released(r, status).status = status
                    /\ Released(r, status).attempts = r.attempts
                    /\ Released(r, status).artifact = r.artifact
    BY <1>1, Zenon DEF Row, Released
  <2>2. PICK f : f = [Released(r, "failed") EXCEPT !.error = TRUE]
    OBVIOUS
  <2>3. PICK q : q = [Released(r, "queued") EXCEPT !.wait = 0]
    OBVIOUS
  <2>4. f.status = "failed" /\ f.attempts = r.attempts /\ f.artifact = r.artifact
    BY <1>1, <2>2, Zenon DEF Row, Released
  <2>5. q.status = "queued" /\ q.attempts = r.attempts /\ q.artifact = r.artifact
    BY <1>1, <2>3, Zenon DEF Row, Released
  <2>6. Recovered(r) \in {Released(r, "cancelled"), f, q}
    BY <1>3, <2>2, <2>3 DEF Recovered
  <2>7. /\ Recovered(r).status \in {"cancelled", "failed", "queued"}
        /\ Recovered(r).attempts = r.attempts /\ Recovered(r).artifact = r.artifact
    BY <2>1, <2>4, <2>5, <2>6
  <2>8. r.status = "running"
    BY <1>3 DEF Expired
  <2> QED
    BY <2>7, <2>8 DEF Plain
<1> QED
  BY <1>2, <1>3

\* The row that a claim grants.
LEMMA ClaimedRow ==
  ASSUME IInv, NEW w \in Workers, NEW j \in Jobs, Claim(w, j)
  PROVE  /\ rows[j].status \in {"queued", "running"}
         /\ rows'[j].status = "running" /\ rows'[j].owner = w
         /\ rows'[j].attempts = rows[j].attempts + 1
         /\ rows'[j].artifact = rows[j].artifact
         /\ \A i \in Jobs \ {j} : Plain(rows[i], rows'[i])
<1> DEFINE r == Recovered(rows[j])
<1>1. \A i \in Jobs \ {j} : Plain(rows[i], rows'[i])
  BY ClaimRows, RecoveredPlain DEF IInv
<1>2. r \in Row /\ r.attempts = rows[j].attempts /\ r.artifact = rows[j].artifact
  BY RecoveredStep, RecoveredPlain DEF IInv, RowStep, RowInv, Plain
<1>3. rows' = [RecoveredRows EXCEPT ![j] = Leased(r, w)]
  BY DEF Claim, RecoveredRows
<1>4. rows'[j] = Leased(r, w)
  BY <1>3 DEF RecoveredRows
<1>5. r.status = "queued"
  BY ClaimRows
<1>6. rows[j].status \in {"queued", "running"}
  BY <1>5, RecoveredToQueue DEF IInv
<1> HIDE DEF r
<1>7. /\ Leased(r, w).attempts = r.attempts + 1 /\ Leased(r, w).artifact = r.artifact
      /\ Leased(r, w).status = "running" /\ Leased(r, w).owner = w
  BY <1>2, Zenon DEF Leased, Row
<1> QED
  BY <1>1, <1>2, <1>4, <1>6, <1>7

LEMMA PlainHeldCallRows ==
  ASSUME IInv, NEW w \in Workers, NEW j \in Jobs, PlainHeldCall(w, j), NEW i \in Jobs
  PROVE  Plain(rows[i], rows'[i])
<1> DEFINE r == rows[j]
<1>1. r \in Row /\ rows \in [Jobs -> Row] /\ HeldCall(w, j)
  BY DEF IInv, PlainHeldCall, HeldCall, HonestCall
<1>2. CASE i # j
  BY <1>1, <1>2, HeldCallRows DEF Plain
<1>3. r.status = "running" /\ r.owner = w
  BY <1>1, HeldCallRows DEF Owns
<1>4. ASSUME Heartbeat(w, j) PROVE Plain(r, rows'[j])
  <2>1. PICK s : s = [r EXCEPT !.lease = LeaseTicks]
    OBVIOUS
  <2>2. rows'[j] = s
    BY <1>1, <1>4, <2>1 DEF Heartbeat
  <2>3. /\ s.attempts = r.attempts /\ s.artifact = r.artifact
        /\ s.status = r.status /\ s.owner = r.owner
    BY <1>1, <2>1, Zenon DEF Row
  <2> QED
    BY <2>2, <2>3 DEF Plain
<1>5. ASSUME CancelClaimed(w, j) PROVE Plain(r, rows'[j])
  <2>1. rows'[j] = Released(r, "cancelled")
    BY <1>1, <1>5 DEF CancelClaimed
  <2>2. /\ Released(r, "cancelled").attempts = r.attempts
        /\ Released(r, "cancelled").artifact = r.artifact
        /\ Released(r, "cancelled").status = "cancelled"
    BY <1>1, Zenon DEF Row, Released
  <2> QED
    BY <1>3, <2>1, <2>2 DEF Plain
<1>6. ASSUME NEW retryable \in BOOLEAN, Fail(w, j, retryable)
      PROVE  Plain(r, rows'[j])
  <2>1. PICK f : f = [r EXCEPT !.error = TRUE]
    OBVIOUS
  <2>2. f \in Row /\ f.attempts = r.attempts /\ f.artifact = r.artifact
    BY <1>1, <2>1, Zenon DEF Row
  <2>3. \A status : /\ Released(f, status).attempts = f.attempts
                    /\ Released(f, status).artifact = f.artifact
                    /\ Released(f, status).status = status
    BY <2>2, Zenon DEF Row, Released
  <2>4. PICK q : q = [Released(f, "queued") EXCEPT !.wait = Backoff(r.attempts)]
    OBVIOUS
  <2>5. q.attempts = f.attempts /\ q.artifact = f.artifact /\ q.status = "queued"
    BY <2>2, <2>4, Zenon DEF Row, Released
  <2>6. rows'[j] \in {Released(f, "cancelled"), Released(f, "failed"), q}
    BY <1>1, <1>6, <2>1, <2>4 DEF Fail, Failed
  <2> QED
    BY <1>3, <2>2, <2>3, <2>5, <2>6 DEF Plain
<1> QED
  BY <1>2, <1>4, <1>5, <1>6 DEF PlainHeldCall

LEMMA PlainCallRows ==
  ASSUME IInv, PlainCall, NEW i \in Jobs
  PROVE  Plain(rows[i], rows'[i])
<1>1. rows[i] \in Row /\ rows \in [Jobs -> Row] /\ RowInv(rows[i])
  BY DEF IInv
<1>2. CASE ClaimNothing
  BY <1>1, <1>2, RecoveredPlain DEF ClaimNothing, RecoveredRows
<1>3. CASE Tick
  <2>1. PICK l, m : /\ l = IF rows[i].status = "running" /\ rows[i].lease >= 0
                           THEN rows[i].lease - 1 ELSE rows[i].lease
                    /\ m = IF rows[i].status = "queued" /\ rows[i].wait > 0
                           THEN rows[i].wait - 1 ELSE rows[i].wait
    OBVIOUS
  <2>2. PICK s : s = [[rows[i] EXCEPT !.lease = l] EXCEPT !.wait = m]
    OBVIOUS
  <2>3. rows'[i] = s
    BY <1>1, <1>3, <2>1, <2>2 DEF Tick
  <2>4. /\ s.status = rows[i].status /\ s.owner = rows[i].owner
        /\ s.attempts = rows[i].attempts /\ s.artifact = rows[i].artifact
    BY <1>1, <2>2, Zenon DEF Row
  <2> QED
    BY <2>3, <2>4 DEF Plain
<1>4. CASE UNCHANGED rows
  BY <1>4 DEF Plain
<1>5. ASSUME NEW j \in Jobs, RequestCancellation(j)
      PROVE  Plain(rows[i], rows'[i])
  <2>1. CASE i # j
    BY <1>1, <1>5, <2>1 DEF RequestCancellation, Plain
  <2>2. CASE i = j
    <3>1. PICK s, t : /\ s = [[rows[i] EXCEPT !.status = "cancelled"] EXCEPT !.cancel = TRUE]
                      /\ t = [rows[i] EXCEPT !.cancel = TRUE]
      OBVIOUS
    <3>2. \/ rows[i].status = "queued" /\ rows'[i] = s
          \/ rows[i].status = "running" /\ rows'[i] = t
      BY <1>1, <1>5, <2>2, <3>1 DEF RequestCancellation
    <3>3. /\ s.status = "cancelled" /\ s.attempts = rows[i].attempts
          /\ s.artifact = rows[i].artifact
      BY <1>1, <3>1, Zenon DEF Row
    <3>4. /\ t.status = rows[i].status /\ t.owner = rows[i].owner
          /\ t.attempts = rows[i].attempts /\ t.artifact = rows[i].artifact
      BY <1>1, <3>1, Zenon DEF Row
    <3> QED
      BY <3>2, <3>3, <3>4 DEF Plain
  <2> QED
    BY <2>1, <2>2
<1> QED
  BY <1>2, <1>3, <1>4, <1>5, PlainHeldCallRows DEF PlainCall

\* The row of a job that is enqueued, and the others.
LEMMA EnqueueRows ==
  ASSUME IInv, NEW j \in Jobs, Enqueue(j)
  PROVE  /\ \A i \in Jobs \ {j} : Plain(rows[i], rows'[i])
         /\ rows[j].status = "none" /\ rows'[j].status = "queued"
         /\ rows'[j].artifact = IF j \in Uploads THEN 0 ELSE NoArtifact
         /\ rows[j].attempts = 0 /\ rows'[j].attempts = 0
<1>1. PICK a : a = IF j \in Uploads THEN 0 ELSE NoArtifact
  OBVIOUS
<1>2. PICK s : s = [NoRow EXCEPT !.status = "queued", !.artifact = a]
  OBVIOUS
<1>3. rows[j].status = "none" /\ rows' = [rows EXCEPT ![j] = s]
  BY <1>1, <1>2 DEF Enqueue, Create
<1>4. rows \in [Jobs -> Row] /\ rows[j] = NoRow
  BY <1>3 DEF IInv, RowInv
<1>5. s.status = "queued" /\ s.artifact = a /\ s.attempts = 0
  BY <1>2 DEF NoRow
<1> QED
  BY <1>1, <1>3, <1>4, <1>5 DEF NoRow, Plain

\* The row of a job whose download is recorded, and the others.
LEMMA RecordsRows ==
  ASSUME IInv, ProcOK, NEW w \in Workers, Records(w), NEW j \in Jobs, j = proc[w].job
  PROVE  /\ \A i \in Jobs \ {j} : Plain(rows[i], rows'[i])
         /\ Owns(w, j) /\ Owns(w, j)'
         /\ rows'[j].artifact = proc[w].vid
         /\ rows'[j].attempts = rows[j].attempts
<1>1. proc[w].vid \in Artifacts /\ SetArtifact(w, j, proc[w].vid)
  BY DEF Records, ProcOK, Located
<1>2. HeldCall(w, j) /\ \E artifact \in Artifacts : SetArtifact(w, j, artifact)
  BY <1>1 DEF HeldCall, HonestCall
<1>3. PICK s : s = [rows[j] EXCEPT !.artifact = proc[w].vid]
  OBVIOUS
<1>4. rows'[j] = s
  BY <1>1, <1>3 DEF SetArtifact, IInv
<1>5. rows[j] \in Row
  BY DEF IInv
<1>6. s.artifact = proc[w].vid /\ s.attempts = rows[j].attempts
  BY <1>3, <1>5, Zenon DEF Row
<1>7. \A i \in Jobs \ {j} : Plain(rows[i], rows'[i])
  BY <1>2, HeldCallRows DEF Plain
<1> QED
  BY <1>2, <1>4, <1>6, <1>7, HeldCallRows DEF Owns

\* The row of a job whose result is published, and the others.
LEMMA PublishesRows ==
  ASSUME IInv, NEW w \in Workers, Publishes(w), NEW j \in Jobs, j = proc[w].job
  PROVE  /\ \A i \in Jobs \ {j} : Plain(rows[i], rows'[i])
         /\ Owns(w, j)
         /\ rows'[j].status = "succeeded"
         /\ rows'[j].artifact = rows[j].artifact
         /\ rows'[j].attempts = rows[j].attempts
<1>1. Complete(w, j)
  BY DEF Publishes
<1>2. HeldCall(w, j)
  BY <1>1 DEF HeldCall, HonestCall
<1>3. PICK s : s = [[Released(rows[j], "succeeded") EXCEPT !.result = TRUE] EXCEPT !.error = FALSE]
  OBVIOUS
<1>4. rows[j] \in Row /\ rows \in [Jobs -> Row]
  BY DEF IInv
<1>5. rows'[j] = s
  BY <1>1, <1>3, <1>4 DEF Complete
<1>6. s.attempts = rows[j].attempts /\ s.artifact = rows[j].artifact /\ s.status = "succeeded"
  BY <1>3, <1>4, Zenon DEF Row, Released
<1>7. \A i \in Jobs \ {j} : Plain(rows[i], rows'[i])
  BY <1>2, HeldCallRows DEF Plain
<1> QED
  BY <1>2, <1>5, <1>6, <1>7, HeldCallRows

LEMMA RecordingRecords ==
  ASSUME ProcOK, NEW w \in Workers, RecordArtifact(w)
  PROVE  \/ Records(w)
         \/ UNCHANGED rows /\ proc'[w].pc = "failing"
<1>1. proc \in [Workers -> Proc] /\ "error" \in Errors /\ "extracting" \in Labels
  BY DEF ProcOK, Labels, Trying, Checkpoints, Errors
<1>2. CASE SetArtifact(w, proc[w].job, proc[w].vid) /\ Goto(w, "extracting")
  <2>1. Jumps(w, "extracting")
    BY <1>1, <1>2, GotoJumps
  <2> QED
    BY <1>2, <2>1 DEF Records, RecordArtifact, Jumps
<1>3. CASE Raise(w, "error") /\ UNCHANGED rows
  BY <1>1, <1>3, RaiseJumps DEF Jumps
<1> QED
  BY <1>2, <1>3 DEF RecordArtifact

\* The calls that a step of the workers, the API or the clock makes.
LEMMA WorkersCalls ==
  ASSUME ProcOK, [WorkersNext]_vars
  PROVE  \/ PlainCall
         \/ \E w \in Workers, j \in Jobs : ClaimJob(w, j)
         \/ \E j \in Jobs : Enqueue(j)
         \/ \E w \in Workers : WorkerStep(w) /\ Records(w)
         \/ \E w \in Workers : WorkerStep(w) /\ Publishes(w)
<1>1. ASSUME NEW w \in Workers, WorkerStep(w)
      PROVE  PlainCall \/ Records(w) \/ Publishes(w)
  <2>1. PICK j \in Jobs : j = proc[w].job
    BY <1>1, WorkerStepIsOwn
  <2>2. CASE RecordArtifact(w)
    BY <2>2, RecordingRecords DEF PlainCall
  <2>3. CASE CompleteJob(w)
    BY <2>1, <2>3 DEF CompleteJob, Publishes, PlainCall
  <2>4. CASE Close(w)
    BY <2>1, <2>4 DEF Close, PlainCall, PlainHeldCall
  <2>5. CASE FailJob(w)
    <3>1. CASE Fail(w, j, proc[w].why # "value_final")
      <4>1. PICK retryable \in BOOLEAN : retryable = (proc[w].why # "value_final")
        OBVIOUS
      <4>2. PlainHeldCall(w, j)
        BY <3>1, <4>1 DEF PlainHeldCall
      <4> QED
        BY <4>2 DEF PlainCall
    <3> QED
      BY <2>1, <2>5, <3>1 DEF FailJob, PlainCall
  <2>6. ASSUME ~RecordArtifact(w), ~CompleteJob(w), ~Close(w), ~FailJob(w)
        PROVE  UNCHANGED rows
    BY <1>1, <2>6
       DEF WorkerStep, Checkpoint, Validate, Discard, StageSucceeds, StageInterrupted,
           StageTimesOut, StageRejects, StageErrors, Register, RetractFiles,
           RetractOwnership, OnCancel, OnDownloadTimeout, CleanUp, CallFails
  <2> QED
    BY <2>2, <2>3, <2>4, <2>5, <2>6 DEF PlainCall
<1>2. ASSUME NEW w \in Workers, Beat(w) \/ BeatFails(w) \/ Crash(w) \/ Restart(w)
      PROVE  PlainCall
  BY <1>2 DEF Beat, BeatFails, Crash, Restart, ProcOK, PlainCall, PlainHeldCall
<1>3. ASSUME NEW j \in Jobs, Cancel(j) \/ DeleteUpload(j) PROVE PlainCall
  BY <1>3 DEF Cancel, DeleteUpload, PlainCall
<1>4. CASE Poll \/ Time \/ ApiCrash \/ UNCHANGED vars
  BY <1>4 DEF Poll, Time, ApiCrash, PlainCall, vars
<1> QED
  BY <1>1, <1>2, <1>3, <1>4 DEF WorkersNext

\* The handlers, and the calls inside the try block unless they raise, are each
\* at a label of their own.
LEMMA StepAtLabel ==
  ASSUME ProcOK, NEW w \in Workers, WorkerStep(w)
  PROVE  /\ proc[w].pc = "on_cancel" => OnCancel(w)
         /\ proc[w].pc = "closing" => Close(w)
         /\ proc[w].pc = "failing" => FailJob(w)
         /\ proc[w].pc = "cleaning" => CleanUp(w)
         /\ proc'[w].pc # "failing" =>
              /\ proc[w].pc = "discarding" => Discard(w)
              /\ proc[w].pc = "recording" => RecordArtifact(w)
              /\ proc[w].pc = "registering" => Register(w)
              /\ proc[w].pc = "completing" => CompleteJob(w)
              /\ proc[w].pc = "retracting_files" => RetractFiles(w)
              /\ proc[w].pc = "retracting_ownership" => RetractOwnership(w)
         /\ proc'[w].pc = "analyzing" /\ proc[w].pc = "extract" => StageSucceeds(w)
<1> USE DEF Trying, Checkpoints, Stages
<1>1. proc \in [Workers -> Proc] /\ "error" \in Errors
  BY DEF ProcOK, Errors
<1>2. CallFails(w) => proc'[w].pc = "failing"
  BY <1>1, RaiseJumps DEF CallFails, Jumps
<1>3. ASSUME proc[w].pc \in Stages, ~StageSucceeds(w) PROVE proc'[w].pc # "analyzing"
  <2>1. \A why \in Errors : Raise(w, why) => proc'[w].pc = "failing"
    BY <1>1, RaiseJumps DEF Jumps
  <2>2. \A l \in {"on_cancel", "on_download_timeout"} : Goto(w, l) => proc'[w].pc = l
    BY <1>1, GotoJumps DEF Jumps, Labels, Handling
  <2>3. {"timeout", "value_retry", "value_final", "error"} \subseteq Errors
    BY DEF Errors
  <2>4. StageInterrupted(w) \/ StageTimesOut(w) \/ StageRejects(w) \/ StageErrors(w)
    BY <1>3
       DEF WorkerStep, Checkpoint, Validate, Discard, RecordArtifact, Register, CompleteJob,
           RetractFiles, RetractOwnership, OnCancel, Close, OnDownloadTimeout, FailJob,
           CleanUp, CallFails
  <2> QED
    BY <2>1, <2>2, <2>3, <2>4 DEF StageInterrupted, StageTimesOut, StageRejects, StageErrors
<1> QED
  BY <1>2, <1>3
     DEF WorkerStep, Checkpoint, Validate, Discard, StageSucceeds, StageInterrupted,
         StageTimesOut, StageRejects, StageErrors, RecordArtifact, Register, CompleteJob,
         RetractFiles, RetractOwnership, OnCancel, Close, OnDownloadTimeout, FailJob,
         CleanUp, CallFails

\* What any step does to the row of job i.
LEMMA RowMoves ==
  ASSUME IInv, ProcOK, [WorkersNext]_vars, NEW i \in Jobs
  PROVE  /\ rows[i] \in Row /\ rows'[i] \in Row
         /\ RowStep(rows[i], rows'[i])
         /\ \/ Plain(rows[i], rows'[i])
            \/ \E w \in Workers : ClaimJob(w, i)
            \/ Enqueue(i)
            \/ \E w \in Workers : WorkerStep(w) /\ Records(w) /\ proc[w].job = i
            \/ \E w \in Workers : WorkerStep(w) /\ Publishes(w) /\ proc[w].job = i
<1>1. RowStep(rows[i], rows'[i]) /\ rows[i] \in Row /\ rows'[i] \in Row
  BY WorkersStepIsQueueStep, QueueStep DEF TableStep, IInv
<1>2. ASSUME NEW w \in Workers, NEW j \in Jobs, ClaimJob(w, j)
      PROVE  Plain(rows[i], rows'[i]) \/ i = j
  BY <1>2, ClaimedRow DEF ClaimJob
<1>3. ASSUME NEW w \in Workers, WorkerStep(w), Records(w) \/ Publishes(w)
      PROVE  Plain(rows[i], rows'[i]) \/ i = proc[w].job
  <2>1. proc[w].job \in Jobs
    BY <1>3, WorkerStepIsOwn
  <2> QED
    BY <1>3, <2>1, RecordsRows, PublishesRows
<1> QED
  BY <1>1, <1>2, <1>3, WorkersCalls, PlainCallRows, EnqueueRows

\* A lease that a busy worker has, it had, and for the same attempt.
LEMMA BusyKeepsAttempt ==
  ASSUME IInv, ProcOK, [WorkersNext]_vars, NEW v \in Workers, NEW i \in Jobs,
         Busy(v), Owns(v, i)'
  PROVE  Owns(v, i) /\ rows'[i].attempts = rows[i].attempts
<1>1. Owns(v, i)
  BY BusyGainsNothing DEF GainsNothing
<1>2. ASSUME NEW w \in Workers, ClaimJob(w, i) PROVE FALSE
  <2>1. w # v
    BY <1>2 DEF ClaimJob, Busy, Off
  <2> QED
    BY <1>2, <2>1, ClaimedRow DEF ClaimJob, Owns
<1>3. ASSUME Enqueue(i) PROVE FALSE
  BY <1>3, EnqueueRows DEF Owns
<1> QED
  BY <1>1, <1>2, <1>3, RowMoves, RecordsRows, PublishesRows DEF Plain

LEMMA RunIsFixed ==
  ASSUME ProcOK, [WorkersNext]_vars
  PROVE  /\ Uploads' = Uploads
         /\ ~stalled' => ~stalled
<1>1. ASSUME NEW w \in Workers, WorkerStep(w) PROVE UNCHANGED runVars
  BY <1>1, WorkerStepIsOwn
<1>2. UNCHANGED kind
  BY <1>1
     DEF WorkersNext, ClaimJob, Beat, BeatFails, Crash, Restart, Enqueue, Cancel,
         DeleteUpload, Poll, Time, ApiCrash, runVars, vars
<1>3. ASSUME ~stalled' PROVE ~stalled
  <2>1. CASE Time
    BY <1>3, <2>1 DEF Time
  <2>2. CASE ~Time
    <3>1. UNCHANGED stalled
      BY <1>1, <2>2
         DEF WorkersNext, ClaimJob, Beat, BeatFails, Crash, Restart, Enqueue, Cancel,
             DeleteUpload, Poll, ApiCrash, runVars, vars
    <3> QED
      BY <1>3, <3>1
  <2> QED
    BY <2>1, <2>2
<1> QED
  BY <1>2, <1>3 DEF Uploads

-----------------------------------------------------------------------------
(* The ids a worker has in hand.                                           *)

\* Only a URL job is downloaded.
Fetching == {"discarding", "downloading", "download", "recording", "on_download_timeout"}

\* The labels at which the row names the video in hand, and those at which its
\* keyframes are there.
Framed == {"analyzing", "analyze", "finalizing", "registering", "completing"}
Recorded == Framed \cup {"extracting", "extract"}

\* The labels at which the id in hand is the one the attempt has drawn.
Drawn == Recorded \cup {"download", "recording", "on_download_timeout",
                        "retracting_files", "retracting_ownership"}

UploadIds(v) ==
  IsUpload(v) => proc[v].vid = 0 /\ proc[v].path = 0 /\ proc[v].pc \notin Fetching

DownloadIds(v) ==
  ~IsUpload(v) => /\ proc[v].pc \in Drawn => proc[v].vid = proc[v].try
                  /\ proc[v].pc # "validating"

\* Who holds the lease has the attempt of the row; who lost it has an older one
\* or, until the next claim, the same one.
AttemptIds(v) ==
  /\ proc[v].try <= rows[proc[v].job].attempts
  /\ Owns(v, proc[v].job) => proc[v].try = rows[proc[v].job].attempts

ArtifactIds(v) ==
  Owns(v, proc[v].job) /\ proc[v].pc \in Recorded =>
    rows[proc[v].job].artifact = proc[v].vid

RetryIds(v) ==
  proc[v].pc = "failing" /\ proc[v].why = "value_retry" =>
    ~IsUpload(v) /\ proc[v].vid = proc[v].try

\* A worker cleans up after a job that is over without a result, or under an
\* id that no later attempt draws.
CleaningIds(v) ==
  proc[v].pc = "cleaning" =>
    \/ rows[proc[v].job].status \in {"failed", "cancelled"}
    \/ /\ ~IsUpload(v) /\ proc[v].vid = proc[v].try
       /\ \/ rows[proc[v].job].status = "queued"
          \/ proc[v].try < rows[proc[v].job].attempts

ProcIds(v) ==
  /\ UploadIds(v) /\ DownloadIds(v) /\ AttemptIds(v)
  /\ ArtifactIds(v) /\ RetryIds(v) /\ CleaningIds(v)

\* The row of an upload always names the id the API gave it.
UploadRow(i) == i \in Uploads /\ rows[i].status # "none" => rows[i].artifact = 0

ResultRow(i) ==
  i \notin Uploads /\ rows[i].status = "succeeded" => rows[i].artifact = rows[i].attempts

IdInv ==
  /\ \A v \in Workers : Busy(v) => ProcIds(v)
  /\ \A i \in Jobs : UploadRow(i) /\ ResultRow(i)

\* The row of a job whose attempt failed.
LEMMA FailedRow ==
  ASSUME IInv, NEW w \in Workers, NEW j \in Jobs, NEW retryable \in BOOLEAN,
         Fail(w, j, retryable)
  PROVE  /\ Owns(w, j)
         /\ rows'[j].attempts = rows[j].attempts
         /\ rows'[j].status \in {"queued", "failed", "cancelled"}
         /\ rows'[j].status = "queued" => retryable
<1>1. rows[j] \in Row /\ rows \in [Jobs -> Row]
  BY DEF IInv
<1>2. PICK f : f = [rows[j] EXCEPT !.error = TRUE]
  OBVIOUS
<1>3. f \in Row /\ f.attempts = rows[j].attempts
  BY <1>1, <1>2, Zenon DEF Row
<1>4. \A status : /\ Released(f, status).status = status
                  /\ Released(f, status).attempts = f.attempts
  BY <1>3, Zenon DEF Row, Released
<1>5. PICK q : q = [Released(f, "queued") EXCEPT !.wait = Backoff(rows[j].attempts)]
  OBVIOUS
<1>6. q.status = "queued" /\ q.attempts = f.attempts
  BY <1>3, <1>5, Zenon DEF Row, Released
<1>7. \/ rows'[j] \in {Released(f, "cancelled"), Released(f, "failed")}
      \/ rows'[j] = q /\ retryable
  BY <1>1, <1>2, <1>5 DEF Fail, Failed
<1> QED
  BY <1>3, <1>4, <1>6, <1>7 DEF Fail

\* What fail_video_job decides.
LEMMA FailJobRows ==
  ASSUME IInv, ProcOK, NEW w \in Workers, FailJob(w), proc'[w].pc = "cleaning",
         NEW j \in Jobs, j = proc[w].job
  PROVE  /\ Owns(w, j) /\ HasArtifact(w)
         /\ rows'[j].attempts = rows[j].attempts
         /\ rows'[j].status \in {"queued", "failed", "cancelled"}
         /\ rows'[j].status = "queued" => proc[w].why = "value_retry" /\ ~IsUpload(w)
<1>1. ASSUME Return(w) PROVE FALSE
  BY <1>1, ReturnReturns DEF ProcOK, Returns, Idle
<1>2. PICK retryable \in BOOLEAN : retryable = (proc[w].why # "value_final")
  OBVIOUS
<1>3. /\ Fail(w, j, retryable)
      /\ rows'[j].status # "queued" \/ CleansRetry(w)
      /\ HasArtifact(w)
  BY <1>1, <1>2 DEF FailJob
<1> QED
  BY <1>2, <1>3, FailedRow DEF CleansRetry

\* The rows keep to the ids.
LEMMA RowIdsStep ==
  ASSUME IInv, ProcOK, IdInv, [WorkersNext]_vars, NEW i \in Jobs
  PROVE  UploadRow(i)' /\ ResultRow(i)'
<1>1. UploadRow(i) /\ ResultRow(i) /\ Uploads' = Uploads
  BY RunIsFixed DEF IdInv
<1>2. CASE Plain(rows[i], rows'[i])
  BY <1>1, <1>2 DEF Plain, UploadRow, ResultRow
<1>3. ASSUME NEW w \in Workers, ClaimJob(w, i) PROVE UploadRow(i)' /\ ResultRow(i)'
  BY <1>1, <1>3, ClaimedRow DEF ClaimJob, UploadRow, ResultRow
<1>4. CASE Enqueue(i)
  BY <1>1, <1>4, EnqueueRows DEF UploadRow, ResultRow
<1>5. ASSUME NEW w \in Workers, WorkerStep(w), Records(w), proc[w].job = i
      PROVE  UploadRow(i)' /\ ResultRow(i)'
  <2>1. /\ rows'[i].artifact = proc[w].vid /\ rows'[i].status = "running"
        /\ proc[w].pc = "recording" /\ Busy(w)
    BY <1>5, RecordsRows DEF Owns, Records, Busy, Off
  <2>2. i \notin Uploads
    BY <1>5, <2>1 DEF IdInv, ProcIds, UploadIds, IsUpload, Fetching
  <2> QED
    BY <1>1, <2>1, <2>2 DEF UploadRow, ResultRow
<1>6. ASSUME NEW w \in Workers, WorkerStep(w), Publishes(w), proc[w].job = i
      PROVE  UploadRow(i)' /\ ResultRow(i)'
  <2>1. /\ rows'[i].artifact = rows[i].artifact /\ rows'[i].attempts = rows[i].attempts
        /\ proc[w].pc = "completing" /\ Busy(w)
        /\ Owns(w, i) /\ rows[i].status = "running" /\ ProcIds(w)
    BY <1>6, PublishesRows DEF Owns, Publishes, Busy, Off, IdInv
  <2>2. i \notin Uploads => rows[i].artifact = rows[i].attempts
    BY <1>6, <2>1 DEF ProcIds, ArtifactIds, DownloadIds, AttemptIds, IsUpload, Drawn,
                      Recorded, Framed
  <2> QED
    BY <1>1, <2>1, <2>2 DEF UploadRow, ResultRow
<1> QED
  BY <1>2, <1>3, <1>4, <1>5, <1>6, RowMoves

\* A worker that holds on to what it has, whatever others do.
LEMMA StayingIds ==
  ASSUME IInv, ProcOK, IdInv, [WorkersNext]_vars, NEW v \in Workers, Busy(v),
         proc'[v].pc = proc[v].pc, proc'[v].job = proc[v].job, proc'[v].try = proc[v].try,
         proc'[v].vid = proc[v].vid, proc'[v].path = proc[v].path, proc'[v].why = proc[v].why
  PROVE  ProcIds(v)'
<1> DEFINE j == proc[v].job
<1>1. /\ j \in Jobs /\ ProcIds(v) /\ Uploads' = Uploads
      /\ proc[v].try \in Int /\ rows[j] \in Row /\ rows'[j] \in Row
  BY RunIsFixed, RowMoves DEF ProcOK, IdInv, Proc
<1>2. UploadIds(v)' /\ DownloadIds(v)' /\ RetryIds(v)'
  BY <1>1 DEF ProcIds, UploadIds, DownloadIds, RetryIds, IsUpload
<1>3. rows[j].attempts \in Int /\ rows'[j].attempts \in Int
  BY <1>1 DEF Row
<1>4. rows'[j].attempts >= rows[j].attempts
  BY <1>1, <1>3, RowMoves, ClaimedRow, EnqueueRows, RecordsRows, PublishesRows
     DEF Plain, ClaimJob
<1>5. AttemptIds(v)'
  BY <1>1, <1>3, <1>4, BusyKeepsAttempt DEF ProcIds, AttemptIds, Owns
<1>6. ArtifactIds(v)'
  <2>1. SUFFICES ASSUME Owns(v, j)', proc[v].pc \in Recorded
                 PROVE  rows'[j].artifact = proc[v].vid
    BY DEF ArtifactIds, Owns
  <2>2. Owns(v, j) /\ rows'[j].attempts = rows[j].attempts
    BY <1>1, <2>1, BusyKeepsAttempt
  <2>3. rows[j].artifact = proc[v].vid
    BY <1>1, <2>1, <2>2 DEF ProcIds, ArtifactIds
  <2>4. ASSUME NEW w \in Workers, WorkerStep(w), Records(w) \/ Publishes(w),
               proc[w].job = j
        PROVE  FALSE
    <3>1. Owns(w, j)
      BY <1>1, <2>4, RecordsRows, PublishesRows
    <3>2. w = v
      BY <2>2, <3>1 DEF Owns
    <3>3. Publishes(v)
      BY <2>4, <3>2 DEF Records
    <3>4. rows'[j].status = "succeeded"
      BY <1>1, <3>3, PublishesRows
    <3> QED
      BY <2>1, <3>4 DEF Owns
  <2>5. ~Enqueue(j) /\ \A w \in Workers : ~ClaimJob(w, j)
    BY <1>1, <2>2, <1>3, EnqueueRows, ClaimedRow DEF ClaimJob, Owns
  <2> QED
    BY <1>1, <2>3, <2>4, <2>5, RowMoves DEF Plain
<1>7. CleaningIds(v)'
  <2>1. SUFFICES ASSUME proc[v].pc = "cleaning"
                 PROVE  \/ rows'[j].status \in {"failed", "cancelled"}
                        \/ /\ j \notin Uploads /\ proc[v].vid = proc[v].try
                           /\ \/ rows'[j].status = "queued"
                              \/ proc[v].try < rows'[j].attempts
    BY <1>1 DEF CleaningIds, IsUpload
  <2>2. CASE rows[j].status \in {"failed", "cancelled"}
    BY <1>1, <2>2, RowMoves DEF RowStep, Terminal
  <2>3. CASE /\ j \notin Uploads /\ proc[v].vid = proc[v].try
             /\ proc[v].try < rows[j].attempts
    BY <1>1, <1>3, <1>4, <2>3
  <2>4. CASE /\ j \notin Uploads /\ proc[v].vid = proc[v].try
             /\ rows[j].status = "queued"
    <3>1. proc[v].try <= rows[j].attempts
      BY <1>1 DEF ProcIds, AttemptIds
    <3>2. ASSUME NEW w \in Workers, ClaimJob(w, j)
          PROVE  proc[v].try < rows'[j].attempts
      BY <1>1, <1>3, <3>1, <3>2, ClaimedRow DEF ClaimJob
    <3>3. ~Enqueue(j)
      BY <1>1, <2>4, EnqueueRows
    <3>4. ASSUME NEW w \in Workers, WorkerStep(w), Records(w) \/ Publishes(w),
                 proc[w].job = j
          PROVE  FALSE
      BY <1>1, <2>4, <3>4, RecordsRows, PublishesRows DEF Owns
    <3>5. CASE Plain(rows[j], rows'[j])
      <4>1. rows'[j].status \notin {"running", "succeeded"}
        BY <2>4, <3>5 DEF Plain
      <4>2. rows'[j].status # "none"
        <5>1. PhaseOf(rows'[j]) = PhaseOf(rows[j])
                \/ <<PhaseOf(rows[j]), PhaseOf(rows'[j])>> \in Lifecycle!Moves
          BY <1>1, RowMoves DEF RowStep
        <5> QED
          BY <2>4, <5>1 DEF PhaseOf, Terminal, Lifecycle!Moves
      <4>3. rows'[j].status \in Status
        BY <1>1 DEF Row
      <4> QED
        BY <2>4, <4>1, <4>2, <4>3 DEF Status, Terminal
    <3> QED
      BY <1>1, <2>4, <3>2, <3>3, <3>4, <3>5, RowMoves
  <2> QED
    BY <1>1, <2>1, <2>2, <2>3, <2>4 DEF ProcIds, CleaningIds, IsUpload
<1> QED
  BY <1>2, <1>5, <1>6, <1>7 DEF ProcIds

\* A worker that goes on with its job.
LEMMA SteppingIds ==
  ASSUME IInv, ProcOK, IdInv, [WorkersNext]_vars, NEW v \in Workers,
         WorkerStep(v), Advances(v)
  PROVE  ProcIds(v)'
<1> DEFINE j == proc[v].job
<1> USE DEF Fetching, Drawn, Recorded, Framed, Trying, Checkpoints, Stages
<1>1. /\ j \in Jobs /\ Busy(v) /\ ProcIds(v) /\ Uploads' = Uploads
      /\ proc[v].try \in Int /\ rows[j] \in Row /\ rows'[j] \in Row
      /\ proc'[v].job = j /\ proc'[v].try = proc[v].try
  BY WorkerStepIsOwn, RunIsFixed, RowMoves DEF ProcOK, IdInv, Proc, Advances
<1>2. rows[j].attempts \in Int /\ rows'[j].attempts \in Int
  BY <1>1 DEF Row
<1>3. j \in Uploads => proc'[v].vid = 0 /\ proc'[v].path = 0 /\ proc'[v].pc \notin Fetching
  <2>1. SUFFICES ASSUME j \in Uploads
                 PROVE  /\ proc'[v].vid = 0 /\ proc'[v].path = 0
                        /\ proc'[v].pc \notin Fetching
    OBVIOUS
  <2>2. proc[v].vid = 0 /\ proc[v].path = 0 /\ proc[v].pc \notin Fetching
    BY <1>1, <2>1 DEF ProcIds, UploadIds, IsUpload
  <2>3. proc'[v].pc \notin Fetching
    BY <2>1, <2>2 DEF Advances, Follows, IsUpload
  <2> QED
    BY <2>2, <2>3 DEF Advances
<1>4. UploadIds(v)'
  BY <1>1, <1>3 DEF UploadIds, IsUpload
<1>5. DownloadIds(v)'
  BY <1>1 DEF ProcIds, DownloadIds, Advances, Follows, IsUpload
<1>6. AttemptIds(v)'
  <2>1. rows'[j].attempts >= rows[j].attempts
    BY <1>1, <1>2, RowMoves, ClaimedRow, EnqueueRows, RecordsRows, PublishesRows
       DEF Plain, ClaimJob
  <2> QED
    BY <1>1, <1>2, <2>1, BusyKeepsAttempt DEF ProcIds, AttemptIds, Owns
<1>7. ArtifactIds(v)'
  <2>1. SUFFICES ASSUME Owns(v, j)', proc'[v].pc \in Recorded
                 PROVE  rows'[j].artifact = proc'[v].vid
    BY <1>1 DEF ArtifactIds, Owns
  <2>2. CASE j \in Uploads
    <3>1. UploadRow(j)' /\ rows'[j].status = "running"
      BY <1>1, <2>1, RowIdsStep DEF Owns
    <3> QED
      BY <1>1, <1>3, <2>2, <3>1 DEF UploadRow
  <2>3. CASE j \notin Uploads /\ proc[v].pc = "recording"
    <3>1. Records(v)
      BY <2>1, <2>3, StepAtLabel, RecordingRecords
    <3> QED
      BY <1>1, <2>1, <3>1, RecordsRows DEF Advances
  <2>4. CASE j \notin Uploads /\ proc[v].pc # "recording"
    <3>1. /\ proc[v].pc \in Recorded /\ proc'[v].vid = proc[v].vid
      BY <1>1, <2>1, <2>4 DEF Advances, Follows, ProcIds, DownloadIds, IsUpload
    <3>2. Owns(v, j)
      BY <1>1, <2>1, BusyKeepsAttempt
    <3>3. rows'[j].artifact = rows[j].artifact
      <4>1. ASSUME NEW w \in Workers, WorkerStep(w), Records(w), proc[w].job = j PROVE FALSE
        <5>1. w = v
          BY <1>1, <3>2, <4>1, RecordsRows DEF Owns
        <5> QED
          BY <2>4, <4>1, <5>1 DEF Records
      <4>2. ~Enqueue(j) /\ \A w \in Workers : ~ClaimJob(w, j)
        BY <1>1, <1>2, <2>1, <3>2, EnqueueRows, ClaimedRow, BusyKeepsAttempt
           DEF ClaimJob, Owns
      <4> QED
        BY <1>1, <4>1, <4>2, RowMoves, PublishesRows DEF Plain
    <3> QED
      BY <1>1, <3>1, <3>2, <3>3 DEF ProcIds, ArtifactIds
  <2> QED
    BY <2>2, <2>3, <2>4
<1>8. RetryIds(v)'
  <2>1. proc[v].pc = "download" => j \notin Uploads /\ proc[v].vid = proc[v].try
    BY <1>1 DEF ProcIds, UploadIds, DownloadIds, IsUpload
  <2> QED
    BY <1>1, <2>1 DEF RetryIds, Advances, IsUpload
<1>9. CleaningIds(v)'
  <2>1. SUFFICES ASSUME proc'[v].pc = "cleaning"
                 PROVE  \/ rows'[j].status \in {"failed", "cancelled"}
                        \/ /\ j \notin Uploads /\ proc'[v].vid = proc'[v].try
                           /\ rows'[j].status = "queued"
    BY <1>1 DEF CleaningIds, IsUpload
  <2>2. FailJob(v)
    BY <2>1, StepAtLabel DEF Advances, Follows
  <2>3. /\ rows'[j].status \in {"queued", "failed", "cancelled"}
        /\ rows'[j].status = "queued" => proc[v].why = "value_retry" /\ ~IsUpload(v)
    BY <1>1, <2>1, <2>2, FailJobRows
  <2>4. proc[v].pc = "failing" /\ proc'[v].vid = proc[v].vid
    BY <2>1, <2>2 DEF FailJob, Advances
  <2> QED
    BY <1>1, <2>3, <2>4 DEF ProcIds, RetryIds, IsUpload
<1> QED
  BY <1>4, <1>5, <1>6, <1>7, <1>8, <1>9 DEF ProcIds

\* A worker that has just claimed a job.
LEMMA ClaimingIds ==
  ASSUME IInv, ProcOK, IdInv, [WorkersNext]_vars, NEW v \in Workers, NEW j \in Jobs,
         ClaimJob(v, j)
  PROVE  ProcIds(v)'
<1>1. RowInv(rows'[j])
  BY ClaimStep DEF ClaimJob, TableStep, RowStep
<1>2. /\ proc'[v].pc = "preparing" /\ proc'[v].job = j
      /\ proc'[v].try = rows'[j].attempts
      /\ proc'[v].vid = rows'[j].artifact /\ proc'[v].path = rows'[j].artifact
  BY <1>1, Claims DEF RowInv, ProcOK
<1>3. rows'[j].attempts \in Int /\ rows'[j].status = "running"
  BY <1>1, ClaimedRow DEF ClaimJob, RowInv, Row
<1>4. j \in Uploads' => rows'[j].artifact = 0
  BY <1>3, RowIdsStep DEF UploadRow
<1> QED
  BY <1>2, <1>3, <1>4
     DEF ProcIds, UploadIds, DownloadIds, AttemptIds, ArtifactIds, RetryIds, CleaningIds,
         IsUpload, Fetching, Drawn, Recorded, Framed

LEMMA IdStep ==
  ASSUME IInv, ProcOK, IdInv, [WorkersNext]_vars
  PROVE  IdInv'
<1>1. ASSUME NEW v \in Workers, Busy(v)' PROVE ProcIds(v)'
  <2>1. CASE WorkerStep(v) /\ Advances(v)
    BY <2>1, SteppingIds
  <2>2. CASE \E j \in Jobs : ClaimJob(v, j)
    BY <2>2, ClaimingIds
  <2>3. CASE /\ proc'[v].pc = proc[v].pc /\ proc'[v].job = proc[v].job
             /\ proc'[v].try = proc[v].try /\ proc'[v].vid = proc[v].vid
             /\ proc'[v].path = proc[v].path /\ proc'[v].why = proc[v].why
    <3>1. Busy(v)
      BY <1>1, <2>3 DEF Busy
    <3> QED
      BY <2>3, <3>1, StayingIds
  <2> QED
    BY <1>1, <2>1, <2>2, <2>3, ProcMoves DEF Busy
<1> QED
  BY <1>1, RowIdsStep DEF IdInv

-----------------------------------------------------------------------------
(* What is on disk under those ids.                                        *)

FramesThere(v) == proc[v].pc \in Framed => <<proc[v].job, proc[v].vid>> \in frames

OwnedThere(v) == proc[v].pc = "completing" => <<proc[v].job, proc[v].vid>> \in owned

Published(i) ==
  rows[i].status = "succeeded" =>
    <<i, rows[i].artifact>> \in owned /\ <<i, rows[i].artifact>> \in frames

Staged(i) ==
  /\ i \in Uploads
  /\ \/ rows[i].status = "queued"
     \/ rows[i].status = "running" /\ ~rows[i].cancel
  => <<i, 0>> \in files

\* A DELETE request removes the upload of a cancelled job only.
DeletingInv == \A i \in deleting : i \in Jobs /\ rows[i].status = "cancelled"

DiskInv ==
  ~stalled => /\ \A v \in Workers : FramesThere(v) /\ OwnedThere(v)
              /\ \A i \in Jobs : Published(i) /\ Staged(i)

FilesInv == WorkersInv /\ IdInv /\ DeletingInv /\ DiskInv

\* The labels at which a worker removes keyframes.
Removing == {"discarding", "retracting_files", "on_cancel", "cleaning"}

\* What a step takes off the disk, and who takes it.
LEMMA Removals ==
  ASSUME ProcOK, [WorkersNext]_vars, NEW i, NEW id
  PROVE  /\ <<i, id>> \in frames /\ <<i, id>> \notin frames' =>
              \/ \E w \in Workers : /\ proc[w].job = i /\ proc[w].vid = id
                                    /\ proc[w].pc \in Removing /\ UNCHANGED rows
              \/ i \in deleting /\ id = 0 /\ UNCHANGED rows
         /\ <<i, id>> \in files /\ <<i, id>> \notin files' =>
              \/ \E w \in Workers : /\ proc[w].job = i
                                    /\ proc[w].pc \in Removing \cup {"on_download_timeout"}
                                    /\ UNCHANGED rows
              \/ i \in deleting /\ id = 0 /\ UNCHANGED rows
         /\ <<i, id>> \in owned /\ <<i, id>> \notin owned' =>
              \E w \in Workers : /\ proc[w].job = i /\ proc[w].vid = id
                                 /\ proc[w].pc = "retracting_ownership" /\ UNCHANGED rows
<1>1. ASSUME NEW w \in Workers, WorkerStep(w)
      PROVE  /\ <<i, id>> \in frames /\ <<i, id>> \notin frames' =>
                  /\ proc[w].job = i /\ proc[w].vid = id
                  /\ proc[w].pc \in Removing /\ UNCHANGED rows
             /\ <<i, id>> \in files /\ <<i, id>> \notin files' =>
                  /\ proc[w].job = i
                  /\ proc[w].pc \in Removing \cup {"on_download_timeout"} /\ UNCHANGED rows
             /\ <<i, id>> \in owned /\ <<i, id>> \notin owned' =>
                  /\ proc[w].job = i /\ proc[w].vid = id
                  /\ proc[w].pc = "retracting_ownership" /\ UNCHANGED rows
  <2>1. CASE Discard(w) \/ RetractFiles(w) \/ OnCancel(w) \/ CleanUp(w)
    BY <2>1 DEF Discard, RetractFiles, OnCancel, CleanUp, Cleanup, Removing, fileVars
  <2>2. CASE OnDownloadTimeout(w) \/ RetractOwnership(w)
    BY <2>2 DEF OnDownloadTimeout, RetractOwnership
  <2>3. ASSUME ~Discard(w), ~RetractFiles(w), ~OnCancel(w), ~CleanUp(w),
               ~OnDownloadTimeout(w), ~RetractOwnership(w)
        PROVE  files \subseteq files' /\ frames \subseteq frames' /\ owned \subseteq owned'
    BY <1>1, <2>3
       DEF WorkerStep, Checkpoint, Validate, StageSucceeds, StageInterrupted, StageTimesOut,
           StageRejects, StageErrors, RecordArtifact, Register, CompleteJob, Close, FailJob,
           CallFails, MayLeaveOutput, fileVars
  <2> QED
    BY <2>1, <2>2, <2>3
<1>2. ASSUME NEW j \in Jobs, DeleteUpload(j)
      PROVE  /\ <<i, id>> \in frames /\ <<i, id>> \notin frames' =>
                  i \in deleting /\ id = 0 /\ UNCHANGED rows
             /\ <<i, id>> \in files /\ <<i, id>> \notin files' =>
                  i \in deleting /\ id = 0 /\ UNCHANGED rows
             /\ UNCHANGED owned
  BY <1>2 DEF DeleteUpload, Cleanup
<1>3. ASSUME NEW w \in Workers, Beat(w) \/ BeatFails(w) \/ Crash(w) \/ Restart(w)
                                 \/ \E j \in Jobs : ClaimJob(w, j)
      PROVE  files \subseteq files' /\ frames \subseteq frames' /\ owned \subseteq owned'
  BY <1>3 DEF Beat, BeatFails, Crash, Restart, ClaimJob, MayLeaveOutput
<1>4. ASSUME NEW j \in Jobs, Enqueue(j) \/ Cancel(j)
      PROVE  files \subseteq files' /\ frames \subseteq frames' /\ owned \subseteq owned'
  BY <1>4 DEF Enqueue, Cancel
<1>5. ASSUME Poll \/ Time \/ ApiCrash \/ UNCHANGED vars
      PROVE  files \subseteq files' /\ frames \subseteq frames' /\ owned \subseteq owned'
  BY <1>5 DEF Poll, Time, ApiCrash, vars
<1> QED
  BY <1>1, <1>2, <1>3, <1>4, <1>5 DEF WorkersNext

\* A worker that has not reported yet holds the lease, so nobody else does.
LEMMA HoldersAreAlone ==
  ASSUME WorkersInv, ~stalled, NEW v \in Workers, proc[v].pc \in Holding,
         NEW w \in Workers, proc[w].pc \in Holding, proc[w].job = proc[v].job
  PROVE  w = v
BY DEF WorkersInv, LeaseInv, HoldsLease, Owns

\* A video that a published result points at, or the worker that is about to
\* publish one, is taken off the disk by nobody.
LEMMA NeededIsKept ==
  ASSUME WorkersInv, IdInv, DeletingInv, ~stalled, [WorkersNext]_vars, NEW i \in Jobs,
         \/ rows[i].status = "succeeded"
         \/ \E v \in Workers : proc[v].pc \in Framed /\ proc[v].job = i
  PROVE  LET video == <<i, rows[i].artifact>>
         IN  /\ video \in frames => video \in frames'
             /\ video \in owned => video \in owned'
<1> DEFINE id == rows[i].artifact
<1>1. IInv /\ ProcOK /\ rows[i] \in Row
  BY DEF WorkersInv, IInv
<1>2. i \notin deleting
  <2>1. CASE rows[i].status = "succeeded"
    BY <2>1 DEF DeletingInv
  <2>2. ASSUME NEW v \in Workers, proc[v].pc \in Framed, proc[v].job = i
        PROVE  rows[i].status = "running"
    BY <2>2 DEF WorkersInv, LeaseInv, HoldsLease, Owns, Framed, Holding, Trying, Checkpoints,
                Stages
  <2> QED
    BY <2>1, <2>2 DEF DeletingInv
<1>3. ASSUME NEW w \in Workers, proc[w].job = i, proc[w].vid = id,
             proc[w].pc \in Removing \cup {"retracting_ownership"}
      PROVE  FALSE
  <2>1. Busy(w) /\ ProcIds(w) /\ proc[w].try \in Int
    BY <1>1, <1>3 DEF IdInv, Busy, Off, Removing, ProcOK, Proc
  <2>2. CASE proc[w].pc = "cleaning" /\ rows[i].status = "succeeded"
    <3>1. /\ i \notin Uploads /\ proc[w].vid = proc[w].try
          /\ proc[w].try < rows[i].attempts
      BY <1>3, <2>1, <2>2 DEF ProcIds, CleaningIds, IsUpload
    <3>2. id = rows[i].attempts
      BY <2>2, <3>1 DEF IdInv, ResultRow
    <3>3. rows[i].attempts \in Int
      BY <1>1 DEF Row
    <3>4. proc[w].try = rows[i].attempts
      BY <1>3, <3>1, <3>2, Zenon
    <3> QED
      BY <2>1, <3>1, <3>3, <3>4
  <2>3. ASSUME NEW v \in Workers, proc[v].pc \in Framed, proc[v].job = i,
               proc[w].pc = "cleaning"
        PROVE  FALSE
    <3>1. Owns(v, i) /\ Busy(v) /\ ProcIds(v)
      BY <2>3 DEF WorkersInv, LeaseInv, HoldsLease, Framed, Holding, Trying, Checkpoints,
                  Stages, IdInv
    <3>2. proc[v].vid = id /\ proc[v].try = rows[i].attempts
      BY <2>3, <3>1 DEF ProcIds, ArtifactIds, AttemptIds, Recorded
    <3>3. /\ i \notin Uploads /\ proc[w].vid = proc[w].try
          /\ proc[w].try < rows[i].attempts
      BY <1>3, <2>1, <2>3, <3>1 DEF ProcIds, CleaningIds, IsUpload, Owns
    <3>4. proc[v].vid = proc[v].try
      BY <2>3, <3>1, <3>3 DEF ProcIds, DownloadIds, IsUpload, Drawn, Recorded
    <3> QED
      BY <1>1, <1>3, <2>1, <3>2, <3>3, <3>4 DEF Row
  <2>4. CASE proc[w].pc # "cleaning"
    <3>1. proc[w].pc \in Holding /\ proc[w].pc \notin Framed
      BY <1>3, <2>4 DEF Removing, Holding, Handling, Trying, Framed
    <3>2. rows[i].status = "running"
      BY <1>3, <3>1 DEF WorkersInv, LeaseInv, HoldsLease, Owns
    <3>3. PICK v \in Workers : proc[v].pc \in Framed /\ proc[v].job = i
      BY <3>2
    <3>4. proc[v].pc \in Holding
      BY <3>3 DEF Framed, Holding, Trying, Checkpoints, Stages
    <3> QED
      BY <1>3, <3>1, <3>3, <3>4, HoldersAreAlone
  <2> QED
    BY <2>2, <2>3, <2>4
<1> QED
  BY <1>1, <1>2, <1>3, Removals

LEMMA DeletingStep ==
  ASSUME IInv, ProcOK, DeletingInv, [WorkersNext]_vars
  PROVE  DeletingInv'
<1>1. ASSUME NEW i \in deleting
      PROVE  i \in Jobs /\ rows'[i].status = "cancelled"
  <2>1. i \in Jobs /\ rows[i].status = "cancelled"
    BY DEF DeletingInv
  <2>2. RowStep(rows[i], rows'[i])
    BY <2>1, RowMoves
  <2>3. rows'[i] = rows[i]
    BY <2>1, <2>2 DEF RowStep, Terminal
  <2> QED
    BY <2>1, <2>3
<1>2. ASSUME NEW j \in Jobs, Cancel(j)
      PROVE  DeletingInv'
  BY <1>1, <1>2 DEF Cancel, DeletingInv
<1>3. ASSUME ~\E j \in Jobs : Cancel(j) PROVE deleting' \subseteq deleting
  <2>1. \A w \in Workers : WorkerStep(w) => UNCHANGED deleting
    BY DEF WorkerStep, Checkpoint, Validate, Discard, StageSucceeds, StageInterrupted,
           StageTimesOut, StageRejects, StageErrors, RecordArtifact, Register, CompleteJob,
           RetractFiles, RetractOwnership, OnCancel, Close, OnDownloadTimeout, FailJob,
           CleanUp, CallFails
  <2> QED
    BY <1>3, <2>1
       DEF WorkersNext, ClaimJob, Beat, BeatFails, Crash, Restart, Enqueue, DeleteUpload,
           Poll, Time, ApiCrash, vars
<1> QED
  BY <1>1, <1>2, <1>3 DEF DeletingInv

LEMMA FramesThereStep ==
  ASSUME FilesInv, ~stalled, [WorkersNext]_vars, NEW v \in Workers
  PROVE  FramesThere(v)' /\ OwnedThere(v)'
<1>1. IInv /\ ProcOK /\ IdInv
  BY DEF FilesInv, WorkersInv
<1>2. CASE \/ /\ proc'[v].pc = proc[v].pc /\ proc'[v].job = proc[v].job
              /\ proc'[v].vid = proc[v].vid
           \/ WorkerStep(v) /\ Advances(v)
  <2> DEFINE i == proc[v].job
  <2>1. /\ proc'[v].job = i
        /\ proc'[v].pc \in Framed \cup {"extract"} => proc'[v].vid = proc[v].vid
    BY <1>2 DEF Advances, Framed
  <2>2. CASE proc[v].pc \in Framed
    <3>1. /\ i \in Jobs /\ Owns(v, i) /\ ProcIds(v)
      BY <1>1, <2>2 DEF ProcOK, Busy, Off, Framed, FilesInv, WorkersInv, LeaseInv, HoldsLease,
                   Holding, Trying, Checkpoints, Stages, IdInv
    <3>2. rows[i].artifact = proc[v].vid
      BY <2>2, <3>1 DEF ProcIds, ArtifactIds, Recorded
    <3>3. /\ <<i, proc[v].vid>> \in frames => <<i, proc[v].vid>> \in frames'
          /\ <<i, proc[v].vid>> \in owned => <<i, proc[v].vid>> \in owned'
      BY <2>2, <3>1, <3>2, NeededIsKept DEF FilesInv
    <3>4. /\ <<i, proc[v].vid>> \in frames
          /\ proc[v].pc = "completing" => <<i, proc[v].vid>> \in owned
      BY <2>2 DEF FilesInv, DiskInv, FramesThere, OwnedThere
    <3>5. proc'[v].pc = "completing" /\ proc[v].pc # "completing" =>
            <<i, proc[v].vid>> \in owned'
      <4>1. SUFFICES ASSUME proc'[v].pc = "completing", proc[v].pc # "completing"
                     PROVE  <<i, proc[v].vid>> \in owned'
        OBVIOUS
      <4>2. WorkerStep(v) /\ proc[v].pc = "registering"
        BY <1>2, <4>1 DEF Advances, Follows
      <4>3. Register(v)
        BY <1>1, <4>1, <4>2, StepAtLabel
      <4>4. ~Raise(v, "value_final")
        BY <1>1, <4>1, RaiseJumps DEF ProcOK, Jumps, Errors
      <4> QED
        BY <4>3, <4>4 DEF Register
    <3> QED
      BY <2>1, <3>3, <3>4, <3>5 DEF FramesThere, OwnedThere, Framed
  <2>3. CASE proc[v].pc \notin Framed /\ proc'[v].pc \in Framed
    <3>1. proc[v].pc = "extract" /\ proc'[v].pc = "analyzing" /\ WorkerStep(v)
      BY <1>2, <2>3 DEF Advances, Follows, Framed
    <3>2. StageSucceeds(v)
      BY <1>1, <3>1, StepAtLabel
    <3>3. <<i, proc[v].vid>> \in frames'
      BY <3>1, <3>2 DEF StageSucceeds
    <3> QED
      BY <2>1, <3>1, <3>3 DEF FramesThere, OwnedThere, Framed
  <2> QED
    BY <2>2, <2>3 DEF FramesThere, OwnedThere, Framed
<1>3. CASE proc'[v].pc \in Off
  BY <1>3 DEF FramesThere, OwnedThere, Framed, Off
<1>4. ASSUME NEW j \in Jobs, ClaimJob(v, j) PROVE proc'[v].pc = "preparing"
  <2>1. RowInv(rows'[j])
    BY <1>1, <1>4, ClaimStep DEF ClaimJob, TableStep, RowStep
  <2> QED
    BY <1>1, <1>4, <2>1, Claims DEF RowInv, ProcOK
<1> QED
  BY <1>1, <1>2, <1>3, <1>4, ProcMoves DEF FramesThere, OwnedThere, Framed

LEMMA PublishedStep ==
  ASSUME FilesInv, ~stalled, [WorkersNext]_vars, NEW i \in Jobs
  PROVE  Published(i)'
<1>1. IInv /\ ProcOK /\ IdInv /\ WorkersInv /\ DeletingInv
  BY DEF FilesInv, WorkersInv
<1>2. SUFFICES ASSUME rows'[i].status = "succeeded"
               PROVE  /\ <<i, rows'[i].artifact>> \in owned'
                      /\ <<i, rows'[i].artifact>> \in frames'
  BY DEF Published
<1>3. CASE rows[i].status = "succeeded"
  <2>1. rows'[i] = rows[i]
    BY <1>1, <1>3, RowMoves DEF RowStep, Terminal
  <2>2. <<i, rows[i].artifact>> \in owned /\ <<i, rows[i].artifact>> \in frames
    BY <1>3 DEF FilesInv, DiskInv, Published
  <2> QED
    BY <1>1, <1>3, <2>1, <2>2, NeededIsKept
<1>4. CASE rows[i].status # "succeeded"
  <2>1. PICK w \in Workers : WorkerStep(w) /\ Publishes(w) /\ proc[w].job = i
    BY <1>1, <1>2, <1>4, RowMoves, ClaimedRow, EnqueueRows, RecordsRows
       DEF Plain, ClaimJob, Owns
  <2>2. /\ Owns(w, i) /\ rows'[i].artifact = rows[i].artifact
        /\ proc[w].pc = "completing" /\ Busy(w)
    BY <1>1, <2>1, PublishesRows DEF Publishes, Busy, Off
  <2>3. proc[w].vid = rows[i].artifact
    BY <2>1, <2>2 DEF FilesInv, IdInv, ProcIds, ArtifactIds, Recorded, Framed
  <2>4. <<i, rows[i].artifact>> \in owned /\ <<i, rows[i].artifact>> \in frames
    BY <2>1, <2>2, <2>3 DEF FilesInv, DiskInv, FramesThere, OwnedThere, Framed
  <2> QED
    BY <1>1, <2>1, <2>2, <2>4, NeededIsKept DEF Framed
<1> QED
  BY <1>3, <1>4

LEMMA StagedStep ==
  ASSUME FilesInv, ~stalled, [WorkersNext]_vars, NEW i \in Jobs
  PROVE  Staged(i)'
<1>1. IInv /\ ProcOK /\ IdInv /\ WorkersInv /\ Uploads' = Uploads
  BY RunIsFixed DEF FilesInv, WorkersInv
<1>2. SUFFICES ASSUME i \in Uploads,
                      \/ rows'[i].status = "queued"
                      \/ rows'[i].status = "running" /\ ~rows'[i].cancel
               PROVE  <<i, 0>> \in files'
  BY <1>1 DEF Staged
<1>3. RowStep(rows[i], rows'[i]) /\ RowInv(rows'[i]) /\ rows[i] \in Row
  BY <1>1, RowMoves DEF RowStep
<1>4. CASE rows[i].status = "none"
  <2>1. Enqueue(i)
    BY <1>1, <1>2, <1>4, RowMoves, ClaimedRow, RecordsRows, PublishesRows
       DEF Plain, ClaimJob, Owns
  <2> QED
    BY <1>2, <2>1 DEF Enqueue
<1>5. CASE rows[i].status # "none"
  <2>1. rows[i].status \notin Terminal
    BY <1>2, <1>3 DEF RowStep, Terminal
  <2>2. ~rows[i].cancel
    BY <1>2, <1>3 DEF RowStep, RowInv
  <2>3. rows[i].status \in {"queued", "running"}
    BY <1>3, <1>5, <2>1 DEF Row, Status
  <2>4. <<i, 0>> \in files
    BY <1>2, <2>2, <2>3 DEF FilesInv, DiskInv, Staged
  <2>5. i \notin deleting
    BY <2>3 DEF FilesInv, DeletingInv
  <2>6. ASSUME NEW w \in Workers, proc[w].job = i,
               proc[w].pc \in Removing \cup {"on_download_timeout"}
        PROVE  FALSE
    <3>1. Busy(w) /\ ProcIds(w)
      BY <1>1, <2>6 DEF IdInv, Busy, Off, Removing
    <3>2. proc[w].pc \notin Fetching
      BY <1>2, <2>6, <3>1 DEF ProcIds, UploadIds, IsUpload
    <3>3. proc[w].pc # "cleaning"
      BY <1>2, <2>3, <2>6, <3>1 DEF ProcIds, CleaningIds, IsUpload
    <3>4. proc[w].pc \in {"retracting_files", "on_cancel"}
      BY <2>6, <3>2, <3>3 DEF Removing, Fetching
    <3>5. HoldsLease(w)
      BY <1>1, <3>4 DEF WorkersInv, LeaseInv, Holding, Handling, Trying
    <3> QED
      BY <1>1, <2>2, <2>6, <3>4, <3>5 DEF WorkersInv, CancelInv, Cancelling
  <2> QED
    BY <1>1, <2>4, <2>5, <2>6, Removals
<1> QED
  BY <1>4, <1>5

LEMMA FilesStep == FilesInv /\ [WorkersNext]_vars => FilesInv'
<1> SUFFICES ASSUME FilesInv, [WorkersNext]_vars PROVE FilesInv'
  OBVIOUS
<1>1. IInv /\ ProcOK /\ IdInv /\ WorkersInv /\ DeletingInv
  BY DEF FilesInv, WorkersInv
<1>2. WorkersInv' /\ IdInv' /\ DeletingInv'
  BY <1>1, WorkersStepKeeps, IdStep, DeletingStep
<1>3. DiskInv'
  BY <1>1, RunIsFixed, FramesThereStep, PublishedStep, StagedStep DEF DiskInv
<1> QED
  BY <1>2, <1>3 DEF FilesInv

LEMMA FilesInitially == WorkersInit => FilesInv
<1> SUFFICES ASSUME WorkersInit PROVE FilesInv
  OBVIOUS
<1>1. WorkersInv
  BY WorkersInitially
<1>2. \A w \in Workers : proc[w].pc = "idle"
  BY DEF WorkersInit, Idle
<1>3. \A j \in Jobs : rows[j].status = "none"
  BY DEF WorkersInit, Init, NoRow
<1>4. IdInv /\ DeletingInv
  BY <1>2, <1>3
     DEF IdInv, Busy, Off, UploadRow, ResultRow, DeletingInv, WorkersInit
<1>5. DiskInv
  BY <1>2, <1>3 DEF DiskInv, FramesThere, OwnedThere, Published, Staged, Framed
<1> QED
  BY <1>1, <1>4, <1>5 DEF FilesInv

\* The invariant of what the workers have in hand and leave on disk.
THEOREM FilesInvariant == WorkersSpec => []FilesInv
BY FilesInitially, FilesStep, PTL DEF WorkersSpec

\* A published result keeps its ownership row and its keyframes for ever,
\* whatever the handlers of late, failing and cancelled attempts remove, unless
\* a worker was suspended for longer than its lease.
THEOREM PublishedTheorem == WorkersSpec => []PublishedIsKeptByPromptWorkers
<1>1. FilesInv => PublishedIsKeptByPromptWorkers
  BY DEF FilesInv, DiskInv, Published, PublishedIsKeptByPromptWorkers, PublishedIsKept
<1> QED
  BY <1>1, FilesInvariant, PTL

\* A job ends as it is told: cancelled because somebody asked for it, or with
\* the result of the attempt that succeeded, never of an earlier download.
THEOREM OutcomeIsEarnedTheorem == WorkersSpec => []OutcomeIsEarned
<1>1. FilesInv => OutcomeIsEarned
  BY DEF FilesInv, WorkersInv, IdInv, ResultRow, OutcomeIsEarned, ResultIsOfLastAttempt
<1> QED
  BY <1>1, FilesInvariant, PTL

-----------------------------------------------------------------------------
(* Who has yet to remove an upload.                                        *)

\* The row of a running job is held by a worker that is still at it.
Served(i) ==
  rows[i].status = "running" => \E w \in Workers : HoldsLease(w) /\ proc[w].job = i

\* A worker that is about to close an upload has removed it.
Retracted(w) ==
  proc[w].pc \in {"retracting_ownership", "closing"} /\ IsUpload(w) =>
    <<proc[w].job, 0>> \notin files \cup frames

\* An upload without a result is gone, or somebody is about to remove it.
Removed(i) ==
  i \in Uploads /\ rows[i].status \in {"failed", "cancelled"} =>
    \/ <<i, 0>> \notin files \cup frames
    \/ i \in deleting
    \/ \E w \in Workers : proc[w].job = i /\ proc[w].pc = "cleaning"

RemovalInv ==
  crashes = 0 /\ ~stalled => /\ \A i \in Jobs : Served(i) /\ Removed(i)
                             /\ \A w \in Workers : Retracted(w)

KeepingInv == FilesInv /\ RunTypeOK /\ RemovalInv

\* Without kills there was none before.
LEMMA NobodyIsKilled ==
  ASSUME ProcOK, RunTypeOK, [WorkersNext]_vars, crashes' = 0
  PROVE  /\ crashes = 0
         /\ ~ApiCrash /\ \A w \in Workers : ~Crash(w)
<1>1. crashes \in Int /\ crashes >= 0
  BY CrashAssumption DEF RunTypeOK
<1>2. ~ApiCrash /\ \A w \in Workers : ~Crash(w)
  <2>1. crashes + 1 # crashes'
    BY <1>1
  <2> QED
    BY <2>1 DEF ApiCrash, Crash
<1>3. ASSUME NEW w \in Workers, WorkerStep(w) PROVE UNCHANGED crashes
  BY <1>3, WorkerStepIsOwn DEF runVars
<1>4. UNCHANGED crashes
  BY <1>2, <1>3
     DEF WorkersNext, ClaimJob, Beat, BeatFails, Restart, Enqueue, Cancel, DeleteUpload,
         Poll, Time, runVars, vars
<1> QED
  BY <1>2, <1>4

\* What a step puts on the disk, and who puts it there.
LEMMA Additions ==
  ASSUME ProcOK, [WorkersNext]_vars, NEW i, NEW id,
         <<i, id>> \notin files \cup frames, <<i, id>> \in files' \cup frames'
  PROVE  \/ i \in Jobs /\ Enqueue(i)
         \/ \E w \in Workers : proc[w].job = i /\ proc[w].pc \in {"download", "extract"}
<1>1. ASSUME NEW w \in Workers, WorkerStep(w)
      PROVE  proc[w].job = i /\ proc[w].pc \in {"download", "extract"}
  <2>1. ASSUME StageSucceeds(w) \/ StageInterrupted(w) \/ StageTimesOut(w)
                 \/ StageRejects(w) \/ StageErrors(w)
        PROVE  proc[w].job = i /\ proc[w].pc \in {"download", "extract"}
    BY <2>1
       DEF StageSucceeds, StageInterrupted, StageTimesOut, StageRejects, StageErrors,
           MayLeaveOutput, fileVars, Stages
  <2>2. ASSUME ~(StageSucceeds(w) \/ StageInterrupted(w) \/ StageTimesOut(w)
                   \/ StageRejects(w) \/ StageErrors(w))
        PROVE  files' \subseteq files /\ frames' \subseteq frames
    BY <1>1, <2>2
       DEF WorkerStep, Checkpoint, Validate, Discard, RecordArtifact, Register, CompleteJob,
           RetractFiles, RetractOwnership, OnCancel, Close, OnDownloadTimeout, FailJob,
           CleanUp, CallFails, Cleanup, fileVars
  <2> QED
    BY <2>1, <2>2
<1>2. ASSUME NEW w \in Workers, Crash(w)
      PROVE  proc[w].job = i /\ proc[w].pc \in {"download", "extract"}
  BY <1>2 DEF Crash, MayLeaveOutput
<1>3. ASSUME NEW j \in Jobs, Enqueue(j) PROVE i = j
  BY <1>3 DEF Enqueue
<1>4. ASSUME NEW w \in Workers, Beat(w) \/ BeatFails(w) \/ Restart(w)
                                 \/ \E j \in Jobs : ClaimJob(w, j)
      PROVE  UNCHANGED fileVars
  BY <1>4 DEF Beat, BeatFails, Restart, ClaimJob, fileVars
<1>5. ASSUME NEW j \in Jobs, Cancel(j) \/ DeleteUpload(j)
      PROVE  files' \subseteq files /\ frames' \subseteq frames
  BY <1>5 DEF Cancel, DeleteUpload, Cleanup
<1>6. ASSUME Poll \/ Time \/ ApiCrash \/ UNCHANGED vars PROVE UNCHANGED fileVars
  BY <1>6 DEF Poll, Time, ApiCrash, vars, fileVars
<1> QED
  BY <1>1, <1>2, <1>3, <1>4, <1>5, <1>6 DEF WorkersNext, fileVars

\* Nothing of a job whose worker is not at a stage, or that is over, comes back.
LEMMA NothingComesBack ==
  ASSUME FilesInv, ~stalled, [WorkersNext]_vars, NEW i \in Jobs, NEW id,
         <<i, id>> \notin files \cup frames,
         \/ rows[i].status \in Terminal
         \/ \E v \in Workers : /\ proc[v].job = i
                               /\ proc[v].pc \in Holding \ {"download", "extract"}
  PROVE  <<i, id>> \notin files' \cup frames'
<1>1. IInv /\ ProcOK /\ WorkersInv
  BY DEF FilesInv, WorkersInv
<1>2. SUFFICES ASSUME <<i, id>> \in files' \cup frames' PROVE FALSE
  OBVIOUS
<1>3. \A v \in Workers : proc[v].pc \in Holding /\ proc[v].job = i => rows[i].status = "running"
  BY <1>1 DEF WorkersInv, LeaseInv, HoldsLease, Owns
<1>4. ~Enqueue(i)
  BY <1>1, <1>3, EnqueueRows DEF Terminal
<1>5. PICK w \in Workers : proc[w].job = i /\ proc[w].pc \in {"download", "extract"}
  BY <1>1, <1>2, <1>4, Additions
<1>6. proc[w].pc \in Holding
  BY <1>5 DEF Holding, Trying, Stages
<1> QED
  BY <1>1, <1>3, <1>5, <1>6, HoldersAreAlone DEF Terminal

\* A worker gives a job up at the end of its work only, or is killed.
LEMMA OffMoves ==
  ASSUME ProcOK, [WorkersNext]_vars, NEW v \in Workers, Busy(v), proc'[v].pc \in Off
  PROVE  WorkerStep(v) \/ Crash(v)
<1>1. ASSUME NEW w \in Workers, w # v, WorkerStep(w) \/ Crash(w) PROVE FALSE
  <2>1. proc'[v] = proc[v]
    BY <1>1, WorkerStepIsOwn, Dies DEF Crash, ProcOK
  <2> QED
    BY <2>1 DEF Busy
<1>2. ASSUME NEW w \in Workers, Beat(w) \/ BeatFails(w) \/ Restart(w)
                                 \/ \E j \in Jobs : ClaimJob(w, j)
      PROVE  FALSE
  <2>1. proc \in [Workers -> Proc]
    BY DEF ProcOK
  <2>2. CASE Beat(w) \/ BeatFails(w)
    <3>1. CASE proc' = [proc EXCEPT ![w].lost = TRUE]
      BY <2>1, <3>1, LosesHeart DEF Jumps, Busy
    <3> QED
      BY <2>2, <3>1 DEF Beat, BeatFails, Busy
  <2>3. CASE Restart(w)
    BY <2>1, <2>3, ReturnReturns DEF Restart, Returns, Busy, Off
  <2>4. ASSUME NEW j \in Jobs, ClaimJob(w, j) PROVE FALSE
    <3>1. CASE w = v
      BY <2>4, <3>1 DEF ClaimJob, Busy, Off
    <3>2. CASE w # v
      BY <2>1, <2>4, <3>2 DEF ClaimJob, Busy
    <3> QED
      BY <3>1, <3>2
  <2> QED
    BY <1>2, <2>2, <2>3, <2>4
<1>3. ASSUME NEW j \in Jobs, Enqueue(j) \/ Cancel(j) \/ DeleteUpload(j) PROVE FALSE
  BY <1>3 DEF Enqueue, Cancel, DeleteUpload, Busy
<1>4. ASSUME Poll \/ Time \/ ApiCrash \/ UNCHANGED vars PROVE FALSE
  BY <1>4 DEF Poll, Time, ApiCrash, vars, Busy
<1> QED
  BY <1>1, <1>2, <1>3, <1>4 DEF WorkersNext

\* A worker that stops stops holding its job.
LEMMA EndsReleases ==
  ASSUME FilesInv, NEW w \in Workers, WorkerStep(w), proc'[w].pc \in Off,
         NEW i \in Jobs, proc[w].job = i
  PROVE  ~Owns(w, i)'
<1>1. IInv /\ ProcOK /\ IdInv /\ Busy(w) /\ rows[i] \in Row /\ rows \in [Jobs -> Row]
  BY WorkerStepIsOwn DEF FilesInv, WorkersInv, IInv
<1>2. ~Advances(w)
  BY DEF Advances, Follows, Off
<1>3. proc \in [Workers -> Proc] /\ proc'[w] = Idle
  BY <1>1, <1>2, WorkerStepAdvances DEF ProcOK
<1>4. \A l \in Labels : l \notin Off => ~Goto(w, l)
  BY <1>3, GotoJumps DEF Jumps, Idle
<1>5. CASE CompleteJob(w)
  <2>1. ~Goto(w, "retracting_files")
    BY <1>4 DEF Labels, Trying, Off
  <2>2. Publishes(w)
    BY <1>5, <2>1 DEF CompleteJob, Publishes
  <2> QED
    BY <1>1, <2>2, PublishesRows DEF Owns
<1>6. CASE Close(w)
  <2>1. CASE CancelClaimed(w, i)
    <3>1. rows'[i] = Released(rows[i], "cancelled")
      BY <1>1, <2>1 DEF CancelClaimed
    <3>2. Released(rows[i], "cancelled").status = "cancelled"
      BY <1>1, Zenon DEF Row, Released
    <3> QED
      BY <3>1, <3>2 DEF Owns
  <2>2. CASE ~HoldsLease(w) /\ UNCHANGED rows
    BY <1>1, <2>2 DEF HoldsLease, Owns
  <2> QED
    BY <1>6, <2>1, <2>2 DEF Close
<1>7. CASE FailJob(w)
  <2>1. CASE Fail(w, i, proc[w].why # "value_final")
    <3>1. PICK retryable \in BOOLEAN : retryable = (proc[w].why # "value_final")
      OBVIOUS
    <3>2. Fail(w, i, retryable)
      BY <2>1, <3>1
    <3>3. rows'[i].status # "running"
      BY <1>1, <3>2, FailedRow
    <3> QED
      BY <3>3 DEF Owns
  <2>2. CASE ~HoldsLease(w) /\ UNCHANGED rows
    BY <1>1, <2>2 DEF HoldsLease, Owns
  <2> QED
    BY <1>7, <2>1, <2>2 DEF FailJob
<1>8. CASE CleanUp(w)
  <2>1. ProcIds(w) /\ proc[w].pc = "cleaning" /\ UNCHANGED rows
    BY <1>1, <1>8 DEF IdInv, CleanUp
  <2>2. Owns(w, i) => proc[w].try = rows[i].attempts
    BY <2>1 DEF ProcIds, AttemptIds
  <2>3. \/ rows[i].status \in {"failed", "cancelled", "queued"}
        \/ proc[w].try < rows[i].attempts
    BY <2>1 DEF ProcIds, CleaningIds
  <2>4. rows[i].attempts \in Int
    BY <1>1 DEF Row
  <2>5. ~Owns(w, i)
    BY <2>2, <2>3, <2>4 DEF Owns
  <2> QED
    BY <2>1, <2>5 DEF Owns
<1> QED
  BY <1>1, <1>2, <1>5, <1>6, <1>7, <1>8, WorkerStepAdvances

LEMMA ServedStep ==
  ASSUME FilesInv, RunTypeOK, [WorkersNext]_vars, crashes' = 0,
         NEW i \in Jobs, Served(i)
  PROVE  Served(i)'
<1>1. IInv /\ ProcOK /\ ProcOK' /\ \A w \in Workers : ~Crash(w)
  BY WorkersStepKeeps, NobodyIsKilled DEF FilesInv, WorkersInv
<1>2. SUFFICES ASSUME rows'[i].status = "running"
               PROVE  \E w \in Workers : HoldsLease(w)' /\ proc'[w].job = i
  BY DEF Served
<1>3. ASSUME NEW w \in Workers, ClaimJob(w, i)
      PROVE  HoldsLease(w)' /\ proc'[w].job = i
  <2>1. RowInv(rows'[i])
    BY <1>1, <1>3, ClaimStep DEF ClaimJob, TableStep, RowStep
  <2>2. proc'[w].pc = "preparing" /\ proc'[w].job = i
    BY <1>1, <1>3, <2>1, Claims DEF RowInv, ProcOK
  <2>3. rows'[i].owner = w
    BY <1>1, <1>3, ClaimedRow DEF ClaimJob
  <2> QED
    BY <1>2, <2>2, <2>3 DEF HoldsLease, Busy, Off, Owns
<1>4. ASSUME NEW w \in Workers, Busy(w), proc[w].job = i, Owns(w, i)'
      PROVE  HoldsLease(w)' /\ proc'[w].job = i
  <2>1. proc'[w].pc \notin Off
    BY <1>1, <1>4, OffMoves, EndsReleases
  <2>2. ~\E j \in Jobs : ClaimJob(w, j)
    BY <1>4 DEF ClaimJob, Busy, Off
  <2>3. proc'[w].job = i
    BY <1>1, <1>4, <2>1, <2>2, ProcMoves DEF Advances
  <2> QED
    BY <1>4, <2>1, <2>3 DEF HoldsLease, Busy, Owns
<1>5. CASE Plain(rows[i], rows'[i])
  <2>1. PICK w \in Workers : HoldsLease(w) /\ proc[w].job = i
    BY <1>2, <1>5 DEF Plain, Served
  <2>2. Busy(w) /\ Owns(w, i)'
    BY <1>2, <1>5, <2>1 DEF HoldsLease, Plain, Owns
  <2> QED
    BY <1>4, <2>1, <2>2
<1>6. ASSUME NEW w \in Workers, WorkerStep(w), Records(w), proc[w].job = i
      PROVE  \E v \in Workers : HoldsLease(v)' /\ proc'[v].job = i
  BY <1>1, <1>4, <1>6, WorkerStepIsOwn, RecordsRows
<1>7. ~Enqueue(i) /\ ~\E w \in Workers : Publishes(w) /\ proc[w].job = i
  BY <1>1, <1>2, EnqueueRows, PublishesRows
<1> QED
  BY <1>1, <1>3, <1>5, <1>6, <1>7, RowMoves

\* The handlers that remove an upload do so under the id the API gave it.
LEMMA UploadCleanup ==
  ASSUME ProcOK, IdInv, NEW w \in Workers, Busy(w), IsUpload(w),
         Cleanup(proc[w].job, proc[w].vid, proc[w].path)
  PROVE  <<proc[w].job, 0>> \notin files' \cup frames'
<1>1. proc[w].vid = 0 /\ proc[w].path = 0
  BY DEF IdInv, ProcIds, UploadIds
<1> QED
  BY <1>1 DEF Cleanup

LEMMA RetractedStep ==
  ASSUME FilesInv, ~stalled, [WorkersNext]_vars, NEW v \in Workers, Retracted(v)
  PROVE  Retracted(v)'
<1>1. IInv /\ ProcOK /\ IdInv /\ Uploads' = Uploads
  BY RunIsFixed DEF FilesInv, WorkersInv
<1>2. SUFFICES ASSUME proc'[v].pc \in {"retracting_ownership", "closing"},
                      proc'[v].job \in Uploads
               PROVE  <<proc'[v].job, 0>> \notin files' \cup frames'
  BY <1>1 DEF Retracted, IsUpload
<1>3. ASSUME NEW j \in Jobs, ClaimJob(v, j) PROVE FALSE
  <2>1. RowInv(rows'[j])
    BY <1>1, <1>3, ClaimStep DEF ClaimJob, TableStep, RowStep
  <2> QED
    BY <1>1, <1>2, <1>3, <2>1, Claims DEF RowInv, ProcOK
<1>4. /\ proc'[v].job = proc[v].job
      /\ \/ proc[v].pc = proc'[v].pc
         \/ WorkerStep(v) /\ Advances(v)
  BY <1>1, <1>2, <1>3, ProcMoves DEF Advances, Off
<1>5. CASE proc[v].pc \in {"retracting_ownership", "closing"}
  <2>1. <<proc[v].job, 0>> \notin files \cup frames
    BY <1>2, <1>4, <1>5 DEF Retracted, IsUpload
  <2>2. proc[v].job \in Jobs /\ proc[v].pc \in Holding \ {"download", "extract"}
    BY <1>2, <1>4, <1>5 DEF Uploads, Holding, Handling, Trying
  <2> QED
    BY <1>4, <2>1, <2>2, NothingComesBack
<1>6. CASE proc[v].pc \notin {"retracting_ownership", "closing"}
  <2>1. WorkerStep(v) /\ proc[v].pc \in {"retracting_files", "on_cancel"}
    BY <1>2, <1>4, <1>6 DEF Advances, Follows
  <2>2. Busy(v) /\ IsUpload(v) /\ HasArtifact(v)
    <3>1. Busy(v) /\ IsUpload(v)
      BY <1>2, <1>4, <2>1 DEF Busy, Off, IsUpload
    <3>2. proc[v].vid = 0 /\ proc[v].path = 0
      BY <1>1, <3>1 DEF IdInv, ProcIds, UploadIds
    <3> QED
      BY <3>1, <3>2, IdIsArtifact, ArtifactsAssumption DEF HasArtifact
  <2>3. Cleanup(proc[v].job, proc[v].vid, proc[v].path)
    <3>1. CASE proc[v].pc = "on_cancel"
      BY <1>1, <2>1, <2>2, <3>1, StepAtLabel DEF OnCancel
    <3>2. CASE proc[v].pc = "retracting_files"
      BY <1>1, <1>2, <2>1, <3>2, StepAtLabel DEF RetractFiles
    <3> QED
      BY <2>1, <3>1, <3>2
  <2> QED
    BY <1>1, <1>4, <2>2, <2>3, UploadCleanup
<1> QED
  BY <1>5, <1>6

\* A job ends without a result when a request cancels it, when its worker
\* reports it, or when its lease has expired.
LEMMA EndsUnpublished ==
  ASSUME IInv, ProcOK, [WorkersNext]_vars, NEW i \in Jobs,
         rows[i].status \notin {"failed", "cancelled"},
         rows'[i].status \in {"failed", "cancelled"},
         rows[i].status = "running" => rows[i].lease >= 0
  PROVE  \/ Cancel(i)
         \/ \E w \in Workers : /\ WorkerStep(w) /\ proc[w].job = i
                               /\ Close(w) \/ FailJob(w)
<1>1. rows[i] \in Row /\ rows \in [Jobs -> Row] /\ RowInv(rows[i])
  BY DEF IInv
<1>2. Recovered(rows[i]) = rows[i]
  BY <1>1, RecoveredLease DEF Recovered, Expired
<1>3. rows'[i] # rows[i]
  OBVIOUS
<1>4. ASSUME NEW w \in Workers, WorkerStep(w)
      PROVE  proc[w].job = i /\ (Close(w) \/ FailJob(w))
  <2>1. PICK j \in Jobs : j = proc[w].job
    BY <1>4, WorkerStepIsOwn
  <2>2. CASE i # j
    BY <1>3, <1>4, <2>1, <2>2, WorkerStepCalls, HeldCallRows DEF HeldCall
  <2>3. CASE RecordArtifact(w) /\ i = j
    BY <1>3, <2>1, <2>3, RecordingRecords, RecordsRows DEF Owns
  <2>4. CASE CompleteJob(w) /\ i = j
    BY <1>3, <2>1, <2>4, PublishesRows DEF CompleteJob, Publishes
  <2>5. ASSUME ~RecordArtifact(w), ~CompleteJob(w), ~Close(w), ~FailJob(w)
        PROVE  UNCHANGED rows
    BY <1>4, <2>5
       DEF WorkerStep, Checkpoint, Validate, Discard, StageSucceeds, StageInterrupted,
           StageTimesOut, StageRejects, StageErrors, Register, RetractFiles,
           RetractOwnership, OnCancel, OnDownloadTimeout, CleanUp, CallFails
  <2> QED
    BY <1>3, <2>1, <2>2, <2>3, <2>4, <2>5
<1>5. ASSUME NEW w \in Workers, NEW j \in Jobs, ClaimJob(w, j) PROVE FALSE
  BY <1>1, <1>2, <1>3, <1>5, ClaimRows DEF ClaimJob
<1>6. ASSUME NEW w \in Workers, Beat(w) \/ BeatFails(w) \/ Crash(w) \/ Restart(w)
      PROVE  FALSE
  <2>1. PICK j \in Jobs : UNCHANGED rows \/ Heartbeat(w, j)
    BY <1>6 DEF Beat, BeatFails, Crash, Restart, ProcOK
  <2>2. CASE Heartbeat(w, j)
    BY <1>3, <2>2, HeldCallRows DEF HeldCall, HonestCall
  <2> QED
    BY <1>3, <2>1, <2>2
<1>7. ASSUME NEW j \in Jobs, Cancel(j) PROVE Cancel(i)
  <2>1. rows[j] \in Row /\ (i # j => rows'[i] = rows[i])
    BY <1>1, <1>7 DEF Cancel, RequestCancellation, IInv
  <2> QED
    BY <1>3, <1>7, <2>1
<1>8. ASSUME NEW j \in Jobs, Enqueue(j) PROVE FALSE
  <2>1. CASE i = j
    BY <1>8, <2>1, EnqueueRows
  <2>2. CASE i # j
    BY <1>1, <1>3, <1>8, <2>2 DEF Enqueue, Create
  <2> QED
    BY <2>1, <2>2
<1>9. CASE Time
  BY <1>9, TickLeases DEF Time
<1>10. CASE Poll
  BY <1>2, <1>3, <1>10 DEF Poll, ClaimNothing, RecoveredRows
<1>11. CASE ApiCrash \/ (\E j \in Jobs : DeleteUpload(j)) \/ UNCHANGED vars
  BY <1>3, <1>11 DEF ApiCrash, DeleteUpload, vars
<1> QED
  BY <1>4, <1>5, <1>6, <1>7, <1>8, <1>9, <1>10, <1>11 DEF WorkersNext

LEMMA RemovedStep ==
  ASSUME FilesInv, RunTypeOK, ~stalled, [WorkersNext]_vars, crashes' = 0,
         NEW i \in Jobs, Served(i), Removed(i), \A w \in Workers : Retracted(w)
  PROVE  Removed(i)'
<1>1. /\ IInv /\ ProcOK /\ IdInv /\ WorkersInv /\ Uploads' = Uploads
      /\ ~ApiCrash /\ \A w \in Workers : ~Crash(w)
  BY RunIsFixed, NobodyIsKilled DEF FilesInv, WorkersInv
<1> DEFINE Over(r) == r.status \in {"failed", "cancelled"}
<1>2. SUFFICES ASSUME i \in Uploads, Over(rows'[i])
               PROVE  \/ <<i, 0>> \notin files' \cup frames'
                      \/ i \in deleting'
                      \/ \E w \in Workers : proc'[w].job = i /\ proc'[w].pc = "cleaning"
  BY <1>1 DEF Removed
<1>3. CASE Over(rows[i]) /\ <<i, 0>> \notin files \cup frames
  BY <1>3, NothingComesBack DEF Terminal
<1>4. CASE i \in deleting
  <2>1. CASE DeleteUpload(i)
    BY <2>1 DEF DeleteUpload, Cleanup
  <2>2. CASE ~DeleteUpload(i)
    <3>1. \A w \in Workers : WorkerStep(w) => UNCHANGED deleting
      BY DEF WorkerStep, Checkpoint, Validate, Discard, StageSucceeds, StageInterrupted,
             StageTimesOut, StageRejects, StageErrors, RecordArtifact, Register,
             CompleteJob, RetractFiles, RetractOwnership, OnCancel, Close,
             OnDownloadTimeout, FailJob, CleanUp, CallFails
    <3>2. \A j \in Jobs : Cancel(j) => deleting \subseteq deleting'
      BY DEF Cancel
    <3>3. \A j \in Jobs : DeleteUpload(j) => i \in deleting'
      BY <1>4, <2>2 DEF DeleteUpload
    <3> QED
      BY <1>1, <1>4, <3>1, <3>2, <3>3
         DEF WorkersNext, ClaimJob, Beat, BeatFails, Restart, Enqueue, Poll, Time, vars
  <2> QED
    BY <2>1, <2>2
<1>5. ASSUME NEW w \in Workers, proc[w].job = i, proc[w].pc = "cleaning"
      PROVE  \/ <<i, 0>> \notin files' \cup frames'
             \/ proc'[w].job = i /\ proc'[w].pc = "cleaning"
  <2>1. Busy(w) /\ ~Advances(w) /\ ~\E j \in Jobs : ClaimJob(w, j)
    BY <1>5 DEF Busy, Off, Advances, Follows, ClaimJob, Trying, Checkpoints, Stages
  <2>2. CASE proc'[w].pc \in Off
    <3>1. CleanUp(w)
      BY <1>1, <1>5, <2>1, <2>2, OffMoves, StepAtLabel
    <3> QED
      BY <1>1, <1>2, <1>5, <2>1, <3>1, UploadCleanup DEF CleanUp, IsUpload
  <2> QED
    BY <1>1, <1>5, <2>1, <2>2, ProcMoves
<1>6. CASE ~Over(rows[i])
  <2>1. rows[i].status = "running" => rows[i].lease >= 0
    BY <1>1 DEF Served, WorkersInv, LeaseInv
  <2>2. CASE Cancel(i)
    <3>1. CASE rows'[i].status = "cancelled"
      BY <1>2, <2>2, <3>1 DEF Cancel
    <3>2. CASE rows'[i].status = "failed"
      <4>1. PICK s, t : /\ s = [[rows[i] EXCEPT !.status = "cancelled"] EXCEPT !.cancel = TRUE]
                        /\ t = [rows[i] EXCEPT !.cancel = TRUE]
        OBVIOUS
      <4>2. rows[i] \in Row /\ rows'[i] \in {rows[i], s, t}
        BY <1>1, <2>2, <4>1 DEF Cancel, RequestCancellation, IInv
      <4>3. s.status = "cancelled" /\ t.status = rows[i].status
        BY <4>1, <4>2, Zenon DEF Row
      <4> QED
        BY <1>6, <3>2, <4>2, <4>3
    <3> QED
      BY <1>2, <3>1, <3>2
  <2>3. ASSUME NEW w \in Workers, WorkerStep(w), proc[w].job = i, Close(w)
        PROVE  <<i, 0>> \notin files' \cup frames'
    BY <1>2, <2>3 DEF Close, Retracted, IsUpload
  <2>4. ASSUME NEW w \in Workers, WorkerStep(w), proc[w].job = i, FailJob(w)
        PROVE  proc'[w].job = i /\ proc'[w].pc = "cleaning"
    <3>1. Busy(w) /\ proc \in [Workers -> Proc] /\ "cleaning" \in Labels
      BY <1>1, <2>4, WorkerStepIsOwn DEF ProcOK, Labels, Handling
    <3>2. proc[w].vid = 0 /\ proc[w].path = 0
      BY <1>1, <1>2, <2>4, <3>1 DEF IdInv, ProcIds, UploadIds, IsUpload
    <3>3. HasArtifact(w)
      BY <3>2, IdIsArtifact, ArtifactsAssumption DEF HasArtifact
    <3>4. rows' # rows
      BY <1>2, <1>6
    <3>5. Goto(w, "cleaning")
      BY <1>2, <2>4, <3>3, <3>4 DEF FailJob
    <3> QED
      BY <2>4, <3>1, <3>5, GotoJumps DEF Jumps
  <2> QED
    BY <1>1, <1>2, <1>6, <2>1, <2>2, <2>3, <2>4, EndsUnpublished
<1> QED
  BY <1>2, <1>3, <1>4, <1>5, <1>6 DEF Removed

LEMMA KeepingStep == KeepingInv /\ [WorkersNext]_vars => KeepingInv'
<1> SUFFICES ASSUME KeepingInv, [WorkersNext]_vars PROVE KeepingInv'
  OBVIOUS
<1>1. FilesInv' /\ RunTypeOK' /\ ProcOK
  BY FilesStep, RunTypeStep DEF KeepingInv, FilesInv, WorkersInv
<1>2. ASSUME crashes' = 0, ~stalled'
      PROVE  /\ \A i \in Jobs : Served(i)' /\ Removed(i)'
             /\ \A w \in Workers : Retracted(w)'
  <2>1. crashes = 0 /\ ~stalled
    BY <1>1, <1>2, NobodyIsKilled, RunIsFixed DEF KeepingInv
  <2>2. /\ \A i \in Jobs : Served(i) /\ Removed(i)
        /\ \A w \in Workers : Retracted(w)
    BY <2>1 DEF KeepingInv, RemovalInv
  <2> QED
    BY <1>2, <2>1, <2>2, ServedStep, RemovedStep, RetractedStep DEF KeepingInv
<1> QED
  BY <1>1, <1>2 DEF KeepingInv, RemovalInv

\* The file of an upload is kept exactly as long as it is needed: no attempt
\* takes it away from a later one, and when no process was killed or suspended
\* too long, no upload that failed or was cancelled leaves anything behind.
THEOREM UploadIsKeptTheorem == WorkersSpec => []UploadIsKeptInNeed
<1>1. WorkersInit => KeepingInv
  <2> SUFFICES ASSUME WorkersInit PROVE KeepingInv
    OBVIOUS
  <2>1. FilesInv /\ RunTypeOK
    BY FilesInitially, RunTypeInitially
  <2>2. \A i \in Jobs : rows[i].status = "none"
    BY DEF WorkersInit, Init, NoRow
  <2>3. \A w \in Workers : proc[w].pc = "idle"
    BY DEF WorkersInit, Idle
  <2> QED
    BY <2>1, <2>2, <2>3 DEF KeepingInv, RemovalInv, Served, Removed, Retracted
<1>2. KeepingInv => UploadIsKeptInNeed
  <2> SUFFICES ASSUME KeepingInv PROVE UploadIsKeptInNeed
    OBVIOUS
  <2>1. UploadIsThere
    BY DEF KeepingInv, FilesInv, DiskInv, Staged, UploadIsThere, Uploads
  <2>2. UploadIsRemoved
    BY DEF KeepingInv, RemovalInv, Removed, UploadIsRemoved, Abandoned, Uploads
  <2> QED
    BY <2>1, <2>2 DEF UploadIsKeptInNeed
<1> QED
  BY <1>1, <1>2, KeepingStep, PTL DEF WorkersSpec
=============================================================================
