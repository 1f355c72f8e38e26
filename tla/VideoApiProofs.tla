----------------------------- MODULE VideoApiProofs -----------------------------
(***************************************************************************)
(* Theorems about the enqueue and cancel handlers of VideoApi, for every   *)
(* number of requests, keys and workers.                                   *)
(*                                                                         *)
(* Every step of the handlers is a step of the queue, so the invariant of  *)
(* VideoJobsProofs carries over.  ApiInv adds what relates the requests to *)
(* the rows; it needs to know which operations leave absent rows absent    *)
(* and artifacts alone, which the frame lemmas say.                        *)
(***************************************************************************)
EXTENDS VideoApi, VideoJobsProofs

-----------------------------------------------------------------------------
(* What the operations of the queue leave alone.                           *)

\* Recovery invents no row and leaves artifact_path alone.
LEMMA RecoveredFrame ==
  ASSUME NEW r, RowInv(r)
  PROVE  /\ r.status = "none" => Recovered(r) = r
         /\ Recovered(r).artifact = r.artifact
<1>1. r \in Row
  BY DEF RowInv
<1>2. r.status = "none" => Recovered(r) = r
  BY DEF Recovered, Expired
<1>3. CASE ~Expired(r)
  BY <1>2, <1>3 DEF Recovered
<1>4. CASE Expired(r)
  <2>1. \A status : Released(r, status).artifact = r.artifact
    BY <1>1, Zenon DEF Row, Released
  <2>2. PICK f : f = [Released(r, "failed") EXCEPT !.error = TRUE]
    OBVIOUS
  <2>3. PICK q : q = [Released(r, "queued") EXCEPT !.wait = 0]
    OBVIOUS
  <2>4. f.artifact = r.artifact
    BY <1>1, <2>2, Zenon DEF Row, Released
  <2>5. q.artifact = r.artifact
    BY <1>1, <2>3, Zenon DEF Row, Released
  <2>6. Recovered(r) \in {Released(r, "cancelled"), f, q}
    BY <1>4, <2>2, <2>3 DEF Recovered
  <2> QED
    BY <1>2, <2>1, <2>4, <2>5, <2>6
<1> QED
  BY <1>3, <1>4

\* A call about job j leaves the other absent rows absent and the other
\* artifacts alone, and job j is there.
LEMMA WorkerCallFrame ==
  ASSUME IInv, NEW w \in Workers, NEW j \in Jobs, WorkerCall(w, j)
  PROVE  /\ rows[j].status # "none"
         /\ \A i \in Jobs \ {j} :
              /\ rows[i].status = "none" => rows'[i].status = "none"
              /\ rows'[i].artifact = rows[i].artifact
<1>1. CASE Claim(w, j)
  <2>1. \A i \in Jobs \ {j} : rows'[i] = Recovered(rows[i])
    BY <1>1 DEF Claim, RecoveredRows
  <2>2. Recovered(rows[j]).status = "queued"
    BY <1>1 DEF Claim, Claimable, RecoveredRows
  <2>3. rows[j].status # "none"
    BY <2>2, RecoveredFrame DEF IInv
  <2> QED
    BY <2>1, <2>3, RecoveredFrame DEF IInv
<1>2. CASE ~Claim(w, j)
  <2>1. rows[j].status = "running"
    BY <1>2 DEF WorkerCall, Heartbeat, SetArtifact, Complete, CancelClaimed, Fail, Owns
  <2>2. \A i \in Jobs \ {j} : rows'[i] = rows[i]
    BY <1>2 DEF WorkerCall, Heartbeat, SetArtifact, Complete, CancelClaimed, Fail, IInv
  <2> QED
    BY <2>1, <2>2
<1> QED
  BY <1>1, <1>2

LEMMA ClaimNothingFrame ==
  ASSUME IInv, ClaimNothing, NEW i \in Jobs
  PROVE  /\ rows[i].status = "none" => rows'[i].status = "none"
         /\ rows'[i].artifact = rows[i].artifact
<1>1. rows'[i] = Recovered(rows[i])
  BY DEF ClaimNothing, RecoveredRows
<1> QED
  BY <1>1, RecoveredFrame DEF IInv

LEMMA TickFrame ==
  ASSUME IInv, Tick, NEW i \in Jobs
  PROVE  /\ rows'[i].status = rows[i].status
         /\ rows'[i].artifact = rows[i].artifact
BY Zenon DEF Tick, IInv, Row

LEMMA RequestCancellationFrame ==
  ASSUME IInv, NEW j \in Jobs, RequestCancellation(j), NEW i \in Jobs
  PROVE  /\ rows[i].status = "none" <=> rows'[i].status = "none"
         /\ rows'[i].artifact = rows[i].artifact
<1>1. rows[j] \in Row /\ rows \in [Jobs -> Row]
  BY DEF IInv
<1>2. CASE i # j
  BY <1>1, <1>2 DEF RequestCancellation
<1>3. CASE i = j
  BY <1>1, <1>3 DEF RequestCancellation, Row
<1> QED
  BY <1>2, <1>3

-----------------------------------------------------------------------------
(* The handlers over the queue.                                            *)

\* Every step of the API, the workers and the clock is a step of the queue.
LEMMA ApiStepIsQueueStep ==
  ASSUME [ApiNext]_apiVars
  PROVE  [Next]_jobVars
<1>1. ASSUME NEW r \in Jobs, Request(r) PROVE [Next]_jobVars
  <2>1. CASE CreateJob(r)
    <3>1. CASE Create(r, IF kind[r] = "upload" THEN r ELSE NoArtifact)
      BY <3>1, StagingAssumption DEF Next, ApiCall
    <3> QED
      BY <2>1, <3>1 DEF CreateJob, jobVars
  <2> QED
    BY <1>1, <2>1 DEF Request, Find, Stage, CreateFails, Discard, jobVars
<1>2. ASSUME NEW j \in Jobs, Cancel(j) PROVE [Next]_jobVars
  BY <1>2 DEF Cancel, Next, ApiCall, jobVars
<1>3. ASSUME NEW w \in Workers, NEW j \in Jobs, WorkerCalls(w, j) PROVE [Next]_jobVars
  BY <1>3 DEF WorkerCalls, Next
<1>4. CASE WorkerPolls \/ Time
  BY <1>4 DEF WorkerPolls, Time, Next
<1>5. ASSUME NEW j \in Jobs, DeleteUpload(j) \/ WorkerRemoves(j) PROVE [Next]_jobVars
  BY <1>5 DEF DeleteUpload, WorkerRemoves, jobVars
<1>6. CASE ApiCrash \/ UNCHANGED apiVars
  BY <1>6 DEF ApiCrash, apiVars, jobVars
<1> QED
  BY <1>1, <1>2, <1>3, <1>4, <1>5, <1>6 DEF ApiNext

\* A request creates the job that is named after it.
Creates(r) ==
  /\ call[r] = "creating"
  /\ JobsOfKey(key[r]) = {}
  /\ Create(r, IF kind[r] = "upload" THEN r ELSE NoArtifact)
  /\ AnswerWith(r, r, "answered")
  /\ UNCHANGED <<key, kind, staged, deleting>>

\* No job is created or taken away, and the uploads keep their artifacts.
SameJobs ==
  \A i \in Jobs :
    /\ rows'[i].status = "none" <=> rows[i].status = "none"
    /\ kind[i] = "upload" => rows'[i].artifact = rows[i].artifact

\* Only the creation of a job changes which jobs there are.
LEMMA ApiStepFrame ==
  ASSUME IInv, [ApiNext]_apiVars
  PROVE  SameJobs \/ \E r \in Jobs : Creates(r)
<1>1. \A i \in Jobs : rows'[i].status = "none" => rows[i].status = "none"
  <2>1. TableStep
    BY ApiStepIsQueueStep, QueueStep
  <2> QED
    BY <2>1 DEF TableStep, RowStep, PhaseOf, Terminal, Lifecycle!Moves
<1>2. SUFFICES ASSUME \A r \in Jobs : ~Creates(r), NEW i \in Jobs
      PROVE  /\ rows[i].status = "none" => rows'[i].status = "none"
             /\ kind[i] = "upload" => rows'[i].artifact = rows[i].artifact
  BY <1>1 DEF SameJobs
<1>3. CASE UNCHANGED rows
  BY <1>3
<1>4. ASSUME NEW r \in Jobs, Request(r) PROVE UNCHANGED rows
  BY <1>2, <1>4 DEF Request, Find, Stage, CreateJob, CreateFails, Discard, Creates
<1>5. ASSUME NEW j \in Jobs, RequestCancellation(j)
      PROVE  /\ rows[i].status = "none" => rows'[i].status = "none"
             /\ rows'[i].artifact = rows[i].artifact
  BY <1>5, RequestCancellationFrame
<1>6. ASSUME NEW j \in Jobs, Cancel(j)
      PROVE  RequestCancellation(j) \/ UNCHANGED rows
  BY <1>6 DEF Cancel
<1>7. ASSUME NEW w \in Workers, NEW j \in Jobs, WorkerCalls(w, j)
      PROVE  /\ rows[i].status = "none" => rows'[i].status = "none"
             /\ kind[i] = "upload" => rows'[i].artifact = rows[i].artifact
  <2>1. WorkerCall(w, j) /\ (kind[j] = "upload" => rows'[j].artifact = rows[j].artifact)
    BY <1>7 DEF WorkerCalls
  <2> QED
    BY <2>1, WorkerCallFrame
<1>8. CASE WorkerPolls \/ Time
  BY <1>8, ClaimNothingFrame, TickFrame DEF WorkerPolls, Time
<1>9. ASSUME NEW j \in Jobs, DeleteUpload(j) \/ WorkerRemoves(j) PROVE UNCHANGED rows
  BY <1>9 DEF DeleteUpload, WorkerRemoves
<1>10. ASSUME ApiCrash \/ UNCHANGED apiVars PROVE UNCHANGED rows
  BY <1>10 DEF ApiCrash, apiVars
<1> QED
  BY <1>3, <1>4, <1>5, <1>6, <1>7, <1>8, <1>9, <1>10 DEF ApiNext

-----------------------------------------------------------------------------
(* The invariant.                                                          *)

\* The variables of the handlers have their types.
CallsTypeOK ==
  /\ key \in [Jobs -> Keys] /\ kind \in [Jobs -> {"upload", "url"}]
  /\ call \in [Jobs -> Calls]
  /\ answer \in [Jobs -> Jobs \cup {NoJob}]
  /\ staged \subseteq Jobs /\ deleting \subseteq Jobs

\* A request that was answered was answered with a job of its key, and one
\* that has yet to look for the job was not.
AnswersAreJobs ==
  \A r \in Jobs :
    /\ answer[r] # NoJob =>
         rows[answer[r]].status # "none" /\ key[answer[r]] = key[r]
    /\ call[r] \in {"finding", "staging", "creating"} => answer[r] = NoJob

\* Where the staged file of an upload and the row of its request stand.
StagedInv ==
  \A r \in Jobs : kind[r] = "upload" =>
    /\ rows[r].status # "none" => rows[r].artifact = r
    /\ rows[r].status # "none" => call[r] = "answered"
    /\ r \in staged => \/ rows[r].status # "none"
                      \/ call[r] \in {"creating", "discarding", "failed"}
    /\ call[r] = "creating" => r \in staged
    /\ PhaseOf(rows[r]) = "pending" => r \in staged
    /\ r \in deleting => rows[r].status = "cancelled"

ApiInv ==
  IInv /\ CallsTypeOK /\ AnswersAreJobs /\ OneJobPerKey /\ StagedInv

LEMMA CallsTypeStep ==
  ASSUME CallsTypeOK, [ApiNext]_apiVars
  PROVE  CallsTypeOK'
<1> USE DEF CallsTypeOK, Calls
<1>1. ASSUME NEW r \in Jobs, Request(r) PROVE CallsTypeOK'
  <2>1. CASE Find(r)
    BY <2>1 DEF Find, AnswerWith, Proceed, JobsOfKey
  <2>2. CASE Stage(r) \/ CreateFails(r) \/ Discard(r)
    BY <2>2 DEF Stage, CreateFails, Discard, Proceed
  <2>3. CASE CreateJob(r)
    BY <2>3 DEF CreateJob, AnswerWith, Proceed, JobsOfKey
  <2> QED
    BY <1>1, <2>1, <2>2, <2>3 DEF Request
<1>2. ASSUME NEW j \in Jobs, Cancel(j) \/ DeleteUpload(j) \/ WorkerRemoves(j)
      PROVE  CallsTypeOK'
  BY <1>2 DEF Cancel, DeleteUpload, WorkerRemoves
<1>3. ASSUME NEW w \in Workers, NEW j \in Jobs, WorkerCalls(w, j) PROVE CallsTypeOK'
  BY <1>3 DEF WorkerCalls
<1>4. CASE WorkerPolls \/ Time \/ ApiCrash \/ UNCHANGED apiVars
  BY <1>4 DEF WorkerPolls, Time, ApiCrash, apiVars
<1> QED
  BY <1>1, <1>2, <1>3, <1>4 DEF ApiNext

\* Who carries which key never changes.
LEMMA KeysAreRigid ==
  ASSUME [ApiNext]_apiVars
  PROVE  UNCHANGED <<key, kind>>
BY DEF ApiNext, Request, Find, Stage, CreateJob, CreateFails, Discard, Cancel,
       DeleteUpload, WorkerRemoves, WorkerCalls, WorkerPolls, Time, ApiCrash, apiVars

\* The table that a created job leaves.
LEMMA CreatedRows ==
  ASSUME IInv, NEW r \in Jobs, Creates(r), NEW i \in Jobs
  PROVE  /\ rows[r].status = "none"
         /\ rows'[r].status = "queued"
         /\ kind[r] = "upload" => rows'[r].artifact = r
         /\ i # r => rows'[i] = rows[i]
<1>1. PICK artifact : artifact = IF kind[r] = "upload" THEN r ELSE NoArtifact
  OBVIOUS
<1>2. rows[r].status = "none" /\ rows \in [Jobs -> Row]
  BY DEF Creates, Create, IInv
<1>3. rows' = [rows EXCEPT ![r] = [NoRow EXCEPT !.status = "queued",
                                                !.artifact = artifact]]
  BY <1>1 DEF Creates, Create
<1> QED
  BY <1>1, <1>2, <1>3 DEF NoRow

LEMMA OneJobPerKeyStep ==
  ASSUME ApiInv, [ApiNext]_apiVars
  PROVE  OneJobPerKey'
<1>1. UNCHANGED key
  BY KeysAreRigid
<1>2. CASE SameJobs
  BY <1>1, <1>2 DEF SameJobs, ApiInv, OneJobPerKey
<1>3. ASSUME NEW r \in Jobs, Creates(r) PROVE OneJobPerKey'
  <2>1. \A i \in Jobs : i # r => rows'[i] = rows[i]
    BY <1>3, CreatedRows DEF ApiInv
  <2>2. \A i \in Jobs : rows[i].status # "none" => key[i] # key[r]
    BY <1>3 DEF Creates, JobsOfKey
  <2> QED
    BY <1>1, <2>1, <2>2 DEF ApiInv, OneJobPerKey
<1> QED
  BY <1>2, <1>3, ApiStepFrame DEF ApiInv

LEMMA AnswersStep ==
  ASSUME ApiInv, [ApiNext]_apiVars
  PROVE  AnswersAreJobs'
<1>1. UNCHANGED key
  BY KeysAreRigid
<1>2. /\ answer \in [Jobs -> Jobs \cup {NoJob}]
      /\ call \in [Jobs -> Calls]
  BY DEF ApiInv, CallsTypeOK
<1>3. \A i \in Jobs : rows[i].status # "none" => rows'[i].status # "none"
  <2>1. CASE SameJobs
    BY <2>1 DEF SameJobs
  <2>2. ASSUME NEW r \in Jobs, Creates(r), NEW i \in Jobs, rows[i].status # "none"
        PROVE  rows'[i].status # "none"
    BY <2>2, CreatedRows DEF ApiInv
  <2> QED
    BY <2>1, <2>2, ApiStepFrame DEF ApiInv
<1>4. CASE UNCHANGED <<call, answer>>
  BY <1>1, <1>2, <1>3, <1>4, NoJobAssumption DEF ApiInv, AnswersAreJobs
<1>5. ASSUME NEW r \in Jobs, NEW j \in Jobs, NEW step \in {"answered", "discarding"},
             AnswerWith(r, j, step), key[j] = key[r], rows'[j].status # "none"
      PROVE  AnswersAreJobs'
  BY <1>1, <1>2, <1>3, <1>5, NoJobAssumption
     DEF ApiInv, AnswersAreJobs, AnswerWith, Proceed
<1>6. ASSUME NEW r \in Jobs, NEW step \in {"staging", "creating", "refused", "failed"},
             call[r] \in {"finding", "staging", "creating"},
             Proceed(r, step), UNCHANGED answer
      PROVE  AnswersAreJobs'
  BY <1>1, <1>2, <1>3, <1>6, NoJobAssumption DEF ApiInv, AnswersAreJobs, Proceed
<1>7. ASSUME NEW r \in Jobs, Request(r) PROVE AnswersAreJobs'
  <2>1. CASE Find(r)
    <3>1. ASSUME NEW j \in JobsOfKey(key[r]), AnswerWith(r, j, "answered")
          PROVE  AnswersAreJobs'
      BY <1>3, <1>5, <3>1 DEF JobsOfKey
    <3> QED
      BY <1>6, <2>1, <3>1 DEF Find
  <2>2. CASE Stage(r) \/ CreateFails(r)
    BY <1>6, <2>2 DEF Stage, CreateFails
  <2>3. CASE Discard(r)
    BY <1>1, <1>2, <1>3, <2>3, NoJobAssumption
       DEF Discard, Proceed, ApiInv, AnswersAreJobs
  <2>4. CASE CreateJob(r)
    <3>1. CASE Creates(r)
      <4>1. rows'[r].status # "none" /\ AnswerWith(r, r, "answered")
        BY <3>1, CreatedRows DEF ApiInv, Creates
      <4> QED
        BY <1>5, <4>1
    <3>2. ASSUME NEW j \in JobsOfKey(key[r]), NEW step \in {"answered", "discarding"},
                 AnswerWith(r, j, step)
          PROVE  AnswersAreJobs'
      BY <1>3, <1>5, <3>2 DEF JobsOfKey
    <3> QED
      BY <2>4, <3>1, <3>2 DEF CreateJob, Creates
  <2> QED
    BY <1>7, <2>1, <2>2, <2>3, <2>4 DEF Request
<1>8. CASE ApiCrash
  BY <1>1, <1>2, <1>3, <1>8, NoJobAssumption DEF ApiCrash, Over, ApiInv, AnswersAreJobs
<1>9. CASE ~ApiCrash /\ ~\E r \in Jobs : Request(r)
  BY <1>4, <1>9 DEF ApiNext, Cancel, DeleteUpload, WorkerRemoves, WorkerCalls,
                    WorkerPolls, Time, apiVars
<1> QED
  BY <1>7, <1>8, <1>9

\* A job that still waits, or runs uncancelled, was so before, unless it is new.
LEMMA PendingBefore ==
  ASSUME TableStep, NEW i \in Jobs, rows[i].status # "none",
         PhaseOf(rows'[i]) = "pending"
  PROVE  PhaseOf(rows[i]) = "pending"
BY DEF TableStep, RowStep, PhaseOf, Terminal, Lifecycle!Moves

LEMMA StagedStep ==
  ASSUME ApiInv, [ApiNext]_apiVars
  PROVE  StagedInv'
<1> DEFINE Upload(r) == kind[r] = "upload"
           Ok(r) == /\ rows[r].status # "none" => rows[r].artifact = r
                    /\ rows[r].status # "none" => call[r] = "answered"
                    /\ r \in staged =>
                         \/ rows[r].status # "none"
                         \/ call[r] \in {"creating", "discarding", "failed"}
                    /\ call[r] = "creating" => r \in staged
                    /\ PhaseOf(rows[r]) = "pending" => r \in staged
                    /\ r \in deleting => rows[r].status = "cancelled"
<1>1. TableStep
  BY ApiStepIsQueueStep, QueueStep DEF ApiInv
<1>2. \A r \in Jobs : Upload(r) => Ok(r)
  BY DEF ApiInv, StagedInv
<1>3. /\ UNCHANGED kind
      /\ call \in [Jobs -> Calls] /\ staged \subseteq Jobs
  BY KeysAreRigid DEF ApiInv, CallsTypeOK
<1>4. \A r \in Jobs : /\ rows[r].status = "cancelled" => rows'[r].status = "cancelled"
                      /\ rows[r].status = "none" /\ rows'[r].status = "none"
                           => PhaseOf(rows'[r]) # "pending"
  BY <1>1 DEF TableStep, RowStep, Terminal, PhaseOf
<1>5. SUFFICES ASSUME NEW i \in Jobs, Upload(i) PROVE Ok(i)'
  BY <1>3 DEF StagedInv
<1>6. ASSUME NEW r \in Jobs, Creates(r) PROVE Ok(i)'
  <2>1. CASE i = r
    <3>1. rows'[r].status = "queued" /\ rows'[r].artifact = r
      BY <1>5, <1>6, <2>1, CreatedRows DEF ApiInv
    <3>2. rows[r].status = "none"
      BY <1>6, CreatedRows DEF ApiInv
    <3>3. call[r] = "creating" /\ call'[r] = "answered" /\ UNCHANGED <<staged, deleting>>
      BY <1>3, <1>6 DEF Creates, AnswerWith, Proceed
    <3>4. r \in staged /\ r \notin deleting
      BY <1>2, <1>5, <2>1, <3>2, <3>3
    <3> QED
      BY <2>1, <3>1, <3>3, <3>4
  <2>2. CASE i # r
    <3>1. rows'[i] = rows[i]
      BY <1>6, <2>2, CreatedRows DEF ApiInv
    <3>2. call'[i] = call[i] /\ UNCHANGED <<staged, deleting>>
      BY <1>3, <1>6, <2>2 DEF Creates, AnswerWith, Proceed
    <3> QED
      BY <1>2, <1>5, <3>1, <3>2
  <2> QED
    BY <2>1, <2>2
<1>7. CASE SameJobs
  <2>1. /\ rows'[i].status = "none" <=> rows[i].status = "none"
        /\ rows'[i].artifact = rows[i].artifact
    BY <1>5, <1>7 DEF SameJobs
  <2>2. PhaseOf(rows'[i]) = "pending" => PhaseOf(rows[i]) = "pending"
    BY <1>1, <1>4, <2>1, PendingBefore
  <2>3. Ok(i)
    BY <1>2, <1>5
  <2>4. CASE call'[i] = call[i] /\ (i \in staged' <=> i \in staged)
             /\ (i \in deleting' => i \in deleting \/ rows'[i].status = "cancelled")
    BY <1>4, <2>1, <2>2, <2>3, <2>4
  <2>5. CASE Request(i) /\ ~Creates(i)
    <3>1. UNCHANGED <<rows, deleting>>
      BY <2>5 DEF Request, Find, Stage, CreateJob, CreateFails, Discard, Creates
    <3>2. CASE Find(i)
      BY <1>3, <1>5, <2>3, <3>1, <3>2 DEF Find, AnswerWith, Proceed
    <3>3. CASE Stage(i) \/ CreateFails(i) \/ Discard(i)
      BY <1>3, <1>5, <2>3, <3>1, <3>3
         DEF Stage, CreateFails, Discard, Proceed, PhaseOf, Terminal
    <3>4. CASE CreateJob(i)
      BY <1>3, <1>5, <2>3, <2>5, <3>1, <3>4 DEF CreateJob, Creates, AnswerWith, Proceed
    <3> QED
      BY <2>5, <3>2, <3>3, <3>4 DEF Request
  <2>6. ASSUME NEW r \in Jobs, r # i, Request(r) PROVE Ok(i)'
    BY <1>3, <2>4, <2>6
       DEF Request, Find, Stage, CreateJob, CreateFails, Discard, AnswerWith, Proceed
  <2>7. ASSUME NEW r \in Jobs, Cancel(r) PROVE Ok(i)'
    BY <2>4, <2>7 DEF Cancel
  <2>8. ASSUME NEW r \in Jobs, DeleteUpload(r) \/ WorkerRemoves(r) PROVE Ok(i)'
    <3>1. CASE r # i
      BY <2>4, <2>8, <3>1 DEF DeleteUpload, WorkerRemoves
    <3>2. CASE r = i
      <4>1. UNCHANGED <<rows, call>> /\ rows[i].status \in {"failed", "cancelled"}
        BY <2>3, <2>8, <3>2 DEF DeleteUpload, WorkerRemoves
      <4>2. PhaseOf(rows[i]) # "pending" /\ call[i] # "creating"
        BY <2>3, <4>1 DEF PhaseOf, Terminal
      <4> QED
        BY <2>3, <2>8, <3>2, <4>1, <4>2 DEF DeleteUpload, WorkerRemoves
    <3> QED
      BY <3>1, <3>2
  <2>9. ASSUME NEW w \in Workers, NEW r \in Jobs, WorkerCalls(w, r) PROVE Ok(i)'
    BY <2>4, <2>9 DEF WorkerCalls
  <2>10. CASE WorkerPolls \/ Time \/ UNCHANGED apiVars
    BY <2>4, <2>10 DEF WorkerPolls, Time, apiVars
  <2>11. CASE ApiCrash
    <3>1. UNCHANGED <<rows, staged>> /\ deleting' = {}
      BY <2>11 DEF ApiCrash
    <3>2. call'[i] = IF call[i] \in Over \cup {"finding"} THEN call[i] ELSE "failed"
      BY <2>11 DEF ApiCrash
    <3> QED
      BY <2>3, <3>1, <3>2 DEF Over
  <2> QED
    BY <1>6, <2>5, <2>6, <2>7, <2>8, <2>9, <2>10, <2>11 DEF ApiNext
<1> QED
  BY <1>6, <1>7, ApiStepFrame DEF ApiInv

-----------------------------------------------------------------------------
(* The theorems.                                                           *)

LEMMA ApiInit_Inv == ApiInit => ApiInv
<1> SUFFICES ASSUME ApiInit PROVE ApiInv
  OBVIOUS
<1>1. IInv
  BY InitialInvariant DEF ApiInit
<1>2. rows = [j \in Jobs |-> NoRow] /\ \A j \in Jobs : rows[j].status = "none"
  BY DEF ApiInit, Init, NoRow
<1>3. CallsTypeOK /\ AnswersAreJobs
  BY DEF ApiInit, CallsTypeOK, AnswersAreJobs, Calls
<1>4. OneJobPerKey /\ StagedInv
  BY <1>2 DEF ApiInit, OneJobPerKey, StagedInv, PhaseOf, Terminal
<1> QED
  BY <1>1, <1>3, <1>4 DEF ApiInv

LEMMA ApiInvStep ==
  ASSUME ApiInv, [ApiNext]_apiVars
  PROVE  ApiInv'
<1>1. IInv'
  BY ApiStepIsQueueStep, QueueStep DEF ApiInv, TableStep, RowStep, IInv
<1> QED
  BY <1>1, CallsTypeStep, AnswersStep, OneJobPerKeyStep, StagedStep DEF ApiInv

\* The handlers, the workers and the clock together implement the queue, so
\* every theorem about the queue is a theorem about them.
THEOREM ApiImplementsQueue == ApiSpec => Spec
<1>1. ApiInit => Init
  BY DEF ApiInit
<1>2. [ApiNext]_apiVars => [Next]_jobVars
  BY ApiStepIsQueueStep
<1> QED
  BY <1>1, <1>2, PTL DEF ApiSpec, Spec

THEOREM ApiInvariant == ApiSpec => []ApiInv
<1>1. ApiInv /\ [ApiNext]_apiVars => ApiInv'
  BY ApiInvStep
<1> QED
  BY <1>1, ApiInit_Inv, PTL DEF ApiSpec

\* However many requests race with one Idempotency-Key, there is one job.
THEOREM OneJobPerKeyTheorem == ApiSpec => []OneJobPerKey
<1>1. ApiInv => OneJobPerKey
  BY DEF ApiInv
<1> QED
  BY <1>1, ApiInvariant, PTL

\* Whatever is staged is still accounted for, and what waits has its file.
THEOREM StagingTheorem == ApiSpec => []StagedFilesAreAccounted
<1>1. ApiInv => StagedFilesAreAccounted
  <2> SUFFICES ASSUME ApiInv, NEW r \in Jobs, kind[r] = "upload"
      PROVE  /\ r \in staged => \/ rows[r].artifact = r
                                \/ call[r] \in {"creating", "discarding", "failed"}
             /\ rows[r].status \in {"queued", "running"} /\ ~rows[r].cancel => r \in staged
    BY DEF StagedFilesAreAccounted
  <2> QED
    BY DEF ApiInv, StagedInv, PhaseOf, Terminal
<1> QED
  BY <1>1, ApiInvariant, PTL

-----------------------------------------------------------------------------
(* The handlers implement the abstract intake.                             *)

LEMMA TheJobOfOne ==
  ASSUME NEW j
  PROVE  TheJob({j}) = j
BY DEF TheJob

LEMMA TheJobOfNone == TheJob({}) = NoJob
BY DEF TheJob

\* The jobs of a key are at most one.
LEMMA KeyHasOneJob ==
  ASSUME OneJobPerKey, NEW k, NEW j \in JobsOfKey(k)
  PROVE  JobsOfKey(k) = {j}
BY DEF OneJobPerKey, JobsOfKey

LEMMA AcceptedUnchanged ==
  ASSUME SameJobs, UNCHANGED key
  PROVE  UNCHANGED acceptedJobs
<1>1. \A k \in Keys : JobsOfKey(k)' = JobsOfKey(k)
  BY DEF SameJobs, JobsOfKey
<1> QED
  BY <1>1 DEF acceptedJobs

\* The step that creates a job accepts it for its key and answers with it.
LEMMA CreatesAccepts ==
  ASSUME ApiInv, NEW r \in Jobs, Creates(r)
  PROVE  Intake!Accept(r) /\ Intake!Answer(r)
<1>1. key \in [Jobs -> Keys] /\ answer \in [Jobs -> Jobs \cup {NoJob}] /\ UNCHANGED key
  BY DEF ApiInv, CallsTypeOK, Creates
<1>2. JobsOfKey(key[r]) = {} /\ answer' = [answer EXCEPT ![r] = r] /\ answer[r] = NoJob
  BY DEF Creates, AnswerWith, ApiInv, AnswersAreJobs
<1>3. /\ rows[r].status = "none" /\ rows'[r].status = "queued"
      /\ \A i \in Jobs : i # r => rows'[i] = rows[i]
  BY CreatedRows DEF ApiInv
<1>4. JobsOfKey(key[r])' = {r}
  BY <1>1, <1>2, <1>3 DEF JobsOfKey
<1>5. \A k \in Keys : k # key[r] => JobsOfKey(k)' = JobsOfKey(k)
  BY <1>1, <1>3 DEF JobsOfKey
<1>6. acceptedJobs' = [k \in Keys |-> TheJob(JobsOfKey(k)')]
  BY DEF acceptedJobs
<1>7. acceptedJobs' = [acceptedJobs EXCEPT ![key[r]] = r]
  <2>1. \A k \in Keys : acceptedJobs'[k] = IF k = key[r] THEN r ELSE acceptedJobs[k]
    <3> SUFFICES ASSUME NEW k \in Keys
        PROVE  acceptedJobs'[k] = IF k = key[r] THEN r ELSE acceptedJobs[k]
      OBVIOUS
    <3>1. CASE k = key[r]
      <4>1. TheJob(JobsOfKey(k)') = r
        BY <1>1, <1>4, <3>1, TheJobOfOne
      <4> QED
        BY <1>6, <3>1, <4>1
    <3>2. CASE k # key[r]
      BY <1>5, <1>6, <3>2 DEF acceptedJobs
    <3> QED
      BY <3>1, <3>2
  <2> QED
    BY <1>6, <2>1 DEF acceptedJobs
<1>8. acceptedJobs[key[r]] = NoJob
  BY <1>1, <1>2, TheJobOfNone DEF acceptedJobs
<1>9. acceptedJobs'[key[r]] = r /\ r # NoJob
  BY <1>1, <1>7, NoJobAssumption DEF acceptedJobs
<1> QED
  BY <1>2, <1>7, <1>8, <1>9 DEF Intake!Accept, Intake!Answer

\* A request that finds the job of its key answers with it.
LEMMA FindsAnswers ==
  ASSUME ApiInv, NEW r \in Jobs, NEW j \in JobsOfKey(key[r]), answer[r] = NoJob,
         answer' = [answer EXCEPT ![r] = j], UNCHANGED acceptedJobs
  PROVE  Intake!Answer(r)
<1>1. key[r] \in Keys /\ j \in Jobs
  BY DEF ApiInv, CallsTypeOK, JobsOfKey
<1>2. JobsOfKey(key[r]) = {j}
  BY KeyHasOneJob DEF ApiInv
<1>3. acceptedJobs[key[r]] = j
  BY <1>1, <1>2, TheJobOfOne DEF acceptedJobs
<1> QED
  BY <1>1, <1>3, NoJobAssumption DEF Intake!Answer

\* The handlers keep the promise of the Idempotency-Key: the first job
\* accepted for a key is the answer to every request of that key.
THEOREM IntakeTheorem == ApiSpec => ImplementsIntake
<1>1. ApiInit => Intake!Init
  <2> SUFFICES ASSUME ApiInit PROVE Intake!Init
    OBVIOUS
  <2>1. \A j \in Jobs : rows[j].status = "none"
    BY DEF ApiInit, Init, NoRow
  <2>2. \A k \in Keys : JobsOfKey(k) = {}
    BY <2>1 DEF JobsOfKey
  <2>3. acceptedJobs = [k \in Keys |-> NoJob]
    BY <2>2, TheJobOfNone DEF acceptedJobs
  <2> QED
    BY <2>3 DEF ApiInit, Intake!Init
<1>2. ApiInv /\ [ApiNext]_apiVars => [Intake!Next]_<<key, acceptedJobs, answer>>
  <2> SUFFICES ASSUME ApiInv, [ApiNext]_apiVars
      PROVE  [Intake!Next]_<<key, acceptedJobs, answer>>
    OBVIOUS
  <2>1. UNCHANGED key
    BY KeysAreRigid
  <2>2. ASSUME NEW r \in Jobs, Creates(r) PROVE Intake!Next
    BY <2>1, <2>2, CreatesAccepts DEF Intake!Next
  <2>3. CASE SameJobs
    <3>1. UNCHANGED acceptedJobs
      BY <2>1, <2>3, AcceptedUnchanged
    <3>2. ASSUME NEW r \in Jobs, NEW j \in JobsOfKey(key[r]), NEW step,
                 call[r] \in {"finding", "creating"}, AnswerWith(r, j, step)
          PROVE  Intake!Next
      <4>1. answer[r] = NoJob /\ answer' = [answer EXCEPT ![r] = j]
        BY <3>2 DEF AnswerWith, ApiInv, AnswersAreJobs
      <4>2. Intake!Answer(r)
        BY <3>1, <4>1, FindsAnswers
      <4> QED
        BY <2>1, <3>1, <4>2 DEF Intake!Next
    <3>3. ASSUME NEW r \in Jobs, Find(r) \/ CreateJob(r), ~Creates(r)
          PROVE  Intake!Next \/ UNCHANGED answer
      BY <3>2, <3>3 DEF Find, CreateJob, Creates
    <3>4. ASSUME ~\E r \in Jobs : Find(r) \/ CreateJob(r) PROVE UNCHANGED answer
      BY <3>4 DEF ApiNext, Request, Stage, CreateFails, Discard, Cancel, DeleteUpload,
                  WorkerRemoves, WorkerCalls, WorkerPolls, Time, ApiCrash, apiVars
    <3> QED
      BY <2>1, <2>2, <3>1, <3>3, <3>4
  <2> QED
    BY <2>2, <2>3, ApiStepFrame DEF ApiInv
<1> QED
  BY <1>1, <1>2, ApiInvariant, PTL DEF ApiSpec, ImplementsIntake, Intake!Spec
=============================================================================
