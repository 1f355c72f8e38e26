------------------------------- MODULE VideoJobs -------------------------------
(***************************************************************************)
(* The durable video-job queue: the table video_jobs and the operations    *)
(* of app/storage/video_jobs.py on it.  Every operation of that file is    *)
(* one SQLite transaction, hence one action here.  The module says         *)
(* nothing of who calls the operations, or when: any worker may call any   *)
(* of them for any job at any time, so what holds here holds for every     *)
(* client of the store.  VideoWorker and VideoApi compose it with the      *)
(* clients the repository has.                                             *)
(*                                                                         *)
(* Instants are kept relative to the current time: r.lease is              *)
(* lease_expires_at - now and r.wait is available_at - now, in ticks, and  *)
(* every instant in the past is the same one (-1 for a lease, 0 for        *)
(* available_at).  Each is followed while the code still reads it: a lease *)
(* while the job runs, available_at while it is queued.  Tick is the       *)
(* passing of one unit of time.                                            *)
(*                                                                         *)
(* The columns stage, progress_percent, heartbeat_at, started_at,          *)
(* completed_at and updated_at are only reported, never tested by the      *)
(* code, and are left out.                                                 *)
(***************************************************************************)
EXTENDS Integers

CONSTANTS
  Jobs,         \* job ids, numbered in the order ORDER BY created_at, job_id
  Workers,      \* lease owners
  NoWorker,     \* lease_owner IS NULL
  Artifacts,    \* values of artifact_path
  NoArtifact,   \* artifact_path IS NULL
  MaxAttempts,  \* max_attempts
  LeaseTicks,   \* settings.video_job_lease_seconds
  BackoffCap    \* the 60 of min(60, 2 ** attempts)

ASSUME JobsAssumption == Jobs \subseteq Nat
ASSUME WorkersAssumption == NoWorker \notin Workers
ASSUME ArtifactsAssumption == NoArtifact \notin Artifacts
ASSUME AttemptsAssumption == MaxAttempts \in Nat \ {0}
ASSUME TimesAssumption == LeaseTicks \in Nat \ {0} /\ BackoffCap \in Nat

VARIABLE rows   \* rows[j] is the row of job j

jobVars == <<rows>>

Terminal == {"succeeded", "failed", "cancelled"}
Status == {"none", "queued", "running"} \cup Terminal

Row == [status   : Status,                       \* "none": no such row
        attempts : Nat,
        owner    : Workers \cup {NoWorker},
        lease    : -1 .. LeaseTicks,             \* 0 when NULL
        wait     : 0 .. BackoffCap,
        cancel   : BOOLEAN,                      \* cancel_requested_at IS NOT NULL
        result   : BOOLEAN,                      \* result_json IS NOT NULL
        error    : BOOLEAN,                      \* error_code IS NOT NULL
        artifact : Artifacts \cup {NoArtifact}]

NoRow == [status |-> "none", attempts |-> 0, owner |-> NoWorker, lease |-> 0,
          wait |-> 0, cancel |-> FALSE, result |-> FALSE, error |-> FALSE,
          artifact |-> NoArtifact]

-----------------------------------------------------------------------------
(* What the UPDATE statements do to one row.                               *)

\* WHERE status = 'running' AND lease_owner = ?
Owns(w, j) == rows[j].status = "running" /\ rows[j].owner = w

\* Fault: lease_expires_at <= now.
ExpiredEarly(r) == r.status = "running" /\ r.lease <= 0

Expired(r) == r.status = "running" /\ r.lease < 0

\* The row leaves the running state: its lease is cleared.
Released(r, status) ==
  [r EXCEPT !.status = status, !.owner = NoWorker, !.lease = 0]

\* min(60, 2 ** attempts)
Backoff(attempts) ==
  IF 2 ^ attempts \in 0 .. BackoffCap THEN 2 ^ attempts ELSE BackoffCap

\* Fault: the requeueing UPDATE comes first and does not look at the request.
RecoveredForgetsCancel(r) ==
  IF ~Expired(r) THEN r
  ELSE IF r.attempts >= MaxAttempts
         THEN [Released(r, "failed") EXCEPT !.error = TRUE]
         ELSE [Released(r, "queued") EXCEPT !.wait = 0]

\* Fault: no UPDATE for expired leases whose cancellation was requested.
RecoveredSkipsCancelled(r) ==
  IF ~Expired(r) \/ r.cancel THEN r
  ELSE IF r.attempts >= MaxAttempts
         THEN [Released(r, "failed") EXCEPT !.error = TRUE]
         ELSE [Released(r, "queued") EXCEPT !.wait = 0]

\* Fault: no UPDATE for expired leases that used up the attempts.
RecoveredSkipsExhausted(r) ==
  IF ~Expired(r) THEN r
  ELSE IF r.cancel THEN Released(r, "cancelled")
  ELSE IF r.attempts >= MaxAttempts THEN r
       ELSE [Released(r, "queued") EXCEPT !.wait = 0]

\* The three UPDATEs of _recover_expired_jobs, in their order.
Recovered(r) ==
  IF ~Expired(r) THEN r
  ELSE IF r.cancel THEN Released(r, "cancelled")
  ELSE IF r.attempts >= MaxAttempts
         THEN [Released(r, "failed") EXCEPT !.error = TRUE]
         ELSE [Released(r, "queued") EXCEPT !.wait = 0]

Leased(r, w) ==
  [r EXCEPT !.status = "running", !.attempts = @ + 1,
            !.owner = w, !.lease = LeaseTicks]

\* What fail_video_job makes of a row its caller owns.
Failed(r, retryable) ==
  LET f == [r EXCEPT !.error = TRUE]
  IN  IF r.cancel THEN Released(f, "cancelled")
      ELSE IF retryable /\ r.attempts < MaxAttempts
             THEN [Released(f, "queued") EXCEPT !.wait = Backoff(r.attempts)]
             ELSE Released(f, "failed")

-----------------------------------------------------------------------------
(* The operations.                                                         *)

Init == rows = [j \in Jobs |-> NoRow]

\* create_video_job, when no row has the idempotency key yet.
Create(j, artifact) ==
  /\ rows[j].status = "none"
  /\ rows' = [rows EXCEPT ![j] = [NoRow EXCEPT !.status = "queued",
                                               !.artifact = artifact]]

\* The rows as the SELECT of claim_next_video_job sees them.
RecoveredRows == [j \in Jobs |-> Recovered(rows[j])]

Claimable(table) ==
  {j \in Jobs : /\ table[j].status = "queued"
                /\ ~table[j].cancel
                /\ table[j].wait = 0}

\* claim_next_video_job when it returns job j.
Claim(w, j) ==
  /\ j \in Claimable(RecoveredRows)
  /\ \A i \in Claimable(RecoveredRows) : j <= i
  /\ rows' = [RecoveredRows EXCEPT ![j] = Leased(@, w)]

\* claim_next_video_job when it returns None: the recovery is committed.
ClaimNothing ==
  /\ Claimable(RecoveredRows) = {}
  /\ rows' = RecoveredRows

Heartbeat(w, j) ==
  /\ Owns(w, j)
  /\ rows' = [rows EXCEPT ![j].lease = LeaseTicks]

SetArtifact(w, j, artifact) ==
  /\ Owns(w, j)
  /\ rows' = [rows EXCEPT ![j].artifact = artifact]

RequestCancellation(j) ==
  \/ /\ rows[j].status = "queued"
     /\ rows' = [rows EXCEPT ![j].status = "cancelled", ![j].cancel = TRUE]
  \/ /\ rows[j].status = "running"
     /\ rows' = [rows EXCEPT ![j].cancel = TRUE]

\* Fault: the UPDATE does not test cancel_requested_at.
CompleteCancelled(w, j) ==
  /\ Owns(w, j)
  /\ rows' = [rows EXCEPT ![j] = [Released(@, "succeeded") EXCEPT
                                    !.result = TRUE, !.error = FALSE]]

Complete(w, j) ==
  /\ Owns(w, j)
  /\ ~rows[j].cancel
  /\ rows' = [rows EXCEPT ![j] = [Released(@, "succeeded") EXCEPT
                                    !.result = TRUE, !.error = FALSE]]

CancelClaimed(w, j) ==
  /\ Owns(w, j)
  /\ rows' = [rows EXCEPT ![j] = Released(@, "cancelled")]

Fail(w, j, retryable) ==
  /\ Owns(w, j)
  /\ rows' = [rows EXCEPT ![j] = Failed(@, retryable)]

\* One unit of time passes.
Tick ==
  rows' = [j \in Jobs |->
             [rows[j] EXCEPT
                !.lease = IF rows[j].status = "running" /\ @ >= 0 THEN @ - 1 ELSE @,
                !.wait  = IF rows[j].status = "queued" /\ @ > 0 THEN @ - 1 ELSE @]]

WorkerCall(w, j) ==
  \/ Claim(w, j)
  \/ Heartbeat(w, j)
  \/ \E artifact \in Artifacts : SetArtifact(w, j, artifact)
  \/ Complete(w, j)
  \/ CancelClaimed(w, j)
  \/ \E retryable \in BOOLEAN : Fail(w, j, retryable)

ApiCall(j) ==
  \/ \E artifact \in Artifacts \cup {NoArtifact} : Create(j, artifact)
  \/ RequestCancellation(j)

Next ==
  \/ \E w \in Workers, j \in Jobs : WorkerCall(w, j)
  \/ \E j \in Jobs : ApiCall(j)
  \/ ClaimNothing
  \/ Tick

Spec == Init /\ [][Next]_jobVars

-----------------------------------------------------------------------------
(* Properties.                                                             *)

\* The columns have their types.
TypeOK == rows \in [Jobs -> Row]

\* A job holds a lease exactly while it is running, so clearing the lease
\* and leaving the running state never come apart in any of the ten UPDATEs.
LeaseIffRunning ==
  \A j \in Jobs : rows[j].status = "running" <=> rows[j].owner \in Workers

\* No interleaving of claims, failures and recoveries grants a job more than
\* max_attempts leases.
AttemptBudget == \A j \in Jobs : rows[j].attempts <= MaxAttempts

\* A job waiting in the queue can still be served: it has an attempt left and
\* was not cancelled.  (A queued row that breaks this would be claimed beyond
\* its budget, or skipped by every claim for ever.)
QueuedIsServable ==
  \A j \in Jobs : rows[j].status = "queued" =>
                    rows[j].attempts < MaxAttempts /\ ~rows[j].cancel

\* What a client is told agrees: a result exactly for a success, without an
\* error left over from an earlier attempt; an error for a failure.
OutcomeMatchesStatus ==
  \A j \in Jobs :
    /\ rows[j].result <=> rows[j].status = "succeeded"
    /\ rows[j].status = "succeeded" => ~rows[j].error
    /\ rows[j].status = "failed" => rows[j].error

\* A terminal row is never written again, by no late worker, recovery or
\* cancellation.
TerminalIsFinal ==
  [][\A j \in Jobs : rows[j].status \in Terminal => rows'[j] = rows[j]]_jobVars

\* Once cancellation is requested the job can only end cancelled: it is
\* neither published, nor failed, nor put back in the queue, whichever of
\* the worker and the recovery reaches it first.
CancellationWins ==
  [][\A j \in Jobs : rows[j].cancel =>
       /\ rows'[j].cancel
       /\ rows'[j].status \in {rows[j].status, "cancelled"}]_jobVars

\* A claim, with the recovery it runs, leaves every unexpired lease alone.
LiveLeaseIsRespected ==
  [][(\E w \in Workers, j \in Jobs : Claim(w, j)) \/ ClaimNothing =>
       \A j \in Jobs : rows[j].status = "running" /\ rows[j].lease >= 0
                         => rows'[j] = rows[j]]_jobVars

\* How often a job may still change its status or its owner, at most.
ChangesLeft(r) ==
  CASE r.status = "none"    -> 2 * MaxAttempts + 2
    [] r.status = "queued"  -> 2 * (MaxAttempts - r.attempts) + 1
    [] r.status = "running" -> 2 * (MaxAttempts - r.attempts) + 2
    [] OTHER                -> 0

\* Failures, retries and recoveries, in whatever order they come, wear a job out: every change
\* of its status or its owner brings it nearer to its end.  (What else a job needs to end is
\* that somebody goes on to serve it.)
RetriesRunOut ==
  [][\A j \in Jobs :
       rows'[j].status # rows[j].status \/ rows'[j].owner # rows[j].owner
         => ChangesLeft(rows'[j]) < ChangesLeft(rows[j])]_jobVars
=============================================================================
