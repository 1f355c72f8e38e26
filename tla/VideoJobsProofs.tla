---------------------------- MODULE VideoJobsProofs ----------------------------
(***************************************************************************)
(* Theorems about the queue of VideoJobs for every set of jobs, workers    *)
(* and artifacts, every attempt budget and every lease length.             *)
(*                                                                         *)
(* The argument is row by row.  RowInv is the inductive invariant of one   *)
(* row and RowStep what any transaction may do to a row that satisfies it; *)
(* the lemmas about the row operators show that each of them is a RowStep, *)
(* and the theorems follow from QueueStep, which lifts this to Next.       *)
(***************************************************************************)
EXTENDS VideoJobsRefinement, TLAPS

\* The inductive invariant of one row.
RowInv(r) ==
  /\ r \in Row
  /\ r.status = "none" => r = NoRow
  /\ r.status = "running" <=> r.owner \in Workers
  /\ r.attempts <= MaxAttempts
  /\ r.status = "queued" => r.attempts < MaxAttempts /\ ~r.cancel
  /\ r.result <=> r.status = "succeeded"
  /\ r.status = "succeeded" => ~r.error
  /\ r.status = "failed" => r.error

\* What a change of status or owner costs.
Spends(r, s) ==
  s.status # r.status \/ s.owner # r.owner => ChangesLeft(s) < ChangesLeft(r)

\* What a transaction may do to a row.
RowStep(r, s) ==
  /\ RowInv(s)
  /\ Spends(r, s)
  /\ r.status \in Terminal => s = r
  /\ r.cancel => s.cancel /\ s.status \in {r.status, "cancelled"}
  /\ PhaseOf(s) = PhaseOf(r) \/ <<PhaseOf(r), PhaseOf(s)>> \in Lifecycle!Moves

IInv == rows \in [Jobs -> Row] /\ \A j \in Jobs : RowInv(rows[j])

-----------------------------------------------------------------------------
(* Rows.                                                                   *)

\* A row that is not written is a step.
LEMMA StutterStep ==
  ASSUME NEW r, RowInv(r)
  PROVE  RowStep(r, r)
BY DEF RowStep, Spends

\* The backoff never exceeds its cap, whatever 2 ** attempts is.
LEMMA BackoffBounded ==
  ASSUME NEW n \in Nat
  PROVE  Backoff(n) \in 0 .. BackoffCap
BY TimesAssumption DEF Backoff

\* The values the UPDATEs assign belong to the types of their columns.
LEMMA AssignedValues ==
  /\ 0 \in -1 .. LeaseTicks
  /\ LeaseTicks \in -1 .. LeaseTicks
  /\ 0 \in 0 .. BackoffCap
BY TimesAssumption

\* A row that leaves the running state without a result takes a step, if it
\* goes back to the queue only uncancelled and within its budget, fails only
\* uncancelled and with an error, and is otherwise cancelled.
LEMMA LeaveRunningStep ==
  ASSUME NEW r, RowInv(r), r.status = "running",
         NEW s \in Row,
         s.status \in {"queued", "failed", "cancelled"},
         s.owner = NoWorker,
         s.attempts = r.attempts, s.cancel = r.cancel, s.result = r.result,
         s.status = "queued" => r.attempts < MaxAttempts /\ ~r.cancel,
         s.status = "failed" => s.error /\ ~r.cancel
  PROVE  RowStep(r, s)
<1>1. RowInv(s)
  BY WorkersAssumption DEF RowInv
<1>2. r.cancel => s.cancel /\ s.status \in {r.status, "cancelled"}
  OBVIOUS
<1>3. PhaseOf(s) = PhaseOf(r) \/ <<PhaseOf(r), PhaseOf(s)>> \in Lifecycle!Moves
  <2>1. CASE r.cancel
    BY <2>1 DEF PhaseOf, Terminal, Lifecycle!Moves
  <2>2. CASE ~r.cancel
    BY <2>2 DEF PhaseOf, Terminal, Lifecycle!Moves
  <2> QED
    BY <2>1, <2>2
<1>4. Spends(r, s)
  BY AttemptsAssumption DEF RowInv, Row, Spends, ChangesLeft
<1> QED
  BY <1>1, <1>2, <1>3, <1>4 DEF RowStep, Terminal

\* Recovering an expired lease is a step, and other rows are left alone.
LEMMA RecoveredStep ==
  ASSUME NEW r, RowInv(r)
  PROVE  /\ RowStep(r, Recovered(r))
         /\ ~Expired(r) => Recovered(r) = r
<1> DEFINE s == Recovered(r)
<1>1. r \in Row
  BY DEF RowInv
<1>2. CASE ~Expired(r)
  BY <1>2, StutterStep DEF Recovered
<1>3. CASE Expired(r) /\ r.cancel
  <2>1. s = [r EXCEPT !.status = "cancelled", !.owner = NoWorker, !.lease = 0]
    BY <1>3 DEF Recovered, Released
  <2> HIDE DEF s
  <2>2. s \in Row
    BY <1>1, <2>1, AssignedValues, Zenon DEF Row, Status, Terminal
  <2>3. /\ s.status = "cancelled" /\ s.owner = NoWorker
        /\ s.attempts = r.attempts /\ s.cancel = r.cancel
        /\ s.result = r.result
    BY <1>1, <2>1, Zenon DEF Row
  <2>4. RowStep(r, s)
    BY <1>3, <2>2, <2>3, LeaveRunningStep, Zenon DEF Expired
  <2> QED
    BY <1>3, <2>4 DEF s
<1>4. CASE Expired(r) /\ ~r.cancel /\ r.attempts >= MaxAttempts
  <2>1. s = [[r EXCEPT !.status = "failed", !.owner = NoWorker, !.lease = 0]
               EXCEPT !.error = TRUE]
    BY <1>4 DEF Recovered, Released
  <2> HIDE DEF s
  <2>2. s \in Row
    BY <1>1, <2>1, AssignedValues, Zenon DEF Row, Status, Terminal
  <2>3. /\ s.status = "failed" /\ s.owner = NoWorker
        /\ s.attempts = r.attempts /\ s.cancel = r.cancel
        /\ s.result = r.result /\ s.error
    BY <1>1, <2>1, Zenon DEF Row
  <2>4. RowStep(r, s)
    BY <1>4, <2>2, <2>3, LeaveRunningStep, Zenon DEF Expired
  <2> QED
    BY <1>4, <2>4 DEF s
<1>5. CASE Expired(r) /\ ~r.cancel /\ ~(r.attempts >= MaxAttempts)
  <2>1. s = [[r EXCEPT !.status = "queued", !.owner = NoWorker, !.lease = 0]
               EXCEPT !.wait = 0]
    BY <1>5 DEF Recovered, Released
  <2> HIDE DEF s
  <2>2. s \in Row
    BY <1>1, <2>1, AssignedValues, Zenon DEF Row, Status, Terminal
  <2>3. /\ s.status = "queued" /\ s.owner = NoWorker
        /\ s.attempts = r.attempts /\ s.cancel = r.cancel
        /\ s.result = r.result
    BY <1>1, <2>1, Zenon DEF Row
  <2>4. r.attempts < MaxAttempts
    BY <1>1, <1>5, AttemptsAssumption DEF Row
  <2>5. RowStep(r, s)
    BY <1>5, <2>2, <2>3, <2>4, LeaveRunningStep, Zenon DEF Expired
  <2> QED
    BY <1>5, <2>5 DEF s
<1> QED
  BY <1>2, <1>3, <1>4, <1>5

\* So is failing a running job, with or without a retry.
LEMMA FailedStep ==
  ASSUME NEW r, RowInv(r), r.status = "running", NEW retryable \in BOOLEAN
  PROVE  RowStep(r, Failed(r, retryable))
<1> DEFINE s == Failed(r, retryable)
<1>1. r \in Row /\ Backoff(r.attempts) \in 0 .. BackoffCap
  BY BackoffBounded DEF RowInv, Row
<1>2. CASE r.cancel
  <2>1. s = [[r EXCEPT !.error = TRUE]
               EXCEPT !.status = "cancelled", !.owner = NoWorker, !.lease = 0]
    BY <1>2 DEF Failed, Released
  <2> HIDE DEF s
  <2>2. s \in Row
    BY <1>1, <2>1, AssignedValues, Zenon DEF Row, Status, Terminal
  <2>3. /\ s.status = "cancelled" /\ s.owner = NoWorker
        /\ s.attempts = r.attempts /\ s.cancel = r.cancel
        /\ s.result = r.result
    BY <1>1, <2>1, Zenon DEF Row
  <2>4. RowStep(r, s)
    BY <2>2, <2>3, LeaveRunningStep, Zenon
  <2> QED
    BY <2>4 DEF s
<1>3. CASE ~r.cancel /\ retryable /\ r.attempts < MaxAttempts
  <2>1. s = [[[r EXCEPT !.error = TRUE]
                EXCEPT !.status = "queued", !.owner = NoWorker, !.lease = 0]
                EXCEPT !.wait = Backoff(r.attempts)]
    BY <1>3 DEF Failed, Released
  <2> HIDE DEF s
  <2>2. s \in Row
    BY <1>1, <2>1, AssignedValues, Zenon DEF Row, Status, Terminal
  <2>3. /\ s.status = "queued" /\ s.owner = NoWorker
        /\ s.attempts = r.attempts /\ s.cancel = r.cancel
        /\ s.result = r.result
    BY <1>1, <2>1, Zenon DEF Row
  <2>4. RowStep(r, s)
    BY <1>3, <2>2, <2>3, LeaveRunningStep, Zenon
  <2> QED
    BY <2>4 DEF s
<1>4. CASE ~r.cancel /\ ~(retryable /\ r.attempts < MaxAttempts)
  <2>1. s = [[r EXCEPT !.error = TRUE]
               EXCEPT !.status = "failed", !.owner = NoWorker, !.lease = 0]
    BY <1>4 DEF Failed, Released
  <2> HIDE DEF s
  <2>2. s \in Row
    BY <1>1, <2>1, AssignedValues, Zenon DEF Row, Status, Terminal
  <2>3. /\ s.status = "failed" /\ s.owner = NoWorker
        /\ s.attempts = r.attempts /\ s.cancel = r.cancel
        /\ s.result = r.result /\ s.error
    BY <1>1, <2>1, Zenon DEF Row
  <2>4. RowStep(r, s)
    BY <1>4, <2>2, <2>3, LeaveRunningStep, Zenon
  <2> QED
    BY <2>4 DEF s
<1> QED
  BY <1>2, <1>3, <1>4

\* Recovery puts a row in the queue only from the queue or from a lease that
\* was not cancelled, so the phase a client sees is unchanged.
LEMMA RecoveredToQueue ==
  ASSUME NEW r, RowInv(r), Recovered(r).status = "queued"
  PROVE  /\ RowInv(Recovered(r))
         /\ r.status \in {"queued", "running"} /\ ~r.cancel
         /\ Recovered(r).attempts = r.attempts
<1>1. RowStep(r, Recovered(r))
  BY RecoveredStep
<1>2. ~Recovered(r).cancel
  BY <1>1 DEF RowStep, RowInv
<1>3. ~r.cancel
  BY <1>1, <1>2 DEF RowStep
<1>4. r.status \in {"queued", "running"}
  BY <1>1, RecoveredStep DEF RowStep, Expired, Terminal
<1>5. Recovered(r).attempts = r.attempts
  BY DEF Recovered, Released, RowInv, Row
<1> QED
  BY <1>1, <1>3, <1>4, <1>5 DEF RowStep

\* Leasing a row that the claim may take is a step within the budget.
LEMMA LeasedStep ==
  ASSUME NEW r, RowInv(r), Recovered(r).status = "queued", NEW w \in Workers
  PROVE  RowStep(r, Leased(Recovered(r), w))
<1> DEFINE q == Recovered(r)
           s == Leased(q, w)
<1>1. /\ RowInv(q) /\ q \in Row /\ q.status = "queued"
      /\ q.attempts < MaxAttempts /\ ~q.cancel
      /\ r.status \in {"queued", "running"} /\ ~r.cancel /\ q.attempts = r.attempts
  BY RecoveredToQueue DEF RowInv
<1> HIDE DEF q
<1>2. q.attempts \in Nat /\ q.attempts + 1 \in Nat /\ q.attempts + 1 <= MaxAttempts
  BY <1>1, AttemptsAssumption DEF Row
<1>3. s = [q EXCEPT !.status = "running", !.attempts = q.attempts + 1,
                    !.owner = w, !.lease = LeaseTicks]
  BY DEF Leased
<1> HIDE DEF s
<1>4. s \in Row
  BY <1>1, <1>2, <1>3, AssignedValues, Zenon DEF Row, Status, Terminal
<1>5. /\ s.status = "running" /\ s.owner = w /\ s.attempts = q.attempts + 1
      /\ s.cancel = q.cancel /\ s.result = q.result
  BY <1>1, <1>3, Zenon DEF Row
<1>6. RowInv(s)
  BY <1>1, <1>2, <1>4, <1>5 DEF RowInv
<1>7. PhaseOf(s) = PhaseOf(r)
  BY <1>1, <1>5 DEF PhaseOf, Terminal
<1>8. Spends(r, s)
  BY <1>1, <1>2, <1>5, AttemptsAssumption DEF Spends, ChangesLeft
<1>9. RowStep(r, s)
  BY <1>1, <1>6, <1>7, <1>8 DEF RowStep, Terminal
<1> QED
  BY <1>9 DEF s, q

\* A write that keeps every column the invariant speaks of is a step.
LEMMA BookkeepingStep ==
  ASSUME NEW r, RowInv(r), r.status # "none", r.status \notin Terminal,
         NEW s \in Row,
         s.status = r.status, s.owner = r.owner, s.attempts = r.attempts,
         s.cancel = r.cancel, s.result = r.result, s.error = r.error
  PROVE  RowStep(r, s)
<1>1. RowInv(s)
  BY DEF RowInv
<1>2. PhaseOf(s) = PhaseOf(r)
  BY DEF PhaseOf
<1> QED
  BY <1>1, <1>2 DEF RowStep, Spends

\* Enqueuing a job is a step of a row that was not there.
LEMMA CreatedStep ==
  ASSUME NEW r, RowInv(r), r.status = "none",
         NEW artifact \in Artifacts \cup {NoArtifact}
  PROVE  RowStep(r, [NoRow EXCEPT !.status = "queued", !.artifact = artifact])
<1> DEFINE s == [NoRow EXCEPT !.status = "queued", !.artifact = artifact]
<1>1. r = NoRow /\ r \in Row
  BY DEF RowInv
<1>2. /\ r.cancel = FALSE /\ r.result = FALSE /\ r.owner = NoWorker
      /\ r.attempts = 0
  BY <1>1 DEF NoRow
<1>3. s = [r EXCEPT !.status = "queued", !.artifact = artifact]
  BY <1>1
<1> HIDE DEF s
<1>4. s \in Row
  BY <1>1, <1>3, Zenon DEF Row, Status, Terminal
<1>5. /\ s.status = "queued" /\ s.cancel = FALSE /\ s.result = FALSE
      /\ s.owner = NoWorker /\ s.attempts = 0
  BY <1>1, <1>2, <1>3, Zenon DEF Row
<1>6. RowInv(s)
  BY <1>4, <1>5, WorkersAssumption, AttemptsAssumption DEF RowInv
<1>7. Spends(r, s)
  BY <1>2, <1>5, AttemptsAssumption DEF Spends, ChangesLeft
<1>8. RowStep(r, s)
  BY <1>2, <1>6, <1>5, <1>7 DEF RowStep, PhaseOf, Terminal, Lifecycle!Moves
<1> QED
  BY <1>8 DEF s

\* Requesting cancellation cancels a queued job and flags a running one.
LEMMA CancellationStep ==
  ASSUME NEW r, RowInv(r)
  PROVE  /\ r.status = "queued"
              => RowStep(r, [r EXCEPT !.status = "cancelled", !.cancel = TRUE])
         /\ r.status = "running" => RowStep(r, [r EXCEPT !.cancel = TRUE])
<1>1. r \in Row
  BY DEF RowInv
<1>2. ASSUME r.status = "queued",
             NEW s, s = [r EXCEPT !.status = "cancelled", !.cancel = TRUE]
      PROVE  RowStep(r, s)
  <2>1. s \in Row
    BY <1>1, <1>2, Zenon DEF Row, Status, Terminal
  <2>2. /\ s.status = "cancelled" /\ s.cancel /\ s.owner = r.owner
        /\ s.attempts = r.attempts /\ s.result = r.result
    BY <1>1, <1>2, Zenon DEF Row
  <2>3. RowInv(s)
    BY <1>2, <2>1, <2>2 DEF RowInv
  <2>4. Spends(r, s)
    BY <1>1, <1>2, <2>2, AttemptsAssumption DEF RowInv, Row, Spends, ChangesLeft
  <2> QED
    BY <1>2, <2>2, <2>3, <2>4 DEF RowStep, PhaseOf, Terminal, Lifecycle!Moves
<1>3. ASSUME r.status = "running", NEW s, s = [r EXCEPT !.cancel = TRUE]
      PROVE  RowStep(r, s)
  <2>1. s \in Row
    BY <1>1, <1>3, Zenon DEF Row
  <2>2. /\ s.status = r.status /\ s.cancel /\ s.owner = r.owner
        /\ s.attempts = r.attempts /\ s.result = r.result
        /\ s.error = r.error
    BY <1>1, <1>3, Zenon DEF Row
  <2>3. RowInv(s)
    BY <1>3, <2>1, <2>2 DEF RowInv
  <2> QED
    BY <1>3, <2>2, <2>3 DEF RowStep, Spends, PhaseOf, Terminal, Lifecycle!Moves
<1> QED
  BY <1>2, <1>3

\* Publishing the result of a running job that was not cancelled is a step.
LEMMA CompletedStep ==
  ASSUME NEW r, RowInv(r), r.status = "running", ~r.cancel
  PROVE  RowStep(r, [Released(r, "succeeded") EXCEPT !.result = TRUE,
                                                     !.error = FALSE])
<1> DEFINE s == [Released(r, "succeeded") EXCEPT !.result = TRUE, !.error = FALSE]
<1>1. r \in Row
  BY DEF RowInv
<1>2. s = [[r EXCEPT !.status = "succeeded", !.owner = NoWorker, !.lease = 0]
             EXCEPT !.result = TRUE, !.error = FALSE]
  BY DEF Released
<1> HIDE DEF s
<1>3. s \in Row
  BY <1>1, <1>2, AssignedValues, Zenon DEF Row, Status, Terminal
<1>4. /\ s.status = "succeeded" /\ s.owner = NoWorker
      /\ s.attempts = r.attempts /\ s.cancel = r.cancel
      /\ s.result /\ s.error = FALSE
  BY <1>1, <1>2, Zenon DEF Row
<1>5. RowInv(s)
  BY <1>3, <1>4, WorkersAssumption DEF RowInv
<1>6. Spends(r, s)
  BY <1>1, <1>4, AttemptsAssumption DEF RowInv, Row, Spends, ChangesLeft
<1>7. RowStep(r, s)
  BY <1>4, <1>5, <1>6 DEF RowStep, PhaseOf, Terminal, Lifecycle!Moves
<1> QED
  BY <1>7 DEF s

\* Two rows that agree on every column are the same row.
LEMMA SameColumns ==
  ASSUME NEW r \in Row, NEW s \in Row,
         s.status = r.status, s.attempts = r.attempts, s.owner = r.owner,
         s.lease = r.lease, s.wait = r.wait, s.cancel = r.cancel,
         s.result = r.result, s.error = r.error, s.artifact = r.artifact
  PROVE  s = r
BY DEF Row

\* The passing of time is a step: it only shortens a lease or a wait.
LEMMA TickStep ==
  ASSUME NEW r, RowInv(r)
  PROVE  RowStep(r, [r EXCEPT
           !.lease = IF r.status = "running" /\ @ >= 0 THEN @ - 1 ELSE @,
           !.wait  = IF r.status = "queued" /\ @ > 0 THEN @ - 1 ELSE @])
<1> DEFINE lease == IF r.status = "running" /\ r.lease >= 0
                      THEN r.lease - 1 ELSE r.lease
           wait == IF r.status = "queued" /\ r.wait > 0
                     THEN r.wait - 1 ELSE r.wait
           s == [r EXCEPT !.lease = lease, !.wait = wait]
<1>1. /\ r \in Row
      /\ lease \in -1 .. LeaseTicks
      /\ wait \in 0 .. BackoffCap
  BY TimesAssumption DEF RowInv, Row
<1>2. /\ r.status # "running" => lease = r.lease
      /\ r.status # "queued" => wait = r.wait
  OBVIOUS
<1> HIDE DEF lease, wait
<1>3. s \in Row
  BY <1>1, Zenon DEF Row
<1>4. /\ s.status = r.status /\ s.attempts = r.attempts /\ s.owner = r.owner
      /\ s.lease = lease /\ s.wait = wait /\ s.cancel = r.cancel
      /\ s.result = r.result /\ s.error = r.error /\ s.artifact = r.artifact
  BY <1>1, Zenon DEF Row
<1>5. RowStep(r, s)
  <2> HIDE DEF s
  <2>1. CASE r.status \in Terminal \/ r.status = "none"
    <3>1. s = r
      BY <1>1, <1>2, <1>3, <1>4, <2>1, SameColumns DEF Terminal
    <3> QED
      BY <3>1, StutterStep
  <2>2. CASE r.status \notin Terminal /\ r.status # "none"
    BY <1>3, <1>4, <2>2, BookkeepingStep, Zenon
  <2> QED
    BY <2>1, <2>2
<1> QED
  BY <1>5 DEF s, lease, wait

-----------------------------------------------------------------------------
(* The table.                                                              *)

\* What every step of the queue does: each row takes a step of its own.
TableStep ==
  /\ rows' \in [Jobs -> Row]
  /\ \A j \in Jobs : RowStep(rows[j], rows'[j])

\* An UPDATE of one row moves the table if it moves that row.
LEMMA OneRowStep ==
  ASSUME IInv, NEW j \in Jobs, NEW s, RowStep(rows[j], s),
         rows' = [rows EXCEPT ![j] = s]
  PROVE  TableStep
<1>1. s \in Row
  BY DEF RowStep, RowInv
<1>2. \A i \in Jobs : RowStep(rows[i], rows'[i])
  BY StutterStep DEF IInv
<1> QED
  BY <1>1, <1>2 DEF TableStep, IInv

\* claim_next_video_job, with the recovery it runs first.
LEMMA ClaimStep ==
  ASSUME IInv, NEW w \in Workers, NEW j \in Jobs, Claim(w, j)
  PROVE  TableStep
<1>1. /\ Recovered(rows[j]).status = "queued"
      /\ rows' = [RecoveredRows EXCEPT ![j] = Leased(Recovered(rows[j]), w)]
  BY DEF Claim, Claimable, RecoveredRows
<1>2. RowStep(rows[j], Leased(Recovered(rows[j]), w))
  BY <1>1, LeasedStep DEF IInv
<1>3. \A i \in Jobs : rows'[i] = IF i = j THEN Leased(Recovered(rows[j]), w)
                                            ELSE Recovered(rows[i])
  BY <1>1 DEF RecoveredRows
<1>4. \A i \in Jobs : RowStep(rows[i], rows'[i])
  BY <1>2, <1>3, RecoveredStep DEF IInv
<1>5. rows' = [i \in Jobs |-> rows'[i]]
  BY <1>1 DEF RecoveredRows
<1> QED
  BY <1>4, <1>5 DEF TableStep, RowStep, RowInv

LEMMA ClaimNothingStep ==
  ASSUME IInv, ClaimNothing
  PROVE  TableStep
<1>1. rows' = [i \in Jobs |-> Recovered(rows[i])]
  BY DEF ClaimNothing, RecoveredRows
<1>2. \A i \in Jobs : RowStep(rows[i], rows'[i])
  BY <1>1, RecoveredStep DEF IInv
<1> QED
  BY <1>1, <1>2 DEF TableStep, RowStep, RowInv

\* The operations a worker calls on the job it holds.
LEMMA WorkerCallStep ==
  ASSUME IInv, NEW w \in Workers, NEW j \in Jobs, WorkerCall(w, j)
  PROVE  TableStep
<1> DEFINE r == rows[j]
<1>1. RowInv(r) /\ r \in Row
  BY DEF IInv
<1>2. CASE Claim(w, j)
  BY <1>2, ClaimStep
<1>3. CASE Heartbeat(w, j)
  <2>1. PICK s : s = [r EXCEPT !.lease = LeaseTicks]
    OBVIOUS
  <2>2. r.status = "running" /\ rows' = [rows EXCEPT ![j] = s]
    BY <1>3, <2>1 DEF Heartbeat, Owns
  <2>3. s \in Row
    BY <1>1, <2>1, AssignedValues, Zenon DEF Row
  <2>4. /\ s.status = r.status /\ s.owner = r.owner /\ s.attempts = r.attempts
        /\ s.cancel = r.cancel /\ s.result = r.result /\ s.error = r.error
    BY <1>1, <2>1, Zenon DEF Row
  <2>5. RowStep(r, s)
    BY <1>1, <2>2, <2>3, <2>4, BookkeepingStep DEF Terminal
  <2> QED
    BY <2>2, <2>5, OneRowStep
<1>4. ASSUME NEW artifact \in Artifacts, SetArtifact(w, j, artifact)
      PROVE  TableStep
  <2>1. PICK s : s = [r EXCEPT !.artifact = artifact]
    OBVIOUS
  <2>2. r.status = "running" /\ rows' = [rows EXCEPT ![j] = s]
    BY <1>4, <2>1 DEF SetArtifact, Owns
  <2>3. s \in Row
    BY <1>1, <2>1, Zenon DEF Row
  <2>4. /\ s.status = r.status /\ s.owner = r.owner /\ s.attempts = r.attempts
        /\ s.cancel = r.cancel /\ s.result = r.result /\ s.error = r.error
    BY <1>1, <2>1, Zenon DEF Row
  <2>5. RowStep(r, s)
    BY <1>1, <2>2, <2>3, <2>4, BookkeepingStep DEF Terminal
  <2> QED
    BY <2>2, <2>5, OneRowStep
<1>5. CASE Complete(w, j)
  BY <1>1, <1>5, CompletedStep, OneRowStep DEF Complete, Owns
<1>6. CASE CancelClaimed(w, j)
  <2>1. PICK s : s = [r EXCEPT !.status = "cancelled", !.owner = NoWorker, !.lease = 0]
    OBVIOUS
  <2>2. r.status = "running" /\ rows' = [rows EXCEPT ![j] = s]
    BY <1>6, <2>1 DEF CancelClaimed, Owns, Released
  <2>3. s \in Row
    BY <1>1, <2>1, AssignedValues, Zenon DEF Row, Status, Terminal
  <2>4. /\ s.status = "cancelled" /\ s.owner = NoWorker
        /\ s.attempts = r.attempts /\ s.cancel = r.cancel
        /\ s.result = r.result
    BY <1>1, <2>1, Zenon DEF Row
  <2>5. RowStep(r, s)
    BY <1>1, <2>2, <2>3, <2>4, LeaveRunningStep, Zenon
  <2> QED
    BY <2>2, <2>5, OneRowStep
<1>7. ASSUME NEW retryable \in BOOLEAN, Fail(w, j, retryable)
      PROVE  TableStep
  BY <1>1, <1>7, FailedStep, OneRowStep DEF Fail, Owns
<1> QED
  BY <1>2, <1>3, <1>4, <1>5, <1>6, <1>7 DEF WorkerCall

\* The operations the API calls.
LEMMA ApiCallStep ==
  ASSUME IInv, NEW j \in Jobs, ApiCall(j)
  PROVE  TableStep
<1>1. ASSUME NEW artifact \in Artifacts \cup {NoArtifact}, Create(j, artifact)
      PROVE  TableStep
  <2>1. PICK s : s = [NoRow EXCEPT !.status = "queued", !.artifact = artifact]
    OBVIOUS
  <2>2. rows[j].status = "none" /\ rows' = [rows EXCEPT ![j] = s]
    BY <1>1, <2>1 DEF Create
  <2>3. RowStep(rows[j], s)
    BY <2>1, <2>2, CreatedStep DEF IInv
  <2> QED
    BY <2>2, <2>3, OneRowStep
<1>2. CASE RequestCancellation(j)
  <2>1. RowInv(rows[j])
    BY DEF IInv
  <2>2. PICK s, t : /\ s = [rows[j] EXCEPT !.status = "cancelled", !.cancel = TRUE]
                    /\ t = [rows[j] EXCEPT !.cancel = TRUE]
    OBVIOUS
  <2>3. \/ rows[j].status = "queued" /\ rows' = [rows EXCEPT ![j] = s]
        \/ rows[j].status = "running" /\ rows' = [rows EXCEPT ![j] = t]
    BY <1>2, <2>2 DEF RequestCancellation
  <2>4. /\ rows[j].status = "queued" => RowStep(rows[j], s)
        /\ rows[j].status = "running" => RowStep(rows[j], t)
    BY <2>1, <2>2, CancellationStep
  <2> QED
    BY <2>3, <2>4, OneRowStep
<1> QED
  BY <1>1, <1>2 DEF ApiCall

\* Every step of the queue, in every state that satisfies the invariant.
LEMMA QueueStep ==
  ASSUME IInv, [Next]_jobVars
  PROVE  TableStep
<1>1. ASSUME NEW w \in Workers, NEW j \in Jobs, WorkerCall(w, j)
      PROVE  TableStep
  BY <1>1, WorkerCallStep
<1>2. ASSUME NEW j \in Jobs, ApiCall(j)
      PROVE  TableStep
  BY <1>2, ApiCallStep
<1>3. CASE ClaimNothing
  BY <1>3, ClaimNothingStep
<1>4. CASE Tick
  <2>1. \A j \in Jobs : RowStep(rows[j], rows'[j])
    BY <1>4, TickStep DEF Tick, IInv
  <2>2. rows' = [j \in Jobs |-> rows'[j]]
    BY <1>4 DEF Tick
  <2> QED
    BY <2>1, <2>2 DEF TableStep, RowStep, RowInv
<1>5. CASE UNCHANGED jobVars
  BY <1>5, StutterStep DEF jobVars, IInv, TableStep
<1> QED
  BY <1>1, <1>2, <1>3, <1>4, <1>5 DEF Next

-----------------------------------------------------------------------------
(* The theorems.                                                           *)

\* An empty table satisfies the invariant.
LEMMA InitialInvariant == Init => IInv
<1> SUFFICES ASSUME Init PROVE IInv
  OBVIOUS
<1>1. NoRow \in Row /\ RowInv(NoRow)
  BY WorkersAssumption, TimesAssumption, AttemptsAssumption
     DEF RowInv, NoRow, Row, Status, Terminal
<1> QED
  BY <1>1 DEF Init, IInv

\* Every reachable table satisfies the row invariant.
THEOREM QueueInvariant == Spec => []IInv
<1>1. IInv /\ [Next]_jobVars => IInv'
  BY QueueStep DEF TableStep, RowStep, IInv
<1> QED
  BY <1>1, InitialInvariant, PTL DEF Spec

\* The columns keep their types.
THEOREM TypeCorrect == Spec => []TypeOK
<1>1. IInv => TypeOK
  BY DEF IInv, TypeOK
<1> QED
  BY <1>1, QueueInvariant, PTL

\* A job holds a lease exactly while it is running.
THEOREM LeaseTheorem == Spec => []LeaseIffRunning
<1>1. IInv => LeaseIffRunning
  BY DEF IInv, RowInv, LeaseIffRunning
<1> QED
  BY <1>1, QueueInvariant, PTL

\* No interleaving leases a job more than max_attempts times, and a queued
\* job always has an attempt left.
THEOREM BudgetTheorem == Spec => [](AttemptBudget /\ QueuedIsServable)
<1>1. IInv => AttemptBudget /\ QueuedIsServable
  BY DEF IInv, RowInv, AttemptBudget, QueuedIsServable
<1> QED
  BY <1>1, QueueInvariant, PTL

\* Result, error and status always agree.
THEOREM OutcomeTheorem == Spec => []OutcomeMatchesStatus
<1>1. IInv => OutcomeMatchesStatus
  BY DEF IInv, RowInv, OutcomeMatchesStatus
<1> QED
  BY <1>1, QueueInvariant, PTL

\* A terminal row is never written again.
THEOREM FinalityTheorem == Spec => TerminalIsFinal
<1>1. IInv /\ [Next]_jobVars
        => [\A j \in Jobs : rows[j].status \in Terminal
                              => rows'[j] = rows[j]]_jobVars
  BY QueueStep DEF TableStep, RowStep
<1> QED
  BY <1>1, QueueInvariant, PTL DEF Spec, TerminalIsFinal

\* After a cancellation request a job can only end cancelled: its result is
\* never published, whoever reaches the row first.
THEOREM CancellationTheorem == Spec => CancellationWins
<1>1. IInv /\ [Next]_jobVars
        => [\A j \in Jobs : rows[j].cancel =>
              /\ rows'[j].cancel
              /\ rows'[j].status \in {rows[j].status, "cancelled"}]_jobVars
  BY QueueStep DEF TableStep, RowStep
<1> QED
  BY <1>1, QueueInvariant, PTL DEF Spec, CancellationWins

\* A job changes its status or its owner at most twice for every attempt and twice more:
\* retries, recoveries and workers that take turns cannot keep it going for ever.
THEOREM RetriesTheorem == Spec => RetriesRunOut /\ [](\A j \in Jobs : ChangesLeft(rows[j]) \in Nat)
<1>1. IInv /\ [Next]_jobVars
        => [\A j \in Jobs :
              rows'[j].status # rows[j].status \/ rows'[j].owner # rows[j].owner
                => ChangesLeft(rows'[j]) < ChangesLeft(rows[j])]_jobVars
  BY QueueStep DEF TableStep, RowStep, Spends
<1>2. IInv => \A j \in Jobs : ChangesLeft(rows[j]) \in Nat
  <2> SUFFICES ASSUME IInv, NEW j \in Jobs PROVE ChangesLeft(rows[j]) \in Nat
    OBVIOUS
  <2>1. PICK r \in Row : r = rows[j] /\ r.attempts <= MaxAttempts
    BY DEF IInv, RowInv
  <2>2. PICK n \in Nat : n = MaxAttempts - r.attempts
    BY <2>1, AttemptsAssumption DEF Row
  <2> QED
    BY <2>1, <2>2, AttemptsAssumption DEF ChangesLeft
<1> QED
  BY <1>1, <1>2, QueueInvariant, PTL DEF Spec, RetriesRunOut

\* No claim, and none of the recoveries a claim runs, touches a lease that
\* has not expired.
THEOREM LiveLeaseTheorem == Spec => LiveLeaseIsRespected
<1> DEFINE Polls == (\E w \in Workers, j \in Jobs : Claim(w, j)) \/ ClaimNothing
           Live(r) == r.status = "running" /\ r.lease >= 0
<1>1. ASSUME IInv, Polls, NEW i \in Jobs, Live(rows[i])
      PROVE  rows'[i] = rows[i]
  <2>1. Recovered(rows[i]) = rows[i]
    BY <1>1 DEF Recovered, Expired, IInv, RowInv, Row
  <2>2. CASE ClaimNothing
    BY <2>1, <2>2 DEF ClaimNothing, RecoveredRows
  <2>3. ASSUME NEW w \in Workers, NEW j \in Jobs, Claim(w, j)
        PROVE  rows'[i] = rows[i]
    <3>1. i # j
      BY <1>1, <2>1, <2>3 DEF Claim, Claimable, RecoveredRows
    <3> QED
      BY <2>1, <2>3, <3>1 DEF Claim, RecoveredRows
  <2> QED
    BY <1>1, <2>2, <2>3
<1>2. IInv /\ [Next]_jobVars
        => [Polls => \A j \in Jobs : Live(rows[j]) => rows'[j] = rows[j]]_jobVars
  BY <1>1
<1> QED
  BY <1>2, QueueInvariant, PTL DEF Spec, LiveLeaseIsRespected

\* The queue implements the lifecycle its clients were promised.
THEOREM RefinementTheorem == Spec => ImplementsLifecycle
<1>1. Init => Lifecycle!Init
  BY DEF Init, Lifecycle!Init, phaseOfRows, PhaseOf, NoRow
<1>2. IInv /\ [Next]_jobVars => [Lifecycle!Next]_phaseOfRows
  <2> SUFFICES ASSUME IInv, [Next]_jobVars PROVE Lifecycle!Next
    BY DEF Lifecycle!Next
  <2>1. TableStep
    BY QueueStep
  <2>2. \A j \in Jobs : PhaseOf(rows'[j]) \in Lifecycle!Phases
    BY <2>1 DEF TableStep, Row, Status, Terminal, PhaseOf, Lifecycle!Phases
  <2>3. phaseOfRows' = [j \in Jobs |-> PhaseOf(rows'[j])]
    BY DEF phaseOfRows, PhaseOf
  <2> QED
    BY <2>1, <2>2, <2>3
       DEF TableStep, RowStep, phaseOfRows, Lifecycle!Next
<1> QED
  BY <1>1, <1>2, QueueInvariant, PTL
     DEF Spec, ImplementsLifecycle, Lifecycle!Spec
=============================================================================
