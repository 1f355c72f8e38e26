---------------------------- MODULE RequestMetrics -----------------------------
(***************************************************************************)
(* What an HTTP request passes after its handler: the middleware of        *)
(* app/main.py records it in the counters of its process                   *)
(* (app/core/observability.py) and in the table that all processes share   *)
(* (app/storage/metrics_store.py), which /metrics reports and judges.      *)
(***************************************************************************)
EXTENDS WallClock, FiniteSets, FiniteSetsExt

CONSTANTS
  Servers,         \* the processes of the application
  Categories,      \* those of result_category that occur
  BucketTicks,     \* settings.metrics_bucket_seconds
  WindowTicks,     \* settings.metrics_window_seconds
  RetentionTicks,  \* settings.metrics_retention_seconds
  AlertMin,        \* settings.metrics_alert_min_requests
  AvailabilitySlo, \* settings.metrics_availability_slo_percent
  LatencySlo       \* settings.metrics_latency_slo_percent

\* Settings.validate_production_security; there is a process.
ASSUME MetricsAssumption ==
  /\ Servers # {}
  /\ BucketTicks \in Nat \ {0} /\ WindowTicks \in Nat /\ RetentionTicks \in Nat
  /\ BucketTicks <= WindowTicks /\ WindowTicks <= RetentionTicks
  /\ AlertMin \in Nat \ {0} /\ AvailabilitySlo \in 0 .. 100 /\ LatencySlo \in 0 .. 100
  /\ "server_error" \in Categories
  /\ Categories \subseteq {"success", "client_error", "security_denied", "throttled", "server_error"}

VARIABLES
  answer,   \* the answered requests
  rows,     \* request_metric_buckets: request_count by bucket_start and kind of answer
  counter   \* RuntimeMetrics of each process

metricsVars == <<now, answer, rows, counter>>

\* What is kept of an answer: its category, and whether it took longer than the threshold.
Kinds == Categories \X BOOLEAN

\* clock is the time that was read for the row.
Answered == [pc : {"open", "recording", "stored", "failed", "lost"}, kind : Kinds,
             process : Servers, clock : 0 .. MaxTime]

Start(t) == (t \div BucketTicks) * BucketTicks

\* The buckets there can be.
Starts == {Start(t) : t \in 0 .. MaxTime}

\* The middleware has an answer, or an exception, which counts as a server error.
Respond(r, p, kind) ==
  /\ answer[r].pc = "open"
  /\ answer' = [answer EXCEPT ![r] =
       [pc |-> "recording", kind |-> kind, process |-> p, clock |-> now]]
  /\ counter' = [counter EXCEPT ![p].count = @ + 1,
                                ![p].errors = @ + (IF kind[1] = "server_error" THEN 1 ELSE 0)]
  /\ UNCHANGED <<now, rows>>

RetentionCutoff(clock) == Start(clock - RetentionTicks)

\* Fault: the row is taken from the bucket of the time at which it is written.
RecordLate(r) ==
  LET q == answer[r]
  IN  /\ q.pc = "recording"
      /\ rows' = [s \in Starts |->
           IF s < RetentionCutoff(q.clock) THEN [k \in Kinds |-> 0]
           ELSE IF s = Start(now) THEN [rows[s] EXCEPT ![q.kind] = @ + 1]
           ELSE rows[s]]
      /\ answer' = [answer EXCEPT ![r].pc = "stored"]
      /\ UNCHANGED <<now, counter>>

\* _record_request_metric: the upsert and the retention, in one transaction.
Record(r) ==
  LET q == answer[r]
  IN  /\ q.pc = "recording"
      /\ rows' = [s \in Starts |->
           IF s < RetentionCutoff(q.clock) THEN [k \in Kinds |-> 0]
           ELSE IF s = Start(q.clock) THEN [rows[s] EXCEPT ![q.kind] = @ + 1]
           ELSE rows[s]]
      /\ answer' = [answer EXCEPT ![r].pc = "stored"]
      /\ UNCHANGED <<now, counter>>

\* The store fails: the process counts that, and the request is answered all the same.
RecordFails(r) ==
  /\ answer[r].pc = "recording"
  /\ answer' = [answer EXCEPT ![r].pc = "failed"]
  /\ counter' = [counter EXCEPT ![answer[r].process].failures = @ + 1]
  /\ UNCHANGED <<now, rows>>

Fresh == [count |-> 0, errors |-> 0, failures |-> 0]

\* A process is killed and started again.
Restart(p) ==
  /\ answer' = [r \in Requests |->
       IF answer[r].pc = "recording" /\ answer[r].process = p THEN [answer[r] EXCEPT !.pc = "lost"]
       ELSE answer[r]]
  /\ counter' = [counter EXCEPT ![p] = Fresh]
  /\ UNCHANGED <<now, rows>>

MetricsTick ==
  /\ \A r \in Requests : answer[r].pc = "recording" => InTime(answer[r].clock)
  /\ Advances
  /\ UNCHANGED <<answer, rows, counter>>

MetricsInit ==
  /\ now = 0
  /\ answer \in [Requests -> [pc : {"open"}, kind : {CHOOSE k \in Kinds : TRUE}, clock : {0},
                              process : {CHOOSE p \in Servers : TRUE}]]
  /\ rows = [s \in Starts |-> [k \in Kinds |-> 0]]
  /\ counter = [p \in Servers |-> Fresh]

MetricsNext ==
  \/ \E r \in Requests :
       \/ \E p \in Servers, kind \in Kinds : Respond(r, p, kind)
       \/ Record(r) \/ RecordFails(r)
  \/ \E p \in Servers : Restart(p)
  \/ MetricsTick

MetricsSpec == MetricsInit /\ [][MetricsNext]_metricsVars

-----------------------------------------------------------------------------
(* metrics_snapshot.                                                       *)

CountOf(kind, cutoff) ==
  MapThenSumSet(LAMBDA s : rows[s][kind], {s \in Starts : s >= cutoff})

\* _slo_status of a share of the requests.  Its percentage is rounded to thousandths,
\* which decides nothing below a hundred thousand requests.
Slo(count, bad, target) ==
  IF count < AlertMin THEN "insufficient_data"
  ELSE IF 100 * (count - bad) >= target * count THEN "met" ELSE "breached"

Judgement(counts) ==
  LET Those(kinds) == MapThenSumSet(LAMBDA k : counts[k], kinds)
      total == Those(Kinds)
  IN  [availability |-> Slo(total, Those({"server_error"} \X BOOLEAN), AvailabilitySlo),
       latency      |-> Slo(total, Those(Categories \X {TRUE}), LatencySlo)]

Snapshot(clock) ==
  LET counts == [k \in Kinds |-> CountOf(k, Start(clock - WindowTicks))]
  IN  [counts |-> counts, slo |-> Judgement(counts)]

-----------------------------------------------------------------------------
(* Properties.                                                             *)

MetricsTypeOK ==
  /\ now \in 0 .. MaxTime
  /\ answer \in [Requests -> Answered]
  /\ rows \in [Starts -> [Kinds -> Nat]]
  /\ counter \in [Servers -> [count : Nat, errors : Nat, failures : Nat]]

\* What /metrics reports of its window is what was answered in it and could be stored:
\* whatever the clocks of the writers, no bucket the window still needs is removed and
\* nothing is counted twice, so that the alert is raised exactly when it should be.
ReportIsExact ==
  LET stored == {r \in Requests : /\ answer[r].pc = "stored"
                                  /\ answer[r].clock >= Start(now - WindowTicks)}
      OfKind(kinds) == Cardinality({r \in stored : answer[r].kind \in kinds})
      Raised(bad, target) == /\ Cardinality(stored) >= AlertMin
                             /\ 100 * OfKind(bad) > (100 - target) * Cardinality(stored)
      report == Snapshot(now)
  IN  /\ \A k \in Kinds : report.counts[k] = OfKind({k})
      /\ (report.slo.availability = "breached") = Raised({"server_error"} \X BOOLEAN, AvailabilitySlo)
      /\ (report.slo.latency = "breached") = Raised(Categories \X {TRUE}, LatencySlo)
=============================================================================
