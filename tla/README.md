# Procedra: a TLA+ verification project

Procedra turns a description of an industrial procedure, its documents and
videos into reviewed work instructions. It is a FastAPI application with one or
more API processes, a separate worker process for videos, one SQLite database
and a few directories of files, all on one host (`docs/architecture.md`).

This directory holds TLA+ modules that model the parts of it whose correctness
depends on the order in which things happen, the TLC configurations that check
them on small instances, and theorems about them that TLAPS has checked for
every value of the constants. `PROJECT.json` is the index: which definition
models which lines, which run checks which property, which change of the model
each property would notice, and which hazards of the code are covered.

1. [Inventory](#1-inventory)
2. [Modules](#2-modules)
3. [Runs](#3-runs)
4. [Fairness and time](#4-fairness-and-time)
5. [Proofs](#5-proofs)
6. [Where the code and its documentation differ](#6-where-the-code-and-its-documentation-differ)
7. [Limits of the models](#7-limits-of-the-models)
8. [Plan](#8-plan)

## 1. Inventory

Everything durable is either a row of the SQLite database (`storage/*.py`;
`core/settings.py` names its path) or a file in one of the storage directories
(documents, videos, keyframes). Nothing is kept in memory across requests
except caches and the counters of request metrics that wait to be flushed. The
processes never talk to each other directly: API and worker meet in the
database and on disk. A write transaction is `BEGIN IMMEDIATE ... COMMIT` on a
connection of its own, so that transactions are serial; what is *not* serial is
everything between two of them.

| Component | State | Operations | Hard part | What makes it correct |
|---|---|---|---|---|
| **Video job queue** `storage/video_jobs.py` | table `video_jobs`: status, attempts, lease owner and expiry, available_at, cancellation, result, error, artifact | create, find by key, claim (with recovery of expired leases), heartbeat, set artifact, request cancellation, complete, cancel claimed, fail, requeue expired | claims, heartbeats, recoveries and cancellations race; leases expire; attempts are limited | one final outcome per job; live leases are respected; the attempt budget is exact; a cancellation is never overtaken |
| **Video API** `api/videos.py` | staged uploads | enqueue (look up, stage, create, discard), status, cancel (transaction, then removal), two synchronous endpoints | requests with one Idempotency-Key race; a request dies between staging and creating | one job per key; staged files are accounted for |
| **Video worker** `workers/video_jobs.py`, `scripts/run_video_job_worker.py` | local variables, heartbeat thread, files, keyframes, ownership rows | claim, checkpoints, three stages, record artifact, register, complete, four ways to clean up | kills, stalls, lost leases, late calls, partial failures | one worker per job; results keep their files; failures leave none; every job ends |
| **Stage process** `workers/stage_process.py`, `video_stage_runner.py` | a child process, a writer thread, a stderr file | run, poll, interrupt, terminate, kill, join, judge | pipes that fill, children that ignore signals, deadlines that race with answers | the child is gone before the job changes; a hard deadline |
| **Instruction history** `storage/instruction_history.py`, `api/history.py` | versions of instruction sets, workflow status, claim validations, execution runs, audit events chained by hashes, legacy JSON records | save a version, transition, validate a claim, save an execution, import legacy records, export audit | reviewers race; four writers share one chain; imports fail half-way or run twice | no version is overwritten; status changes follow the workflow; the last digest of the trail fits the payload; imports are whole |
| **Accounts** `storage/auth_store.py`, `api/auth.py`, `core/browser_auth.py` | users, sessions, failed-login counters, locks | login, logout, authenticate, revoke | the password check is slow and outside any transaction; idle and absolute expiry; session cap | a lockout stands; the idle time tells the use; the limit of sessions holds |
| **Administration** `storage/admin_store.py`, `api/admin.py` | organizations, projects, memberships, invitations, admin audit chain | register, bootstrap, invite, accept, revoke, change role, deactivate, create project, add and remove members | two administrators act on each other; an invitation expires, is revoked and accepted | an organization keeps an active administrator; its trail explains who has access |
| **Rate limiting** `core/rate_limit.py`, `storage/rate_limit_store.py`, `main.py` | events per bucket | classify, consume, clean up, deny, fail closed | several processes share a window; clocks are read before the transaction | never more than the limit in a window; retry_after suffices |
| **Request metrics** `storage/metrics_store.py`, `core/observability.py` | counters per process and per bucket of time | record, aggregate, retain, judge objectives | several processes upsert one bucket; late writers meet the retention | the report is what was answered |
| **Database** `storage/database.py`, `scripts/manage_database.py` | schema version, the file, its write-ahead log, backups | open, migrate, verify, back up, restore | processes migrate at once; restores run under running processes and are interrupted; old and new builds meet | each migration once and in order; what a restore replaces can be had back; verification notices damage |
| **Documents** `api/documents.py`, `storage/document_reconciliation.py`, `core/authorization.py` | files, `resource_ownership` | upload, list, reconcile, authorize | file first, row second, undo on failure | what was answered is stored; a reconciliation is all or nothing |
| **Retention sweep** `scripts/cleanup_artifacts.py` | all directories, terminal jobs | snapshot of active artifacts, sweep, remove directories, reconcile ownership, delete jobs | runs beside API and worker without a lock | nothing in use is removed |
| **Vision** `vision/keyframes.py`, `frame_analysis.py`, `processing.py` | files of one video | download, extract, choose frames, analyse, join to segments | numeric edges in the choice of frames, frames that cannot be read or written | chosen frames are distinct, ordered, complete; segments partition them |
| **Egress** `vision/safe_egress.py`, `core/network.py` | one request | look up, check, connect, redirect | names change between check and connection | connections go where the check said |
| **Generation** `generation/*.py`, `api/instructions.py`, `providers/*` | none; the page keeps a draft | ask a model, fall back, guard, evaluate again, save, load | which errors fall back, which escape; signals lost between page and history | a response is always marked a draft; a signal blocks until it is decided |
| **Evaluation** `evaluation/*.py`, `generation/quality_improver.py` | none | score, floor, ceiling, verdict, improve | floors, ceilings and rounding; text that is filled up | no text is rated above its own safety; better text scores no less |
| **Retrieval** `retrieval/*.py` | index of documents, cached per process | search, load, merge | the signature of the directory is read before its files | a search sees what is registered; the merge leaves no place empty |
| **Rendering** `generation/markdown.py`, `pdf.py` ... | none | format | - | - |
| **Shell and client** `main.py`, `core/*`, `static/app.js`, `scripts/*` | configuration; the page | wiring, logging, polling | - | - |

How they interact. The API creates a job and a staged file; the worker claims
the job, runs three child processes, writes files, registers ownership and
completes the job; a client polls the API; the sweep deletes what is old; the
accounts decide which project a request may touch, after the limits have admitted
it and before the metrics record its answer; a search reads what uploads store; the
history takes what generation has drafted and leads it through review to execution.

The hazards, each at its line with the properties aimed at it, are in
`PROJECT.json` under `hazards`.

## 2. Modules

```
VideoJobLifecycle <--implements-- VideoJobsRefinement --extends--> VideoJobs
VideoIntake       <--implements-- VideoApi   --extends--> VideoJobsRefinement
                                  VideoWorker --extends--> VideoJobs
StageProcess                      (what VideoWorker takes as one step)
Sweep                             (what VideoWorker's files meet besides)
InstructionReview <--implements-- InstructionHistory
AuditChain                        (what its verification can tell)
Drafting                          (Quality scores the texts it moves)
WallClock <--extends-- RateLimit, RequestMetrics
Platform                          RateLimit, RequestMetrics, AuthStore, AdminStore, Database
Content                           Documents, Sweep, VideoEgress, Keyframes, Retrieval,
                                  Quality, Drafting, AuditChain
```

`VideoApi` and `VideoWorker` extend the same queue, so that an operation of the
store is defined once. `VideoApi` assumes nothing of the workers: any of them
may make any call of the store at any time. `VideoWorker` has the real workers
and, of the API, the calls that reach a job.

The theorems are in modules of their own, each of which extends what it is about:
`VideoJobsProofs`, `VideoApiProofs` and `VideoWorkerProofs` (and on it `VideoFilesProofs`,
about files), `StageProcessProofs`, `InstructionHistoryProofs`, `PlatformProofs` (the five
components of `Platform`, and `Platform` itself) and `ContentProofs` (the eight of `Content`, and `Content`).

`Platform` and `Content` are products of components that share no state but, in `Platform`, the
clock of limits and metrics: the
variable `part`, chosen once, names the component whose steps a behaviour takes, and
the others stay in an initial state. One run explores each product (`MCPlatform` and `MCContent` give
their constants values), and a theorem says that in a product each component follows its own
specification (section 5). Nothing is said there of how such components
would interact, since they do not; where components do interact they are modelled
together (`VideoApi`, `VideoWorker`, `InstructionHistory`, `Documents`, `Sweep`,
`Drafting`).

**VideoJobs** is the table `video_jobs`. `rows[j]` is a row; a function of the
store that writes is an action, since each of them is one `BEGIN IMMEDIATE`
transaction. `Recovered` is `_recover_expired_jobs` for a row, `Leased`,
`Failed` the assignments of `claim_next_video_job` and `fail_video_job`. The
instants of the code are kept relative to now: `lease` is
`lease_expires_at - now`, `wait` is `available_at - now`; `Tick` lowers them.

**VideoJobLifecycle** is the queue as a client sees it: absent, pending,
stopping, and three final phases.

**VideoApi** runs the handlers of `api/videos.py`, a step for each transaction
or file operation: `Find` (the look-up by Idempotency-Key), `Stage` (the upload
is written), `CreateJob` (the transaction, with its second look-up), `Discard`;
`Cancel` and `DeleteUpload`. A request can die between any two of them.
**VideoIntake** is what the Idempotency-Key promises: the first request of a key
decides which job it stands for.

**VideoWorker** runs `_process_claimed_job`. `proc[w].pc` names the next call;
the labels and the handlers follow the `try` block and its `except` clauses,
with a handler's own calls as steps of their own (`OnCancel`, `Close`,
`OnDownloadTimeout`, `FailJob`, `CleanUp`, `RetractFiles`, `RetractOwnership`).
`Beat` and `BeatFails` are the heartbeat thread, `Restart` a new process after a
kill. `files`, `frames` and `owned` are the video files, keyframe directories and
ownership rows on disk and in the database, each named by job and video id: 0 is
the id of the upload, `a` the one that attempt `a` has drawn.

**StageProcess** is one call of `run_isolated_stage`: the parent's loop by
program counter, the thread that writes the request, and the child, which may read
or not, end or not, ignore SIGTERM, flood stderr and answer at any moment. What else runs
in the child's process group is left out (section 6). In `VideoWorker` a stage is one
step with the outcomes that this module has.

**InstructionHistory** is `storage/instruction_history.py` with its handlers.
`rows`, `trail`, `runs` and `imported` are the four tables. Each caller opens the
storage (`Open`: the look for legacy files outside any transaction; `Import` or
`ImportFails`: the transaction that looks again) and then runs one transaction
(`Save`, `Decide`, `Validate`, `Execute`) or none (`Leave`). `Directory[c]` is
the path under which process `c` sees the files, which is what the table of
imported files is keyed by. A payload is reduced to its status and its validated
claims, and its digest is the payload: two payloads have the same digest only if
they are equal. **InstructionReview** is what readers of the history rely on: a
version is never replaced, moves along the workflow, and its confirmed claims
only grow.

**AuthStore** is a login (`Read`, then the password check, then `Fail`, `Refuse` or
`Succeed`, then `Insert`) and a request with a session (`Authenticate`, and
`Refresh` if `last_seen_at` has aged, then `Serve`, which may be a logout), any
number of them at once, with an administrator (`Administer`) and the clock. What a
request has read of a user before the slow password check is kept in `call[c]`, and
`lag` is the time since it has read the clock. A lag of more than a tick cannot
matter: a write waits ten seconds at most for its lock (`database.py:35`), and the
shortest periods the settings allow are thirty (the lockout, and the refresh, which
is a tenth of the idle timeout). A row of a session is `NotDrawn`, a session, or
`Gone`; `unused` and `late` are not in the table and are there to state properties.

**WallClock** is a clock `now` that several processes read before they wait for the
write lock; what is stamped with it may be written up to `MaxLag` later.
**RateLimit** is the middleware of `main.py` up to the handler: `Deny` (authentication and
CSRF), `Arrive` (the bucket of the request, and the clock), `Consume` (one transaction that
cleans up, counts and inserts), `Contend` for a locked database, whose next attempt reads the
clock again, `FailClosed`. **RequestMetrics** is what follows the handler:
`Respond`, then `Record` (upsert of the bucket, retention) or its failure, and the
report `Snapshot`, computed by the time of the report.

**AdminStore** is one action for each function that writes: registrations (an account of a
new organization, or by invitation), the bootstrap of the first administrator,
invitations, changes of users, projects, memberships. `Admit` and the action after it
are two steps: the request was let in with the user row of an earlier moment. `trail`
is the audit chain of each organization; `AccountTold` and `MemberTold` read from it
what it says of an account.

**Database** has the file together with what its own log adds to it (`main`), the log that lies beside
it (`log`: none, live, or stale, which is that of a file replaced since), processes of builds of
different versions that open, migrate and use it, and the commands that back up and restore
step by step, each of which may fail or be killed at any of them. Neither looks at the other, as in
the code: processes open, commit and close in the middle of a restore, a restore begins under running
processes, and its safety backup may go to any path, that of its source too. A stale log makes whatever is read damaged
(`Seen`), and whoever closes such a connection may take it into the file (`Stumble`). Who migrates
while the file is replaced goes on with one that is gone and remembers a version of its own (`CutOff`,
`Settle`). `past` and `tool.used` are history and guard nothing: what the last restore has replaced and
where it is saved, whether a log or a process was in its way (`exposed`), whether a restore has ever saved over its
own source (`onItself`), and whether somebody has committed since the restore began. **AuditChain** is the other
half of verification: what the application writes to its trails, what may happen to the rows
besides (rows lost, changed, moved, swapped), and what `verify_database` then answers.

**Documents** is an upload step by step (`Look`, `StoreFile`, `RegisterOwner`, or
`RegisterFails` and `Undo`), any number at once, and the reconciliation that registers
files without a row (`BeginReconciliation`, `InspectDocument` file by file,
`CommitReconciliation`), with kills between any two steps. `Foreign` is a file whose
metadata name another owner.

**Sweep** is the whole cleanup command, each look at a file and each removal a step of
its own, beside a request or a job that stores a video, makes the directory of its
frames, writes them, registers and ends, or dies. Files have the times at which they were
written; the clock runs.

**VideoEgress** is a download: the URL is looked up and checked (`CheckUrl`), metadata are
fetched, the streams they name are checked (`CheckStreams`), then fetched; a fetch
looks its host up and pins the addresses (`Pin`), connects to one of them (`Connect`),
may be redirected (`Redirect`). Meanwhile any name may change (`DnsChanges`).

**Keyframes** computes, for every number of frames, every wish, every set of frames that cannot
be read or written and every assignment of scores from a small set: `CandidateIndices`,
the buckets and the choice among them (`Selection`), what is written, what is shown to the
model, and the segments. The order of the candidates is `Ordered`, which names the member of each
rank: the sort of the community modules is one of `TLC`, which the provers cannot open. **Rounding** is `round` of Python for a quotient.

**Quality** is the score as arithmetic on what the checks find: the criteria, the floor
(`WorstSafety`), the ceilings, the risk and the verdict, and the improver's passes
(`Improved`), for every kind of text. A text is what its safety lists hold of
substance and of fillers, and the checks it fails; four criteria are computed in detail, the
other eight have one score in common.

**Drafting** follows one draft: the model is asked or not (`EndpointAllowed`), answers or not
(`Replies`), the guard keeps what the detector finds (`Guarded`), the page evaluates it
again (`Rebuild`), saves, loads, validates and decides.

**Retrieval** is a search beside uploads: the rows of ownership, the signature of the
directory, then the loading of the files or a hit in the cache, and the merge of sources
under a limit.

The definitions that start with a comment `Fault:` are the faulty variants that
the properties are tested with (`mutants` in `PROJECT.json`); no specification
uses them.

## 3. Runs

| Run | Module | Instance | Distinct states (depth) | Shows |
|---|---|---|---|---|
| `video_api` | MCVideoApi | 2 requests, 2 keys, 2 lease owners, 2 attempts, lease and backoff of one tick | 39,633 (21) | one job per key, final outcomes, respected leases, the attempt budget, staged files accounted for, both refinements |
| `worker` | MCVideoWorker | 1 job of either kind, 2 workers, 2 attempts, 2 kills, suspensions | 78,159 (39) | one worker per job, files kept with their result and removed without one |
| `worker_live` | MCVideoWorker | 2 uploads, 1 worker, 2 attempts, 1 kill, fairness | 181,995 (45) | every job ends, every cancellation takes effect |
| `worker_leak` | MCVideoWorker | 1 job, 1 worker, no kills | violation | a cancelled download is left behind |
| `worker_zombie` | MCVideoWorker | 1 job, 2 workers, suspensions | violation | a late worker removes what another has published |
| `stage` | StageProcess | deadline of 3, polls of 2, grace of 1, a request of 2 chunks for a pipe of 1 | 89,488 (40) | prompt stop, hard deadline, no late answer, the child is gone |
| `history` | MCInstructionHistory | 2 processes with different paths, 2 versions, 1 claim, 2 roles, a legacy record with 2 events, a legacy execution, 5 audit events | 656,778 (21) | the trail fits and explains the content, nothing is overwritten, imports are whole |
| `history_resave` | MCInstructionHistory | the same | violation | an approved version that nobody has approved |
| `accounts_lockout` | MCAuthStore | 1 user, 3 sessions of which 1 may be active, 2 requests, a lockout of 2 after 2 failures | violation | an overlapping login ends a lockout |
| `platform` | MCPlatform | limits: 3 requests of a client, limits of 1, 1 and 2, 5 ticks of half a second, a lag of 1; metrics: 1 process, buckets, window and retention of 2; administration: 2 people, a project, 2 invitations, 4 events; sessions: 1 user, 3 tokens, 2 logins, at most 2 sessions; database: 2 processes of builds 1 and 2, 2 backups, 1 write | 817,154 (34) | limits hold and their answers suffice, the report is exact, an organization keeps its administrator and its trail explains access, idle time and limit of sessions, migrations once and in order, a restore can be undone |
| `content` | MCContent | documents: 2 of them, 2 uploads by 2 users; sweep: 1 video, age 2, 5 ticks; egress: 2 hosts, one allowed, 2 addresses, one public, 2 redirects; quality: 4 shapes of lists, 4 notes, 3 passes; drafting: 2 signals; retrieval: 2 files, one too large, 2 searches, 1 cached set; audit: 2 versions, 2 events each, 2 damages; keyframes: videos of 0 to 9 frames, 1 to 3 wanted | 1,243,843 (32) | the properties listed below |
| `sweep_frames` | Sweep | 1 video, age 2, work of 1, 4 ticks | violation | the sweep takes the empty directory of a running job |

What the eight components in `content` show: `UploadedIsStored` and `ReconcilesAllOrNothing`
(documents), `SweepSparesUsed` (sweep), `ConnectsWhereChecked` (egress), `ScoreIsCapped` and
`ScoreIsMonotone` (quality), `SignalsStayBlockers` (drafting), `SearchIsComplete` (retrieval),
`VerifiedIsWritten` (audit), `FramesAreChosen` (keyframes). Each is described at its definition.

Why the bounds are enough for the question of each run:

- *Two of each actor.* The hazards are races of two: two requests with one key,
  a worker and its successor, two reviewers, two importers. The invariants that
  matter most are proved for any number (section 5).
- *Two attempts.* The first fails, is retried and waits; the second is the last
  one. Both branches of `attempts < max_attempts` happen, and an expired lease
  can be recovered into either.
- *One tick* for a lease and two for the cap of the backoff, where the order of
  the two matters (`worker`): leases and waits can end in either order, and a
  suspension may outlive both.
- *Two kills* in `worker`: a worker and the one that recovers its job. `MaxCrashes`
  bounds the kills; with a kill for every attempt the job ends as exhausted.
- *Deadline 3 and polls of 2* in `stage`: the second poll is cut short by the
  deadline, so that the `min` of the sleep matters. `Horizon` (10) lies beyond
  deadline plus five grace periods, the bound that `HardDeadline` states.
- *Two versions* in `history`, of which the legacy record is the second: it can
  come before the first one is saved (then the next number is 3, which the
  bound `MaxVersion` excludes), after it, or collide with a second one saved
  anew. Five audit events (`MaxEvents`) hold the
  shortest way to an approval, which takes three, and its imitation by a second
  save, and any pair of racing decisions beside an import. Payloads can be saved with any
  status and with a validated claim, since both can be loaded.
- *One user* in `platform`: users do not meet in the tables, and the theorems hold
  for any number of them. A refresh period of two is the shortest that is longer than
  the lag; an idle timeout of three and a lifetime of four let a session end for
  either reason.
- *Three requests* in `platform`: each limit can be reached and met by one more, and
  polls and uploads share a bucket under different limits. Ticks of half a second
  let `retry_after`, which is in whole seconds, be rounded. The clock ends at 4, twice the
  longest window.
- *Two people, four events* in the administration: each may found an organization, be
  invited into the other's, be promoted, and the two may act on each other, which takes four events.
  Invitations go through the ages new, late and expired.
- *Builds 1 and 2, oldest schema 0*: each build finds an older schema, its own and, for the first,
  a newer one, at its start or from a backup. One write besides the migrations tells the file from the backup made before
  it; two paths are a source and a safety backup, or the same path for both.
- *One process* in the metrics: processes differ in the counters they keep for themselves, not in the table that
  is reported, and requests overlap within one as they do across several. `ReportTheorem` is for any number.
- *A clock of 0 to 4* in the sweep with an age of 2: a job can wait beyond the age of its
  upload, be claimed, and end or be given up while the command walks; `MaxWork < MaxAge` is the
  assumption of the command's default of a day against attempts of minutes.
- *Videos of 0, 1, 2, 4, 5 and 9 frames* with one to three wanted: fewer candidates than
  wanted, as many, and more, with gaps of indices that collide and that do not. Scores of 1 and 2
  let frames tie. `Fewest`, `MinDifference` and `MinGap` are chosen so that both sides of each comparison
  happen.
- *The shapes of lists* in `quality` are no list, too short, only fillers, and both, for each of
  the safety lists, so that every threshold of the score is met from both sides.
- *Symmetry* is used in `video_api`, `worker`, `worker_zombie`, `platform` and `content`, for
  interchangeable workers, keys, tokens, requests, uploads and users; not in the run with liveness
  properties.

Deadlock is checked in the runs of the queue, the workers and the history. It is not in `stage`, where
the parent returns and that is the end, nor in `platform`, `content` and `sweep_frames`, whose clocks and counters of events are bounded and whose downloads, searches
and commands end.

## 4. Fairness and time

`VideoWorker!Fairness`, used by `worker_live` only:

- `WorkerStep(w)`: a process that is not killed goes on; its stages end because
  of their hard deadline, which `stage` checks.
- `Restart(w)`: Compose restarts the worker (`restart: unless-stopped`).
- `ClaimJob(w, j)` for *some* `j`, and `Poll`: an idle worker polls once a second.
  Nothing is assumed of which job it takes; that every job is taken follows from
  the order of the query, the finite number of attempts and the backoff.
- `Time`: the clock advances.

There is no fairness for heartbeats, for the API, for kills, or for a stage to
succeed. `Stalls = FALSE` there means that a live worker's lease does not run out
under it: `core/settings.py` refuses a heartbeat interval of half a lease or more,
and the thread that sends the heartbeats gives up only on errors, which are
modelled (`BeatFails`).

`StageProcess!Fairness`: the parent runs, and time passes. The child and the
writer thread are not fair: `Returns` holds although a child never ends, and the
model lets it survive SIGKILL for a bounded while.

The other modules have no liveness property: a request there waits for nobody but the write lock,
which SQLite gives up after ten seconds.

## 5. Proofs

Proved by TLAPS for every value of the constants that satisfies the `ASSUME`s of
the modules (positive attempt and lease lengths, null values outside of the sets
they stand beside, finitely many session tokens and a refresh period longer than the
lag, artifacts that include the ids; for the history, approvers
among the reviewers, legacy records within the versions, legacy events that
validate nothing, files of executions named apart from those of records; a server process for
the metrics). One theorem has a hypothesis of its own, `LegacyTrailsTell` for `StatusTheorem`:
that the trail of each legacy record explains its status. The schema of the files lets a record
have no events at all, and what is imported with them can then not be told from the trail.

Sums, maxima and folds are recursive or chosen functions. The induction theorems of
the library take an operator as a parameter, which no installed prover can instantiate, so induction is
done by least counterexample (`LeastExists`, from the well-foundedness of the naturals), where a
statement about one fixed function is enough.

**Queue** (`VideoJobsProofs`). An attempt budget is not inductive by itself: that a
queued job can be served needs that its attempts are fewer than the limit, which
needs that an expired lease of the last attempt is not requeued, which needs that
a running row has an owner. `RowInv` joins these for a row. The argument is row by
row: each operator on rows is shown to be a `RowStep`, one of the changes a
row may undergo, and `QueueStep` lifts that to `Next`. From `QueueInvariant`
follow `TypeCorrect`, `LeaseTheorem`, `BudgetTheorem` and `OutcomeTheorem`; from
`RowStep` the action properties `FinalityTheorem`, `CancellationTheorem`,
`LiveLeaseTheorem`, and `RefinementTheorem`: the queue implements
`VideoJobLifecycle`. `RetriesTheorem` is the half of `EveryJobEnds` that needs no fairness:
`ChangesLeft` falls with every change of a job's status or owner (`Spends`, a part of `RowStep`), and
starts at `2 * MaxAttempts + 2`, so that no order of failures, retries, recoveries and late calls keeps a job
going for ever. What is left to fairness is that somebody goes on to serve it.

**Handlers** (`VideoApiProofs`). `ApiImplementsQueue` shows that every step of the
racing handlers is a step of the queue, so that all of the above carries over.
`ApiInv` adds the type of the calls, one job per key, that answers name the job of
their key, and where each staged file belongs; from it come `StagingTheorem` and
`IntakeTheorem`, the refinement of `VideoIntake`. The crux is that the
transaction of `CreateJob` looks the key up again.

**Workers** (`VideoWorkerProofs`). `WorkersImplementQueue` again. `WorkersInv` is
the queue's invariant with `ProcOK` (what a program counter implies), `LeaseInv`
(a worker at work holds the lease of its job, unless something was suspended past
a lease) and `CancelInv` (a worker that is closing a job as cancelled has seen the
request, which is never withdrawn). It yields `WorkNeedsLeaseTheorem`,
`CancelledOnRequestTheorem` and `WorkersTypeTheorem`, for any number of workers,
jobs and kills. `WorkersWearJobsOut` is what the table's theorems say of them: the lifecycle is
followed, and retries run out.

**Files** (`VideoFilesProofs`). Three invariants, each on top of the one before.
`IdInv`: which video id a worker has in hand at each label, and how its attempt and id stand to those of the row: a
worker that cleans up does so for a job that is over without a result, or under an id that no
later attempt draws. `DiskInv`: unless a worker was suspended past its lease, the frames and ownership of each
worker and of each published result are there, and so is the upload that a queued or running job
will need. `RemovalInv`: without kills and suspensions, an upload
without a result is gone or somebody is about to remove it. From these `PublishedTheorem`,
`OutcomeIsEarnedTheorem` and `UploadIsKeptTheorem`. The crux is that of two workers with one job only one
holds its lease (`LeaseInv`), so that the other removes under another id or not at all.

**Stage process** (`StageProcessProofs`). `StageInv` goes by the program counter of the parent:
`OutcomeInv` (what has been decided at each label), `WholeInv` (a child answers only what it has
read to the end), `GoneInv` (a child that is there after the second round of stopping has survived
SIGKILL, and the outcome is an error), `PromptInv` (how old an interruption may be that nobody acted on) and
`TimeInv` (how late it may be at each label, in multiples of the grace period). `StepsTheorem` is the half of
`Returns` that needs no fairness: the parent takes at most `5 * Deadline + 15` steps. A round of its loop costs
five of them (`StepsLeft`) and, as `CheckDeadline` sleeps until the next poll or the deadline, at least one tick
of the time that is left; the second round of stopping the child is the last.

**Frames** (`ContentProofs`). The inductive invariant `KeyframesInv` is short: what is read are candidates, and
what is chosen is the `Selection` of them until the last frame is written. The work is in three lemmas about
functions. `SpreadIs`: rounding is never more than a half off (`RoundedIsNear`), so that the gaps between
neighbouring marks are one of two numbers, at least one, and sorting the marks gives them back (`SortedOnce`).
`SelectionIsCompleteLemma`: each step of the two folds keeps `Chooses` (few enough, no two alike), and leaves
every bucket with a choice of its own or with nothing but frames that look like chosen ones. `SegmentsAre`: a list of
groups is given by its cuts (`Parts`); joining and starting a group move or add the last cut (`LongerLast`,
`OneMore`), halving adds one in the middle of a group, which is possible while there are fewer groups
than frames (`LargestIsLong`). A fold is followed from one value to the next (`FoldExists`, `BucketSteps`, `FillSteps`,
`JoinedSteps`, `GroupedSteps`), which takes no induction theorem but that of the least number.
`Fewest >= 2`, which the code has as 12, is needed: with one candidate of many the last frame would not be tried.

**History** (`InstructionHistoryProofs`). Every step that writes a version is of
one of five kinds (`StepKinds`): an import, or one row together with one event
(saved, decided, validated, executed). `HistoryInv` is the type of the two tables
with `TrailFitsContent` and `ValidationsAreWitnessed`; it is proved for the kinds.
The import is the hard case: `INSERT OR IGNORE` may leave a newer payload under
the events of the file, and the digests are still those of the stored payload.
`TrailFitsTheorem` says that the verification which the readiness probe, backup
and restore run never takes a legitimate change for tampering; `ReviewTheorem`
that the history implements `InstructionReview`, whatever processes and imports do
at the same time. `StatusInv` is about the last event of a version that names a status: the
greatest such index, which a step either leaves alone or replaces by the event it appends.
`ImportsInv` is that the legacy events of a version are an interval of the trail, written
by one import: they are as many as the file has, in its order, so that an import that fails leaves
none and one that runs twice adds none.

**Accounts** (`PlatformProofs`). `AuthInv` joins the types (with `Attributed` and
`Presented`: what a request knows at each of its steps), `IdleTellsUse` row by row
(`Sound`), and `SessionCap`. That the limit holds is a matter of counting: no step
but `Insert` makes a row count (`OtherSteps`), and `Insert` keeps at most
`MaxSessions - 1` of the rows that do (`InsertStep`), because every session that is
usable now was active at the earlier instant whose clock it goes by.

**Rate limit** (`PlatformProofs`). An event carries the time its request has read before it waited
for the lock, and the cleanup goes by clocks that were read as early. `LimitInv` says that an event is written at most `MaxLag`
after its time and stays in the table for as long as some window may look at it.
`AdmittedTheorem` counts: of the events in a window all but the last were there when that one was
admitted, and were fewer than the limit. `RetryAfterTheorem`: after the time that an answer names, the events that
refused it have left the window, whatever is rounded.

**Administration** (`PlatformProofs`). `KeepsAdminTheorem`: who takes the rights of an administrator away is another
one, is asked for its rights in the same transaction, and stays. `TrailInv` relates, for each organization,
what its events alone tell of every account and membership to the tables (`TrailHolds`: invitations come before what
they lead to, end once, and whoever acts is authorized by the events before); each
action appends the event that accounts for its change.

**Database** (`PlatformProofs`). `FileInv`: every content has its migrations in order. `ProcInv`: a process that
migrates has found, or run, every migration before its next one, in a whole file; what one that serves remembers is
in the file, or the file is damaged, or a restore has saved over its own source. This holds across a replacement because such
a process is cut off and because the new file has the whole schema (`Full`), its source having been
verified. `ToolInv`: while a command copies, what it reads is whole; from the safety backup on, the path it was
saved to has what will be replaced. `PastInv`: as long as the file that was put in place is, or may still be, spoilt, the
last restore was exposed and its safety backup is untouched: no command can begin with a damaged file, and so none
can write over that backup. `MigrationsTheorem` and `RestoreTheorem` are read off these.

**Metrics** (`PlatformProofs`). `RowsInv`: each counter that the retention still keeps is the number of answers that
were stored for its kind and its bucket of time. The report adds counters with a fold, and
`ReportTheorem` needs that the fold is the sum (`IsSum`, `SumIsUnique`, `CountsSumUp`), and the arithmetic of the starts of
buckets.

**Documents** (`ContentProofs`). A file goes away only through an undo. `UploadInv` adds to
`UploadedIsStored` what an upload knows before it is done: whoever is about to register has its
file, or can name the upload that found none and has failed since. `PlanInv` is what
a reconciliation knows: of the files it has inspected each has a row, is in the plan, or is an issue, and
nothing in the plan has a row. No row is written while it holds the write lock, so that this
still holds at its commit, whatever happens to the files.

**Egress** (`ContentProofs`). The inductive invariant follows a request: after `Pin` its addresses are
public and its host allowed, whatever the names resolve to by then, and headers meant for
an origin are dropped by a redirect to another. `ConnectTheorem` is that for any number
of redirects and any changes of names; `DownloadTheorem` that a refused download leaves no file.

**Sweep** (`ContentProofs`). An active job has its upload (`WorkInv`). While the command looks for old files, the upload of a
job that was not active when it began, and is now, is younger than the cutoff, since storing takes less time than
files are kept; one that was found to be old is of work that is over (`FilesPart`). `RowsPart` is the same
for the rows of ownership. `SweepTheorem` holds for any number of videos.

**Drafting** and **Retrieval** (`ContentProofs`). `SignalsTheorem` needs no more than the types.
`SearchTheorem` rests on `CacheInv`: a stamp is never used again, so that a file which has in the
directory the stamp it has in a signature was there ever since, and was loaded for it; `FullMerge` is
that the merge leaves no place empty while a source is left.

**Audit chain** (`ContentProofs`). A hash is the tuple that it is made of, so that equal hashes have equal contents. `ChainInv`: every
hash in the table is one that the application has made (`Genuine`), whatever was lost, moved or
swapped. As a hash tells version, sequence and the hash before it, `VerifiedTheorem` follows: what verifies is what was
written, up to a missing end.

**Quality** (`ContentProofs`). That a score is capped, and that a better text scores no less, is arithmetic over
rounded quotients: `RoundedMonotone`, then criterion by criterion, then `OverallMonotone` under floors
and ceilings. `AddedOnce` bounds what the first of the improver's passes adds.

**Products** (`PlatformProofs`, `ContentProofs`). `PlatformImplementsComponents` and
`ContentImplementsComponents`: in the products that the runs explore every component follows its own
specification. Those of `Content` have variables of their own. Limits and metrics share the clock, and
a clock must not run away from a transaction that has read it: the one that does not run has none
(`Resting`), so that a tick of the other is one of its own. With that the component theorems hold of the
products: `PlatformTypeTheorem`, `PlatformSafety`, `ContentTypeTheorem` and `ContentSafety` say for every
value of the constants what `platform` and `content` check on an instance.

Every invariant and action property of the runs that pass is a theorem. `RetriesRunOut` and `StepsRunOut`
are proved and belong to no run.

Only model-checked: `EveryJobEnds`, `EveryCancellationEnds` and `Returns`, since liveness under fairness is
out of the prover's reach. The theorems on `ChangesLeft` and `StepsLeft` bound what happens
before; that it happens at all stays with TLC.

## 6. Where the code and its documentation differ

- `worker_leak`: a job that is cancelled while it downloads, or while it waits for
  a retry of a URL job, leaves its (partial) file behind; `docs/video.md:79-81` says
  that partial artifacts are removed. The retention sweep removes them later.
- `worker_zombie`: a worker that was suspended past its lease just before
  `complete_video_job` removes, when it comes back, the keyframes and the ownership
  row of a result that another worker has published for the same upload.
  `PublishedIsKeptByPromptWorkers` shows that a suspension is needed for it.
- `history_resave`: a loaded approved version that is saved again is approved
  again, without a decision, with the permission to create instructions;
  `docs/authorization.md:44` reserves the final approval.
- `accounts_lockout`: a login that has read the account before a lockout began writes
  its own counter after it, and with it ends the lockout. The comment at
  `auth_store.py:136` says that an attempt during a lockout must change nothing; the
  row it is judged by is older than the password check. A condition on
  `locked_until` in the two `UPDATE`s, or reading the row again in their transaction,
  would restore it.
- `sweep_frames`: a job makes the directory of its frames before it has any, and the sweep, which
  protects the uploads of active jobs only, finds it empty and removes it. Every write of a
  frame then fails without an error, and the job succeeds with no frames;
  `docs/artifact_lifecycle.md:79` says that artifacts of active jobs are preserved.

Observed without a run: a session may become idle while a request with it waits for
the lock, and a login may then fill its place before the refresh gives it back its
life: `docs/deployment.md:85` promises a limit of concurrent sessions, which
`SessionCap` states without such sessions (`late`). The import gives every event of a legacy trail the digest
of the payload as it was at the end, although `_append_audit_event` means each
digest to be that of its own moment; and when a legacy record arrives for a version
that was saved anew, its events follow those of the new version and tell another
status (`Collided`, which `TrailTellsStatus` excepts). One legacy file that an
instruction of another project owns fails every call that opens the storage, until
it is taken away (`ImportFails`).

More of the kind, by component:

- *Stage process.* The group of a child that exits on SIGTERM is not waited for: other processes of it
  may go on (`stage_process.py:165`; `docs/architecture.md:77-78` says the process group is
  terminated before the job changes).
- *Accounts.* A session is inserted for a user who was deactivated after the password check of the same
  login (`auth_store.py:223`). It is of no use while the user is inactive, and counts again
  when the user is activated.
- *Rate limits.* The scope of a request is told by its path only: polls of a job fill the bucket
  that is meant for uploads, and requests under a narrow limit do not count for the wide one,
  although `settings.py:90` calls that a ceiling over the whole API. After polls have overfilled
  a narrow bucket, one `Retry-After` may not be enough.
- *Database.* `docs/deployment.md:196` says to stop the application before a restore, and its command stops the
  API only: the worker, which polls the same file once a second (`docker-compose.yml:76`), goes on. `restore_database`
  does not look. What is committed after the safety backup was copied is in neither file. A
  connection that is open, or opened, between the replacement and the removal of the log, and every one after a restore
  that was killed between `database.py:242` and the next line, reads the new file with the log of
  the old one and can spoil it for good. `RestoreCanBeUndone` says what is left then: the safety backup. The file
  that was spoilt cannot be restored over, since its own safety backup does not verify; it has to be
  moved away by hand. The path of the safety backup may be that of the source, which is then written over: the
  restore puts back what was there, without a look at its schema version (`onItself`; `MigrationsRunOnceInOrder` excepts it). An old build
  goes on when a newer one migrates the file under it.
- *Verification* does not notice that the end of a trail is missing, as long as the last digest that
  is left fits the text.
- *Documents.* With several processes, the undo of one upload can remove the file that another has found and
  registered (`UploadedIsStored` names the case). A file whose metadata name another owner than its row
  blocks every reconciliation until it is corrected. An upload of a file over 1,000,000 bytes
  is answered as "added to the retrieval base" (`api/documents.py:111`), while the index skips it
  (`local_index.py:185`).
- *Generation.* A reply of the model with a fact of more than 500 characters fails validation outside of the
  `try` that would fall back (`pipeline.py:109-121`), and is answered with 500; so is
  an invalid port in the model's URL.
- *Drafting.* When a draft is evaluated again, findings that came from retrieved sources vanish from its risk
  while the blockers stay. A validated version that is loaded, rebuilt and saved keeps a score above 95
  with its validations stripped.
- *Improver.* Pressing the button often enough dilutes a list of fillers beyond the share at which it counts
  as such.
- *Model endpoints.* The perimeter check resolves the name of the endpoint, and the client resolves it again.
- *Frames of steps.* `link_steps_to_frames` reports that no direct link was found when the best combined
  frame has one word in common, although another has two.

## 7. Limits of the models

- A function of a store is one atomic action: SQLite serialises the transactions,
  and a transaction that fails or is rolled back has no effect.
- Jobs are claimed in the order of their ids, which stands for
  `ORDER BY created_at, job_id`; the time of creation is read before the insert
  commits, so a job may appear "behind" one that was committed before it.
- A graceful stop (SIGTERM) of the worker is an idle worker that polls no more; in
  the middle of a job Compose kills it after its grace period, which is a kill.
  An exception in an exception handler ends the worker process, which is a kill too.
- A worker that restarts uses its id again; the code draws a new one. A stale
  owner is then told apart by its program counter only, which makes the model
  more hostile, not less.
- The content of videos, keyframes and results is left out of `VideoWorker`; the retention
  sweep is in `Sweep`, with the worker's effects on one video.
- `InstructionHistory` has one organization and project: another project's
  request finds no version (404). Instruction ids are not computed: the digest of
  a title and steps is an arbitrary member of a set. What may be saved is a
  generated draft or a payload that was loaded. Files that cannot be parsed are
  never imported, hence not there; legacy events validate no claims, as that event
  is younger than the files. A decision without change of status is allowed, as in
  the code.
- `AuthStore` has no registration, which is in `AdminStore`: a new user is one more of `Users`. The clocks of
  the processes agree, as they run on one host. The CSRF token is a second secret of
  a session with no life of its own. Rows that are removed after their retention
  have ended before (`Gone`).
- Permissions enter the history as the roles that may review and those that may
  approve.
- `RateLimit` has one endpoint for each kind of limit, with one that shares a bucket with
  another; `RequestMetrics` has durations that are short or long. How the address of a client is found behind proxies is left out.
- `AdminStore` leaves out the lists, which change nothing, and the times of the
  events.
- `Database` treats the text of a migration as its number, and a backup as whole or damaged. One command runs at a
  time, on a database file that exists. A backup of another database comes in only before the first of this one,
  so that nobody writes over a safety backup by hand. What SQLite does with a log of another file is
  taken at its worst, as damage, and a command that reads it fails to verify. A connection of a
  request that is open across the replacement commits to the old log at once or not at all.
- `Documents` has one project; a document is its name and content. `Retrieval` has its
  steps of an upload as two, and reads no text: chunks and ranking are left out.
- `Sweep` has one video in its runs: the command treats them one by one, and another one only makes it take
  longer, which the clock does too. An error of the command is its end
  (`SweepStops`).
- `VideoEgress` takes which addresses are public as a constant; the syntax of URLs is left out.
- `Quality` and `Drafting` see a text as what the checks find in it. That the detectors find
  what they should is a question about words, which no model here asks.

Not modelled: the layout of documents (`rendering`), the page but for what it does with a draft (`browser client`),
the programs that exercise and package the system (`tools, probes and demo data`), and of the partly
modelled components what the table of `PROJECT.json` names: the templates of the fallback and the
texts of profiles, the ranking of sources, the clients of model providers. They are text and data
without state; their errors would show in a comparison of outputs, which tests are better at.

## 8. Plan

Done: the queue and its lifecycle, the handlers, the workers, the stage process, the history, logins and
sessions, administration, limits and metrics, the database, documents and sweep, egress,
frames, drafting, quality, retrieval and the verification of trails; and the proofs of section 5. Next:

1. **Text**: the ranking of sources and the links of steps to frames, as operators over small vocabularies.
