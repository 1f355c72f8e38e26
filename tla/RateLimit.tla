------------------------------- MODULE RateLimit -------------------------------
(***************************************************************************)
(* What an HTTP request passes before its handler: the middleware of       *)
(* app/main.py with the rate limiter, app/core/rate_limit.py, whose rows   *)
(* are shared by all processes (app/storage/rate_limit_store.py).          *)
(*                                                                         *)
(* A request reads the clock, then waits for the write lock: its row may   *)
(* be written up to MaxLag ticks after the time it carries, when rows of   *)
(* later clocks have been written and a later clock has cleaned the table. *)
(***************************************************************************)
EXTENDS WallClock, FiniteSets, FiniteSetsExt

CONSTANTS
  Clients,         \* users, or addresses of clients without a session
  AuthLimit,       \* settings.auth_rate_limit_requests
  AuthSeconds,     \* settings.auth_rate_limit_window_seconds
  NarrowLimit,     \* settings.rate_limit_requests
  NarrowSeconds,   \* settings.rate_limit_window_seconds
  ApiLimit,        \* settings.api_rate_limit_requests
  ApiSeconds,      \* settings.api_rate_limit_window_seconds
  TicksPerSecond,
  NoClient

ASSUME RateLimitAssumption ==
  /\ AuthLimit \in Nat \ {0} /\ NarrowLimit \in Nat \ {0} /\ ApiLimit \in Nat \ {0}
  /\ AuthSeconds \in Nat \ {0} /\ NarrowSeconds \in Nat \ {0} /\ ApiSeconds \in Nat \ {0}
  /\ TicksPerSecond \in Nat \ {0}
ASSUME RequestsAssumption == IsFiniteSet(Requests) /\ NoClient \notin Clients

VARIABLES
  req,      \* what each request is doing
  events    \* rate_limit_events: the requests whose row is in the table

limitVars == <<now, req, events>>

-----------------------------------------------------------------------------
(* Which limit a request counts against.                                   *)

\* The limit applies to the API: a login, an upload, a poll of an upload's job, and
\* any other call.  Pages and files pass without one.
Endpoints == {"login", "submit", "poll", "list"}

\* _bucket_scope looks at the path only: reads under a narrow prefix share its bucket.
Scope == [login |-> "/api/auth/login", submit |-> "/api/videos/", poll |-> "/api/videos/",
          list |-> "/api/"]

\* The limit itself also depends on the method.
Limit == [login |-> AuthLimit, submit |-> NarrowLimit, poll |-> ApiLimit, list |-> ApiLimit]

Window == [e \in Endpoints |-> TicksPerSecond *
  (CASE e = "login" -> AuthSeconds [] e = "submit" -> NarrowSeconds [] OTHER -> ApiSeconds)]

\* cleanup_window_seconds
CleanupTicks == Max({Window["login"], Window["submit"], Window["list"]})

Attempts == 3   \* _LOCK_RETRY_ATTEMPTS

\* The answers of the middleware: 401 or 403, 429 and 503.
Answers == {"denied", "rate_limited", "rate_limit_unavailable"}
Steps == {"new", "limiting", "handling", "lost"} \cup Answers

\* clock is the time the request has read, and its row carries; through is the time at
\* which its handler was reached; retry the seconds a refused request is told to wait.
Request == [pc : Steps, client : Clients \cup {NoClient}, endpoint : Endpoints,
            clock : 0 .. MaxTime, tries : 0 .. Attempts, through : 0 .. MaxTime, retry : Nat]

NotMade == [pc |-> "new", client |-> NoClient, endpoint |-> "list",
            clock |-> 0, tries |-> 0, through |-> 0, retry |-> 0]

Bucket(r) == <<req[r].client, Scope[req[r].endpoint]>>

Becomes(r, q) == req' = [req EXCEPT ![r] = q]

\* Nothing of a refused request is looked at again.
Answer(r, answer, retry) == Becomes(r, [NotMade EXCEPT !.pc = answer, !.retry = retry])

-----------------------------------------------------------------------------
(* add_security_headers up to the handler.                                 *)

\* Authentication, which a login and a page do not need, then the CSRF check of
\* changes made with a cookie.
Deny(r) ==
  /\ req[r].pc = "new"
  /\ Answer(r, "denied", 0)
  /\ UNCHANGED <<now, events>>

\* check_rate_limit
Arrive(r, c, e) ==
  /\ req[r].pc = "new"
  /\ Becomes(r, [NotMade EXCEPT !.pc = "limiting", !.client = c, !.endpoint = e,
                                !.tries = 1, !.clock = now])
  /\ UNCHANGED <<now, events>>

\* The rows of a bucket that are younger than the cutoff.
Recent(bucket, cutoff) == {q \in events : Bucket(q) = bucket /\ req[q].clock > cutoff}

\* Fault: the part of a second is cut off.
SecondsBefore(ticks) == Max({1, ticks \div TicksPerSecond})

\* max(1, int(oldest + window - current + 0.999))
SecondsUntil(ticks) == Max({1, (ticks + TicksPerSecond - 1) \div TicksPerSecond})

\* Fault: the cleanup uses the window of uploads, although others are longer.
KeptShort(clock) == {q \in events : req[q].clock > clock - Window["submit"]}

Kept(clock) == {q \in events : req[q].clock > clock - CleanupTicks}

\* _consume_bucket: one transaction.
Consume(r) ==
  LET q      == req[r]
      window == Window[q.endpoint]
      recent == Recent(Bucket(r), q.clock - window)
  IN  /\ q.pc = "limiting"
      /\ IF Cardinality(recent) >= Limit[q.endpoint]
         THEN /\ Answer(r, "rate_limited",
                        SecondsUntil(Min({req[s].clock : s \in recent}) + window - q.clock))
              /\ events' = Kept(q.clock)
         ELSE /\ Becomes(r, [q EXCEPT !.pc = "handling", !.tries = 0, !.through = now])
              /\ events' = Kept(q.clock) \cup {r}
      /\ UNCHANGED now

\* The store fails, or stays locked for all attempts: 503, Retry-After: 1.
FailClosed(r) ==
  /\ req[r].pc = "limiting"
  /\ Answer(r, "rate_limit_unavailable", 1)
  /\ UNCHANGED <<now, events>>

\* Fault: the attempts are not counted against their limit.
ContendForever(r) ==
  /\ req[r].pc = "limiting"
  /\ Becomes(r, [req[r] EXCEPT !.tries = @ + 1, !.clock = now])
  /\ UNCHANGED <<now, events>>

\* _consume_bucket_with_retry: the database was locked; the next attempt reads the
\* clock again.
Contend(r) ==
  /\ req[r].pc = "limiting"
  /\ req[r].tries < Attempts
  /\ Becomes(r, [req[r] EXCEPT !.tries = @ + 1, !.clock = now])
  /\ UNCHANGED <<now, events>>

\* A process is killed, with the requests it was working on.
Kill(killed) ==
  /\ \A r \in killed : req[r].pc = "limiting"
  /\ req' = [r \in Requests |-> IF r \in killed THEN [NotMade EXCEPT !.pc = "lost"] ELSE req[r]]
  /\ UNCHANGED <<now, events>>

LimitTick ==
  /\ \A r \in Requests : req[r].pc = "limiting" => InTime(req[r].clock)
  /\ Advances
  /\ UNCHANGED <<req, events>>

LimitInit ==
  /\ now = 0
  /\ req = [r \in Requests |-> NotMade]
  /\ events = {}

LimitNext ==
  \/ \E r \in Requests :
       \/ Deny(r)
       \/ \E c \in Clients, e \in Endpoints : Arrive(r, c, e)
       \/ Consume(r) \/ FailClosed(r) \/ Contend(r)
  \/ \E killed \in SUBSET Requests \ {{}} : Kill(killed)
  \/ LimitTick

LimitSpec == LimitInit /\ [][LimitNext]_limitVars

-----------------------------------------------------------------------------
(* Properties.                                                             *)

LimitTypeOK ==
  /\ now \in 0 .. MaxTime
  /\ req \in [Requests -> Request]
  /\ events \subseteq Requests

\* The requests for one endpoint that reached its handler in the length ticks up to t.
Reached(c, e, t, length) ==
  {r \in Requests : /\ req[r].pc = "handling" /\ req[r].client = c /\ req[r].endpoint = e
                    /\ t - length < req[r].through /\ req[r].through <= t}

\* However many processes count at once, and although rows are written after the time
\* they carry, out of order, and a later clock has cleaned the table: in any time as
\* long as the window, less the lag, no more requests of a client reach a handler than
\* its limit says, and a store that fails lets none through.
AdmittedWithinLimit ==
  \A c \in Clients, e \in Endpoints, t \in 0 .. now :
    Cardinality(Reached(c, e, t, Window[e] - MaxLag)) <= Limit[e]

\* At the limit, a client that waits for as long as it is told, and alone uses its
\* bucket, is admitted, whatever part of a second is left of the window.  (When reads
\* have filled the bucket of a narrow limit beyond it, one wait may not be enough.)
RetryAfterSuffices ==
  [][\A r \in Requests :
       LET window == Window[req[r].endpoint]
           later  == req[r].clock + TicksPerSecond * req'[r].retry
           recent == Recent(Bucket(r), req[r].clock - window)
       IN  /\ req[r].pc = "limiting" /\ req'[r].pc = "rate_limited"
           /\ Cardinality(recent) = Limit[req[r].endpoint]
           => \E q \in recent : req[q].clock <= later - window
    ]_limitVars
=============================================================================
