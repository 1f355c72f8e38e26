---------------------------- MODULE PlatformProofs ----------------------------
(***************************************************************************)
(* What TLAPS proves of the parts that every request shares: accounts and  *)
(* sessions, the rate limiter, administration, the database file with its  *)
(* migrations and tools, and the metrics of requests; and of all of them   *)
(* side by side.                                                           *)
(***************************************************************************)
EXTENDS Platform, TLAPS, FiniteSetTheorems, WellFoundedInduction

-----------------------------------------------------------------------------
(* Least and greatest numbers.                                             *)

\* A set of natural numbers has a least one.
LEMMA LeastExists ==
  ASSUME NEW T, T \subseteq Nat, T # {}
  PROVE  \E x \in T : \A y \in T : x <= y
<1> DEFINE R == OpToRel(<, Nat)
<1>1. \A x, y \in Nat : <<y, x>> \in R <=> y < x
  BY DEF OpToRel
<1>2. IsWellFoundedOn(R, Nat)
  BY NatLessThanWellFounded
<1> HIDE DEF R
<1>3. PICK x \in T : \A y \in T : ~ (<<y, x>> \in R)
  BY <1>2, WFMin, Zenon
<1>4. \A y \in T : ~ (y < x)
  BY <1>1, <1>3, Zenon
<1> QED BY <1>4

LEMMA MaxIsGreatest ==
  ASSUME NEW n \in Nat, NEW S, S \subseteq 0 .. n, S # {}
  PROVE  Max(S) \in S /\ \A y \in S : Max(S) >= y
<1>1. PICK x \in {n - y : y \in S} : \A y \in {n - y : y \in S} : x <= y
  <2>1. {n - y : y \in S} \subseteq Nat /\ {n - y : y \in S} # {}
    <3>1. \A y \in S : n - y \in Nat
      OBVIOUS
    <3> QED BY <3>1
  <2> QED BY <2>1, LeastExists
<1>2. PICK z \in S : x = n - z
  BY <1>1
<1>3. \A y \in S : z >= y
  BY <1>1, <1>2
<1> QED BY <1>2, <1>3 DEF Max

LEMMA MinIsLeast ==
  ASSUME NEW S, S \subseteq Nat, S # {}
  PROVE  Min(S) \in S /\ \A y \in S : Min(S) <= y
<1>1. PICK x \in S : \A y \in S : x <= y
  BY LeastExists
<1> QED BY <1>1 DEF Min

LEMMA MaxOfTwo ==
  ASSUME NEW x \in Int, NEW y \in Int
  PROVE  Max({x, y}) \in {x, y} /\ Max({x, y}) >= x /\ Max({x, y}) >= y
<1>1. \E z \in {x, y} : \A w \in {x, y} : z >= w
  OBVIOUS
<1> QED BY <1>1 DEF Max

LEMMA MaxOfThree ==
  ASSUME NEW x \in Int, NEW y \in Int, NEW z \in Int
  PROVE  /\ Max({x, y, z}) \in {x, y, z}
         /\ Max({x, y, z}) >= x /\ Max({x, y, z}) >= y /\ Max({x, y, z}) >= z
<1>1. \E m \in {x, y, z} : \A w \in {x, y, z} : m >= w
  OBVIOUS
<1> QED BY <1>1 DEF Max

-----------------------------------------------------------------------------
(* The limiter.                                                            *)

Limiting(r) == req[r].pc = "limiting"
Handling(r) == req[r].pc = "handling"

\* A row is written at most MaxLag after the time it carries, and stays in the table for as
\* long as some window may look at it.
RowInv(r) ==
  /\ Limiting(r) => req[r].clock <= now /\ now <= req[r].clock + MaxLag
  /\ Handling(r) => /\ req[r].clock <= req[r].through
                    /\ req[r].through <= req[r].clock + MaxLag
                    /\ req[r].through <= now
                    /\ req[r].clock > now - CleanupTicks => r \in events

LimitInv == LimitTypeOK /\ (\A r \in Requests : RowInv(r)) /\ AdmittedWithinLimit

LEMMA Windows ==
  /\ \A e \in Endpoints : Window[e] \in Nat /\ Window[e] <= CleanupTicks /\ Limit[e] \in Nat \ {0}
  /\ CleanupTicks \in Nat
  /\ MaxLag \in Nat /\ MaxTime \in Nat /\ TicksPerSecond \in Nat \ {0}
<1>1. /\ MaxLag \in Nat /\ MaxTime \in Nat /\ TicksPerSecond \in Nat \ {0}
      /\ AuthSeconds \in Nat /\ NarrowSeconds \in Nat /\ ApiSeconds \in Nat
      /\ AuthLimit \in Nat \ {0} /\ NarrowLimit \in Nat \ {0} /\ ApiLimit \in Nat \ {0}
  BY ClockAssumption, RateLimitAssumption DEF ClockAssumption, RateLimitAssumption
<1>2. \A x, y \in Nat : x * y \in Nat
  OBVIOUS
<1>3. /\ Window["login"] = TicksPerSecond * AuthSeconds
      /\ Window["submit"] = TicksPerSecond * NarrowSeconds
      /\ Window["poll"] = TicksPerSecond * ApiSeconds
      /\ Window["list"] = TicksPerSecond * ApiSeconds
  BY DEF Window, Endpoints
<1>4. /\ Window["login"] \in Nat /\ Window["submit"] \in Nat /\ Window["list"] \in Nat
      /\ Window["poll"] = Window["list"]
  BY <1>1, <1>2, <1>3
<1>5. /\ CleanupTicks \in {Window["login"], Window["submit"], Window["list"]}
      /\ CleanupTicks >= Window["login"] /\ CleanupTicks >= Window["submit"]
      /\ CleanupTicks >= Window["list"]
  <2>1. PICK a \in Int, b \in Int, c \in Int :
          a = Window["login"] /\ b = Window["submit"] /\ c = Window["list"]
    BY <1>4
  <2>2. CleanupTicks = Max({a, b, c})
    BY <2>1 DEF CleanupTicks
  <2>3. PICK m : m = CleanupTicks
    OBVIOUS
  <2>4. m \in {a, b, c} /\ m >= a /\ m >= b /\ m >= c
    BY <2>2, <2>3, MaxOfThree
  <2> QED BY <2>1, <2>3, <2>4
<1>6. CleanupTicks \in Nat
  BY <1>4, <1>5
<1>7. \A e \in Endpoints : e \in {"login", "submit", "poll", "list"}
  BY DEF Endpoints
<1>8. \A e \in Endpoints : Window[e] \in Nat /\ Window[e] <= CleanupTicks
  BY <1>4, <1>5, <1>6, <1>7
<1>9. \A e \in Endpoints : Limit[e] \in Nat \ {0}
  BY <1>1, <1>7 DEF Limit
<1> QED BY <1>1, <1>6, <1>8, <1>9

LEMMA FiniteRequests ==
  ASSUME NEW S, S \subseteq Requests
  PROVE  IsFiniteSet(S) /\ Cardinality(S) \in Nat
<1>1. IsFiniteSet(S)
  BY RequestsAssumption, FS_Subset DEF RequestsAssumption
<1> QED BY <1>1, FS_CardinalityType

LEMMA SmallerCount ==
  ASSUME NEW S, NEW T, T \subseteq Requests, S \subseteq T
  PROVE  Cardinality(S) <= Cardinality(T)
BY FiniteRequests, FS_Subset

LEMMA OneMore ==
  ASSUME NEW S, S \subseteq Requests, NEW r \in Requests
  PROVE  Cardinality(S \cup {r}) <= Cardinality(S) + 1
<1>1. IsFiniteSet(S) /\ Cardinality(S) \in Nat
  BY FiniteRequests
<1> QED BY <1>1, FS_AddElement, SMTT(30)


\* The seconds that a refused request is told to wait are enough for its ticks.
LEMMA Seconds ==
  ASSUME NEW x \in Int
  PROVE  SecondsUntil(x) \in Nat /\ TicksPerSecond * SecondsUntil(x) >= x
<1>1. PICK T \in Nat \ {0} : T = TicksPerSecond
  BY Windows
<1>2. PICK y \in Int : y = (x + T - 1) \div T
  BY <1>1
<1>3. T * y >= x
  <2>1. PICK w \in Int : w = x + T - 1
    BY <1>1
  <2>2. w = T * (w \div T) + (w % T) /\ w % T \in 0 .. T - 1
    BY <1>1, <2>1
  <2> QED BY <1>1, <1>2, <2>1, <2>2
<1>4. PICK m : m = SecondsUntil(x)
  OBVIOUS
<1>5. m = Max({1, y})
  BY <1>1, <1>2, <1>4 DEF SecondsUntil
<1>6. m \in {1, y} /\ m >= 1 /\ m >= y
  BY <1>5, MaxOfTwo
<1>7. m \in Nat
  BY <1>6
<1>8. T * m >= T * y
  BY <1>1, <1>6, <1>7
<1>9. T * m \in Int /\ T * y \in Int
  BY <1>1, <1>7
<1> QED BY <1>1, <1>3, <1>4, <1>7, <1>8, <1>9

\* The rows of NotMade with other columns.
LEMMA RefusedRow ==
  ASSUME NEW pc, NEW retry, NEW q, q = [NotMade EXCEPT !.pc = pc, !.retry = retry]
  PROVE  /\ q = [pc |-> pc, client |-> NoClient, endpoint |-> "list",
                 clock |-> 0, tries |-> 0, through |-> 0, retry |-> retry]
<1>1. PICK m : m = [NotMade EXCEPT !.pc = pc]
  OBVIOUS
<1>2. m = [pc |-> pc, client |-> NoClient, endpoint |-> "list",
           clock |-> 0, tries |-> 0, through |-> 0, retry |-> 0]
  BY <1>1 DEF NotMade
<1>3. q = [m EXCEPT !.retry = retry]
  BY <1>1, Zenon
<1> QED BY <1>2, <1>3

LEMMA ArrivedRow ==
  ASSUME NEW c, NEW e, NEW clock, NEW q,
         q = [NotMade EXCEPT !.pc = "limiting", !.client = c, !.endpoint = e,
                             !.tries = 1, !.clock = clock]
  PROVE  q = [pc |-> "limiting", client |-> c, endpoint |-> e,
              clock |-> clock, tries |-> 1, through |-> 0, retry |-> 0]
<1>1. PICK m1 : m1 = [NotMade EXCEPT !.pc = "limiting"]
  OBVIOUS
<1>2. PICK m2 : m2 = [m1 EXCEPT !.client = c]
  OBVIOUS
<1>3. PICK m3 : m3 = [m2 EXCEPT !.endpoint = e]
  OBVIOUS
<1>4. PICK m4 : m4 = [m3 EXCEPT !.tries = 1]
  OBVIOUS
<1>5. q = [m4 EXCEPT !.clock = clock]
  BY <1>1, <1>2, <1>3, <1>4, Zenon
<1>6. m1 = [pc |-> "limiting", client |-> NoClient, endpoint |-> "list",
            clock |-> 0, tries |-> 0, through |-> 0, retry |-> 0]
  BY <1>1 DEF NotMade
<1>7. m2 = [pc |-> "limiting", client |-> c, endpoint |-> "list",
            clock |-> 0, tries |-> 0, through |-> 0, retry |-> 0]
  BY <1>2, <1>6
<1>8. m3 = [pc |-> "limiting", client |-> c, endpoint |-> e,
            clock |-> 0, tries |-> 0, through |-> 0, retry |-> 0]
  BY <1>3, <1>7
<1>9. m4 = [pc |-> "limiting", client |-> c, endpoint |-> e,
            clock |-> 0, tries |-> 1, through |-> 0, retry |-> 0]
  BY <1>4, <1>8
<1> QED BY <1>5, <1>9

LEMMA RefusedType ==
  ASSUME NEW pc \in Answers \cup {"lost"}, NEW retry \in Nat
  PROVE  /\ [NotMade EXCEPT !.pc = pc, !.retry = retry] \in Request
         /\ [NotMade EXCEPT !.pc = pc, !.retry = retry].pc = pc
         /\ [NotMade EXCEPT !.pc = pc, !.retry = retry].retry = retry
<1>1. PICK q : q = [NotMade EXCEPT !.pc = pc, !.retry = retry]
  OBVIOUS
<1>2. q = [pc |-> pc, client |-> NoClient, endpoint |-> "list",
           clock |-> 0, tries |-> 0, through |-> 0, retry |-> retry]
  BY <1>1, RefusedRow
<1>3. 0 \in 0 .. MaxTime /\ 0 \in 0 .. Attempts
  BY Windows DEF Attempts
<1>4. q \in Request /\ q.pc = pc /\ q.retry = retry
  BY <1>2, <1>3 DEF Request, Steps, Answers, Endpoints
<1> QED BY <1>1, <1>4

LEMMA LimitInitially ==
  ASSUME LimitInit
  PROVE  LimitInv
<1>1. 0 \in 0 .. MaxTime /\ 0 \in 0 .. Attempts
  BY Windows DEF Attempts
<1>2. NotMade \in Request /\ NotMade.pc = "new"
  BY <1>1 DEF NotMade, Request, Steps, Endpoints
<1>3. LimitTypeOK
  BY <1>1, <1>2 DEF LimitInit, LimitTypeOK
<1>4. \A r \in Requests : req[r].pc = "new"
  BY <1>2 DEF LimitInit
<1>5. \A r \in Requests : RowInv(r)
  BY <1>4 DEF RowInv, Limiting, Handling
<1>6. ASSUME NEW c \in Clients, NEW e \in Endpoints, NEW t \in 0 .. now
      PROVE  Cardinality(Reached(c, e, t, Window[e] - MaxLag)) <= Limit[e]
  <2>1. Reached(c, e, t, Window[e] - MaxLag) = {}
    BY <1>4 DEF Reached
  <2>2. Limit[e] \in Nat
    BY Windows
  <2> QED BY <2>1, <2>2, FS_EmptySet
<1>7. AdmittedWithinLimit
  BY <1>6 DEF AdmittedWithinLimit
<1> QED BY <1>3, <1>5, <1>7 DEF LimitInv

\* A step at which no request reaches its handler, or has reached it, changes no count.
LEMMA CountsStay ==
  ASSUME LimitInv, now' = now,
         \A q \in Requests : \/ req'[q] = req[q]
                            \/ (req[q].pc # "handling" /\ req'[q].pc # "handling")
  PROVE  AdmittedWithinLimit'
<1>1. ASSUME NEW c \in Clients, NEW e \in Endpoints, NEW t \in 0 .. now
      PROVE  Cardinality(Reached(c, e, t, Window[e] - MaxLag)') <= Limit[e]
  <2>1. Reached(c, e, t, Window[e] - MaxLag)' = Reached(c, e, t, Window[e] - MaxLag)
    BY DEF Reached
  <2> QED BY <2>1 DEF LimitInv, AdmittedWithinLimit
<1> QED BY <1>1 DEF AdmittedWithinLimit

\* Only the row of r changes.
LEMMA OneRow ==
  ASSUME LimitTypeOK, NEW r \in Requests, NEW q, Becomes(r, q)
  PROVE  /\ req'[r] = q
         /\ \A s \in Requests \ {r} : req'[s] = req[s]
         /\ q \in Request => req' \in [Requests -> Request]
<1>1. req' = [req EXCEPT ![r] = q] /\ req \in [Requests -> Request]
  BY DEF Becomes, LimitTypeOK
<1> QED BY <1>1

\* A request that is not yet at its handler goes on, or is refused.
LEMMA OutsideStep ==
  ASSUME LimitInv, NEW r \in Requests, NEW q \in Request, Becomes(r, q),
         req[r].pc # "handling", q.pc # "handling",
         q.pc = "limiting" => q.clock = now, UNCHANGED <<now, events>>
  PROVE  LimitInv'
<1>1. LimitTypeOK /\ \A s \in Requests : RowInv(s)
  BY DEF LimitInv
<1>2. /\ req'[r] = q /\ \A s \in Requests \ {r} : req'[s] = req[s]
      /\ req' \in [Requests -> Request]
  BY <1>1, OneRow
<1>3. LimitTypeOK'
  BY <1>1, <1>2 DEF LimitTypeOK
<1>4. now \in Nat /\ MaxLag \in Nat
  BY <1>1, Windows DEF LimitTypeOK
<1>5. RowInv(r)'
  BY <1>2, <1>4 DEF RowInv, Limiting, Handling
<1>6. \A s \in Requests \ {r} : RowInv(s)'
  BY <1>1, <1>2 DEF RowInv, Limiting, Handling
<1>7. (\A s \in Requests : RowInv(s))'
  BY <1>5, <1>6
<1>8. AdmittedWithinLimit'
  BY <1>2, CountsStay
<1> QED BY <1>3, <1>7, <1>8 DEF LimitInv

LEMMA RefuseStep ==
  ASSUME LimitInv, NEW r \in Requests, NEW reply \in Answers, NEW retry \in Nat,
         req[r].pc # "handling", Answer(r, reply, retry), UNCHANGED <<now, events>>
  PROVE  LimitInv'
<1>1. PICK q : q = [NotMade EXCEPT !.pc = reply, !.retry = retry]
  OBVIOUS
<1>2. q \in Request /\ q.pc = reply
  BY <1>1, RefusedType
<1>3. Becomes(r, q)
  BY <1>1 DEF Answer
<1>4. reply # "limiting" /\ reply # "handling"
  BY DEF Answers
<1> QED BY <1>2, <1>3, <1>4, OutsideStep

LEMMA ArriveStep ==
  ASSUME LimitInv, NEW r \in Requests, NEW c \in Clients, NEW e \in Endpoints, Arrive(r, c, e)
  PROVE  LimitInv'
<1>1. PICK q : q = [NotMade EXCEPT !.pc = "limiting", !.client = c, !.endpoint = e,
                                   !.tries = 1, !.clock = now]
  OBVIOUS
<1>2. q = [pc |-> "limiting", client |-> c, endpoint |-> e,
           clock |-> now, tries |-> 1, through |-> 0, retry |-> 0]
  BY <1>1, ArrivedRow
<1>3. 0 \in 0 .. MaxTime /\ 1 \in 0 .. Attempts /\ now \in 0 .. MaxTime
  BY Windows DEF Attempts, LimitInv, LimitTypeOK
<1>4. q \in Request /\ q.pc = "limiting" /\ q.clock = now
  BY <1>2, <1>3 DEF Request, Steps, Answers
<1>5. Becomes(r, q) /\ req[r].pc = "new" /\ UNCHANGED <<now, events>>
  BY <1>1 DEF Arrive
<1> QED BY <1>4, <1>5, OutsideStep

LEMMA ContendStep ==
  ASSUME LimitInv, NEW r \in Requests, Contend(r)
  PROVE  LimitInv'
<1>1. PICK m \in Request : m = req[r]
  BY DEF LimitInv, LimitTypeOK
<1>2. PICK q : q = [m EXCEPT !.tries = @ + 1, !.clock = now]
  OBVIOUS
<1>3. PICK n : n = [m EXCEPT !.tries = @ + 1]
  OBVIOUS
<1>4. q = [n EXCEPT !.clock = now]
  BY <1>2, <1>3, Zenon
<1>5. m.tries < Attempts /\ m.pc = "limiting" /\ Becomes(r, q) /\ UNCHANGED <<now, events>>
  BY <1>1, <1>2 DEF Contend
<1>6. n \in Request /\ n.pc = "limiting"
  BY <1>3, <1>5 DEF Request, Attempts
<1>7. q \in Request /\ q.pc = "limiting" /\ q.clock = now
  BY <1>4, <1>6 DEF Request, LimitInv, LimitTypeOK
<1> QED BY <1>1, <1>5, <1>7, OutsideStep

LEMMA KillStep ==
  ASSUME LimitInv, NEW killed \in SUBSET Requests, Kill(killed)
  PROVE  LimitInv'
<1>1. PICK q : q = [NotMade EXCEPT !.pc = "lost"]
  OBVIOUS
<1>2. q = [pc |-> "lost", client |-> NoClient, endpoint |-> "list",
           clock |-> 0, tries |-> 0, through |-> 0, retry |-> 0]
  BY <1>1 DEF NotMade
<1>3. 0 \in 0 .. MaxTime /\ 0 \in 0 .. Attempts
  BY Windows DEF Attempts
<1>4. q \in Request /\ q.pc = "lost"
  BY <1>2, <1>3 DEF Request, Steps, Answers, Endpoints
<1>5. LimitTypeOK /\ \A s \in Requests : RowInv(s)
  BY DEF LimitInv
<1>6. /\ req' = [s \in Requests |-> IF s \in killed THEN q ELSE req[s]]
      /\ UNCHANGED <<now, events>> /\ \A s \in killed : req[s].pc = "limiting"
  BY <1>1 DEF Kill
<1>7. LimitTypeOK'
  BY <1>4, <1>5, <1>6 DEF LimitTypeOK
<1>8. \A s \in Requests : RowInv(s)'
  BY <1>4, <1>5, <1>6 DEF RowInv, Limiting, Handling
<1>9. AdmittedWithinLimit'
  BY <1>4, <1>6, CountsStay
<1> QED BY <1>7, <1>8, <1>9 DEF LimitInv

LEMMA LimitTickStep ==
  ASSUME LimitInv, LimitTick
  PROVE  LimitInv'
<1>1. LimitTypeOK /\ \A s \in Requests : RowInv(s)
  BY DEF LimitInv
<1>2. /\ now < MaxTime /\ now' = now + 1 /\ UNCHANGED <<req, events>>
      /\ \A r \in Requests : req[r].pc = "limiting" => now - req[r].clock < MaxLag
  BY DEF LimitTick, Advances, InTime
<1>3. now \in Nat /\ MaxLag \in Nat /\ MaxTime \in Nat /\ CleanupTicks \in Nat
  BY <1>1, Windows DEF LimitTypeOK
<1>4. LimitTypeOK'
  BY <1>1, <1>2, <1>3 DEF LimitTypeOK
<1>5. ASSUME NEW s \in Requests
      PROVE  RowInv(s)'
  <2>1. req[s].clock \in Nat /\ req[s].through \in Nat
    BY <1>1, <1>3 DEF LimitTypeOK, Request
  <2> QED BY <1>1, <1>2, <1>3, <2>1 DEF RowInv, Limiting, Handling
<1>6. ASSUME NEW c \in Clients, NEW e \in Endpoints, NEW t \in 0 .. now'
      PROVE  Cardinality(Reached(c, e, t, Window[e] - MaxLag)') <= Limit[e]
  <2>1. PICK len \in Int : len = Window[e] - MaxLag
    BY Windows
  <2>2. Reached(c, e, t, len)' = Reached(c, e, t, len)
    BY <1>2 DEF Reached
  <2>3. CASE t \in 0 .. now
    BY <2>1, <2>2, <2>3 DEF LimitInv, AdmittedWithinLimit
  <2>4. CASE t = now + 1
    <3>1. Reached(c, e, t, len) \subseteq Reached(c, e, now, len)
      <4>1. \A s \in Requests : req[s].through \in Nat
        BY <1>1, <1>3 DEF LimitTypeOK, Request
      <4>2. \A s \in Requests : req[s].pc = "handling" => req[s].through <= now
        BY <1>1 DEF RowInv, Handling
      <4> QED BY <1>3, <2>1, <2>4, <4>1, <4>2 DEF Reached
    <3>2. Reached(c, e, now, len) \subseteq Requests
      BY DEF Reached
    <3>3. Cardinality(Reached(c, e, t, len)) <= Cardinality(Reached(c, e, now, len))
      BY <3>1, <3>2, SmallerCount
    <3>4. Cardinality(Reached(c, e, now, len)) <= Limit[e]
      BY <1>3, <2>1 DEF LimitInv, AdmittedWithinLimit
    <3>5. /\ Cardinality(Reached(c, e, t, len)) \in Nat
          /\ Cardinality(Reached(c, e, now, len)) \in Nat /\ Limit[e] \in Nat
      BY <3>1, <3>2, FiniteRequests, Windows
    <3> QED BY <2>1, <2>2, <3>3, <3>4, <3>5
  <2> QED BY <1>2, <1>3, <2>3, <2>4
<1>7. AdmittedWithinLimit'
  BY <1>6 DEF AdmittedWithinLimit
<1> QED BY <1>4, <1>5, <1>7 DEF LimitInv

\* The rows of a bucket, and the time from its oldest of them.
LEMMA RecentRows ==
  ASSUME LimitTypeOK, NEW r \in Requests
  PROVE  /\ Recent(Bucket(r), req[r].clock - Window[req[r].endpoint]) \subseteq Requests
         /\ {req[s].clock : s \in Recent(Bucket(r), req[r].clock - Window[req[r].endpoint])}
              \subseteq Nat
         /\ req[r].endpoint \in Endpoints /\ req[r].clock \in Nat
         /\ Window[req[r].endpoint] \in Nat /\ Limit[req[r].endpoint] \in Nat \ {0}
<1>1. \A s \in Requests : req[s].clock \in Nat /\ req[s].endpoint \in Endpoints
  BY Windows DEF LimitTypeOK, Request
<1>2. \A b, x : Recent(b, x) \subseteq Requests
  BY DEF Recent, LimitTypeOK
<1> QED BY <1>1, <1>2, Windows

\* A refused request is told a time: its bucket has a row, and an oldest one.
LEMMA RefusedRetry ==
  ASSUME LimitTypeOK, NEW r \in Requests, NEW recent, NEW window,
         window = Window[req[r].endpoint],
         recent = Recent(Bucket(r), req[r].clock - window),
         Cardinality(recent) >= Limit[req[r].endpoint]
  PROVE  LET least == Min({req[s].clock : s \in recent})
             retry == SecondsUntil(least + window - req[r].clock)
         IN  /\ retry \in Nat
             /\ \E q \in recent :
                  req[q].clock <= (req[r].clock + TicksPerSecond * retry) - window
<1>1. /\ recent \subseteq Requests /\ {req[s].clock : s \in recent} \subseteq Nat
      /\ req[r].clock \in Nat /\ window \in Nat /\ Limit[req[r].endpoint] \in Nat \ {0}
  BY RecentRows
<1>2. recent # {}
  <2>1. Cardinality({}) = 0
    BY FS_EmptySet
  <2>2. PICK n \in Nat \ {0} : n = Limit[req[r].endpoint]
    BY <1>1
  <2>3. Cardinality(recent) >= n
    BY <2>2
  <2>4. ~ (0 >= n)
    OBVIOUS
  <2> QED BY <2>1, <2>3, <2>4
<1>3. PICK least : least = Min({req[s].clock : s \in recent})
  OBVIOUS
<1>4. least \in {req[s].clock : s \in recent}
  <2>1. {req[s].clock : s \in recent} # {}
    BY <1>2
  <2> QED BY <1>1, <1>3, <2>1, MinIsLeast
<1>5. PICK q \in recent : req[q].clock = least
  BY <1>4
<1>6. least \in Nat
  BY <1>1, <1>4
<1>7. PICK x \in Int : x = least + window - req[r].clock
  BY <1>1, <1>6
<1>8. PICK retry : retry = SecondsUntil(x)
  OBVIOUS
<1>9. retry \in Nat /\ TicksPerSecond * retry >= x
  BY <1>7, <1>8, Seconds
<1>10. PICK y : y = TicksPerSecond * retry
  OBVIOUS
<1>11. y \in Int
  BY <1>9, <1>10, Windows
<1>12. req[q].clock <= (req[r].clock + y) - window
  BY <1>1, <1>5, <1>6, <1>7, <1>9, <1>10, <1>11
<1> QED BY <1>3, <1>5, <1>7, <1>8, <1>9, <1>10, <1>12, Zenon

\* Cleaning the table at a clock that has passed keeps every row a window may look at.
LEMMA CleaningKeeps ==
  ASSUME LimitInv, NEW clock \in Nat, clock <= now, NEW s \in Requests, Handling(s),
         req[s].clock > now - CleanupTicks
  PROVE  s \in Kept(clock)
<1>1. LimitTypeOK /\ RowInv(s)
  BY DEF LimitInv
<1>2. req[s].clock \in Nat /\ now \in Nat /\ CleanupTicks \in Nat
  BY <1>1, Windows DEF LimitTypeOK, Request
<1> QED BY <1>1, <1>2 DEF RowInv, Kept

\* At the limit: refused, and the table cleaned.
LEMMA RefusedStep ==
  ASSUME LimitInv, NEW r \in Requests, Limiting(r), NEW retry \in Nat,
         Answer(r, "rate_limited", retry), events' = Kept(req[r].clock), now' = now
  PROVE  LimitInv'
<1>1. LimitTypeOK /\ \A s \in Requests : RowInv(s)
  BY DEF LimitInv
<1>2. PICK q : q = [NotMade EXCEPT !.pc = "rate_limited", !.retry = retry]
  OBVIOUS
<1>3. q \in Request /\ q.pc = "rate_limited"
  BY <1>2, RefusedType DEF Answers
<1>4. Becomes(r, q)
  BY <1>2 DEF Answer
<1>5. /\ req'[r] = q /\ \A s \in Requests \ {r} : req'[s] = req[s]
      /\ req' \in [Requests -> Request]
  BY <1>1, <1>3, <1>4, OneRow
<1>6. req[r].clock \in Nat /\ req[r].clock <= now
  BY <1>1, Windows DEF LimitTypeOK, Request, RowInv
<1>7. LimitTypeOK'
  BY <1>1, <1>5 DEF LimitTypeOK, Kept
<1>8. ASSUME NEW s \in Requests
      PROVE  RowInv(s)'
  <2>1. CASE s = r
    BY <1>3, <1>5, <2>1 DEF RowInv, Limiting, Handling
  <2>2. CASE s # r
    <3>1. req'[s] = req[s]
      BY <1>5, <2>2
    <3>2. Handling(s) /\ req[s].clock > now - CleanupTicks => s \in events'
      BY <1>6, CleaningKeeps
    <3> QED BY <1>1, <3>1, <3>2 DEF RowInv, Limiting, Handling
  <2> QED BY <2>1, <2>2
<1>9. AdmittedWithinLimit'
  BY <1>3, <1>5, CountsStay DEF Limiting
<1> QED BY <1>7, <1>8, <1>9 DEF LimitInv

\* The requests that have reached the handler of r's endpoint in the window, less the lag,
\* are all in the bucket that r counts.
LEMMA ReachedAreRecent ==
  ASSUME LimitInv, NEW r \in Requests, Limiting(r)
  PROVE  LET window == Window[req[r].endpoint]
         IN  Reached(req[r].client, req[r].endpoint, now, window - MaxLag)
               \subseteq Recent(Bucket(r), req[r].clock - window)
<1>1. LimitTypeOK /\ \A s \in Requests : RowInv(s)
  BY DEF LimitInv
<1>2. PICK W : W = Window[req[r].endpoint]
  OBVIOUS
<1>3. W \in Nat /\ W <= CleanupTicks /\ CleanupTicks \in Nat /\ MaxLag \in Nat /\ now \in Nat
  BY <1>1, <1>2, Windows DEF LimitTypeOK, Request
<1>4. req[r].clock \in Nat /\ req[r].clock <= now
  BY <1>1, Windows DEF LimitTypeOK, Request, RowInv
<1>5. ASSUME NEW s \in Reached(req[r].client, req[r].endpoint, now, W - MaxLag)
      PROVE  s \in Recent(Bucket(r), req[r].clock - W)
  <2>1. /\ s \in Requests /\ Handling(s)
        /\ req[s].client = req[r].client /\ req[s].endpoint = req[r].endpoint
        /\ now - (W - MaxLag) < req[s].through
    BY <1>5 DEF Reached, Handling
  <2>2. req[s].clock \in Nat /\ req[s].through \in Nat
    BY <1>1, <2>1, Windows DEF LimitTypeOK, Request
  <2>3. req[s].through <= req[s].clock + MaxLag
    BY <1>1, <2>1 DEF RowInv
  <2>4. req[s].clock > now - W
    BY <1>3, <2>1, <2>2, <2>3
  <2>5. s \in events
    BY <1>1, <1>3, <2>1, <2>2, <2>4 DEF RowInv
  <2>6. req[s].clock > req[r].clock - W
    BY <1>3, <1>4, <2>2, <2>4
  <2> QED BY <2>1, <2>5, <2>6 DEF Recent, Bucket
<1> QED BY <1>2, <1>5

\* Below the limit: admitted, with its row in the table.
LEMMA AdmittedStep ==
  ASSUME LimitInv, NEW r \in Requests, Limiting(r),
         Cardinality(Recent(Bucket(r), req[r].clock - Window[req[r].endpoint]))
           < Limit[req[r].endpoint],
         Becomes(r, [req[r] EXCEPT !.pc = "handling", !.tries = 0, !.through = now]),
         events' = Kept(req[r].clock) \cup {r}, now' = now
  PROVE  LimitInv'
<1>1. LimitTypeOK /\ \A s \in Requests : RowInv(s)
  BY DEF LimitInv
<1>2. PICK m \in Request : m = req[r]
  BY <1>1 DEF LimitTypeOK
<1>3. PICK q : q = [m EXCEPT !.pc = "handling", !.tries = 0, !.through = now]
  OBVIOUS
<1>4. /\ q \in Request /\ q.pc = "handling" /\ q.through = now
      /\ q.client = m.client /\ q.endpoint = m.endpoint /\ q.clock = m.clock
  <2>1. PICK n1 : n1 = [m EXCEPT !.pc = "handling"]
    OBVIOUS
  <2>2. PICK n2 : n2 = [n1 EXCEPT !.tries = 0]
    OBVIOUS
  <2>3. q = [n2 EXCEPT !.through = now]
    BY <1>3, <2>1, <2>2, Zenon
  <2>4. /\ n1 \in Request /\ n1.pc = "handling"
        /\ n1.client = m.client /\ n1.endpoint = m.endpoint /\ n1.clock = m.clock
    BY <2>1 DEF Request, Steps
  <2>5. /\ n2 \in Request /\ n2.pc = "handling"
        /\ n2.client = m.client /\ n2.endpoint = m.endpoint /\ n2.clock = m.clock
    BY <2>2, <2>4 DEF Request, Attempts
  <2> QED BY <1>1, <2>3, <2>5 DEF Request, LimitTypeOK
<1>5. /\ req'[r] = q /\ \A s \in Requests \ {r} : req'[s] = req[s]
      /\ req' \in [Requests -> Request]
  BY <1>1, <1>2, <1>3, <1>4, OneRow
<1>6. /\ m.clock \in Nat /\ m.clock <= now /\ now <= m.clock + MaxLag /\ now \in Nat
      /\ m.endpoint \in Endpoints
  BY <1>1, <1>2, Windows DEF LimitTypeOK, Request, RowInv
<1>7. LimitTypeOK'
  BY <1>1, <1>5 DEF LimitTypeOK, Kept
<1>8. ASSUME NEW s \in Requests
      PROVE  RowInv(s)'
  <2>1. CASE s = r
    BY <1>4, <1>5, <1>6, <2>1 DEF RowInv, Limiting, Handling
  <2>2. CASE s # r
    <3>1. req'[s] = req[s]
      BY <1>5, <2>2
    <3>2. Handling(s) /\ req[s].clock > now - CleanupTicks => s \in events'
      BY <1>2, <1>6, CleaningKeeps
    <3> QED BY <1>1, <3>1, <3>2 DEF RowInv, Limiting, Handling
  <2> QED BY <2>1, <2>2
<1>9. ASSUME NEW c \in Clients, NEW e \in Endpoints, NEW t \in 0 .. now
      PROVE  Cardinality(Reached(c, e, t, Window[e] - MaxLag)') <= Limit[e]
  <2>1. PICK len \in Int : len = Window[e] - MaxLag
    BY Windows
  <2>2. PICK S : S = Reached(c, e, t, len)
    OBVIOUS
  <2>3. S \subseteq Requests /\ Cardinality(S) <= Limit[e]
    BY <2>1, <2>2 DEF LimitInv, AdmittedWithinLimit, Reached
  <2>4. PICK S1 : S1 = Reached(c, e, t, len)'
    OBVIOUS
  <2>5. r \notin S
    BY <2>2 DEF Reached, Limiting
  <2>6. \A s \in Requests \ {r} : s \in S1 <=> s \in S
    BY <1>5, <2>2, <2>4 DEF Reached
  <2>7. S1 \subseteq Requests
    BY <2>4 DEF Reached
  <2>8. CASE r \notin S1
    <3>1. S1 \subseteq S
      BY <2>6, <2>7, <2>8
    <3> QED BY <2>1, <2>3, <2>4, <2>7, <3>1, SmallerCount, FiniteRequests, Windows
  <2>9. CASE r \in S1
    <3>1. c = m.client /\ e = m.endpoint /\ t = now
      BY <1>4, <1>5, <1>6, <2>4, <2>9 DEF Reached
    <3>2. PICK R : R = Recent(Bucket(r), m.clock - Window[e])
      OBVIOUS
    <3>3. S \subseteq R /\ R \subseteq Requests
      BY <1>1, <1>2, <2>1, <2>2, <3>1, <3>2, ReachedAreRecent, RecentRows
    <3>4. Cardinality(R) < Limit[e]
      BY <1>2, <3>1, <3>2
    <3>5. Cardinality(S) <= Cardinality(R)
      BY <3>3, SmallerCount
    <3>6. S1 \subseteq S \cup {r} /\ S \cup {r} \subseteq Requests
      BY <2>3, <2>6, <2>7
    <3>7. Cardinality(S1) <= Cardinality(S \cup {r})
      BY <3>6, SmallerCount
    <3>8. Cardinality(S \cup {r}) <= Cardinality(S) + 1
      BY <2>3, OneMore
    <3>9. /\ Cardinality(S) \in Nat /\ Cardinality(R) \in Nat /\ Cardinality(S1) \in Nat
          /\ Cardinality(S \cup {r}) \in Nat /\ Limit[e] \in Nat
      BY <2>3, <2>7, <3>3, <3>6, FiniteRequests, Windows
    <3>10. Cardinality(S1) <= Limit[e]
      BY <3>4, <3>5, <3>7, <3>8, <3>9
    <3> QED BY <2>1, <2>4, <3>10
  <2> QED BY <2>8, <2>9
<1>10. AdmittedWithinLimit'
  BY <1>9 DEF AdmittedWithinLimit
<1> QED BY <1>7, <1>8, <1>10 DEF LimitInv

LEMMA ConsumeStep ==
  ASSUME LimitInv, NEW r \in Requests, Consume(r)
  PROVE  LimitInv'
<1> DEFINE window == Window[req[r].endpoint]
           recent == Recent(Bucket(r), req[r].clock - window)
           retry  == SecondsUntil(Min({req[s].clock : s \in recent}) + window - req[r].clock)
<1>1. Limiting(r) /\ now' = now
  BY DEF Consume, Limiting
<1>2. CASE Cardinality(recent) >= Limit[req[r].endpoint]
  <2>1. Answer(r, "rate_limited", retry) /\ events' = Kept(req[r].clock)
    BY <1>2, Zenon DEF Consume
  <2>2. retry \in Nat
    BY <1>2, RefusedRetry DEF LimitInv
  <2> QED BY <1>1, <2>1, <2>2, RefusedStep
<1>3. CASE ~ (Cardinality(recent) >= Limit[req[r].endpoint])
  <2>1. /\ Becomes(r, [req[r] EXCEPT !.pc = "handling", !.tries = 0, !.through = now])
        /\ events' = Kept(req[r].clock) \cup {r}
    BY <1>3, Zenon DEF Consume
  <2>2. Cardinality(recent) \in Nat /\ Limit[req[r].endpoint] \in Nat
    BY RecentRows, FiniteRequests DEF LimitInv
  <2>3. Cardinality(recent) < Limit[req[r].endpoint]
    BY <1>3, <2>2
  <2> QED BY <1>1, <2>1, <2>3, AdmittedStep
<1> QED BY <1>2, <1>3

LEMMA LimitStep ==
  ASSUME LimitInv, [LimitNext]_limitVars
  PROVE  LimitInv'
<1>1. CASE UNCHANGED limitVars
  BY <1>1 DEF limitVars, LimitInv, LimitTypeOK, RowInv, Limiting, Handling,
     AdmittedWithinLimit, Reached
<1>2. ASSUME NEW r \in Requests, Deny(r)
      PROVE  LimitInv'
  BY <1>2, RefuseStep DEF Deny, Answers
<1>3. ASSUME NEW r \in Requests, NEW c \in Clients, NEW e \in Endpoints, Arrive(r, c, e)
      PROVE  LimitInv'
  BY <1>3, ArriveStep
<1>4. ASSUME NEW r \in Requests, Consume(r)
      PROVE  LimitInv'
  BY <1>4, ConsumeStep
<1>5. ASSUME NEW r \in Requests, FailClosed(r)
      PROVE  LimitInv'
  BY <1>5, RefuseStep DEF FailClosed, Answers
<1>6. ASSUME NEW r \in Requests, Contend(r)
      PROVE  LimitInv'
  BY <1>6, ContendStep
<1>7. ASSUME NEW killed \in SUBSET Requests, Kill(killed)
      PROVE  LimitInv'
  BY <1>7, KillStep
<1>8. CASE LimitTick
  BY <1>8, LimitTickStep
<1> QED BY <1>1, <1>2, <1>3, <1>4, <1>5, <1>6, <1>7, <1>8 DEF LimitNext

\* A client is told to wait for long enough: only the consuming step refuses.
LEMMA RetryStep ==
  ASSUME LimitInv, [LimitNext]_limitVars, NEW r \in Requests,
         req[r].pc = "limiting", req'[r].pc = "rate_limited",
         Cardinality(Recent(Bucket(r), req[r].clock - Window[req[r].endpoint]))
           = Limit[req[r].endpoint]
  PROVE  \E q \in Recent(Bucket(r), req[r].clock - Window[req[r].endpoint]) :
           req[q].clock <= (req[r].clock + TicksPerSecond * req'[r].retry)
                             - Window[req[r].endpoint]
<1>1. LimitTypeOK
  BY DEF LimitInv
<1>2. Consume(r)
  <2>1. ASSUME NEW s \in Requests, s # r, NEW q, Becomes(s, q)
        PROVE  FALSE
    BY <1>1, <2>1 DEF Becomes, LimitTypeOK
  <2>2. ASSUME NEW q, Becomes(r, q)
        PROVE  q.pc = "rate_limited"
    BY <1>1, <2>2 DEF Becomes, LimitTypeOK
  <2>3. ASSUME NEW s \in Requests, Deny(s)
        PROVE  FALSE
    BY <2>1, <2>3 DEF Deny, Answer
  <2>4. ASSUME NEW s \in Requests, NEW c \in Clients, NEW e \in Endpoints, Arrive(s, c, e)
        PROVE  FALSE
    BY <2>1, <2>4 DEF Arrive
  <2>5. ASSUME NEW s \in Requests, Consume(s)
        PROVE  s = r
    <3>1. PICK q : Becomes(s, q)
      BY <2>5, Zenon DEF Consume, Answer
    <3> QED BY <2>1, <3>1
  <2>6. ASSUME NEW s \in Requests, FailClosed(s)
        PROVE  FALSE
    <3>1. PICK q : q = [NotMade EXCEPT !.pc = "rate_limit_unavailable", !.retry = 1]
      OBVIOUS
    <3>2. Becomes(s, q)
      BY <2>6, <3>1 DEF FailClosed, Answer
    <3>3. q.pc = "rate_limit_unavailable"
      BY <3>1, RefusedType DEF Answers
    <3> QED BY <2>1, <2>2, <3>2, <3>3
  <2>7. ASSUME NEW s \in Requests, Contend(s)
        PROVE  FALSE
    <3>1. PICK m \in Request : m = req[s]
      BY <1>1 DEF LimitTypeOK
    <3>2. PICK n : n = [m EXCEPT !.tries = @ + 1]
      OBVIOUS
    <3>3. PICK q : q = [n EXCEPT !.clock = now]
      OBVIOUS
    <3>4. Becomes(s, q) /\ m.pc = "limiting"
      BY <2>7, <3>1, <3>2, <3>3, Zenon DEF Contend
    <3>5. n.pc = "limiting" /\ n \in [{"pc", "client", "endpoint", "clock", "tries",
                                      "through", "retry"} -> {n[f] : f \in DOMAIN n}]
      BY <3>1, <3>2, <3>4 DEF Request
    <3>6. q.pc = "limiting"
      BY <3>3, <3>5
    <3> QED BY <2>1, <2>2, <3>4, <3>6
  <2>8. ASSUME NEW killed \in SUBSET Requests, Kill(killed)
        PROVE  FALSE
    <3>1. req'[r] = req[r] \/ req'[r] = [NotMade EXCEPT !.pc = "lost"]
      BY <2>8, Zenon DEF Kill
    <3>2. [NotMade EXCEPT !.pc = "lost"].pc = "lost"
      BY DEF NotMade
    <3> QED BY <3>1, <3>2
  <2>9. ~ LimitTick /\ ~ UNCHANGED limitVars
    BY DEF LimitTick, limitVars
  <2> QED BY <2>3, <2>4, <2>5, <2>6, <2>7, <2>8, <2>9 DEF LimitNext
<1> DEFINE window == Window[req[r].endpoint]
           recent == Recent(Bucket(r), req[r].clock - window)
           retry  == SecondsUntil(Min({req[s].clock : s \in recent}) + window - req[r].clock)
<1>3. Cardinality(recent) >= Limit[req[r].endpoint]
  <2>1. Limit[req[r].endpoint] \in Nat
    BY <1>1, RecentRows
  <2> QED BY <2>1
<1>4. Answer(r, "rate_limited", retry)
  BY <1>2, <1>3, Zenon DEF Consume
<1>5. /\ retry \in Nat
      /\ \E q \in recent : req[q].clock <= (req[r].clock + TicksPerSecond * retry) - window
  BY <1>1, <1>3, RefusedRetry
<1>6. req'[r].retry = retry
  <2>1. PICK n : n = retry
    OBVIOUS
  <2>2. PICK q : q = [NotMade EXCEPT !.pc = "rate_limited", !.retry = n]
    OBVIOUS
  <2>3. n \in Nat /\ Becomes(r, q)
    BY <1>4, <1>5, <2>1, <2>2, Zenon DEF Answer
  <2>4. n \in Nat /\ "rate_limited" \in Answers \cup {"lost"}
    BY <2>3 DEF Answers
  <2>5. [NotMade EXCEPT !.pc = "rate_limited", !.retry = n].retry = n
    BY <2>4, RefusedType, ZenonT(40)

  <2>6. req'[r] = q
    BY <1>1, <2>3, OneRow
  <2> QED BY <2>1, <2>2, <2>5, <2>6, Zenon
<1> QED BY <1>5, <1>6, Zenon

-----------------------------------------------------------------------------

\* The middleware keeps its types, and its rows stay in the table for as long as a window
\* may look at them: LimitInv is inductive.
THEOREM LimitInvariant == LimitSpec => []LimitInv
<1>1. LimitInit => LimitInv
  BY LimitInitially
<1>2. LimitInv /\ [LimitNext]_limitVars => LimitInv'
  BY LimitStep
<1> QED BY <1>1, <1>2, PTL DEF LimitSpec

\* However many processes count at once, out of order and with a lag, no more requests of a
\* client reach a handler in a window, less the lag, than its limit says.
THEOREM AdmittedTheorem == LimitSpec => []AdmittedWithinLimit
<1>1. LimitInv => AdmittedWithinLimit
  BY DEF LimitInv
<1> QED BY <1>1, LimitInvariant, PTL

\* A client at its limit that waits for as long as a 429 tells it is admitted.
THEOREM RetryAfterTheorem == LimitSpec => RetryAfterSuffices
<1>1. ASSUME LimitInv, [LimitNext]_limitVars
      PROVE  [\A r \in Requests :
                LET window == Window[req[r].endpoint]
                    later  == req[r].clock + TicksPerSecond * req'[r].retry
                    recent == Recent(Bucket(r), req[r].clock - window)
                IN  /\ req[r].pc = "limiting" /\ req'[r].pc = "rate_limited"
                    /\ Cardinality(recent) = Limit[req[r].endpoint]
                    => \E q \in recent : req[q].clock <= later - window
             ]_limitVars
  <2>1. ASSUME NEW r \in Requests
        PROVE  LET window == Window[req[r].endpoint]
                   later  == req[r].clock + TicksPerSecond * req'[r].retry
                   recent == Recent(Bucket(r), req[r].clock - window)
               IN  /\ req[r].pc = "limiting" /\ req'[r].pc = "rate_limited"
                   /\ Cardinality(recent) = Limit[req[r].endpoint]
                   => \E q \in recent : req[q].clock <= later - window
    <3> DEFINE window == Window[req[r].endpoint]
               recent == Recent(Bucket(r), req[r].clock - window)
               later  == req[r].clock + TicksPerSecond * req'[r].retry
    <3>1. CASE /\ req[r].pc = "limiting" /\ req'[r].pc = "rate_limited"
               /\ Cardinality(recent) = Limit[req[r].endpoint]
      <4>1. req[r].pc = "limiting" /\ req'[r].pc = "rate_limited"
        BY <3>1, Zenon
      <4>2. Cardinality(Recent(Bucket(r), req[r].clock - Window[req[r].endpoint]))
              = Limit[req[r].endpoint]
        BY <3>1, Zenon
      <4>3. \E q \in Recent(Bucket(r), req[r].clock - Window[req[r].endpoint]) :
              req[q].clock <= (req[r].clock + TicksPerSecond * req'[r].retry)
                                - Window[req[r].endpoint]
        BY <1>1, <4>1, <4>2, RetryStep
      <4> QED BY <4>3
    <3>2. CASE ~ (/\ req[r].pc = "limiting" /\ req'[r].pc = "rate_limited"
                  /\ Cardinality(recent) = Limit[req[r].endpoint])
      BY <3>2, Zenon
    <3> QED BY <3>1, <3>2, Zenon
  <2> QED BY <2>1, Zenon
<1> QED BY <1>1, LimitInvariant, PTL DEF LimitSpec, RetryAfterSuffices

-----------------------------------------------------------------------------
(* Accounts and sessions.                                                  *)

\* A request that is under way is somebody's.
Attributed == \A c \in Calls : call[c].pc # "free" => call[c].user \in Users

\* A request that has found a session knows its token.
Presented == \A c \in Calls : call[c].pc \in {"refreshing", "serving"} => call[c].token \in Tokens

\* IdleTellsUse for one row.
Telling(s) ==
  s.user # NoUser => s.unused <= s.idle /\ s.idle < s.unused + RefreshTicks

Typed == AuthTypeOK /\ Attributed /\ Presented

-----------------------------------------------------------------------------
(* Types.                                                                  *)

LEMMA Periods ==
  /\ NoLock = 0 - 1 /\ CallLag = 1
  /\ LockTicks \in Nat /\ LockTicks >= 1
  /\ TtlTicks \in Nat /\ IdleTicks \in Nat /\ RefreshTicks \in Nat
  /\ 1 < RefreshTicks /\ RefreshTicks < IdleTicks /\ IdleTicks <= TtlTicks
  /\ Longest \in Nat /\ Longest = IdleTicks + 1
  /\ MaxFailed \in Nat /\ MaxFailed >= 1
  /\ MaxSessions \in Nat /\ MaxSessions >= 1
BY LimitsAssumption, PeriodsAssumption
   DEF LimitsAssumption, PeriodsAssumption, NoLock, CallLag, Longest

\* What a request has read of an account is of the type of a request.
LEMMA CallRow ==
  ASSUME NEW pc \in CallSteps, NEW u \in Users \cup {NoUser}, NEW t \in Tokens \cup {NoToken},
         NEW failed \in 0 .. MaxFailed, NEW lock \in NoLock .. LockTicks
  PROVE  [pc |-> pc, user |-> u, token |-> t, failed |-> failed, lock |-> lock, lag |-> 0] \in Call
BY Periods DEF Call

LEMMA AtRow ==
  ASSUME NEW pc \in CallSteps, NEW u \in Users \cup {NoUser}, NEW t \in Tokens \cup {NoToken}
  PROVE  At(pc, u, t) \in Call /\ At(pc, u, t).pc = pc /\ At(pc, u, t).user = u
                               /\ At(pc, u, t).token = t
BY CallRow, Periods DEF At

LEMMA FreeRow == Free \in Call /\ Free.pc = "free"
BY AtRow DEF Free, CallSteps

LEMMA SessionRow ==
  ASSUME NEW s \in Session \cup {NotDrawn, Gone}, s.user # NoUser
  PROVE  s \in Session
BY DEF NotDrawn, Gone, Blank

\* The columns of a session.
LEMMA Columns ==
  ASSUME NEW s \in Session
  PROVE  /\ s = [user |-> s.user, left |-> s.left, idle |-> s.idle, unused |-> s.unused,
                 late |-> s.late]
         /\ s.user \in Users /\ s.left \in 1 .. TtlTicks /\ s.idle \in 0 .. Longest
         /\ s.unused \in 0 .. Longest /\ s.late \in BOOLEAN
         /\ s.user # NoUser
BY NamesAssumption DEF Session, NamesAssumption

\* Time passes for a row: what it has recorded stays true.
LEMMA AgedRow ==
  ASSUME NEW s \in Session \cup {NotDrawn, Gone}, Telling(s)
  PROVE  /\ Aged(s) \in Session \cup {NotDrawn, Gone}
         /\ Telling(Aged(s))
<1>1. CASE s.user = NoUser
  BY <1>1 DEF Aged, Telling
<1>2. CASE s.user # NoUser /\ s.left = 1
  <2>1. Aged(s) = Gone
    BY <1>2 DEF Aged
  <2>2. QED
    BY <2>1 DEF Gone, Blank, Telling
<1>3. CASE s.user # NoUser /\ s.left # 1
  <2>1. s \in Session
    BY <1>3, SessionRow
  <2>2. /\ s.left - 1 \in 1 .. TtlTicks
        /\ AtMost(s.idle + 1, Longest) \in 0 .. Longest
        /\ AtMost(s.unused + 1, Longest) \in 0 .. Longest
    BY <1>3, <2>1, Columns, Periods DEF AtMost
  <2>3. Aged(s) = [s EXCEPT !.left = s.left - 1, !.idle = AtMost(s.idle + 1, Longest),
                            !.unused = AtMost(s.unused + 1, Longest)]
    BY <1>3 DEF Aged
  <2>4. Aged(s) = [user |-> s.user, left |-> s.left - 1, idle |-> AtMost(s.idle + 1, Longest),
                   unused |-> AtMost(s.unused + 1, Longest), late |-> s.late]
    BY <2>1, <2>3 DEF Session
  <2>5. Aged(s) \in Session
    BY <2>1, <2>2, <2>4, Columns DEF Session
  <2>6. Telling(Aged(s))
    BY <1>3, <2>1, <2>4, Columns, Periods DEF Telling, AtMost
  <2>7. QED
    BY <2>5, <2>6
<1>4. QED
  BY <1>1, <1>2, <1>3

\* A refresh of a row: the time of use is recorded as of the clock of the request.
LEMMA Refreshed ==
  ASSUME NEW s \in Session, NEW lag \in 0 .. CallLag, NEW late \in BOOLEAN
  PROVE  LET n == [user |-> s.user, left |-> s.left, idle |-> lag, unused |-> 0, late |-> late]
         IN  n \in Session /\ Telling(n) /\ n.user = s.user /\ (n.late = late)
BY Columns, Periods DEF Session, Telling

LEMMA SeenRow ==
  ASSUME NEW s \in Session, NEW lag \in 0 .. CallLag
  PROVE  /\ SeenAt(s, lag) \in Session
         /\ Telling(SeenAt(s, lag))
         /\ SeenAt(s, lag).user = s.user
         /\ ~SeenAt(s, lag).late => ~s.late /\ s.idle < IdleTicks
<1> DEFINE late == s.late \/ s.idle >= IdleTicks
<1>1. late \in BOOLEAN
  OBVIOUS
<1>2. SeenAt(s, lag) = [user |-> s.user, left |-> s.left, idle |-> lag, unused |-> 0, late |-> late]
  BY DEF SeenAt
<1>3. s.idle >= IdleTicks \/ s.idle < IdleTicks
  BY Columns, Periods
<1>4. ~late => ~s.late /\ s.idle < IdleTicks
  BY <1>3, Zenon
<1> HIDE DEF late
<1>5. QED
  BY <1>1, <1>2, <1>4, Refreshed

\* A use of a row that is not recorded, as it was recorded lately.
LEMMA UsedRow ==
  ASSUME NEW s \in Session, s.idle < RefreshTicks
  PROVE  /\ [s EXCEPT !.unused = 0] \in Session
         /\ Telling([s EXCEPT !.unused = 0])
<1>1. [s EXCEPT !.unused = 0] = [user |-> s.user, left |-> s.left, idle |-> s.idle,
                                 unused |-> 0, late |-> s.late]
  BY DEF Session
<1>2. QED
  BY <1>1, Columns, Periods DEF Session, Telling

LEMMA NewRow ==
  ASSUME NEW u \in Users, NEW lag \in 0 .. CallLag
  PROVE  LET s == [user |-> u, left |-> TtlTicks - lag, idle |-> lag, unused |-> lag,
                   late |-> FALSE]
         IN  s \in Session /\ Telling(s)
BY Periods DEF Session, Telling

LEMMA GoneRow == Gone \in Session \cup {NotDrawn, Gone} /\ Telling(Gone) /\ Gone.user = NoUser
BY DEF Gone, Blank, Telling

\* Every step writes rows that are of their type and tell their use.
Sound(sessions) ==
  \A t \in Tokens : sessions[t] \in Session \cup {NotDrawn, Gone} /\ Telling(sessions[t])

LEMMA SoundRows ==
  ASSUME Typed, Sound(session), [AuthNext]_authVars
  PROVE  session' \in [Tokens -> Session \cup {NotDrawn, Gone}] /\ Sound(session)'
<1> DEFINE Row == Session \cup {NotDrawn, Gone}
<1>0. session \in [Tokens -> Row]
  BY DEF Typed, AuthTypeOK
<1>1. ASSUME UNCHANGED session PROVE Sound(session)' /\ session' \in [Tokens -> Row]
  BY <1>0, <1>1 DEF Sound
<1>2. ASSUME NEW tokens \in SUBSET Tokens, session' = Revoked(tokens)
      PROVE  Sound(session)' /\ session' \in [Tokens -> Row]
  BY <1>0, <1>2, GoneRow DEF Sound, Revoked
<1>3. ASSUME NEW c \in Calls, NEW t \in Tokens, NEW kept \in SUBSET Tokens, InsertSession(c, t, kept)
      PROVE  Sound(session)' /\ session' \in [Tokens -> Row]
  <2>1. call[c].user \in Users /\ call[c].lag \in 0 .. CallLag
    BY <1>3 DEF InsertSession, Typed, AuthTypeOK, Attributed, Call
  <2>2. QED
    BY <1>0, <1>3, <2>1, NewRow, GoneRow DEF InsertSession, Sound
<1>4. ASSUME NEW c \in Calls, NEW t \in Tokens, Authenticate(c, t)
      PROVE  Sound(session)' /\ session' \in [Tokens -> Row]
  <2>1. CASE session[t].idle >= RefreshTicks
    BY <1>1, <1>4, <2>1 DEF Authenticate
  <2>2. CASE ~(session[t].idle >= RefreshTicks)
    <3>1. session[t] \in Session /\ session[t].idle < RefreshTicks
      BY <1>0, <1>4, <2>2, SessionRow, Columns, Periods DEF Authenticate, Usable, Live
    <3>2. session' = [session EXCEPT ![t] = [session[t] EXCEPT !.unused = 0]]
      BY <1>4, <2>2 DEF Authenticate
    <3>3. QED
      BY <1>0, <3>1, <3>2, UsedRow DEF Sound
  <2>3. QED
    BY <2>1, <2>2
<1>5. ASSUME NEW c \in Calls, Refresh(c) PROVE Sound(session)' /\ session' \in [Tokens -> Row]
  <2>1. call[c].token \in Tokens /\ call[c].lag \in 0 .. CallLag
    BY <1>5 DEF Refresh, Typed, AuthTypeOK, Presented, Call
  <2>2. CASE Live(call[c].token)
    <3>1. session[call[c].token] \in Session
      BY <1>0, <2>1, <2>2, SessionRow DEF Live
    <3>2. session' = [session EXCEPT ![call[c].token] = SeenAt(session[call[c].token], call[c].lag)]
      BY <1>5, <2>2 DEF Refresh
    <3>3. QED
      BY <1>0, <2>1, <3>1, <3>2, SeenRow DEF Sound
  <2>3. CASE ~Live(call[c].token)
    BY <1>1, <1>5, <2>3 DEF Refresh
  <2>4. QED
    BY <2>2, <2>3
<1>6. ASSUME NEW c \in Calls, Serve(c) PROVE Sound(session)' /\ session' \in [Tokens -> Row]
  <2>1. call[c].token \in Tokens
    BY <1>6 DEF Serve, Typed, Presented
  <2>2. QED
    BY <1>1, <1>2, <1>6, <2>1 DEF Serve, TokensOf
<1>7. ASSUME NEW u \in Users, NEW active \in BOOLEAN, Administer(u, active)
      PROVE  Sound(session)' /\ session' \in [Tokens -> Row]
  BY <1>1, <1>2, <1>7 DEF Administer, TokensOf
<1>8. ASSUME AuthTick PROVE Sound(session)' /\ session' \in [Tokens -> Row]
  BY <1>0, <1>8, AgedRow DEF AuthTick, Sound
<1>9. QED
  BY <1>1, <1>3, <1>4, <1>5, <1>6, <1>7, <1>8
     DEF AuthNext, authVars, ReadAccount, FailLogin, RefuseLogin, SucceedLogin, DropCall

\* What a request knows fits its step.
LEMMA CallsStep ==
  ASSUME Typed, [AuthNext]_authVars
  PROVE  account' \in [Users -> LoginAccount] /\ call' \in [Calls -> Call] /\ Attributed' /\ Presented'
<1> DEFINE Fits(r) == /\ r \in Call
                      /\ r.pc # "free" => r.user \in Users
                      /\ r.pc \in {"refreshing", "serving"} => r.token \in Tokens
<1> DEFINE Good == /\ account' \in [Users -> LoginAccount] /\ call' \in [Calls -> Call]
                   /\ Attributed' /\ Presented'
<1>0. /\ account \in [Users -> LoginAccount]
      /\ call \in [Calls -> Call]
      /\ session \in [Tokens -> Session \cup {NotDrawn, Gone}]
      /\ \A c \in Calls : Fits(call[c])
  BY DEF Typed, AuthTypeOK, Attributed, Presented
<1>1. ASSUME NEW c \in Calls, NEW r, Fits(r), call' = [call EXCEPT ![c] = r],
             account' \in [Users -> LoginAccount]
      PROVE  Good
  BY <1>0, <1>1 DEF Attributed, Presented
<1>2. Fits(Free)
  BY FreeRow
<1>3. \A u \in Users, failed \in 0 .. MaxFailed, lock \in NoLock .. LockTicks :
        Counted(u, failed, lock) \in [Users -> LoginAccount]
  BY <1>0 DEF Counted, LoginAccount
<1>4. ASSUME NEW c \in Calls, NEW u \in Users, ReadAccount(c, u) PROVE Good
  <2> DEFINE r == [pc |-> "verifying", user |-> u, token |-> NoToken,
                   failed |-> account[u].failed, lock |-> account[u].lock, lag |-> 0]
  <2>1. account[u].failed \in 0 .. MaxFailed /\ account[u].lock \in NoLock .. LockTicks
    BY <1>0 DEF LoginAccount
  <2>2. Fits(r)
    BY <2>1, CallRow DEF CallSteps
  <2>3. QED
    BY <1>0, <1>1, <1>4, <2>2 DEF ReadAccount
<1>5. ASSUME NEW c \in Calls, FailLogin(c) PROVE Good
  <2>1. call[c].user \in Users /\ call[c].failed \in 0 .. MaxFailed /\ call[c].lag \in 0 .. CallLag
    BY <1>0, <1>5 DEF FailLogin, Call
  <2>2. /\ 0 \in 0 .. MaxFailed /\ NoLock \in NoLock .. LockTicks
        /\ LockTicks - call[c].lag \in NoLock .. LockTicks
        /\ ~(call[c].failed + 1 >= MaxFailed) => call[c].failed + 1 \in 0 .. MaxFailed
    BY <2>1, Periods
  <2>3. /\ Counted(call[c].user, 0, LockTicks - call[c].lag) \in [Users -> LoginAccount]
        /\ ~(call[c].failed + 1 >= MaxFailed)
           => Counted(call[c].user, call[c].failed + 1, NoLock) \in [Users -> LoginAccount]
    BY <1>3, <2>1, <2>2
  <2>4. account' \in [Users -> LoginAccount]
    BY <1>0, <1>5, <2>3 DEF FailLogin
  <2>5. call' = [call EXCEPT ![c] = Free]
    BY <1>5 DEF FailLogin, CallEnds
  <2>6. QED
    BY <1>1, <1>2, <2>4, <2>5
<1>6. ASSUME NEW c \in Calls, RefuseLogin(c) \/ Serve(c) \/ DropCall(c) PROVE Good
  BY <1>0, <1>1, <1>2, <1>6 DEF RefuseLogin, Serve, DropCall, CallEnds
<1>7. ASSUME NEW c \in Calls, SucceedLogin(c) PROVE Good
  <2>1. call[c].user \in Users
    BY <1>0, <1>7 DEF SucceedLogin
  <2>2. Fits(At("inserting", call[c].user, NoToken))
    BY <2>1, AtRow DEF CallSteps
  <2>3. account' \in [Users -> LoginAccount]
    BY <1>0, <1>3, <1>7, <2>1, Periods DEF SucceedLogin
  <2>4. QED
    BY <1>1, <1>7, <2>2, <2>3 DEF SucceedLogin
<1>8. ASSUME NEW c \in Calls, NEW t \in Tokens, NEW kept \in SUBSET Tokens, InsertSession(c, t, kept)
      PROVE  Good
  BY <1>0, <1>1, <1>2, <1>8 DEF InsertSession, CallEnds
<1>9. ASSUME NEW c \in Calls, NEW t \in Tokens, Authenticate(c, t) PROVE Good
  <2>1. session[t].user \in Users
    BY <1>0, <1>9, SessionRow, Columns DEF Authenticate, Usable, Live
  <2>2. \A pc \in {"refreshing", "serving"} : Fits(At(pc, session[t].user, t))
    BY <2>1, AtRow DEF CallSteps
  <2>3. QED
    BY <1>0, <1>1, <1>9, <2>2 DEF Authenticate
<1>10. ASSUME NEW c \in Calls, Refresh(c) PROVE Good
  <2>1. Fits(At("serving", call[c].user, call[c].token))
    BY <1>0, <1>10, AtRow DEF Refresh, CallSteps
  <2>2. QED
    BY <1>0, <1>1, <1>10, <2>1 DEF Refresh
<1>11. ASSUME NEW u \in Users, NEW active \in BOOLEAN, Administer(u, active) PROVE Good
  BY <1>0, <1>11 DEF Administer, LoginAccount, Attributed, Presented
<1>12. ASSUME AuthTick PROVE Good
  <2>1. account' \in [Users -> LoginAccount]
    BY <1>0, <1>12, Periods DEF AuthTick, LoginAccount
  <2>2. \A c \in Calls : call'[c] \in Call /\ call'[c].pc = call[c].pc
                         /\ call'[c].user = call[c].user /\ call'[c].token = call[c].token
    <3> SUFFICES ASSUME NEW c \in Calls
                 PROVE  call'[c] \in Call /\ call'[c].pc = call[c].pc
                        /\ call'[c].user = call[c].user /\ call'[c].token = call[c].token
      OBVIOUS
    <3>1. call[c] \in Call
      BY <1>0
    <3>2. call[c].lag \in Nat /\ call[c].lag < CallLag
      BY <1>12, <3>1, Periods DEF AuthTick, Call
    <3>3. PICK l \in 0 .. CallLag : l = IF call[c].pc \in Waiting THEN call[c].lag + 1 ELSE call[c].lag
      BY <3>2, Periods
    <3>4. call'[c] = [call[c] EXCEPT !.lag = l]
      BY <1>12, <3>3 DEF AuthTick
    <3> QED
      BY <3>1, <3>4 DEF Call
  <2>3. call' \in [Calls -> Call]
    BY <1>12, <2>2 DEF AuthTick
  <2>4. QED
    BY <1>0, <2>1, <2>2, <2>3 DEF Attributed, Presented
<1>13. ASSUME UNCHANGED authVars PROVE Good
  BY <1>0, <1>13 DEF authVars, Attributed, Presented
<1>14. QED
  BY <1>4, <1>5, <1>6, <1>7, <1>8, <1>9, <1>10, <1>11, <1>12, <1>13 DEF AuthNext

-----------------------------------------------------------------------------
(* The limit of sessions.                                                  *)

\* The sessions that count for the limit.
Holding(u) == {t \in TokensOf(u) : Usable(t) /\ ~session[t].late}

\* A row does not begin to count.
NoGain(u) == Holding(u)' \subseteq Holding(u)

LEMMA SessionLimit ==
  ASSUME NEW S, IsFiniteSet(S), NEW T \in SUBSET S, Cardinality(S) <= MaxSessions
  PROVE  Cardinality(T) <= MaxSessions
<1>1. Cardinality(T) <= Cardinality(S) /\ Cardinality(T) \in Nat /\ Cardinality(S) \in Nat
  BY FS_Subset, FS_CardinalityType
<1>2. QED
  BY <1>1, Periods

LEMMA HoldingFinite == \A u \in Users : IsFiniteSet(Holding(u))
BY FS_Subset, TokensAssumption DEF TokensAssumption, Holding, TokensOf

\* Only a login adds a session that counts.
LEMMA OtherSteps ==
  ASSUME Typed, [AuthNext]_authVars, NEW u \in Users,
         ~ \E c \in Calls, t \in Tokens, kept \in SUBSET Tokens : InsertSession(c, t, kept)
  PROVE  NoGain(u)
<1>0. session \in [Tokens -> Session \cup {NotDrawn, Gone}]
  BY DEF Typed, AuthTypeOK
<1>1. ASSUME UNCHANGED session PROVE NoGain(u)
  BY <1>1 DEF NoGain, Holding, TokensOf, Usable, Live
<1>2. ASSUME NEW tokens \in SUBSET Tokens, session' = Revoked(tokens) PROVE NoGain(u)
  BY <1>0, <1>2, GoneRow, NamesAssumption
     DEF NamesAssumption, Revoked, NoGain, Holding, TokensOf, Usable, Live
<1>3. ASSUME NEW c \in Calls, NEW t \in Tokens, Authenticate(c, t) PROVE NoGain(u)
  <2>1. CASE session' = session
    BY <1>1, <2>1
  <2>2. CASE session' = [session EXCEPT ![t].unused = 0]
    <3>1. session[t] \in Session
      BY <1>0, <1>3, SessionRow DEF Authenticate, Usable, Live
    <3>2. /\ session'[t].user = session[t].user /\ session'[t].idle = session[t].idle
          /\ (session'[t].late = session[t].late)
      BY <1>0, <2>2, <3>1 DEF Session
    <3>3. QED
      BY <1>0, <2>2, <3>2 DEF NoGain, Holding, TokensOf, Usable, Live
  <2>3. QED
    BY <1>3, <2>1, <2>2 DEF Authenticate
<1>4. ASSUME NEW c \in Calls, Refresh(c) PROVE NoGain(u)
  <2> DEFINE t == call[c].token
  <2>1. t \in Tokens /\ call[c].lag \in 0 .. CallLag
    BY <1>4 DEF Refresh, Typed, AuthTypeOK, Presented, Call
  <2>2. CASE Live(t)
    <3>1. session[t] \in Session
      BY <1>0, <2>1, <2>2, SessionRow DEF Live
    <3>2. session' = [session EXCEPT ![t] = SeenAt(session[t], call[c].lag)]
      BY <1>4, <2>2 DEF Refresh
    <3>3. QED
      BY <1>0, <2>1, <2>2, <3>1, <3>2, SeenRow DEF NoGain, Holding, TokensOf, Usable, Live
  <2>3. CASE ~Live(t)
    BY <1>1, <1>4, <2>3 DEF Refresh
  <2>4. QED
    BY <2>2, <2>3
<1>5. ASSUME NEW c \in Calls, Serve(c) PROVE NoGain(u)
  <2>1. call[c].token \in Tokens
    BY <1>5 DEF Serve, Typed, Presented
  <2>2. QED
    BY <1>1, <1>2, <1>5, <2>1 DEF Serve, TokensOf
<1>6. ASSUME NEW v \in Users, NEW active \in BOOLEAN, Administer(v, active) PROVE NoGain(u)
  BY <1>1, <1>2, <1>6 DEF Administer, TokensOf
<1>7. ASSUME AuthTick PROVE NoGain(u)
  <2>1. \A s \in Session : Aged(s).user # NoUser =>
          /\ Aged(s).user = s.user /\ (Aged(s).late = s.late)
          /\ Aged(s).idle < IdleTicks => s.idle < IdleTicks
    <3> SUFFICES ASSUME NEW s \in Session, Aged(s).user # NoUser
                 PROVE  /\ Aged(s).user = s.user /\ (Aged(s).late = s.late)
                        /\ Aged(s).idle < IdleTicks => s.idle < IdleTicks
      OBVIOUS
    <3>1. s.user # NoUser /\ s.left # 1
      BY GoneRow, Columns DEF Aged
    <3>2. Aged(s) = [s EXCEPT !.left = s.left - 1, !.idle = AtMost(s.idle + 1, Longest),
                              !.unused = AtMost(s.unused + 1, Longest)]
      BY <3>1 DEF Aged
    <3>3. Aged(s) = [user |-> s.user, left |-> s.left - 1, idle |-> AtMost(s.idle + 1, Longest),
                     unused |-> AtMost(s.unused + 1, Longest), late |-> s.late]
      BY <3>2 DEF Session
    <3>4. QED
      BY <3>3, Columns, Periods DEF AtMost
  <2>2. \A t \in Tokens : session'[t].user # NoUser => session[t] \in Session
    BY <1>0, <1>7, SessionRow DEF AuthTick, Aged
  <2>3. QED
    BY <1>7, <2>1, <2>2, NamesAssumption
       DEF NamesAssumption, AuthTick, NoGain, Holding, TokensOf, Usable, Live
<1>8. QED
  BY <1>1, <1>3, <1>4, <1>5, <1>6, <1>7
  DEF AuthNext, authVars, ReadAccount, FailLogin, RefuseLogin, SucceedLogin, DropCall

\* A login makes room for the session it adds.
LEMMA InsertStep ==
  ASSUME Typed, SessionCap, NEW u \in Users,
         NEW c \in Calls, NEW t \in Tokens, NEW kept \in SUBSET Tokens, InsertSession(c, t, kept)
  PROVE  Cardinality(Holding(u)') <= MaxSessions
<1> DEFINE v == call[c].user
           lag == call[c].lag
<1>0. /\ session \in [Tokens -> Session \cup {NotDrawn, Gone}]
      /\ v \in Users /\ lag \in 0 .. CallLag
  BY DEF InsertSession, Typed, AuthTypeOK, Attributed, Call
<1>1. /\ session[t] = NotDrawn
      /\ kept \subseteq Active(v, lag)
      /\ Cardinality(kept) = AtMost(Cardinality(Active(v, lag)), MaxSessions - 1)
      /\ session' = [s \in Tokens |->
           IF s = t THEN [user |-> v, left |-> TtlTicks - lag, idle |-> lag,
                          unused |-> lag, late |-> FALSE]
           ELSE IF s \in Active(v, lag) \ kept THEN Gone
           ELSE session[s]]
  BY DEF InsertSession, Newest
<1>2. CASE u = v
  <2>1. \A s \in Tokens : session[s].user = v /\ session[s].idle < IdleTicks => s \in Active(v, lag)
    <3> SUFFICES ASSUME NEW s \in Tokens, session[s].user = v, session[s].idle < IdleTicks
                 PROVE  session[s].idle - lag < IdleTicks
      BY DEF Active
    <3>1. session[s] \in Session
      BY <1>0, SessionRow, NamesAssumption DEF NamesAssumption
    <3>2. QED
      BY <1>0, <3>1, Columns, Periods
  <2>2. Holding(u)' \subseteq kept \cup {t}
    BY <1>1, <1>2, <2>1, <1>0, GoneRow, NamesAssumption
       DEF NamesAssumption, Holding, TokensOf, Usable, Live
  <2>3. IsFiniteSet(Active(v, lag)) /\ IsFiniteSet(kept)
    BY FS_Subset, TokensAssumption DEF TokensAssumption, Active
  <2>4. Cardinality(kept) <= MaxSessions - 1
    BY <1>1, <2>3, FS_CardinalityType, Periods DEF AtMost
  <2>5. IsFiniteSet(kept \cup {t}) /\ Cardinality(kept \cup {t}) <= MaxSessions
    <3>1. Cardinality(kept) \in Nat
      BY <2>3, FS_CardinalityType
    <3>2. /\ IsFiniteSet(kept \cup {t})
          /\ Cardinality(kept \cup {t}) = IF t \in kept THEN Cardinality(kept)
                                                       ELSE Cardinality(kept) + 1
      BY <2>3, FS_AddElement
    <3>3. QED
      BY <2>4, <3>1, <3>2, Periods
  <2>6. QED
    BY <2>2, <2>5, SessionLimit
<1>3. CASE u # v
  <2>1. Holding(u)' \subseteq Holding(u)
    BY <1>0, <1>1, <1>3, GoneRow, NamesAssumption
       DEF NamesAssumption, Holding, TokensOf, Usable, Live
  <2>2. Cardinality(Holding(u)) <= MaxSessions
    BY DEF SessionCap, Holding
  <2>3. QED
    BY <2>1, <2>2, SessionLimit, HoldingFinite
<1>4. QED
  BY <1>2, <1>3

-----------------------------------------------------------------------------
(* The theorems.                                                           *)

AuthInv == Typed /\ Sound(session) /\ SessionCap

LEMMA AuthInvInit == AuthInit => AuthInv
<1> SUFFICES ASSUME AuthInit PROVE AuthInv
  OBVIOUS
<1>1. account \in [Users -> LoginAccount]
  BY Periods DEF AuthInit, LoginAccount
<1>2. call \in [Calls -> Call] /\ Attributed /\ Presented
  BY FreeRow DEF AuthInit, Attributed, Presented
<1>3. /\ session \in [Tokens -> Session \cup {NotDrawn, Gone}]
      /\ Sound(session)
      /\ \A t \in Tokens : session[t].user = NoUser
  BY DEF AuthInit, Sound, Telling, NotDrawn, Blank
<1>4. SessionCap
  <2>1. \A u \in Users : {t \in TokensOf(u) : Usable(t) /\ ~session[t].late} = {}
    BY <1>3 DEF Usable, Live, TokensOf
  <2>2. QED
    BY <2>1, FS_EmptySet, Periods DEF SessionCap
<1>5. QED
  BY <1>1, <1>2, <1>3, <1>4 DEF AuthInv, Typed, AuthTypeOK

LEMMA AuthInvNext == AuthInv /\ [AuthNext]_authVars => AuthInv'
<1> SUFFICES ASSUME AuthInv, [AuthNext]_authVars PROVE AuthInv'
  OBVIOUS
<1>1. Typed' /\ Sound(session)'
  BY SoundRows, CallsStep DEF AuthInv, Typed, AuthTypeOK
<1>2. \A u \in Users : Cardinality(Holding(u)') <= MaxSessions
  <2> TAKE u \in Users
  <2>1. CASE \E c \in Calls, t \in Tokens, kept \in SUBSET Tokens : InsertSession(c, t, kept)
    BY <2>1, InsertStep DEF AuthInv
  <2>2. CASE ~ \E c \in Calls, t \in Tokens, kept \in SUBSET Tokens : InsertSession(c, t, kept)
    <3>1. Holding(u)' \subseteq Holding(u)
      BY <2>2, OtherSteps DEF AuthInv, NoGain
    <3>2. Cardinality(Holding(u)) <= MaxSessions
      BY DEF AuthInv, SessionCap, Holding
    <3>3. QED
      BY <3>1, <3>2, SessionLimit, HoldingFinite
  <2>3. QED
    BY <2>1, <2>2
<1>3. SessionCap'
  BY <1>2 DEF SessionCap, Holding
<1>4. QED
  BY <1>1, <1>3 DEF AuthInv

LEMMA AuthInvariant == AuthSpec => []AuthInv
BY AuthInvInit, AuthInvNext, PTL DEF AuthSpec

\* The rows of users and sessions, and what each request knows of them, keep their
\* types: no column leaves its range, however requests of auth_store.py overlap.
THEOREM AuthTypeTheorem == AuthSpec => []AuthTypeOK
<1>1. AuthInv => AuthTypeOK
  BY DEF AuthInv, Typed
<1>2. QED
  BY <1>1, AuthInvariant, PTL

\* last_seen_at, which get_user_by_token writes only when it has aged, tells the
\* use of a session to within the refresh period, in whatever order overlapping
\* requests write it.
THEOREM IdleTheorem == AuthSpec => []IdleTellsUse
<1>1. AuthInv => IdleTellsUse
  BY DEF AuthInv, Sound, Telling, IdleTellsUse, Live
<1>2. QED
  BY <1>1, AuthInvariant, PTL

\* _insert_session makes room before it inserts: for any number of logins in
\* flight, a user has no more usable sessions than the setting allows, but for those
\* that a request has refreshed late, after they had become idle.
THEOREM CapTheorem == AuthSpec => []SessionCap
<1>1. AuthInv => SessionCap
  BY DEF AuthInv
<1>2. QED
  BY <1>1, AuthInvariant, PTL

-----------------------------------------------------------------------------
(* Administration: types.                                                  *)

LEMMA NobodyIsNoOrganization == Nobody \notin Organizations /\ NoAccount \notin Account
BY AdminAssumption DEF AdminAssumption, Organizations, NoAccount, Account

\* Who acts is a user of an organization.
LEMMA ActingAdmin ==
  ASSUME AdminTypeOK, NEW a \in Emails, IsAdmin(user[a].org, a)
  PROVE  user[a].org \in Organizations /\ user[a].role = "admin" /\ user[a].active = TRUE
<1>1. user[a] = [org |-> user[a].org, role |-> "admin", active |-> TRUE]
  BY DEF IsAdmin
<1>2. user[a].role = "admin" /\ user[a].active = TRUE
  <2>1. PICK o : o = user[a].org
    OBVIOUS
  <2>2. user[a] = [org |-> o, role |-> "admin", active |-> TRUE]
    BY <1>1, <2>1, Zenon
  <2> QED BY <2>2
<1>3. user[a] \in Account \cup {NoAccount}
  BY DEF AdminTypeOK
<1>4. NoAccount.role = "operator"
  BY DEF NoAccount
<1> QED BY <1>2, <1>3, <1>4 DEF Account

LEMMA InsertType ==
  ASSUME AdminTypeOK, NEW e \in Emails, NEW org \in Organizations, NEW role \in Roles,
         NEW projects \in SUBSET Projects, Insert(e, org, role, projects)
  PROVE  /\ user' \in [Emails -> Account \cup {NoAccount}]
         /\ member' \subseteq (Projects \cup Organizations) \X Emails
BY DEF AdminTypeOK, Insert, Account, Default

LEMMA InvitationRow ==
  ASSUME AdminTypeOK, NEW i \in Invitations, invitation[i] # NotInvited
  PROVE  invitation[i] \in Invitation
BY DEF AdminTypeOK

LEMMA PendingIsInvited ==
  ASSUME AdminTypeOK, NEW i \in Invitations, Pending(i)
  PROVE  invitation[i] \in Invitation /\ invitation[i] # NotInvited
BY DEF AdminTypeOK, Pending, NotInvited

LEMMA LogType ==
  ASSUME AdminTypeOK, NEW org, NEW event, Log(org, event)
  PROVE  DOMAIN trail' = Organizations
BY DEF AdminTypeOK, Log

LEMMA EndsType ==
  ASSUME AdminTypeOK, NEW e, Ends(e)
  PROVE  admitted' \subseteq Emails
BY DEF AdminTypeOK, Ends

LEMMA AdminInitialType == AdminInit => AdminTypeOK
BY DEF AdminInit, AdminTypeOK, Organizations

LEMMA RegisterType ==
  ASSUME AdminTypeOK, NEW e \in Emails, NEW role \in Roles, Register(e, role)
  PROVE  AdminTypeOK'
<1>1. Legacy \in Organizations /\ {} \in SUBSET Projects
  BY DEF Organizations
<1> QED BY <1>1, InsertType DEF Register, AdminTypeOK

LEMMA BootstrapType ==
  ASSUME AdminTypeOK, NEW e \in Emails, Bootstrap(e)
  PROVE  AdminTypeOK'
<1>1. Founded \in Organizations /\ {} \in SUBSET Projects /\ "admin" \in Roles
  BY DEF Organizations, Roles
<1>2. /\ user' \in [Emails -> Account \cup {NoAccount}]
      /\ member' \subseteq (Projects \cup Organizations) \X Emails
  BY <1>1, InsertType DEF Bootstrap
<1>3. DOMAIN trail' = Organizations
  BY LogType, Zenon DEF Bootstrap
<1> QED BY <1>2, <1>3 DEF Bootstrap, AdminTypeOK

LEMMA CreateInvitationType ==
  ASSUME AdminTypeOK, NEW a \in Emails, NEW i \in Invitations, NEW e \in Emails,
         NEW role \in Roles, NEW projects \in SUBSET Projects,
         CreateInvitation(a, i, e, role, projects)
  PROVE  AdminTypeOK'
<1>1. user[a].org \in Organizations
  BY ActingAdmin DEF CreateInvitation
<1>2. DOMAIN trail' = Organizations
  BY LogType, Zenon DEF CreateInvitation
<1>3. admitted' \subseteq Emails
  BY EndsType DEF CreateInvitation
<1>4. invitation' \in [Invitations -> Invitation \cup {NotInvited}]
  <2>1. [org |-> user[a].org, email |-> e, role |-> role, projects |-> projects,
         state |-> "pending", age |-> "valid"] \in Invitation
    BY <1>1 DEF Invitation, Ages
  <2>2. ASSUME NEW j \in Invitations, Pending(j)
        PROVE  [invitation[j] EXCEPT !.state = "revoked"] \in Invitation
    BY <2>2, PendingIsInvited DEF Invitation
  <2> QED BY <2>1, <2>2 DEF CreateInvitation, AdminTypeOK
<1> QED BY <1>2, <1>3, <1>4 DEF CreateInvitation, AdminTypeOK

LEMMA RevokeInvitationType ==
  ASSUME AdminTypeOK, NEW a \in Emails, NEW i \in Invitations, RevokeInvitation(a, i)
  PROVE  AdminTypeOK'
<1>1. invitation[i] \in Invitation
  BY PendingIsInvited DEF RevokeInvitation
<1>2. DOMAIN trail' = Organizations
  BY LogType, Zenon DEF RevokeInvitation
<1>3. admitted' \subseteq Emails
  BY EndsType DEF RevokeInvitation
<1>4. invitation' \in [Invitations -> Invitation \cup {NotInvited}]
  BY <1>1 DEF RevokeInvitation, AdminTypeOK, Invitation
<1> QED BY <1>2, <1>3, <1>4 DEF RevokeInvitation, AdminTypeOK

LEMMA AcceptInvitationType ==
  ASSUME AdminTypeOK, NEW i \in Invitations, AcceptInvitation(i)
  PROVE  AdminTypeOK'
<1>1. invitation[i] \in Invitation
  BY PendingIsInvited DEF AcceptInvitation
<1>2. DOMAIN trail' = Organizations
  BY LogType, Zenon DEF AcceptInvitation
<1>3. invitation' \in [Invitations -> Invitation \cup {NotInvited}]
  BY <1>1 DEF AcceptInvitation, AdminTypeOK, Invitation
<1>4. /\ invitation[i].email \in Emails /\ invitation[i].org \in Organizations
      /\ invitation[i].role \in Roles /\ invitation[i].projects \in SUBSET Projects
  BY <1>1 DEF Invitation
<1>5. /\ user' \in [Emails -> Account \cup {NoAccount}]
      /\ member' \subseteq (Projects \cup Organizations) \X Emails
  BY <1>4, InsertType DEF AcceptInvitation
<1> QED BY <1>2, <1>3, <1>5 DEF AcceptInvitation, AdminTypeOK

LEMMA AgeType ==
  ASSUME AdminTypeOK, NEW i \in Invitations, Age(i)
  PROVE  AdminTypeOK'
<1>1. invitation[i] \in Invitation
  BY PendingIsInvited DEF Age
<1>2. invitation' \in [Invitations -> Invitation \cup {NotInvited}]
  BY <1>1 DEF Age, AdminTypeOK, Invitation, Ages
<1> QED BY <1>2 DEF Age, AdminTypeOK

LEMMA UpdateUserType ==
  ASSUME AdminTypeOK, NEW a \in Emails, NEW e \in Emails, NEW role \in Roles,
         NEW active \in BOOLEAN, UpdateUser(a, e, role, active)
  PROVE  AdminTypeOK'
<1>1. user[a].org \in Organizations
  BY ActingAdmin DEF UpdateUser
<1>2. DOMAIN trail' = Organizations
  BY LogType, Zenon DEF UpdateUser, AdminTypeOK
<1>3. admitted' \subseteq Emails
  BY EndsType DEF UpdateUser
<1>4. user' \in [Emails -> Account \cup {NoAccount}]
  <2>1. [org |-> user[a].org, role |-> role, active |-> active] \in Account
    BY <1>1 DEF Account
  <2> QED BY <2>1 DEF UpdateUser, AdminTypeOK
<1> QED BY <1>2, <1>3, <1>4 DEF UpdateUser, AdminTypeOK

LEMMA ProjectTypes ==
  ASSUME AdminTypeOK, NEW a \in Emails,
         \/ \E p \in Projects : CreateProject(a, p)
         \/ \E e \in Emails, p \in Projects \cup Organizations, present \in BOOLEAN :
              SetMembership(a, p, e, present)
  PROVE  AdminTypeOK'
<1>1. ASSUME NEW p \in Projects, CreateProject(a, p) PROVE AdminTypeOK'
  <2>1. user[a].org \in Organizations
    BY <1>1, ActingAdmin DEF CreateProject
  <2>2. DOMAIN trail' = Organizations
    BY <1>1, LogType, Zenon DEF CreateProject
  <2>3. admitted' \subseteq Emails
    BY <1>1, EndsType DEF CreateProject
  <2>4. project' \in [Projects -> Organizations \cup {Nobody}]
    BY <1>1, <2>1 DEF CreateProject, AdminTypeOK
  <2>5. member' \subseteq (Projects \cup Organizations) \X Emails
    <3> DEFINE Pairs == (Projects \cup Organizations) \X Emails
    <3>1. <<p, a>> \in Pairs /\ member \subseteq Pairs
      BY DEF AdminTypeOK
    <3>2. member' = member \cup {<<p, a>>}
      BY <1>1 DEF CreateProject
    <3> HIDE DEF Pairs
    <3>3. member' \subseteq Pairs
      BY <3>1, <3>2
    <3> QED BY <3>3 DEF Pairs
  <2> QED BY <1>1, <2>2, <2>3, <2>4, <2>5 DEF CreateProject, AdminTypeOK
<1>2. ASSUME NEW e \in Emails, NEW p \in Projects \cup Organizations, NEW present \in BOOLEAN,
             SetMembership(a, p, e, present)
      PROVE  AdminTypeOK'
  <2>1. DOMAIN trail' = Organizations
    BY <1>2, LogType, Zenon DEF SetMembership, AdminTypeOK
  <2>2. admitted' \subseteq Emails
    BY <1>2, EndsType DEF SetMembership
  <2>3. member' \subseteq (Projects \cup Organizations) \X Emails
    <3> DEFINE Pairs == (Projects \cup Organizations) \X Emails
    <3>1. <<p, e>> \in Pairs /\ member \subseteq Pairs
      BY DEF AdminTypeOK
    <3>2. member' = member \cup {<<p, e>>} \/ member' = member \ {<<p, e>>}
      BY <1>2 DEF SetMembership
    <3> HIDE DEF Pairs
    <3>3. member' \subseteq Pairs
      BY <3>1, <3>2
    <3> QED BY <3>3 DEF Pairs
  <2> QED BY <1>2, <2>1, <2>2, <2>3 DEF SetMembership, AdminTypeOK
<1> QED BY <1>1, <1>2

LEMMA AdminTypeStays == AdminTypeOK /\ [AdminNext]_adminVars => AdminTypeOK'
<1> SUFFICES ASSUME AdminTypeOK, [AdminNext]_adminVars PROVE AdminTypeOK'
  OBVIOUS
<1>1. CASE UNCHANGED adminVars
  BY <1>1 DEF adminVars, AdminTypeOK
<1>2. ASSUME NEW e \in Emails, Admit(e) \/ Refuse(e) PROVE AdminTypeOK'
  BY <1>2 DEF Admit, Refuse, Ends, AdminTypeOK
<1> QED BY <1>1, <1>2, RegisterType, BootstrapType, AcceptInvitationType, AgeType,
           RevokeInvitationType, CreateInvitationType, UpdateUserType, ProjectTypes DEF AdminNext

\* The tables of the administration keep their types.
THEOREM AdminTypes == AdminSpec => []AdminTypeOK
BY AdminInitialType, AdminTypeStays, PTL DEF AdminSpec

-----------------------------------------------------------------------------
(* Somebody administers.                                                   *)

LEMMA InsertKeepsAdmins ==
  ASSUME AdminTypeOK, NEW e \in Emails, NEW o, NEW role, NEW projects,
         Insert(e, o, role, projects), NEW org \in Organizations, Admins(org) # {}
  PROVE  Admins(org)' # {}
<1>1. PICK b \in Emails : IsAdmin(org, b)
  BY DEF Admins
<1>2. user[b].org = org
  BY <1>1 DEF IsAdmin
<1>3. b # e
  BY <1>2, NobodyIsNoOrganization DEF Insert, IsUser
<1>4. user'[b] = user[b]
  BY <1>3 DEF Insert, AdminTypeOK
<1> QED BY <1>1, <1>4 DEF Admins, IsAdmin

\* An organization that has an active administrator keeps one: update_organization_user asks
\* for the rights of the acting administrator in the transaction, and that one stays.
THEOREM KeepsAdminTheorem == AdminSpec => KeepsAdmin
<1>1. AdminTypeOK /\ [AdminNext]_adminVars =>
        [\A org \in Organizations : Admins(org) # {} => Admins(org)' # {}]_adminVars
  <2> SUFFICES ASSUME AdminTypeOK, AdminNext, NEW org \in Organizations, Admins(org) # {}
               PROVE  Admins(org)' # {}
    OBVIOUS
  <2>1. CASE UNCHANGED user
    BY <2>1 DEF Admins, IsAdmin
  <2>2. ASSUME NEW a \in Emails, NEW e \in Emails, NEW role \in Roles, NEW active \in BOOLEAN,
               UpdateUser(a, e, role, active)
        PROVE  Admins(org)' # {}
    <3>1. /\ IsAdmin(user[a].org, a) /\ user[e].org = user[a].org
          /\ a = e => role = "admin" /\ active
          /\ user' = [user EXCEPT ![e] = [org |-> user[a].org, role |-> role, active |-> active]]
      BY <2>2 DEF UpdateUser
    <3>2. CASE user[a].org = org
      <4>1. CASE a # e
        <5>1. user'[a] = user[a]
          BY <3>1, <4>1 DEF AdminTypeOK
        <5> QED BY <3>1, <3>2, <5>1 DEF Admins, IsAdmin
      <4>2. CASE a = e
        <5>1. active = TRUE /\ role = "admin"
          BY <3>1, <4>2
        <5>2. user'[a] = [org |-> org, role |-> role, active |-> active]
          BY <3>1, <3>2, <4>2 DEF AdminTypeOK
        <5> QED BY <5>1, <5>2 DEF Admins, IsAdmin
      <4> QED BY <4>1, <4>2
    <3>3. CASE user[a].org # org
      <4>1. PICK b \in Emails : IsAdmin(org, b)
        BY DEF Admins
      <4>2. user[b].org = org
        BY <4>1 DEF IsAdmin
      <4>3. b # e
        BY <3>1, <3>3, <4>2
      <4>4. user'[b] = user[b]
        BY <3>1, <4>3 DEF AdminTypeOK
      <4> QED BY <4>1, <4>4 DEF Admins, IsAdmin
    <3> QED BY <3>2, <3>3
  <2>3. ASSUME NEW e \in Emails, NEW role \in Roles, Register(e, role) PROVE Admins(org)' # {}
    BY <2>3, InsertKeepsAdmins DEF Register
  <2>4. ASSUME NEW e \in Emails, Bootstrap(e) PROVE Admins(org)' # {}
    BY <2>4, InsertKeepsAdmins DEF Bootstrap
  <2>5. ASSUME NEW i \in Invitations, AcceptInvitation(i) PROVE Admins(org)' # {}
    <3>1. invitation[i].email \in Emails
      BY <2>5, PendingIsInvited DEF AcceptInvitation, Invitation
    <3> QED BY <2>5, <3>1, InsertKeepsAdmins DEF AcceptInvitation
  <2>6. ASSUME NEW e \in Emails, Admit(e) \/ Refuse(e) PROVE UNCHANGED user
    BY <2>6 DEF Admit, Refuse
  <2>7. ASSUME NEW i \in Invitations, Age(i) PROVE UNCHANGED user
    BY <2>7 DEF Age
  <2>8. ASSUME NEW a \in Emails, NEW i \in Invitations,
               \/ RevokeInvitation(a, i)
               \/ \E e \in Emails, role \in Roles, projects \in SUBSET Projects :
                    CreateInvitation(a, i, e, role, projects)
        PROVE  UNCHANGED user
    BY <2>8 DEF RevokeInvitation, CreateInvitation
  <2>9. ASSUME NEW a \in Emails,
               \/ \E p \in Projects : CreateProject(a, p)
               \/ \E e \in Emails, p \in Projects \cup Organizations, present \in BOOLEAN :
                    SetMembership(a, p, e, present)
        PROVE  UNCHANGED user
    BY <2>9 DEF CreateProject, SetMembership
  <2> QED BY <2>1, <2>2, <2>3, <2>4, <2>5, <2>6, <2>7, <2>8, <2>9 DEF AdminNext
<1> QED BY <1>1, AdminTypes, PTL DEF AdminSpec, KeepsAdmin
-----------------------------------------------------------------------------
(* What a trail tells, as a matter of its events alone.                    *)

AccountActions == {"organization.bootstrap", "invitation.accepted", "user.updated"}
Ended == {"invitation.accepted", "invitation.revoked"}

TellsAccount(ev, e) == ev.target = e /\ ev.action \in AccountActions
TellsMember(ev, e, p) == ev.target = e /\ p \in ev.projects /\ ev.action # "invitation.created"
TellsInvited(ev, i) == ev.action = "invitation.created" /\ ev.invitation = i

AccountEvents(t, e, n) == {k \in 1 .. n : TellsAccount(t[k], e)}
MemberEvents(t, e, p, n) == {k \in 1 .. n : TellsMember(t[k], e, p)}
InvitedEvents(t, i, n) == {k \in 1 .. n : TellsInvited(t[k], i)}

LastK(S) == Max({0} \cup S)

\* The role that the last invitation i gives.
RoleGiven(t, i, n) == t[LastK(InvitedEvents(t, i, n))].role

AccountOf(org, t, e, n) ==
  LET k == LastK(AccountEvents(t, e, n))
  IN  IF k = 0 THEN NoAccount
      ELSE [org |-> org, active |-> t[k].active,
            role |-> IF t[k].action = "invitation.accepted" THEN RoleGiven(t, t[k].invitation, k)
                     ELSE t[k].role]

Joined(t, e, p, n) ==
  LET k == LastK(MemberEvents(t, e, p, n))
  IN  k # 0 /\ t[k].action # "project.member_removed"

\* An invitation is told before it is accepted.
InvitedFirst(t) == \A k \in 1 .. Len(t) :
  t[k].action = "invitation.accepted" => InvitedEvents(t, t[k].invitation, k) # {}

IsSeq(t) == \E S : t \in Seq(S)

LEMMA ToldAccount ==
  ASSUME NEW org, NEW e, NEW n
  PROVE  AccountTold(org, e, n) = AccountOf(org, trail[org], e, n)
BY DEF AccountTold, AccountOf, LastOf, LastK, AccountEvents, TellsAccount, AccountActions,
       RoleGiven, InvitedEvents, TellsInvited

LEMMA ToldMember ==
  ASSUME NEW org, NEW e, NEW p, NEW n
  PROVE  MemberTold(org, e, p, n) = Joined(trail[org], e, p, n)
BY DEF MemberTold, Joined, LastOf, LastK, MemberEvents, TellsMember

LEMMA LastIn ==
  ASSUME NEW n \in Nat, NEW S, S \subseteq 1 .. n
  PROVE  /\ LastK(S) \in 0 .. n /\ (LastK(S) # 0 => LastK(S) \in S)
         /\ S # {} => LastK(S) # 0
         /\ S = {} => LastK(S) = 0
<1>1. {0} \cup S \subseteq 0 .. n /\ {0} \cup S # {}
  <2>1. \A x \in {0} \cup S : x \in 0 .. n
    OBVIOUS
  <2> QED BY <2>1
<1>2. PICK m : m = LastK(S)
  OBVIOUS
<1> DEFINE T == {0} \cup S
<1>3. m = Max(T)
  BY <1>2 DEF LastK
<1>4. T \subseteq 0 .. n /\ T # {}
  BY <1>1
<1> HIDE DEF T
<1>5. m \in T /\ \A y \in T : m >= y
  BY <1>3, <1>4, MaxIsGreatest
<1>6. m \in 0 .. n /\ (m # 0 => m \in S) /\ (S # {} => m # 0) /\ (S = {} => m = 0)
  <2>1. m \in 0 .. n
    BY <1>4, <1>5
  <2>2. m = 0 \/ m \in S
    BY <1>5 DEF T
  <2>3. ASSUME NEW y \in S PROVE m # 0
    <3>1. y \in 1 .. n /\ m >= y
      BY <1>5 DEF T
    <3> QED BY <3>1
  <2> QED BY <2>1, <2>2, <2>3
<1> QED BY <1>2, <1>6

\* The last event is the new one, if it is one of those.
LEMMA LastIsNew ==
  ASSUME NEW n \in Nat, NEW S, S \subseteq 1 .. n
  PROVE  LastK(S \cup {n + 1}) = n + 1
<1> DEFINE T == {0} \cup (S \cup {n + 1})
<1>1. T \subseteq 0 .. n + 1 /\ n + 1 \in T /\ n + 1 \in Nat
  OBVIOUS
<1>2. PICK m : m = LastK(S \cup {n + 1})
  OBVIOUS
<1>3. m = Max(T)
  BY <1>2 DEF LastK
<1> HIDE DEF T
<1>4. m \in T /\ m >= n + 1
  BY <1>1, <1>3, MaxIsGreatest
<1>5. m = n + 1
  BY <1>1, <1>4
<1> QED BY <1>2, <1>5

LEMMA Appended ==
  ASSUME NEW t, IsSeq(t), NEW ev
  PROVE  /\ IsSeq(Append(t, ev)) /\ Len(t) \in Nat /\ Len(Append(t, ev)) = Len(t) + 1
         /\ \A k \in 1 .. Len(t) : Append(t, ev)[k] = t[k]
         /\ Append(t, ev)[Len(t) + 1] = ev
<1>1. PICK S : t \in Seq(S)
  BY DEF IsSeq
<1>2. t \in Seq(S \cup {ev})
  BY <1>1
<1>3. Append(t, ev) \in Seq(S \cup {ev})
  BY <1>2
<1> QED BY <1>2, <1>3 DEF IsSeq

\* What is told up to an event does not change with later ones.
LEMMA PastStays ==
  ASSUME NEW t, IsSeq(t), NEW ev, NEW n \in 0 .. Len(t)
  PROVE  /\ \A e : AccountEvents(Append(t, ev), e, n) = AccountEvents(t, e, n)
         /\ \A e, p : MemberEvents(Append(t, ev), e, p, n) = MemberEvents(t, e, p, n)
         /\ \A i : InvitedEvents(Append(t, ev), i, n) = InvitedEvents(t, i, n)
<1>1. \A k \in 1 .. n : Append(t, ev)[k] = t[k]
  BY Appended
<1> QED BY <1>1 DEF AccountEvents, MemberEvents, InvitedEvents

LEMMA RoleGivenStays ==
  ASSUME NEW t, IsSeq(t), NEW ev, NEW n \in 0 .. Len(t), NEW i, InvitedEvents(t, i, n) # {}
  PROVE  RoleGiven(Append(t, ev), i, n) = RoleGiven(t, i, n)
<1>1. Len(t) \in Nat /\ n \in Nat /\ \A k \in 1 .. Len(t) : Append(t, ev)[k] = t[k]
  BY Appended
<1>2. InvitedEvents(t, i, n) \subseteq 1 .. n
  BY DEF InvitedEvents
<1>3. LastK(InvitedEvents(t, i, n)) \in 1 .. Len(t)
  BY <1>1, <1>2, LastIn
<1> QED BY <1>1, <1>3, PastStays DEF RoleGiven

LEMMA AccountStays ==
  ASSUME NEW t, IsSeq(t), NEW ev, NEW n \in 0 .. Len(t), InvitedFirst(t), NEW org, NEW e
  PROVE  AccountOf(org, Append(t, ev), e, n) = AccountOf(org, t, e, n)
<1> DEFINE k == LastK(AccountEvents(t, e, n))
           u == Append(t, ev)
<1>1. Len(t) \in Nat /\ n \in Nat /\ \A j \in 1 .. Len(t) : u[j] = t[j]
  BY Appended
<1>2. AccountEvents(t, e, n) \subseteq 1 .. n
  BY DEF AccountEvents
<1>3. k \in 0 .. n
  BY <1>1, <1>2, LastIn
<1>4. LastK(AccountEvents(u, e, n)) = k
  BY PastStays
<1> HIDE DEF k
<1>5. CASE k = 0
  BY <1>4, <1>5 DEF AccountOf, k
<1>6. CASE k # 0
  <2>1. k \in 1 .. Len(t) /\ k \in 0 .. Len(t) /\ u[k] = t[k]
    BY <1>1, <1>3, <1>6
  <2>2. t[k].action = "invitation.accepted" =>
          RoleGiven(u, t[k].invitation, k) = RoleGiven(t, t[k].invitation, k)
    BY <2>1, RoleGivenStays DEF InvitedFirst
  <2>3. AccountOf(org, t, e, n)
          = [org |-> org, active |-> t[k].active,
             role |-> IF t[k].action = "invitation.accepted"
                      THEN RoleGiven(t, t[k].invitation, k) ELSE t[k].role]
    BY <1>6 DEF AccountOf, k
  <2>4. AccountOf(org, u, e, n)
          = [org |-> org, active |-> u[k].active,
             role |-> IF u[k].action = "invitation.accepted"
                      THEN RoleGiven(u, u[k].invitation, k) ELSE u[k].role]
    <3> HIDE DEF u
    <3> QED BY <1>4, <1>6, Zenon DEF AccountOf
  <2> QED BY <2>1, <2>2, <2>3, <2>4
<1> QED BY <1>5, <1>6

\* The events up to n, and the next one.
Grown(S, n) == S \cup {n + 1}

\* What the new event adds.
LEMMA NewEvents ==
  ASSUME NEW t, IsSeq(t), NEW ev, NEW n, n = Len(t)
  PROVE  /\ \A e : /\ TellsAccount(ev, e) => AccountEvents(Append(t, ev), e, n + 1) =
                                               Grown(AccountEvents(t, e, n), n)
                   /\ ~ TellsAccount(ev, e) => AccountEvents(Append(t, ev), e, n + 1) =
                                               AccountEvents(t, e, n)
         /\ \A e, p : /\ TellsMember(ev, e, p) => MemberEvents(Append(t, ev), e, p, n + 1) =
                                                  Grown(MemberEvents(t, e, p, n), n)
                      /\ ~ TellsMember(ev, e, p) => MemberEvents(Append(t, ev), e, p, n + 1) =
                                                    MemberEvents(t, e, p, n)
         /\ \A i : /\ TellsInvited(ev, i) => InvitedEvents(Append(t, ev), i, n + 1) =
                                               Grown(InvitedEvents(t, i, n), n)
                   /\ ~ TellsInvited(ev, i) => InvitedEvents(Append(t, ev), i, n + 1) =
                                               InvitedEvents(t, i, n)
<1> DEFINE u == Append(t, ev)
<1>1. n \in Nat /\ (\A k \in 1 .. n : u[k] = t[k]) /\ u[n + 1] = ev
  BY Appended
<1>2. 1 .. n + 1 = (1 .. n) \cup {n + 1}
  BY <1>1
<1> HIDE DEF u
<1>3. ASSUME NEW e
      PROVE  /\ TellsAccount(ev, e) =>
                  AccountEvents(u, e, n + 1) = Grown(AccountEvents(t, e, n), n)
             /\ ~ TellsAccount(ev, e) => AccountEvents(u, e, n + 1) = AccountEvents(t, e, n)
  BY <1>1, <1>2 DEF AccountEvents, Grown
<1>4. ASSUME NEW e, NEW p
      PROVE  /\ TellsMember(ev, e, p) =>
                  MemberEvents(u, e, p, n + 1) = Grown(MemberEvents(t, e, p, n), n)
             /\ ~ TellsMember(ev, e, p) => MemberEvents(u, e, p, n + 1) = MemberEvents(t, e, p, n)
  BY <1>1, <1>2 DEF MemberEvents, Grown
<1>5. ASSUME NEW i
      PROVE  /\ TellsInvited(ev, i) =>
                  InvitedEvents(u, i, n + 1) = Grown(InvitedEvents(t, i, n), n)
             /\ ~ TellsInvited(ev, i) => InvitedEvents(u, i, n + 1) = InvitedEvents(t, i, n)
  BY <1>1, <1>2 DEF InvitedEvents, Grown
<1> QED BY <1>3, <1>4, <1>5, Zenon DEF u

\* It is the last one of those that it is one of.
LEMMA NewIsLast ==
  ASSUME NEW t, IsSeq(t), NEW ev, NEW n, n = Len(t)
  PROVE  /\ \A e : TellsAccount(ev, e) => LastK(AccountEvents(Append(t, ev), e, n + 1)) = n + 1
         /\ \A e, p : TellsMember(ev, e, p) =>
              LastK(MemberEvents(Append(t, ev), e, p, n + 1)) = n + 1
         /\ \A i : TellsInvited(ev, i) =>
              /\ LastK(InvitedEvents(Append(t, ev), i, n + 1)) = n + 1
              /\ InvitedEvents(Append(t, ev), i, n + 1) # {}
<1>1. n \in Nat
  BY Appended
<1>2. /\ \A e : AccountEvents(t, e, n) \subseteq 1 .. n
      /\ \A e, p : MemberEvents(t, e, p, n) \subseteq 1 .. n
      /\ \A i : InvitedEvents(t, i, n) \subseteq 1 .. n
  BY DEF AccountEvents, MemberEvents, InvitedEvents
<1>3. \A S : S \subseteq 1 .. n => LastK(Grown(S, n)) = n + 1 /\ Grown(S, n) # {}
  BY <1>1, LastIsNew DEF Grown
<1>4. ASSUME NEW e, TellsAccount(ev, e)
      PROVE  LastK(AccountEvents(Append(t, ev), e, n + 1)) = n + 1
  <2>1. AccountEvents(Append(t, ev), e, n + 1) = Grown(AccountEvents(t, e, n), n)
    BY <1>4, NewEvents
  <2>2. PICK S : S = AccountEvents(t, e, n)
    OBVIOUS
  <2>3. S \subseteq 1 .. n
    BY <1>2, <2>2
  <2> QED BY <1>3, <2>1, <2>2, <2>3
<1>5. ASSUME NEW e, NEW p, TellsMember(ev, e, p)
      PROVE  LastK(MemberEvents(Append(t, ev), e, p, n + 1)) = n + 1
  <2>1. MemberEvents(Append(t, ev), e, p, n + 1) = Grown(MemberEvents(t, e, p, n), n)
    BY <1>5, NewEvents
  <2>2. PICK S : S = MemberEvents(t, e, p, n)
    OBVIOUS
  <2>3. S \subseteq 1 .. n
    BY <1>2, <2>2
  <2> QED BY <1>3, <2>1, <2>2, <2>3
<1>6. ASSUME NEW i, TellsInvited(ev, i)
      PROVE  /\ LastK(InvitedEvents(Append(t, ev), i, n + 1)) = n + 1
             /\ InvitedEvents(Append(t, ev), i, n + 1) # {}
  <2>1. InvitedEvents(Append(t, ev), i, n + 1) = Grown(InvitedEvents(t, i, n), n)
    BY <1>6, NewEvents
  <2>2. PICK S : S = InvitedEvents(t, i, n)
    OBVIOUS
  <2>3. S \subseteq 1 .. n
    BY <1>2, <2>2
  <2> QED BY <1>3, <2>1, <2>2, <2>3
<1> QED BY <1>4, <1>5, <1>6

-----------------------------------------------------------------------------
(* The trail and the tables.                                               *)

\* The trail of o tells the account of every user of o.
Accounts(o) == \A e \in Emails :
  AccountOf(o, trail[o], e, Len(trail[o])) \in {NoAccount, user[e]}

\* It tells the members of the projects; of those who are not users of o it tells nothing.
Members(o) == \A e \in Emails, p \in Projects :
  Joined(trail[o], e, p, Len(trail[o])) <=> user[e].org = o /\ <<p, e>> \in member

\* An event is about a user of o, or about an invitation of o; who it ends stays ended.
EventHolds(o, ev) ==
  /\ ev.target \in Emails /\ ev.action # "invitation.created" => user[ev.target].org = o
  /\ ev.action \in Ended => \A i \in Invitations : ev.invitation = i =>
       invitation[i].org = o /\ ~ Pending(i)
EventsHold(o) == \A k \in 1 .. Len(trail[o]) : EventHolds(o, trail[o][k])

\* An invitation of o is told, with the role it gives.
InvitesTold(o) == \A i \in Invitations : invitation[i].org = o =>
  /\ InvitedEvents(trail[o], i, Len(trail[o])) # {}
  /\ RoleGiven(trail[o], i, Len(trail[o])) = invitation[i].role

IsEnd(ev, i) == ev.invitation = i /\ ev.action \in Ended

EndsOnce(o) == \A i \in Invitations : \A k, l \in 1 .. Len(trail[o]) :
  IsEnd(trail[o][k], i) /\ IsEnd(trail[o][l], i) => k = l

Unasked == {"organization.bootstrap", "invitation.accepted"}

Authorized(o) == \A k \in 1 .. Len(trail[o]) : trail[o][k].action \notin Unasked =>
  AccountOf(o, trail[o], trail[o][k].actor, k - 1) \in
    {[org |-> o, role |-> "admin", active |-> TRUE], NoAccount}

TrailHolds(o) ==
  /\ IsSeq(trail[o]) /\ InvitedFirst(trail[o])
  /\ Accounts(o) /\ Members(o) /\ EventsHold(o) /\ InvitesTold(o) /\ EndsOnce(o) /\ Authorized(o)

MembersAreUsers == \A e \in Emails : \A p : <<p, e>> \in member => IsUser(e)

TrailInv == AdminTypeOK /\ MembersAreUsers /\ \A o \in Organizations : TrailHolds(o)

\* A step that adds an event to the trail of org, and changes the tables as the event tells.
Appends(org, ev) == org \in Organizations /\ trail' = [trail EXCEPT ![org] = Append(@, ev)]

UsersAs(org, ev) == \A e \in Emails :
  IF TellsAccount(ev, e)
  THEN /\ user'[e] = [org |-> org, active |-> ev.active,
                      role |-> IF ev.action = "invitation.accepted"
                               THEN RoleGiven(trail[org], ev.invitation, Len(trail[org]))
                               ELSE ev.role]
       /\ user[e].org \in {org, Nobody}
  ELSE user'[e] = user[e]

MembersAs(org, ev) == \A e \in Emails, p \in Projects :
  IF TellsMember(ev, e, p)
  THEN user'[e].org = org /\ (<<p, e>> \in member' <=> ev.action # "project.member_removed")
  ELSE <<p, e>> \in member' <=> <<p, e>> \in member

InvitationsAs(org, ev) == \A i \in Invitations :
  /\ invitation[i].org \in Organizations =>
       /\ invitation'[i].org = invitation[i].org /\ invitation'[i].role = invitation[i].role
       /\ ~ Pending(i) => ~ Pending(i)'
  /\ IF TellsInvited(ev, i)
     THEN invitation[i].org = Nobody /\ invitation'[i].org = org /\ invitation'[i].role = ev.role
     ELSE invitation'[i].org = invitation[i].org
  /\ IsEnd(ev, i) => invitation[i].org = org /\ Pending(i) /\ ~ Pending(i)'

EventAs(org, ev) ==
  /\ ev.target \in Emails /\ ev.action # "invitation.created" => user'[ev.target].org = org
  /\ ev.action = "invitation.accepted" =>
       InvitedEvents(trail[org], ev.invitation, Len(trail[org])) # {}
  /\ ev.action \notin Unasked =>
       ev.actor \in Emails /\ user[ev.actor] = [org |-> org, role |-> "admin", active |-> TRUE]

LEMMA OrgsStay ==
  ASSUME AdminTypeOK, NEW org \in Organizations, NEW ev, UsersAs(org, ev), NEW e \in Emails
  PROVE  /\ user[e].org \in Organizations => user'[e].org = user[e].org
         /\ \A o \in Organizations : o # org => (user'[e].org = o <=> user[e].org = o)
         /\ user[e].org \in Organizations \cup {Nobody}
<1>1. user[e].org \in Organizations \cup {Nobody}
  BY DEF AdminTypeOK, Account, NoAccount
<1>2. Nobody \notin Organizations
  BY NobodyIsNoOrganization
<1>3. CASE TellsAccount(ev, e)
  <2>1. user'[e].org = org /\ user[e].org \in {org, Nobody}
    BY <1>3 DEF UsersAs
  <2> QED BY <1>1, <1>2, <2>1
<1>4. CASE ~ TellsAccount(ev, e)
  BY <1>1, <1>4 DEF UsersAs
<1> QED BY <1>3, <1>4

\* What the step leaves of the trails of the other organizations.
LEMMA OtherTrails ==
  ASSUME TrailInv, NEW org, NEW ev, Appends(org, ev), UsersAs(org, ev), MembersAs(org, ev),
         InvitationsAs(org, ev), NEW o \in Organizations, o # org
  PROVE  TrailHolds(o)'
<1>1. trail'[o] = trail[o] /\ TrailHolds(o) /\ org \in Organizations /\ AdminTypeOK
  BY DEF Appends, TrailInv, AdminTypeOK
<1>2. Nobody \notin Organizations
  BY NobodyIsNoOrganization
<1>3. Accounts(o)'
  <2> SUFFICES ASSUME NEW e \in Emails
               PROVE  AccountOf(o, trail[o], e, Len(trail[o])) \in {NoAccount, user'[e]}
    BY <1>1 DEF Accounts
  <2>1. AccountOf(o, trail[o], e, Len(trail[o])) \in {NoAccount, user[e]}
    BY <1>1 DEF TrailHolds, Accounts
  <2>2. CASE AccountOf(o, trail[o], e, Len(trail[o])) # NoAccount
    <3>1. AccountOf(o, trail[o], e, Len(trail[o])).org = o
      BY <2>2 DEF AccountOf
    <3>2. user[e].org = o
      BY <2>1, <2>2, <3>1
    <3>3. ~ TellsAccount(ev, e)
      BY <1>2, <3>2 DEF UsersAs
    <3> QED BY <2>1, <3>3 DEF UsersAs
  <2> QED BY <2>2
<1>4. Members(o)'
  <2> SUFFICES ASSUME NEW e \in Emails, NEW p \in Projects
               PROVE  Joined(trail[o], e, p, Len(trail[o])) <=>
                        user'[e].org = o /\ <<p, e>> \in member'
    BY <1>1 DEF Members
  <2>1. Joined(trail[o], e, p, Len(trail[o])) <=> user[e].org = o /\ <<p, e>> \in member
    BY <1>1 DEF TrailHolds, Members
  <2>2. user'[e].org = o <=> user[e].org = o
    BY <1>1, OrgsStay
  <2>3. user'[e].org = o => (<<p, e>> \in member' <=> <<p, e>> \in member)
    BY DEF MembersAs
  <2> QED BY <2>1, <2>2, <2>3
<1>5. EventsHold(o)'
  <2> SUFFICES ASSUME NEW k \in 1 .. Len(trail[o]), NEW x, x = trail[o][k], EventHolds(o, x)
               PROVE  EventHolds(o, x)'
    BY <1>1 DEF EventsHold, TrailHolds
  <2>1. x.target \in Emails /\ x.action # "invitation.created" => user'[x.target].org = o
    BY <1>1, OrgsStay DEF EventHolds
  <2>2. x.action \in Ended => \A i \in Invitations : x.invitation = i =>
          invitation'[i].org = o /\ ~ Pending(i)'
    BY <1>1 DEF EventHolds, InvitationsAs
  <2> QED BY <2>1, <2>2 DEF EventHolds
<1>6. InvitesTold(o)'
  <2> SUFFICES ASSUME NEW i \in Invitations, invitation'[i].org = o
               PROVE  /\ InvitedEvents(trail[o], i, Len(trail[o])) # {}
                      /\ RoleGiven(trail[o], i, Len(trail[o])) = invitation'[i].role
    BY <1>1 DEF InvitesTold
  <2>1. invitation[i].org = o /\ invitation'[i].role = invitation[i].role
    BY <1>1 DEF InvitationsAs
  <2> QED BY <1>1, <2>1 DEF TrailHolds, InvitesTold
<1>7. EndsOnce(o)' /\ Authorized(o)'
  BY <1>1 DEF TrailHolds, EndsOnce, Authorized
<1> QED BY <1>1, <1>3, <1>4, <1>5, <1>6, <1>7 DEF TrailHolds

\* And what it makes of the trail of its own organization.
LEMMA OwnAccounts ==
  ASSUME TrailInv, NEW org, NEW ev, Appends(org, ev), UsersAs(org, ev), EventAs(org, ev)
  PROVE  Accounts(org)'
<1> PICK t, u, n : t = trail[org] /\ u = Append(t, ev) /\ n = Len(t)
  OBVIOUS
<1>1. TrailHolds(org) /\ trail'[org] = u /\ org \in Organizations
  BY DEF Appends, TrailInv, AdminTypeOK
<1>2. IsSeq(t) /\ InvitedFirst(t)
  BY <1>1 DEF TrailHolds
<1>3. n \in Nat /\ Len(u) = n + 1 /\ u[n + 1] = ev /\ \A k \in 1 .. n : u[k] = t[k]
  BY <1>2, Appended
<1> SUFFICES ASSUME NEW e \in Emails
             PROVE  AccountOf(org, u, e, n + 1) \in {NoAccount, user'[e]}
  BY <1>1, <1>3 DEF Accounts
<1>4. AccountOf(org, u, e, n) = AccountOf(org, t, e, n)
  BY <1>2, <1>3, AccountStays
<1>5. AccountEvents(u, e, n) = AccountEvents(t, e, n) /\ AccountEvents(t, e, n) \subseteq 1 .. n
  BY <1>2, <1>3, PastStays DEF AccountEvents
<1>6. CASE ~ TellsAccount(ev, e)
  <2>1. AccountEvents(u, e, n + 1) = AccountEvents(t, e, n)
    BY <1>2, <1>6, NewEvents
  <2>2. AccountOf(org, u, e, n + 1) = AccountOf(org, u, e, n)
    BY <1>5, <2>1 DEF AccountOf
  <2>3. user'[e] = user[e]
    BY <1>6 DEF UsersAs
  <2> QED BY <1>1, <1>4, <2>2, <2>3 DEF TrailHolds, Accounts
<1>7. CASE TellsAccount(ev, e)
  <2>1. TellsAccount(ev, e)
    BY <1>7
  <2>2. LastK(AccountEvents(u, e, n + 1)) = n + 1
    BY <1>2, <1>7, NewIsLast
  <2>3. ASSUME ev.action = "invitation.accepted"
        PROVE  RoleGiven(u, ev.invitation, n + 1) = RoleGiven(t, ev.invitation, n)
    <3>1. ~ TellsInvited(ev, ev.invitation)
      BY <2>3 DEF TellsInvited
    <3>2. InvitedEvents(u, ev.invitation, n + 1) = InvitedEvents(t, ev.invitation, n)
      BY <1>2, <3>1, NewEvents
    <3>3. InvitedEvents(t, ev.invitation, n) # {}
      BY <2>3 DEF EventAs
    <3>4. InvitedEvents(u, ev.invitation, n) = InvitedEvents(t, ev.invitation, n)
      BY <1>2, <1>3, PastStays
    <3>5. RoleGiven(u, ev.invitation, n) = RoleGiven(t, ev.invitation, n)
      BY <1>2, <1>3, <3>3, RoleGivenStays
    <3> QED BY <3>2, <3>4, <3>5 DEF RoleGiven
  <2>4. AccountOf(org, u, e, n + 1)
          = [org |-> org, active |-> ev.active,
             role |-> IF ev.action = "invitation.accepted"
                      THEN RoleGiven(u, ev.invitation, n + 1) ELSE ev.role]
    <3>1. n + 1 # 0
      BY <1>3
    <3> QED BY <1>3, <2>2, <3>1 DEF AccountOf
  <2>5. user'[e] = [org |-> org, active |-> ev.active,
                    role |-> IF ev.action = "invitation.accepted"
                             THEN RoleGiven(t, ev.invitation, n) ELSE ev.role]
    BY <1>7 DEF UsersAs
  <2> QED BY <2>3, <2>4, <2>5
<1> QED BY <1>6, <1>7

LEMMA OwnMembers ==
  ASSUME TrailInv, NEW org, NEW ev, Appends(org, ev), UsersAs(org, ev), MembersAs(org, ev)
  PROVE  Members(org)'
<1> PICK t, u, n : t = trail[org] /\ u = Append(t, ev) /\ n = Len(t)
  OBVIOUS
<1>1. TrailHolds(org) /\ trail'[org] = u /\ org \in Organizations /\ AdminTypeOK
      /\ MembersAreUsers
  BY DEF Appends, TrailInv, AdminTypeOK
<1>2. IsSeq(t)
  BY <1>1 DEF TrailHolds
<1>3. n \in Nat /\ Len(u) = n + 1 /\ u[n + 1] = ev /\ \A k \in 1 .. n : u[k] = t[k]
  BY <1>2, Appended
<1> SUFFICES ASSUME NEW e \in Emails, NEW p \in Projects
             PROVE  Joined(u, e, p, n + 1) <=> user'[e].org = org /\ <<p, e>> \in member'
  BY <1>1, <1>3 DEF Members
<1>4. MemberEvents(t, e, p, n) \subseteq 1 .. n
  BY DEF MemberEvents
<1>5. CASE TellsMember(ev, e, p)
  <2>2. LastK(MemberEvents(u, e, p, n + 1)) = n + 1
    BY <1>2, <1>5, NewIsLast
  <2>3. Joined(u, e, p, n + 1) <=> ev.action # "project.member_removed"
    BY <1>3, <2>2 DEF Joined
  <2> QED BY <1>5, <2>3 DEF MembersAs
<1>6. CASE ~ TellsMember(ev, e, p)
  <2>1. MemberEvents(u, e, p, n + 1) = MemberEvents(t, e, p, n)
    BY <1>2, <1>6, NewEvents
  <2>2. PICK k : k = LastK(MemberEvents(t, e, p, n))
    OBVIOUS
  <2>3. k \in 0 .. n
    BY <1>3, <1>4, <2>2, LastIn
  <2>4. k # 0 => u[k] = t[k]
    BY <1>3, <2>3
  <2>5. Joined(u, e, p, n + 1) <=> Joined(t, e, p, n)
    BY <2>1, <2>2, <2>4 DEF Joined
  <2>6. Joined(t, e, p, n) <=> user[e].org = org /\ <<p, e>> \in member
    BY <1>1 DEF TrailHolds, Members
  <2>7. <<p, e>> \in member' <=> <<p, e>> \in member
    BY <1>6 DEF MembersAs
  <2>8. <<p, e>> \in member => user[e].org # Nobody
    BY <1>1 DEF MembersAreUsers, IsUser
  <2>9. <<p, e>> \in member => (user'[e].org = org <=> user[e].org = org)
    <3>1. CASE TellsAccount(ev, e)
      <4>1. user'[e].org = org /\ user[e].org \in {org, Nobody}
        BY <3>1 DEF UsersAs
      <4> QED BY <2>8, <4>1
    <3>2. CASE ~ TellsAccount(ev, e)
      BY <3>2 DEF UsersAs
    <3> QED BY <3>1, <3>2
  <2> QED BY <2>5, <2>6, <2>7, <2>9
<1> QED BY <1>5, <1>6

LEMMA OwnEvents ==
  ASSUME TrailInv, NEW org, NEW ev, Appends(org, ev), UsersAs(org, ev), InvitationsAs(org, ev),
         EventAs(org, ev)
  PROVE  /\ IsSeq(trail'[org]) /\ InvitedFirst(trail'[org])
         /\ EventsHold(org)' /\ InvitesTold(org)' /\ EndsOnce(org)' /\ Authorized(org)'
<1> PICK t, u, n : t = trail[org] /\ u = Append(t, ev) /\ n = Len(t)
  OBVIOUS
<1>1. TrailHolds(org) /\ trail'[org] = u /\ org \in Organizations /\ AdminTypeOK
  BY DEF Appends, TrailInv, AdminTypeOK
<1>2. IsSeq(t) /\ InvitedFirst(t)
  BY <1>1 DEF TrailHolds
<1>3. n \in Nat /\ Len(u) = n + 1 /\ u[n + 1] = ev /\ (\A k \in 1 .. n : u[k] = t[k]) /\ IsSeq(u)
  BY <1>2, Appended
<1>4. \A k \in 1 .. n + 1 : k \in 1 .. n \/ k = n + 1
  BY <1>3
<1>5. ev.action = "invitation.accepted" => InvitedEvents(t, ev.invitation, n) # {}
  BY DEF EventAs
<1>6. InvitedFirst(u)
  <2> SUFFICES ASSUME NEW k \in 1 .. n + 1, u[k].action = "invitation.accepted"
               PROVE  InvitedEvents(u, u[k].invitation, k) # {}
    BY <1>3 DEF InvitedFirst
  <2>1. CASE k \in 1 .. n
    <3>1. u[k] = t[k] /\ k \in 0 .. n
      BY <1>3, <2>1
    <3>2. InvitedEvents(t, t[k].invitation, k) # {}
      BY <1>2, <2>1, <3>1 DEF InvitedFirst
    <3>3. InvitedEvents(u, t[k].invitation, k) = InvitedEvents(t, t[k].invitation, k)
      BY <1>2, <3>1, PastStays
    <3> QED BY <3>1, <3>2, <3>3
  <2>2. CASE k = n + 1
    <3>1. InvitedEvents(t, ev.invitation, n) \subseteq InvitedEvents(u, ev.invitation, n + 1)
      <4>1. ~ TellsInvited(ev, ev.invitation)
        BY <2>2, <1>3 DEF TellsInvited
      <4> QED BY <1>2, <4>1, NewEvents
    <3> QED BY <1>3, <1>5, <2>2, <3>1
  <2> QED BY <1>4, <2>1, <2>2
<1>7. EventsHold(org)'
  <2> SUFFICES ASSUME NEW k \in 1 .. n + 1, NEW x, x = u[k] PROVE EventHolds(org, x)'
    BY <1>1, <1>3 DEF EventsHold
  <2>1. CASE k \in 1 .. n
    <3>1. x = t[k]
      BY <1>3, <2>1
    <3>2. EventHolds(org, x)
      BY <1>1, <2>1, <3>1 DEF TrailHolds, EventsHold
    <3>3. x.target \in Emails /\ x.action # "invitation.created" => user'[x.target].org = org
      BY <1>1, <3>2, OrgsStay DEF EventHolds
    <3>4. x.action \in Ended => \A i \in Invitations : x.invitation = i =>
            invitation'[i].org = org /\ ~ Pending(i)'
      BY <1>1, <3>2 DEF EventHolds, InvitationsAs
    <3> QED BY <3>3, <3>4 DEF EventHolds
  <2>2. CASE k = n + 1
    <3>1. ev.target \in Emails /\ ev.action # "invitation.created" => user'[ev.target].org = org
      BY DEF EventAs
    <3>2. ev.action \in Ended => \A i \in Invitations : ev.invitation = i =>
            invitation'[i].org = org /\ ~ Pending(i)'
      <4> SUFFICES ASSUME ev.action \in Ended, NEW i \in Invitations, ev.invitation = i
                   PROVE  invitation'[i].org = org /\ ~ Pending(i)'
        OBVIOUS
      <4>1. invitation[i].org = org /\ ~ Pending(i)'
        BY DEF InvitationsAs, IsEnd
      <4> QED BY <1>1, <4>1 DEF InvitationsAs
    <3>3. x = ev
      BY <1>3, <2>2
    <3> QED BY <3>1, <3>2, <3>3 DEF EventHolds
  <2> QED BY <1>4, <2>1, <2>2
<1>8. InvitesTold(org)'
  <2> SUFFICES ASSUME NEW i \in Invitations, invitation'[i].org = org
               PROVE  InvitedEvents(u, i, n + 1) # {} /\ RoleGiven(u, i, n + 1) = invitation'[i].role
    BY <1>1, <1>3 DEF InvitesTold
  <2>1. CASE TellsInvited(ev, i)
    <3>3. LastK(InvitedEvents(u, i, n + 1)) = n + 1 /\ InvitedEvents(u, i, n + 1) # {}
      BY <1>2, <2>1, NewIsLast
    <3>4. invitation'[i].role = ev.role
      BY <2>1 DEF InvitationsAs
    <3> QED BY <1>3, <3>3, <3>4 DEF RoleGiven
  <2>2. CASE ~ TellsInvited(ev, i)
    <3>1. InvitedEvents(u, i, n + 1) = InvitedEvents(t, i, n)
      BY <1>2, <2>2, NewEvents
    <3>2. invitation[i].org = org /\ invitation'[i].role = invitation[i].role
      BY <1>1, <2>2 DEF InvitationsAs
    <3>3. InvitedEvents(t, i, n) # {} /\ RoleGiven(t, i, n) = invitation[i].role
      BY <1>1, <3>2 DEF TrailHolds, InvitesTold
    <3>4. n \in 0 .. n
      BY <1>3
    <3>5. RoleGiven(u, i, n) = RoleGiven(t, i, n)
      BY <1>2, <3>3, <3>4, RoleGivenStays
    <3>6. InvitedEvents(u, i, n) = InvitedEvents(t, i, n)
      BY <1>2, <3>4, PastStays
    <3> QED BY <3>1, <3>2, <3>3, <3>5, <3>6 DEF RoleGiven
  <2> QED BY <2>1, <2>2
<1>9. EndsOnce(org)'
  <2> SUFFICES ASSUME NEW i \in Invitations, NEW k \in 1 .. n + 1, NEW l \in 1 .. n + 1,
                      IsEnd(u[k], i), IsEnd(u[l], i)
               PROVE  k = l
    BY <1>1, <1>3 DEF EndsOnce
  <2>1. \A j \in 1 .. n : ~ (IsEnd(t[j], i) /\ IsEnd(ev, i))
    <3> SUFFICES ASSUME NEW j \in 1 .. n, IsEnd(t[j], i), IsEnd(ev, i) PROVE FALSE
      OBVIOUS
    <3>1. Pending(i)
      BY DEF InvitationsAs
    <3>2. EventHolds(org, t[j])
      BY <1>1 DEF TrailHolds, EventsHold
    <3> QED BY <3>1, <3>2 DEF EventHolds, IsEnd
  <2>2. \A j, m \in 1 .. n : IsEnd(t[j], i) /\ IsEnd(t[m], i) => j = m
    BY <1>1 DEF TrailHolds, EndsOnce
  <2> QED BY <1>3, <1>4, <2>1, <2>2
<1>10. Authorized(org)'
  <2> SUFFICES ASSUME NEW k \in 1 .. n + 1, u[k].action \notin Unasked
               PROVE  AccountOf(org, u, u[k].actor, k - 1) \in
                        {[org |-> org, role |-> "admin", active |-> TRUE], NoAccount}
    BY <1>1, <1>3 DEF Authorized
  <2>1. k - 1 \in 0 .. n
    BY <1>3
  <2>2. \A e : AccountOf(org, u, e, k - 1) = AccountOf(org, t, e, k - 1)
    BY <1>2, <2>1, AccountStays
  <2>3. CASE k \in 1 .. n
    BY <1>1, <1>3, <2>2, <2>3 DEF TrailHolds, Authorized
  <2>4. CASE k = n + 1
    <3>1. ev.actor \in Emails /\ user[ev.actor] = [org |-> org, role |-> "admin", active |-> TRUE]
      BY <1>3, <2>4 DEF EventAs
    <3>2. AccountOf(org, t, ev.actor, n) \in {NoAccount, user[ev.actor]}
      BY <1>1, <3>1 DEF TrailHolds, Accounts
    <3>3. k - 1 = n /\ u[k] = ev
      BY <1>3, <2>4
    <3> QED BY <2>2, <3>1, <3>2, <3>3
  <2> QED BY <1>4, <2>3, <2>4
<1> QED BY <1>1, <1>3, <1>6, <1>7, <1>8, <1>9, <1>10

LEMMA AppendStep ==
  ASSUME TrailInv, NEW org, NEW ev, Appends(org, ev), UsersAs(org, ev), MembersAs(org, ev),
         InvitationsAs(org, ev), EventAs(org, ev), AdminTypeOK', MembersAreUsers'
  PROVE  TrailInv'
<1>1. ASSUME NEW o \in Organizations PROVE TrailHolds(o)'
  <2>1. CASE o = org
    BY <2>1, OwnAccounts, OwnMembers, OwnEvents DEF TrailHolds
  <2>2. CASE o # org
    BY <2>2, OtherTrails
  <2> QED BY <2>1, <2>2
<1> QED BY <1>1 DEF TrailInv

-----------------------------------------------------------------------------
(* The steps.                                                              *)

InvitationsStay == \A i \in Invitations :
  /\ invitation'[i].org = invitation[i].org /\ invitation'[i].role = invitation[i].role
  /\ ~ Pending(i) => ~ Pending(i)'

\* A step that adds no event changes nobody's access to a project.
LEMMA QuietStep ==
  ASSUME TrailInv, UNCHANGED trail, AdminTypeOK', MembersAreUsers',
         \A e \in Emails : user'[e] = user[e] \/ user[e].org = Nobody,
         \A e \in Emails, p \in Projects : <<p, e>> \in member' <=> <<p, e>> \in member,
         InvitationsStay
  PROVE  TrailInv'
<1> SUFFICES ASSUME NEW o \in Organizations PROVE TrailHolds(o)'
  BY DEF TrailInv
<1>1. trail' = trail /\ TrailHolds(o) /\ MembersAreUsers
  BY DEF TrailInv
<1>2. o # Nobody
  BY NobodyIsNoOrganization
<1>3. \A e \in Emails : user[e].org = o => user'[e] = user[e]
  BY <1>2
<1>4. Accounts(o)'
  <2> SUFFICES ASSUME NEW e \in Emails
               PROVE  AccountOf(o, trail[o], e, Len(trail[o])) \in {NoAccount, user'[e]}
    BY <1>1 DEF Accounts
  <2>1. AccountOf(o, trail[o], e, Len(trail[o])) \in {NoAccount, user[e]}
    BY <1>1 DEF TrailHolds, Accounts
  <2>2. CASE AccountOf(o, trail[o], e, Len(trail[o])) # NoAccount
    <3>1. AccountOf(o, trail[o], e, Len(trail[o])).org = o
      BY <2>2 DEF AccountOf
    <3>2. user[e].org = o
      BY <2>1, <2>2, <3>1
    <3> QED BY <1>3, <2>1, <3>2
  <2> QED BY <2>2
<1>5. Members(o)'
  <2> SUFFICES ASSUME NEW e \in Emails, NEW p \in Projects
               PROVE  Joined(trail[o], e, p, Len(trail[o])) <=>
                        user'[e].org = o /\ <<p, e>> \in member'
    BY <1>1 DEF Members
  <2>1. Joined(trail[o], e, p, Len(trail[o])) <=> user[e].org = o /\ <<p, e>> \in member
    BY <1>1 DEF TrailHolds, Members
  <2>2. <<p, e>> \in member => user[e].org # Nobody
    BY <1>1 DEF MembersAreUsers, IsUser
  <2>3. <<p, e>> \in member' <=> <<p, e>> \in member
    OBVIOUS
  <2>4. user'[e] = user[e] \/ user[e].org = Nobody
    OBVIOUS
  <2> QED BY <2>1, <2>2, <2>3, <2>4
<1>6. EventsHold(o)'
  <2> SUFFICES ASSUME NEW x, EventHolds(o, x) PROVE EventHolds(o, x)'
    BY <1>1 DEF TrailHolds, EventsHold
  <2>1. x.target \in Emails /\ x.action # "invitation.created" => user'[x.target].org = o
    BY <1>3 DEF EventHolds
  <2>2. x.action \in Ended => \A i \in Invitations : x.invitation = i =>
          invitation'[i].org = o /\ ~ Pending(i)'
    BY DEF EventHolds, InvitationsStay
  <2> QED BY <2>1, <2>2 DEF EventHolds
<1>7. InvitesTold(o)'
  <2> SUFFICES ASSUME NEW i \in Invitations, invitation'[i].org = o
               PROVE  /\ InvitedEvents(trail[o], i, Len(trail[o])) # {}
                      /\ RoleGiven(trail[o], i, Len(trail[o])) = invitation'[i].role
    BY <1>1 DEF InvitesTold
  <2>1. invitation[i].org = o /\ invitation'[i].role = invitation[i].role
    BY DEF InvitationsStay
  <2> QED BY <1>1, <2>1 DEF TrailHolds, InvitesTold
<1>8. EndsOnce(o)' /\ Authorized(o)'
  BY <1>1 DEF TrailHolds, EndsOnce, Authorized
<1> QED BY <1>1, <1>4, <1>5, <1>6, <1>7, <1>8 DEF TrailHolds

\* What insert_user_record changes.
LEMMA Inserted ==
  ASSUME AdminTypeOK, MembersAreUsers, NEW e \in Emails, NEW org \in Organizations, NEW role,
         NEW projects \in SUBSET Projects, Insert(e, org, role, projects)
  PROVE  /\ user[e].org = Nobody /\ user'[e] = [org |-> org, role |-> role, active |-> TRUE]
         /\ \A f \in Emails : f # e => user'[f] = user[f]
         /\ \A f \in Emails, p \in Projects :
              <<p, f>> \in member' <=> <<p, f>> \in member \/ (f = e /\ p \in projects)
         /\ MembersAreUsers'
<1>1. user[e].org = Nobody
  BY DEF Insert, IsUser
<1>2. user' = [user EXCEPT ![e] = [org |-> org, role |-> role, active |-> TRUE]]
  BY DEF Insert
<1>3. user'[e] = [org |-> org, role |-> role, active |-> TRUE]
      /\ \A f \in Emails : f # e => user'[f] = user[f]
  BY <1>2 DEF AdminTypeOK
<1>4. \A p, f : <<p, f>> \in member' <=>
        <<p, f>> \in member \/ (f = e /\ p \in projects \cup {org})
  BY DEF Insert, Default
<1>5. org \notin Projects
  BY AdminAssumption DEF AdminAssumption, Organizations
<1>6. MembersAreUsers'
  <2> SUFFICES ASSUME NEW f \in Emails, NEW p, <<p, f>> \in member' PROVE IsUser(f)'
    BY DEF MembersAreUsers
  <2>1. CASE f = e
    <3>1. user'[f].org = org
      BY <1>3, <2>1
    <3> QED BY <3>1, NobodyIsNoOrganization DEF IsUser
  <2>2. CASE f # e
    <3>1. <<p, f>> \in member
      BY <1>4, <2>2
    <3> QED BY <1>3, <2>2, <3>1 DEF MembersAreUsers, IsUser
  <2> QED BY <2>1, <2>2
<1>7. \A f \in Emails, p \in Projects :
        <<p, f>> \in member' <=> <<p, f>> \in member \/ (f = e /\ p \in projects)
  BY <1>4, <1>5
<1> QED BY <1>1, <1>3, <1>6, <1>7

LEMMA TrailInitially == AdminInit => TrailInv
<1> SUFFICES ASSUME AdminInit PROVE TrailInv
  OBVIOUS
<1>1. AdminTypeOK /\ MembersAreUsers
  BY AdminInitialType DEF AdminInit, MembersAreUsers
<1>2. ASSUME NEW o \in Organizations PROVE TrailHolds(o)
  <2>1. trail[o] = <<>> /\ Len(trail[o]) = 0
    BY DEF AdminInit
  <2>2. 1 .. Len(trail[o]) = {}
    BY <2>1
  <2>3. IsSeq(trail[o])
    BY <2>1 DEF IsSeq
  <2>4. LastK({}) = 0
    <3>1. {} \subseteq 1 .. 0 /\ 0 \in Nat
      OBVIOUS
    <3> QED BY <3>1, LastIn
  <2>5. /\ \A e : AccountEvents(trail[o], e, Len(trail[o])) = {}
        /\ \A e, p : MemberEvents(trail[o], e, p, Len(trail[o])) = {}
    BY <2>2 DEF AccountEvents, MemberEvents
  <2>6. Accounts(o)
    BY <2>4, <2>5 DEF Accounts, AccountOf
  <2>7. Members(o)
    BY <2>4, <2>5 DEF Members, Joined, AdminInit
  <2>8. InvitesTold(o)
    <3>1. \A i \in Invitations : invitation[i].org = Nobody
      BY DEF AdminInit, NotInvited
    <3> QED BY <3>1, NobodyIsNoOrganization DEF InvitesTold
  <2>9. InvitedFirst(trail[o]) /\ EventsHold(o) /\ EndsOnce(o) /\ Authorized(o)
    BY <2>2 DEF InvitedFirst, EventsHold, EndsOnce, Authorized
  <2> QED BY <2>3, <2>6, <2>7, <2>8, <2>9 DEF TrailHolds
<1> QED BY <1>1, <1>2 DEF TrailInv

LEMMA RegisterTrail ==
  ASSUME TrailInv, NEW e \in Emails, NEW role \in Roles, Register(e, role)
  PROVE  TrailInv'
<1>1. AdminTypeOK /\ MembersAreUsers /\ AdminTypeOK'
  BY RegisterType DEF TrailInv
<1>2. Legacy \in Organizations /\ {} \in SUBSET Projects /\ Insert(e, Legacy, role, {})
  BY DEF Organizations, Register
<1>3. /\ user[e].org = Nobody
      /\ \A f \in Emails : f # e => user'[f] = user[f]
      /\ \A f \in Emails, p \in Projects :
           <<p, f>> \in member' <=> <<p, f>> \in member \/ (f = e /\ p \in {})
      /\ MembersAreUsers'
  <2> PICK none \in SUBSET Projects : none = {}
    BY <1>2
  <2> QED BY <1>1, <1>2, Inserted
<1>4. trail' = trail /\ invitation' = invitation
  BY DEF Register
<1>5. \A f \in Emails : user'[f] = user[f] \/ user[f].org = Nobody
  BY <1>3
<1>6. InvitationsStay
  BY <1>4 DEF Pending, InvitationsStay
<1> QED BY <1>1, <1>3, <1>4, <1>5, <1>6, QuietStep

\* A step that leaves the users, the members and the trail.
LEMMA IdleTrail ==
  ASSUME TrailInv, UNCHANGED <<user, member, trail>>, AdminTypeOK',
         InvitationsStay
  PROVE  TrailInv'
<1>1. MembersAreUsers'
  BY DEF TrailInv, MembersAreUsers, IsUser
<1> QED BY <1>1, QuietStep

LEMMA AgeTrail ==
  ASSUME TrailInv, NEW i \in Invitations, Age(i)
  PROVE  TrailInv'
<1>1. AdminTypeOK /\ AdminTypeOK' /\ UNCHANGED <<user, member, trail>>
  BY AgeType DEF TrailInv, Age
<1>2. invitation[i] \in Invitation
  BY <1>1, PendingIsInvited DEF Age
<1>3. PICK age \in Ages : invitation' = [invitation EXCEPT ![i].age = age]
  BY DEF Age, Ages
<1>4. /\ invitation'[i].org = invitation[i].org /\ invitation'[i].role = invitation[i].role
      /\ invitation'[i].state = invitation[i].state
      /\ \A j \in Invitations : j # i => invitation'[j] = invitation[j]
  BY <1>1, <1>2, <1>3 DEF AdminTypeOK, Invitation
<1>5. InvitationsStay
  BY <1>4 DEF Pending, InvitationsStay
<1> QED BY <1>1, <1>5, IdleTrail

LEMMA RequestTrail ==
  ASSUME TrailInv, NEW e \in Emails, Admit(e) \/ Refuse(e)
  PROVE  TrailInv'
<1>1. UNCHANGED <<user, project, member, invitation, trail>> /\ AdminTypeOK'
  BY DEF Admit, Refuse, Ends, TrailInv, AdminTypeOK
<1>2. InvitationsStay
  BY <1>1 DEF InvitationsStay, Pending
<1> QED BY <1>1, <1>2, IdleTrail

LEMMA Logged ==
  ASSUME NEW org \in Organizations, NEW ev, Log(org, ev)
  PROVE  Appends(org, ev)
BY DEF Log, Appends

\* The account of who acts.
LEMMA Acting ==
  ASSUME TrailInv, NEW a \in Emails, IsAdmin(user[a].org, a), NEW org, org = user[a].org
  PROVE  org \in Organizations /\ user[a] = [org |-> org, role |-> "admin", active |-> TRUE]
<1>1. AdminTypeOK
  BY DEF TrailInv
<1>2. user[a].org \in Organizations
  BY <1>1, ActingAdmin
<1>3. user[a] = [org |-> user[a].org, role |-> "admin", active |-> TRUE]
  BY DEF IsAdmin
<1> QED BY <1>2, <1>3, Zenon

LEMMA BootstrapTrail ==
  ASSUME TrailInv, NEW e \in Emails, Bootstrap(e)
  PROVE  TrailInv'
<1>1. AdminTypeOK /\ MembersAreUsers /\ AdminTypeOK'
  BY BootstrapType DEF TrailInv
<1>2. PICK ev : ev = [NoEvent EXCEPT !.action = "organization.bootstrap", !.actor = e,
                                     !.target = e, !.role = "admin"]
  OBVIOUS
<1>3. /\ ev.action = "organization.bootstrap" /\ ev.target = e /\ ev.role = "admin"
      /\ ev.active = TRUE /\ ev.projects = {}
  BY <1>2, Zenon DEF NoEvent
<1>4. Founded \in Organizations /\ Insert(e, Founded, "admin", {}) /\ Log(Founded, ev)
  BY <1>2, Zenon DEF Organizations, Bootstrap
<1>5. Appends(Founded, ev)
  BY <1>4, Logged
<1>6. /\ user[e].org = Nobody
      /\ user'[e] = [org |-> Founded, role |-> "admin", active |-> TRUE]
      /\ \A f \in Emails : f # e => user'[f] = user[f]
      /\ \A f \in Emails, p \in Projects :
           <<p, f>> \in member' <=> <<p, f>> \in member \/ (f = e /\ p \in {})
      /\ MembersAreUsers'
  <2> PICK none \in SUBSET Projects : none = {}
    OBVIOUS
  <2> QED BY <1>1, <1>4, Inserted
<1>7. UsersAs(Founded, ev)
  BY <1>3, <1>6 DEF UsersAs, TellsAccount, AccountActions
<1>8. MembersAs(Founded, ev)
  BY <1>3, <1>6 DEF MembersAs, TellsMember
<1>9. InvitationsAs(Founded, ev)
  BY <1>3 DEF Bootstrap, InvitationsAs, TellsInvited, IsEnd, Ended, Pending
<1>10. EventAs(Founded, ev)
  BY <1>3, <1>6 DEF EventAs, Unasked
<1> QED BY <1>1, <1>5, <1>6, <1>7, <1>8, <1>9, <1>10, AppendStep

LEMMA CreateInvitationTrail ==
  ASSUME TrailInv, NEW a \in Emails, NEW i \in Invitations, NEW e \in Emails,
         NEW role \in Roles, NEW projects \in SUBSET Projects,
         CreateInvitation(a, i, e, role, projects)
  PROVE  TrailInv'
<1>1. AdminTypeOK /\ MembersAreUsers /\ AdminTypeOK'
  BY CreateInvitationType DEF TrailInv
<1>2. PICK org, ev :
        /\ org = user[a].org
        /\ ev = [NoEvent EXCEPT !.action = "invitation.created", !.actor = a, !.target = e,
                                !.invitation = i, !.role = role, !.projects = projects]
  OBVIOUS
<1>3. ev.action = "invitation.created" /\ ev.actor = a /\ ev.invitation = i /\ ev.role = role
  BY <1>2, Zenon DEF NoEvent
<1>4. org \in Organizations /\ user[a] = [org |-> org, role |-> "admin", active |-> TRUE]
  BY <1>2, Acting DEF CreateInvitation
<1>5. Log(org, ev) /\ UNCHANGED <<user, member>> /\ invitation[i] = NotInvited
  BY <1>2, Zenon DEF CreateInvitation
<1>6. Appends(org, ev)
  BY <1>4, <1>5, Logged
<1>7. UsersAs(org, ev) /\ MembersAs(org, ev)
  BY <1>3, <1>5 DEF UsersAs, MembersAs, TellsAccount, AccountActions, TellsMember
<1>8. InvitationsAs(org, ev)
  <2>1. invitation'[i].org = org /\ invitation'[i].role = role /\ invitation[i].org = Nobody
    <3>1. invitation'[i] = [org |-> org, email |-> e, role |-> role, projects |-> projects,
                            state |-> "pending", age |-> "valid"]
      BY <1>2 DEF CreateInvitation
    <3> QED BY <1>5, <3>1 DEF NotInvited
  <2>2. ASSUME NEW j \in Invitations, j # i
        PROVE  /\ invitation'[j].org = invitation[j].org
               /\ invitation'[j].role = invitation[j].role
               /\ invitation'[j].state \in {invitation[j].state, "revoked"}
    <3>1. CASE Pending(j) /\ invitation'[j] = [invitation[j] EXCEPT !.state = "revoked"]
      <4>1. invitation[j] \in Invitation
        BY <1>1, <3>1, PendingIsInvited
      <4> QED BY <3>1, <4>1 DEF Invitation
    <3>2. CASE invitation'[j] = invitation[j]
      BY <3>2
    <3>3. \/ Pending(j) /\ invitation'[j] = [invitation[j] EXCEPT !.state = "revoked"]
          \/ invitation'[j] = invitation[j]
      BY <2>2, Zenon DEF CreateInvitation
    <3> QED BY <3>1, <3>2, <3>3
  <2>3. i \in Invitations /\ Nobody \notin Organizations
    BY NobodyIsNoOrganization
  <2>4. \A j \in Invitations : ~ IsEnd(ev, j) /\ (TellsInvited(ev, j) <=> j = i)
    BY <1>3 DEF IsEnd, Ended, TellsInvited
  <2>5. \A j \in Invitations : j # i /\ ~ Pending(j) => ~ Pending(j)'
    BY <2>2 DEF Pending
  <2> QED BY <1>3, <2>1, <2>2, <2>3, <2>4, <2>5 DEF InvitationsAs
<1>9. EventAs(org, ev)
  BY <1>3, <1>4 DEF EventAs
<1>10. MembersAreUsers'
  BY <1>1, <1>5 DEF MembersAreUsers, IsUser
<1> QED BY <1>1, <1>6, <1>7, <1>8, <1>9, <1>10, AppendStep

LEMMA RevokeInvitationTrail ==
  ASSUME TrailInv, NEW a \in Emails, NEW i \in Invitations, RevokeInvitation(a, i)
  PROVE  TrailInv'
<1>1. AdminTypeOK /\ MembersAreUsers /\ AdminTypeOK'
  BY RevokeInvitationType DEF TrailInv
<1>2. PICK org, ev :
        /\ org = user[a].org
        /\ ev = [NoEvent EXCEPT !.action = "invitation.revoked", !.actor = a, !.invitation = i]
  OBVIOUS
<1>3. ev.action = "invitation.revoked" /\ ev.actor = a /\ ev.invitation = i /\ ev.target = Nobody
  BY <1>2, Zenon DEF NoEvent
<1>4. org \in Organizations /\ user[a] = [org |-> org, role |-> "admin", active |-> TRUE]
  BY <1>2, Acting DEF RevokeInvitation
<1>5. Log(org, ev) /\ UNCHANGED <<user, member>> /\ invitation[i].org = org /\ Pending(i)
  BY <1>2, Zenon DEF RevokeInvitation
<1>6. Appends(org, ev)
  BY <1>4, <1>5, Logged
<1>7. Nobody \notin Emails
  BY AdminAssumption DEF AdminAssumption
<1>8. UsersAs(org, ev) /\ MembersAs(org, ev)
  BY <1>3, <1>5, <1>7 DEF UsersAs, MembersAs, TellsAccount, AccountActions, TellsMember
<1>9. InvitationsAs(org, ev)
  <2>1. invitation[i] \in Invitation
    BY <1>1, <1>5, PendingIsInvited
  <2>2. /\ invitation'[i].org = invitation[i].org /\ invitation'[i].role = invitation[i].role
        /\ invitation'[i].state = "revoked"
        /\ \A j \in Invitations : j # i => invitation'[j] = invitation[j]
    BY <1>1, <2>1 DEF RevokeInvitation, AdminTypeOK, Invitation
  <2>3. \A j \in Invitations : ~ TellsInvited(ev, j) /\ (IsEnd(ev, j) => j = i)
    BY <1>3 DEF IsEnd, Ended, TellsInvited
  <2>4. ~ Pending(i)' /\ \A j \in Invitations : ~ Pending(j) => ~ Pending(j)'
    BY <2>2 DEF Pending
  <2> QED BY <1>5, <2>2, <2>3, <2>4 DEF InvitationsAs
<1>10. EventAs(org, ev)
  BY <1>3, <1>4, <1>7 DEF EventAs
<1>11. MembersAreUsers'
  BY <1>1, <1>5 DEF MembersAreUsers, IsUser
<1> QED BY <1>1, <1>6, <1>8, <1>9, <1>10, <1>11, AppendStep

LEMMA AcceptInvitationTrail ==
  ASSUME TrailInv, NEW i \in Invitations, AcceptInvitation(i)
  PROVE  TrailInv'
<1>1. AdminTypeOK /\ MembersAreUsers /\ AdminTypeOK'
  BY AcceptInvitationType DEF TrailInv
<1>2. PICK q, ev :
        /\ q = invitation[i]
        /\ ev = [NoEvent EXCEPT !.action = "invitation.accepted", !.actor = q.email,
                                !.target = q.email, !.invitation = i, !.projects = q.projects]
  OBVIOUS
<1>3. /\ ev.action = "invitation.accepted" /\ ev.target = q.email /\ ev.invitation = i
      /\ ev.projects = q.projects /\ ev.active = TRUE
  BY <1>2, Zenon DEF NoEvent
<1>4. Pending(i) /\ Insert(q.email, q.org, q.role, q.projects) /\ Log(q.org, ev)
  BY <1>2, Zenon DEF AcceptInvitation
<1>5. invitation[i] \in Invitation
  BY <1>1, <1>4, PendingIsInvited
<1>6. q.email \in Emails /\ q.org \in Organizations /\ q.projects \in SUBSET Projects
  BY <1>2, <1>5 DEF Invitation
<1>7. Appends(q.org, ev)
  BY <1>4, <1>6, Logged
<1>8. /\ user[q.email].org = Nobody
      /\ user'[q.email] = [org |-> q.org, role |-> q.role, active |-> TRUE]
      /\ \A f \in Emails : f # q.email => user'[f] = user[f]
      /\ \A f \in Emails, p \in Projects :
           <<p, f>> \in member' <=> <<p, f>> \in member \/ (f = q.email /\ p \in q.projects)
      /\ MembersAreUsers'
  BY <1>1, <1>4, <1>6, Inserted
<1>9. /\ InvitedEvents(trail[q.org], i, Len(trail[q.org])) # {}
      /\ RoleGiven(trail[q.org], i, Len(trail[q.org])) = q.role
  BY <1>2, <1>6 DEF TrailInv, TrailHolds, InvitesTold
<1>10. UsersAs(q.org, ev)
  <2>1. \A f \in Emails : TellsAccount(ev, f) <=> f = q.email
    BY <1>3 DEF TellsAccount, AccountActions
  <2> QED BY <1>3, <1>8, <1>9, <2>1 DEF UsersAs
<1>11. MembersAs(q.org, ev)
  <2>1. \A f \in Emails, p \in Projects :
          TellsMember(ev, f, p) <=> f = q.email /\ p \in q.projects
    BY <1>3 DEF TellsMember
  <2>2. ev.action # "project.member_removed"
    BY <1>3
  <2>3. user'[q.email].org = q.org
    BY <1>8
  <2> QED BY <1>8, <2>1, <2>2, <2>3 DEF MembersAs
<1>12. InvitationsAs(q.org, ev)
  <2>1. /\ invitation'[i].org = invitation[i].org /\ invitation'[i].role = invitation[i].role
        /\ invitation'[i].state = "accepted"
        /\ \A j \in Invitations : j # i => invitation'[j] = invitation[j]
    BY <1>1, <1>5 DEF AcceptInvitation, AdminTypeOK, Invitation
  <2>2. \A j \in Invitations : ~ TellsInvited(ev, j) /\ (IsEnd(ev, j) => j = i)
    BY <1>3 DEF IsEnd, Ended, TellsInvited
  <2>3. ~ Pending(i)' /\ \A j \in Invitations : ~ Pending(j) => ~ Pending(j)'
    BY <2>1 DEF Pending
  <2> QED BY <1>2, <1>4, <2>1, <2>2, <2>3 DEF InvitationsAs
<1>13. EventAs(q.org, ev)
  BY <1>3, <1>8, <1>9 DEF EventAs, Unasked
<1> QED BY <1>1, <1>7, <1>8, <1>10, <1>11, <1>12, <1>13, AppendStep

LEMMA UpdateUserTrail ==
  ASSUME TrailInv, NEW a \in Emails, NEW e \in Emails, NEW role \in Roles,
         NEW active \in BOOLEAN, UpdateUser(a, e, role, active)
  PROVE  TrailInv'
<1>1. AdminTypeOK /\ MembersAreUsers /\ AdminTypeOK'
  BY UpdateUserType DEF TrailInv
<1>2. PICK org, ev :
        /\ org = user[a].org
        /\ ev = [NoEvent EXCEPT !.action = "user.updated", !.actor = a, !.target = e,
                                !.role = role, !.active = active]
  OBVIOUS
<1>3. /\ ev.action = "user.updated" /\ ev.actor = a /\ ev.target = e /\ ev.role = role
      /\ ev.active = active /\ ev.projects = {}
  BY <1>2, Zenon DEF NoEvent
<1>4. org \in Organizations /\ user[a] = [org |-> org, role |-> "admin", active |-> TRUE]
  BY <1>2, Acting DEF UpdateUser
<1>5. /\ user[e].org = org /\ UNCHANGED <<member, invitation>>
      /\ user' = [user EXCEPT ![e] = [org |-> org, role |-> role, active |-> active]]
      /\ IF user'[e] = user[e] THEN UNCHANGED trail ELSE Log(org, ev)
  BY <1>2, Zenon DEF UpdateUser
<1>6. /\ user'[e] = [org |-> org, role |-> role, active |-> active]
      /\ \A f \in Emails : f # e => user'[f] = user[f]
  BY <1>1, <1>5 DEF AdminTypeOK
<1>7. MembersAreUsers'
  <2>1. \A f \in Emails : IsUser(f) => IsUser(f)'
    <3>1. org # Nobody
      BY <1>4, NobodyIsNoOrganization
    <3> QED BY <1>6, <3>1 DEF IsUser
  <2> QED BY <1>1, <1>5, <2>1 DEF MembersAreUsers
<1>8. CASE user'[e] = user[e]
  <2>1. user' = user
    BY <1>1, <1>6, <1>8 DEF AdminTypeOK
  <2>2. InvitationsStay
    BY <1>5 DEF InvitationsStay, Pending
  <2> QED BY <1>1, <1>5, <1>8, <2>1, <2>2, IdleTrail
<1>9. CASE user'[e] # user[e]
  <2>1. Appends(org, ev)
    BY <1>4, <1>5, <1>9, Logged
  <2>2. UsersAs(org, ev)
    <3>1. \A f \in Emails : TellsAccount(ev, f) <=> f = e
      BY <1>3 DEF TellsAccount, AccountActions
    <3> QED BY <1>3, <1>5, <1>6, <3>1 DEF UsersAs
  <2>3. MembersAs(org, ev)
    BY <1>3, <1>5 DEF MembersAs, TellsMember
  <2>4. InvitationsAs(org, ev)
    BY <1>3, <1>5 DEF InvitationsAs, TellsInvited, IsEnd, Ended, Pending
  <2>5. EventAs(org, ev)
    BY <1>3, <1>4, <1>6 DEF EventAs
  <2> QED BY <1>1, <1>7, <2>1, <2>2, <2>3, <2>4, <2>5, AppendStep
<1> QED BY <1>8, <1>9

LEMMA CreateProjectTrail ==
  ASSUME TrailInv, NEW a \in Emails, NEW p \in Projects, CreateProject(a, p)
  PROVE  TrailInv'
<1>1. AdminTypeOK /\ MembersAreUsers /\ AdminTypeOK'
  BY ProjectTypes DEF TrailInv
<1>2. PICK org, ev :
        /\ org = user[a].org
        /\ ev = [NoEvent EXCEPT !.action = "project.created", !.actor = a, !.target = a,
                                !.projects = {p}]
  OBVIOUS
<1>3. /\ ev.action = "project.created" /\ ev.actor = a /\ ev.target = a /\ ev.projects = {p}
  BY <1>2, Zenon DEF NoEvent
<1>4. org \in Organizations /\ user[a] = [org |-> org, role |-> "admin", active |-> TRUE]
  BY <1>2, Acting DEF CreateProject
<1>5. Log(org, ev) /\ UNCHANGED <<user, invitation>> /\ member' = member \cup {<<p, a>>}
  BY <1>2, Zenon DEF CreateProject
<1>6. Appends(org, ev)
  BY <1>4, <1>5, Logged
<1>7. UsersAs(org, ev)
  BY <1>3, <1>5 DEF UsersAs, TellsAccount, AccountActions
<1>8. \A r, f : <<r, f>> \in member' <=> <<r, f>> \in member \/ (r = p /\ f = a)
  BY <1>5
<1>9. MembersAs(org, ev)
  <2>1. \A f \in Emails, r \in Projects : TellsMember(ev, f, r) <=> f = a /\ r = p
    BY <1>3 DEF TellsMember
  <2> QED BY <1>2, <1>3, <1>5, <1>8, <2>1 DEF MembersAs
<1>10. InvitationsAs(org, ev)
  BY <1>3, <1>5 DEF InvitationsAs, TellsInvited, IsEnd, Ended, Pending
<1>11. EventAs(org, ev)
  BY <1>2, <1>3, <1>4, <1>5 DEF EventAs
<1>12. MembersAreUsers'
  <2>1. IsUser(a)
    BY <1>2, <1>4, NobodyIsNoOrganization DEF IsUser
  <2> QED BY <1>1, <1>5, <1>8, <2>1 DEF MembersAreUsers, IsUser
<1> QED BY <1>1, <1>6, <1>7, <1>9, <1>10, <1>11, <1>12, AppendStep

LEMMA SetMembershipTrail ==
  ASSUME TrailInv, NEW a \in Emails, NEW e \in Emails, NEW p \in Projects \cup Organizations,
         NEW present \in BOOLEAN, SetMembership(a, p, e, present)
  PROVE  TrailInv'
<1>1. AdminTypeOK /\ MembersAreUsers /\ AdminTypeOK'
  BY ProjectTypes DEF TrailInv
<1>2. PICK org, act, ev :
        /\ org = user[a].org
        /\ act = IF present THEN "project.member_added" ELSE "project.member_removed"
        /\ ev = [NoEvent EXCEPT !.action = act, !.actor = a, !.target = e, !.projects = {p}]
  OBVIOUS
<1>3. ev.action = act /\ ev.actor = a /\ ev.target = e /\ ev.projects = {p}
  BY <1>2, Zenon DEF NoEvent
<1>4. org \in Organizations /\ user[a] = [org |-> org, role |-> "admin", active |-> TRUE]
  BY <1>2, Acting DEF SetMembership
<1>5. /\ user[e].org = org /\ UNCHANGED <<user, invitation>>
      /\ member' = IF present THEN member \cup {<<p, e>>} ELSE member \ {<<p, e>>}
      /\ IF member' = member THEN UNCHANGED trail ELSE Log(org, ev)
  BY <1>2, Zenon DEF SetMembership
<1>6. CASE member' = member
  <2>1. InvitationsStay
    BY <1>5 DEF InvitationsStay, Pending
  <2> QED BY <1>1, <1>5, <1>6, <2>1, IdleTrail
<1>7. CASE member' # member
  <2>1. Appends(org, ev)
    BY <1>4, <1>5, <1>7, Logged
  <2>2. act \in {"project.member_added", "project.member_removed"}
        /\ (act # "project.member_removed" <=> present)
    BY <1>2
  <2>3. UsersAs(org, ev)
    BY <1>3, <1>5, <2>2 DEF UsersAs, TellsAccount, AccountActions
  <2>4. \A r, f : <<r, f>> \in member' <=>
          IF r = p /\ f = e THEN present ELSE <<r, f>> \in member
    BY <1>5
  <2>5. MembersAs(org, ev)
    <3>1. \A f \in Emails, r \in Projects : TellsMember(ev, f, r) <=> f = e /\ r = p
      BY <1>3, <2>2 DEF TellsMember
    <3> QED BY <1>3, <1>5, <2>2, <2>4, <3>1 DEF MembersAs
  <2>6. InvitationsAs(org, ev)
    BY <1>3, <1>5, <2>2 DEF InvitationsAs, TellsInvited, IsEnd, Ended, Pending
  <2>7. EventAs(org, ev)
    BY <1>3, <1>4, <1>5, <2>2 DEF EventAs
  <2>8. MembersAreUsers'
    <3>1. IsUser(e)
      BY <1>4, <1>5, NobodyIsNoOrganization DEF IsUser
    <3> QED BY <1>1, <1>5, <2>4, <3>1 DEF MembersAreUsers, IsUser
  <2> QED BY <1>1, <2>1, <2>3, <2>5, <2>6, <2>7, <2>8, AppendStep
<1> QED BY <1>6, <1>7

LEMMA TrailStays == TrailInv /\ [AdminNext]_adminVars => TrailInv'
<1> SUFFICES ASSUME TrailInv, [AdminNext]_adminVars PROVE TrailInv'
  OBVIOUS
<1>1. CASE UNCHANGED adminVars
  <2>1. UNCHANGED <<user, member, trail>> /\ AdminTypeOK'
    BY <1>1, AdminTypeStays DEF adminVars, TrailInv
  <2>2. InvitationsStay
    BY <1>1 DEF adminVars, InvitationsStay, Pending
  <2> QED BY <2>1, <2>2, IdleTrail
<1> QED BY <1>1, RegisterTrail, BootstrapTrail, RequestTrail, AcceptInvitationTrail, AgeTrail,
           RevokeInvitationTrail, CreateInvitationTrail, UpdateUserTrail, SetMembershipTrail,
           CreateProjectTrail DEF AdminNext

LEMMA AtMostOne ==
  ASSUME NEW n \in Nat, NEW S, S \subseteq 1 .. n, \A k, l \in S : k = l
  PROVE  Cardinality(S) <= 1
<1>1. CASE S = {}
  <2>1. Cardinality({}) = 0
    BY FS_EmptySet
  <2> QED BY <1>1, <2>1
<1>2. CASE S # {}
  <2>1. PICK x \in S : \A k \in S : k = x
    BY <1>2
  <2>3. S = {x}
    BY <2>1
  <2>2. Cardinality({x}) = 1
    BY FS_Singleton
  <2> QED BY <2>2, <2>3
<1> QED BY <1>1, <1>2

\* The audit trail of admin_audit_events: for any number of users, invitations and projects it
\* tells who has access to what, no invitation was used twice or after its revocation, and
\* every change was made by somebody who administered the organization at that time.
THEOREM TrailTheorem == AdminSpec => []TrailTellsAccess
<1>1. TrailInv => TrailTellsAccess
  <2> SUFFICES ASSUME TrailInv, NEW org \in Organizations
               PROVE  AccessIsTold(org) /\ \A k \in 1 .. Len(trail[org]) : ChangeIsAuthorized(org, k)
    BY DEF TrailTellsAccess
  <2>1. TrailHolds(org)
    BY DEF TrailInv
  <2>2. PICK t, n : t = trail[org] /\ n = Len(t)
    OBVIOUS
  <2>3. n \in Nat
    BY <2>1, <2>2, Appended DEF TrailHolds
  <2>4. ASSUME NEW e \in Emails, user[e].org = org
        PROVE  /\ AccountTold(org, e, n) \in {NoAccount, user[e]}
               /\ \A p \in Projects : MemberTold(org, e, p, n) = (<<p, e>> \in member)
    <3>1. AccountTold(org, e, n) \in {NoAccount, user[e]}
      BY <2>1, <2>2, ToldAccount DEF TrailHolds, Accounts
    <3>2. \A p \in Projects : MemberTold(org, e, p, n) <=> Joined(trail[org], e, p, n)
      BY ToldMember
    <3>3. \A p \in Projects : Joined(trail[org], e, p, n) <=> <<p, e>> \in member
      BY <2>1, <2>2, <2>4 DEF TrailHolds, Members
    <3>4. ASSUME NEW p \in Projects
          PROVE  MemberTold(org, e, p, n) = (<<p, e>> \in member)
      <4>1. MemberTold(org, e, p, n) \in BOOLEAN
        BY DEF MemberTold
      <4>2. MemberTold(org, e, p, n) <=> <<p, e>> \in member
        BY <3>2, <3>3
      <4> QED BY <4>1, <4>2
    <3> QED BY <3>1, <3>4
  <2>5. ASSUME NEW i \in Invitations
        PROVE  Cardinality({k \in 1 .. n : /\ t[k].invitation = i
                                          /\ t[k].action \in {"invitation.accepted",
                                                              "invitation.revoked"}}) <= 1
    <3> DEFINE S == {k \in 1 .. n : /\ t[k].invitation = i
                                   /\ t[k].action \in {"invitation.accepted", "invitation.revoked"}}
    <3>1. \A k, l \in S : k = l
      BY <2>1, <2>2 DEF TrailHolds, EndsOnce, IsEnd, Ended
    <3>2. S \subseteq 1 .. n
      OBVIOUS
    <3> HIDE DEF S
    <3>3. Cardinality(S) <= 1
      BY <2>3, <3>1, <3>2, AtMostOne
    <3> QED BY <3>3 DEF S
  <2>6. AccessIsTold(org)
    BY <2>2, <2>4, <2>5 DEF AccessIsTold
  <2>7. ASSUME NEW k \in 1 .. n PROVE ChangeIsAuthorized(org, k)
    BY <2>1, <2>2, ToldAccount DEF TrailHolds, Authorized, ChangeIsAuthorized, Unasked
  <2> QED BY <2>2, <2>6, <2>7
<1> QED BY <1>1, TrailInitially, TrailStays, PTL DEF AdminSpec

-----------------------------------------------------------------------------
(* The database.                                                           *)

InOrder(content) ==
  content \in Contents /\ \A k \in 1 .. Len(content.ran) : content.ran[k] = k

Restoring == {"saving", "saved", "verified"}

Rows == [pc : {"off", "migrating", "locking", "ready", "adrift"},
         next : 0 .. Current + 1, cached : 0 .. Current]

Tools == [pc : {"none", "copied", "replaced"} \cup Restoring, source : Paths \cup {NoPath},
          target : Paths \cup {NoPath}, copy : Contents, old : Contents, used : BOOLEAN]

Pasts == [path : Paths \cup {NoPath}, held : Contents, exposed : BOOLEAN, onItself : BOOLEAN]

FileInv ==
  /\ InOrder(main) /\ log \in {"none", "live", "stale"}
  /\ backup \in [Paths -> Contents] /\ \A path \in Paths : InOrder(backup[path])

\* It has the schema of the commands: what a restore puts in place that does not save over
\* its own source.
Full(content) == content.whole /\ ~past.onItself => Len(content.ran) = Current

\* A process that migrates has found, or run, every migration before its next one; it is
\* cut off from a file that is replaced.  What a process remembers was true, and stays so
\* unless a restore has saved over its own source.
Progress(p) ==
  /\ Migrating(p) => Seen.whole /\ proc[p].next \in 1 .. Len(main.ran) + 1
  /\ proc[p].pc = "migrating" => proc[p].next <= Build[p] + 1
  /\ proc[p].pc = "locking" => proc[p].next <= Build[p]
  /\ proc[p].pc = "ready" => Build[p] <= proc[p].cached
  /\ proc[p].pc = "ready" /\ main.whole /\ ~past.onItself => proc[p].cached <= Len(main.ran)
  /\ proc[p].pc = "adrift" => Full(main)

ProcInv ==
  /\ proc \in [Processes -> Rows]
  /\ written \in 0 .. MaxWrites
  /\ \A p \in Processes : Progress(p)

\* Who spoils a database has met a stale log, and no log is stale while a command copies.
\* From its safety backup on, what the restore will replace is in there.
ToolInv ==
  /\ tool \in Tools /\ InOrder(tool.copy)
  /\ tool.pc \in {"copied"} \cup Restoring => Seen.whole /\ tool.target \in Paths
  /\ tool.pc \in Restoring => /\ tool.source \in Paths /\ tool.old.whole
                              /\ tool.used \/ main = tool.old
  /\ tool.pc = "saving" => tool.copy = tool.old
  /\ tool.pc \in {"saved", "verified"} => backup[tool.target] = tool.old
  /\ tool.pc \in {"saving", "saved"} /\ tool.source # tool.target =>
       Len(backup[tool.source].ran) = Current
  /\ tool.pc = "verified" => tool.copy.whole
  /\ tool.pc = "verified" /\ tool.source # tool.target => Len(tool.copy.ran) = Current
  /\ tool.pc = "replaced" => Full(tool.copy)

\* What a restore has replaced is kept as long as the new file may still be spoilt.
PastInv ==
  /\ past \in Pasts
  /\ log = "stale" \/ tool.pc = "replaced" => Full(main)
  /\ ~Seen.whole => past.exposed
  /\ ~Seen.whole \/ tool.pc = "replaced" =>
       past.path \in Paths /\ past.held.whole /\ backup[past.path] = past.held

DatabaseInv == FileInv /\ ProcInv /\ ToolInv /\ PastInv

LEMMA Nothing == InOrder(None) /\ None.ran = <<>> /\ ~None.whole
<1>1. None \in Contents
  BY BuildsAssumption DEF BuildsAssumption, None, Contents
<1> QED BY <1>1 DEF InOrder, None

\* The version of a database is how many migrations it has gone through.
LEMMA VersionIsLength ==
  ASSUME NEW c, InOrder(c)
  PROVE  Version(c) = Len(c.ran) /\ Len(c.ran) \in 0 .. Current /\ c.ran \in Seq(1 .. Current)
<1>1. c.ran \in Seq(1 .. Current) /\ Current \in Nat
  BY BuildsAssumption DEF BuildsAssumption, InOrder, Contents
<1>2. CASE c.ran = <<>>
  BY <1>1, <1>2 DEF Version
<1>3. CASE c.ran # <<>>
  <2> DEFINE Top(v) == /\ \E k \in 1 .. Len(c.ran) : c.ran[k] = v
                       /\ \A k \in 1 .. Len(c.ran) : c.ran[k] <= v
  <2>1. Len(c.ran) \in Nat /\ Len(c.ran) >= 1
    BY <1>1, <1>3
  <2>2. \A k \in 1 .. Len(c.ran) : c.ran[k] = k /\ c.ran[k] \in 1 .. Current
    BY <1>1 DEF InOrder
  <2>3. Len(c.ran) \in 0 .. Current /\ Top(Len(c.ran))
    BY <1>1, <2>1, <2>2
  <2>4. \A v \in 0 .. Current : Top(v) => v = Len(c.ran)
    BY <1>1, <2>1, <2>2
  <2>5. Version(c) = CHOOSE v \in 0 .. Current : Top(v)
    BY <1>3 DEF Version
  <2> HIDE DEF Top
  <2>6. Version(c) = Len(c.ran)
    BY <2>3, <2>4, <2>5
  <2> QED BY <1>1, <2>3, <2>6
<1> QED BY <1>2, <1>3

\* A whole database is what the file and its own log hold.
LEMMA SeenIs ==
  ASSUME FileInv
  PROVE  /\ InOrder(Seen)
         /\ log # "stale" => Seen = main
         /\ Seen.whole <=> log # "stale" /\ main.whole
BY Nothing DEF FileInv, Seen, Damaged

LEMMA RecordedIsPrefix ==
  ASSUME FileInv
  PROVE  Recorded = 1 .. Len(Seen.ran)
BY SeenIs DEF Recorded, InOrder

\* What a process knows of the migrations stays true when others run more of them.
LEMMA ProgressStays ==
  ASSUME NEW p \in Processes, proc[p] \in Rows, Progress(p), proc'[p] = proc[p],
         Len(main'.ran) \in Nat, Len(main.ran) \in Nat,
         Migrating(p) => Seen'.whole /\ Len(main'.ran) >= Len(main.ran),
         proc[p].pc \in {"ready", "adrift"} /\ main'.whole /\ ~past'.onItself =>
           /\ main.whole /\ ~past.onItself /\ Len(main'.ran) >= Len(main.ran)
           /\ Len(main'.ran) <= Current
  PROVE  Progress(p)'
<1>1. proc[p].next \in 0 .. Current + 1 /\ proc[p].cached \in 0 .. Current /\ Current \in Nat
  BY BuildsAssumption DEF BuildsAssumption, Rows
<1>2. Build[p] \in Int
  BY BuildsAssumption DEF BuildsAssumption
<1>3. Migrating(p)' <=> Migrating(p)
  BY DEF Migrating
<1>4. Migrating(p)' => Seen'.whole /\ proc'[p].next \in 1 .. Len(main'.ran) + 1
  BY <1>1, <1>3 DEF Progress
<1>5. proc'[p].pc = "ready" /\ main'.whole /\ ~past'.onItself => proc'[p].cached <= Len(main'.ran)
  BY <1>1 DEF Progress
<1>6. proc'[p].pc = "adrift" => Full(main)'
  BY <1>1 DEF Progress, Full
<1>7. /\ proc'[p].pc = "migrating" => proc'[p].next <= Build[p] + 1
      /\ proc'[p].pc = "locking" => proc'[p].next <= Build[p]
      /\ proc'[p].pc = "ready" => Build[p] <= proc'[p].cached
  BY DEF Progress
<1> QED BY <1>4, <1>5, <1>6, <1>7 DEF Progress

LEMMA RowsIn ==
  /\ Off \in Rows /\ Connected \in Rows /\ Adrift \in Rows
  /\ \A v \in 0 .. Current : Serving(v) \in Rows
BY BuildsAssumption DEF BuildsAssumption, Rows, Off, Connected, Adrift, Serving

LEMMA NoToolIn == NoTool \in Tools /\ InOrder(NoTool.copy) /\ NoTool.pc = "none"
<1>1. None \in Contents
  BY Nothing DEF InOrder
<1> QED BY <1>1, Nothing DEF NoTool, Tools, Restoring

LEMMA DatabaseInitially == DatabaseInit => DatabaseInv
<1> SUFFICES ASSUME DatabaseInit PROVE DatabaseInv
  OBVIOUS
<1>1. Current \in Nat /\ Oldest \in 0 .. Current /\ MaxWrites \in Nat
  BY BuildsAssumption DEF BuildsAssumption
<1>2. main.ran = [k \in 1 .. Oldest |-> k] /\ main.whole /\ main.write = 0
  BY DEF DatabaseInit
<1>3. main.ran \in Seq(1 .. Current) /\ Len(main.ran) = Oldest
  BY <1>1, <1>2
<1>4. InOrder(main)
  BY <1>1, <1>2, <1>3 DEF DatabaseInit, InOrder, Contents
<1>5. None \in Contents
  BY Nothing DEF InOrder
<1>6. FileInv
  BY <1>4, <1>5, Nothing DEF DatabaseInit, FileInv
<1>7. ProcInv
  BY <1>1, RowsIn DEF DatabaseInit, ProcInv, Progress, Migrating, Off
<1>8. ToolInv
  <2>1. tool = NoTool
    BY DEF DatabaseInit
  <2> QED BY <2>1, NoToolIn DEF ToolInv, Restoring, NoTool
<1>9. Seen.whole /\ tool.pc = "none"
  BY <1>2, <1>6, SeenIs, NoToolIn DEF DatabaseInit
<1>10. PastInv
  BY <1>5, <1>9 DEF DatabaseInit, PastInv, Pasts, NoPast
<1> QED BY <1>6, <1>7, <1>8, <1>10 DEF DatabaseInv

-----------------------------------------------------------------------------
(* Steps of the processes.                                                 *)

\* The others know what they knew.
LEMMA OthersKnow ==
  ASSUME DatabaseInv, NEW p \in Processes, proc' \in [Processes -> Rows],
         \A q \in Processes : q # p => proc'[q] = proc[q],
         Progress(p)', written' \in 0 .. MaxWrites, past' = past,
         Len(main'.ran) \in 0 .. Current, Len(main'.ran) >= Len(main.ran),
         Seen.whole => Seen'.whole, main'.whole => main.whole
  PROVE  ProcInv'
<1>1. InOrder(main) /\ ProcInv
  BY DEF DatabaseInv, FileInv
<1>2. Len(main.ran) \in Nat
  BY <1>1, VersionIsLength
<1>3. ASSUME NEW q \in Processes, q # p PROVE Progress(q)'
  <2>1. Progress(q) /\ proc'[q] = proc[q] /\ proc[q] \in Rows
    BY <1>1, <1>3 DEF ProcInv
  <2>2. Migrating(q) => Seen.whole
    BY <2>1 DEF Progress
  <2>3. Len(main'.ran) \in Nat /\ Len(main'.ran) <= Current
    BY BuildsAssumption DEF BuildsAssumption
  <2> QED BY <1>2, <2>1, <2>2, <2>3, ProgressStays
<1> QED BY <1>3 DEF ProcInv

\* A step of a process that does not change what the database holds.
LEMMA ProcessStep ==
  ASSUME DatabaseInv, NEW p \in Processes, UNCHANGED <<main, backup, tool, written, past>>,
         log' \in {log} \cup IF log # "stale" THEN {"none"} ELSE {},
         proc' \in [Processes -> Rows], \A q \in Processes : q # p => proc'[q] = proc[q],
         Progress(p)'
  PROVE  DatabaseInv'
<1>1. FileInv /\ ProcInv /\ ToolInv /\ PastInv
  BY DEF DatabaseInv
<1>2. FileInv'
  BY <1>1 DEF FileInv, InOrder
<1>3. Seen' = Seen
  BY DEF Seen, Damaged
<1>4. Len(main.ran) \in 0 .. Current
  BY <1>1, VersionIsLength DEF FileInv
<1>5. ProcInv'
  <2>1. written' \in 0 .. MaxWrites
    BY <1>1 DEF ProcInv
  <2> QED BY <1>3, <1>4, <2>1, OthersKnow
<1>6. ToolInv'
  BY <1>1, <1>3 DEF ToolInv, InOrder, Full
<1>7. PastInv'
  BY <1>1, <1>3 DEF PastInv, Full
<1> QED BY <1>2, <1>5, <1>6, <1>7 DEF DatabaseInv

LEMMA OpenStep ==
  ASSUME DatabaseInv, NEW p \in Processes, Open(p)
  PROVE  DatabaseInv'
<1>1. /\ proc[p].pc = "off" /\ Seen.whole /\ UNCHANGED <<main, backup, tool, written, past>>
      /\ log # "stale" /\ main.whole
  BY SeenIs DEF Open, CloseUnchanged, DatabaseInv
<1>2. Current \in Nat /\ Build[p] \in 1 .. Current /\ Len(main.ran) \in Nat
  BY BuildsAssumption, VersionIsLength DEF BuildsAssumption, DatabaseInv, FileInv
<1>3. proc \in [Processes -> Rows] /\ Progress(p)
  BY DEF DatabaseInv, ProcInv
<1>4. CASE CloseUnchanged(p) /\ UNCHANGED proc
  <2>1. log' \in {log} \cup IF log # "stale" THEN {"none"} ELSE {}
    BY <1>1, <1>4 DEF CloseUnchanged
  <2>2. Seen' = Seen
    BY <1>1, <2>1 DEF Seen
  <2>3. Progress(p)'
    BY <1>1, <1>3, <1>4, <2>2 DEF Progress, Migrating
  <2> QED BY <1>1, <1>3, <1>4, <2>1, <2>3, ProcessStep
<1>5. CASE UNCHANGED <<main, log>> /\ proc' = [proc EXCEPT ![p] = Connected]
  <2>1. /\ proc'[p] = Connected /\ \A q \in Processes : q # p => proc'[q] = proc[q]
        /\ proc' \in [Processes -> Rows]
    BY <1>3, <1>5, RowsIn
  <2>2. Seen' = Seen
    BY <1>5 DEF Seen
  <2>3. Progress(p)'
    BY <1>1, <1>2, <2>1, <2>2 DEF Progress, Migrating, Connected
  <2> QED BY <1>1, <1>5, <2>1, <2>3, ProcessStep
<1> QED BY <1>4, <1>5 DEF Open

\* The row of a process that has found, or run, its next migration, and of one that has not.
LEMMA NextRows ==
  ASSUME NEW row \in Rows
  PROVE  /\ [row EXCEPT !.next = row.next + 1]
              = [pc |-> row.pc, next |-> row.next + 1, cached |-> row.cached]
         /\ [row EXCEPT !.pc = "locking"]
              = [pc |-> "locking", next |-> row.next, cached |-> row.cached]
BY DEF Rows

LEMMA CheckStep ==
  ASSUME DatabaseInv, NEW p \in Processes, Check(p)
  PROVE  DatabaseInv'
<1> DEFINE next == proc[p].next
           row == IF next \in Recorded
                  THEN [pc |-> "migrating", next |-> next + 1, cached |-> proc[p].cached]
                  ELSE [pc |-> "locking", next |-> next, cached |-> proc[p].cached]
<1>1. /\ proc[p].pc = "migrating" /\ next <= Build[p]
      /\ UNCHANGED <<main, log, backup, tool, written, past>>
  BY DEF Check
<1>2. Current \in Nat /\ Build[p] \in 1 .. Current /\ FileInv
  BY BuildsAssumption DEF BuildsAssumption, DatabaseInv
<1>3. proc \in [Processes -> Rows] /\ proc[p] \in Rows /\ Progress(p)
  BY DEF DatabaseInv, ProcInv
<1>4. Seen.whole /\ next \in 1 .. Len(main.ran) + 1
  BY <1>1, <1>3 DEF Progress, Migrating
<1>5. /\ Len(main.ran) \in 0 .. Current /\ Seen = main /\ Seen' = Seen
      /\ Recorded = 1 .. Len(main.ran)
  <2>1. Seen = main
    BY <1>2, <1>4, SeenIs
  <2>2. Seen' = Seen
    BY <1>1 DEF Seen
  <2> QED BY <1>2, <2>1, <2>2, VersionIsLength, RecordedIsPrefix DEF FileInv
<1>6. proc' = [proc EXCEPT ![p] = row]
  <2>1. proc' = [proc EXCEPT ![p] = IF next \in Recorded THEN [proc[p] EXCEPT !.next = next + 1]
                                    ELSE [proc[p] EXCEPT !.pc = "locking"]]
    BY <1>3, Zenon DEF Check
  <2> QED BY <1>1, <1>3, <2>1, NextRows, Zenon
<1>7. row \in Rows
  BY <1>1, <1>2, <1>3, <1>4, <1>5 DEF Rows
<1>8. /\ proc'[p] = row /\ \A q \in Processes : q # p => proc'[q] = proc[q]
      /\ proc' \in [Processes -> Rows]
  BY <1>3, <1>6, <1>7
<1>9. Progress(p)'
  <2>1. CASE next \in Recorded
    <3>1. proc'[p] = [pc |-> "migrating", next |-> next + 1, cached |-> proc[p].cached]
      BY <1>8, <2>1
    <3> QED BY <1>1, <1>2, <1>4, <1>5, <2>1, <3>1, SMTT(30) DEF Progress, Migrating
  <2>2. CASE next \notin Recorded
    <3>1. proc'[p] = [pc |-> "locking", next |-> next, cached |-> proc[p].cached]
      BY <1>8, <2>2
    <3> QED BY <1>1, <1>2, <1>4, <1>5, <2>2, <3>1 DEF Progress, Migrating
  <2> QED BY <2>1, <2>2
<1> QED BY <1>1, <1>8, <1>9, ProcessStep

LEMMA ReadyStep ==
  ASSUME DatabaseInv, NEW p \in Processes, Ready(p)
  PROVE  DatabaseInv'
<1>1. /\ proc[p].pc = "migrating" /\ proc[p].next > Build[p]
      /\ proc' = [proc EXCEPT ![p] = Serving(Version(Seen))]
      /\ CloseUnchanged(p) /\ UNCHANGED <<backup, tool, written, past>>
  BY DEF Ready
<1>2. Current \in Nat /\ Build[p] \in 1 .. Current /\ FileInv
  BY BuildsAssumption DEF BuildsAssumption, DatabaseInv
<1>3. proc \in [Processes -> Rows] /\ proc[p] \in Rows /\ Progress(p)
  BY DEF DatabaseInv, ProcInv
<1>4. Seen.whole /\ proc[p].next \in 1 .. Len(main.ran) + 1
  BY <1>1, <1>3 DEF Progress, Migrating
<1>5. /\ Len(main.ran) \in 0 .. Current /\ Version(Seen) = Len(main.ran) /\ log # "stale"
  <2>1. Seen = main /\ log # "stale"
    BY <1>2, <1>4, SeenIs
  <2> QED BY <1>2, <2>1, VersionIsLength DEF FileInv
<1>6. /\ main' = main /\ log' \in {log} \cup IF log # "stale" THEN {"none"} ELSE {}
  BY <1>1, <1>5 DEF CloseUnchanged
<1>7. /\ proc'[p] = Serving(Len(main.ran)) /\ \A q \in Processes : q # p => proc'[q] = proc[q]
      /\ proc' \in [Processes -> Rows]
  BY <1>1, <1>3, <1>5, RowsIn
<1>8. Build[p] <= Len(main.ran)
  BY <1>1, <1>2, <1>4, <1>5
<1>9. Progress(p)'
  BY <1>5, <1>6, <1>7, <1>8 DEF Progress, Migrating, Serving
<1> QED BY <1>1, <1>6, <1>7, <1>9, ProcessStep

\* A process that leaves, or reads, or serves with what it read of another file.
LEMMA LeaveStep ==
  ASSUME DatabaseInv, NEW p \in Processes, MigrationFails(p) \/ Stop(p)
  PROVE  DatabaseInv'
<1>1. /\ proc' = [proc EXCEPT ![p] = Off] /\ UNCHANGED <<backup, tool, written, past>>
      /\ CloseUnchanged(p) \/ UNCHANGED <<main, log>>
      /\ proc[p].pc = "locking" \/ UNCHANGED <<main, log>>
  BY DEF MigrationFails, Stop
<1>2. proc \in [Processes -> Rows] /\ Progress(p)
  BY DEF DatabaseInv, ProcInv
<1>3. proc[p].pc = "locking" => log # "stale"
  BY <1>2, SeenIs DEF Progress, Migrating, DatabaseInv
<1>4. main' = main /\ log' \in {log} \cup IF log # "stale" THEN {"none"} ELSE {}
  BY <1>1, <1>3 DEF CloseUnchanged
<1>5. /\ proc'[p] = Off /\ \A q \in Processes : q # p => proc'[q] = proc[q]
      /\ proc' \in [Processes -> Rows]
  BY <1>1, <1>2, RowsIn
<1>6. Progress(p)'
  BY <1>5 DEF Progress, Migrating, Off
<1> QED BY <1>1, <1>4, <1>5, <1>6, ProcessStep

LEMMA ReadStep ==
  ASSUME DatabaseInv, NEW p \in Processes, Read(p)
  PROVE  DatabaseInv'
<1>1. /\ proc[p].pc = "ready" /\ Seen.whole /\ CloseUnchanged(p)
      /\ UNCHANGED <<backup, proc, tool, written, past>>
  BY DEF Read
<1>2. proc \in [Processes -> Rows] /\ Progress(p) /\ log # "stale"
  BY <1>1, SeenIs DEF DatabaseInv, ProcInv
<1>3. main' = main /\ log' \in {log} \cup IF log # "stale" THEN {"none"} ELSE {}
  BY <1>1, <1>2 DEF CloseUnchanged
<1>4. Progress(p)'
  BY <1>1, <1>2, <1>3 DEF Progress, Migrating
<1> QED BY <1>1, <1>2, <1>3, <1>4, ProcessStep

LEMMA SettleStep ==
  ASSUME DatabaseInv, NEW p \in Processes, Settle(p)
  PROVE  DatabaseInv'
<1>1. PICK v \in Build[p] .. Current :
        proc' = [proc EXCEPT ![p] = Serving(v)] /\ UNCHANGED <<main, log, backup, tool, written, past>>
  BY DEF Settle
<1>2. Current \in Nat /\ Build[p] \in 1 .. Current
  BY BuildsAssumption DEF BuildsAssumption
<1>3. v \in 0 .. Current /\ Build[p] <= v /\ v <= Current
  BY <1>1, <1>2
<1>4. proc \in [Processes -> Rows] /\ Full(main)
  BY DEF Settle, DatabaseInv, ProcInv, Progress
<1>5. /\ proc'[p] = Serving(v) /\ \A q \in Processes : q # p => proc'[q] = proc[q]
      /\ proc' \in [Processes -> Rows]
  BY <1>1, <1>3, <1>4, RowsIn
<1>6. Progress(p)'
  BY <1>1, <1>3, <1>4, <1>5 DEF Progress, Migrating, Serving, Full
<1> QED BY <1>1, <1>5, <1>6, ProcessStep

\* A commit of a process, and the step that the process takes with it.
LEMMA CommitStep ==
  ASSUME DatabaseInv, NEW p \in Processes, Seen.whole, NEW c, InOrder(c), c.whole,
         NEW last, Commit(c, last), Len(c.ran) >= Len(main.ran),
         Used, UNCHANGED <<backup, past>>, written' \in 0 .. MaxWrites,
         proc' \in [Processes -> Rows], \A q \in Processes : q # p => proc'[q] = proc[q],
         Seen'.whole => Progress(p)'
  PROVE  DatabaseInv'
<1>1. FileInv /\ ProcInv /\ ToolInv /\ PastInv
  BY DEF DatabaseInv
<1>2. main' = c /\ log' \in {"none", "live"}
  BY DEF Commit
<1>3. FileInv' /\ Seen' = c
  BY <1>1, <1>2 DEF FileInv, InOrder, Seen
<1>4. Current \in Nat /\ Len(c.ran) \in 0 .. Current /\ Len(main.ran) \in 0 .. Current
  BY <1>1, VersionIsLength, BuildsAssumption DEF FileInv, BuildsAssumption
<1>5. Seen = main /\ main.whole /\ log # "stale"
  BY <1>1, SeenIs
<1>6. ProcInv'
  BY <1>2, <1>3, <1>4, <1>5, OthersKnow
<1>7. PICK used \in BOOLEAN : tool' = [tool EXCEPT !.used = used]
                            /\ (tool.pc \in Restoring => used)
  BY <1>1 DEF Used, Restoring, ToolInv, Tools
<1>8. /\ tool' \in Tools /\ tool'.pc = tool.pc /\ tool'.source = tool.source
      /\ tool'.target = tool.target /\ tool'.copy = tool.copy /\ tool'.old = tool.old
      /\ tool.pc \in Restoring => tool'.used
  BY <1>1, <1>7 DEF ToolInv, Tools
<1>9. ToolInv'
  BY <1>1, <1>3, <1>8 DEF ToolInv, Restoring, InOrder, Full
<1>10. PastInv'
  <2>1. tool.pc = "replaced" => Full(main)'
    BY <1>1, <1>2, <1>4, <1>5 DEF PastInv, Full
  <2> QED BY <1>1, <1>2, <1>3, <1>8, <2>1 DEF PastInv
<1> QED BY <1>3, <1>6, <1>9, <1>10 DEF DatabaseInv

\* A database with one more migration, and with another write.
LEMMA NextContents ==
  ASSUME NEW content \in Contents, NEW value
  PROVE  /\ [content EXCEPT !.ran = value]
              = [ran |-> value, write |-> content.write, whole |-> content.whole]
         /\ [content EXCEPT !.write = value]
              = [ran |-> content.ran, write |-> value, whole |-> content.whole]
BY DEF Contents

LEMMA MigrateStep ==
  ASSUME DatabaseInv, NEW p \in Processes, Migrate(p)
  PROVE  DatabaseInv'
<1> DEFINE next == proc[p].next
           row == [pc |-> "migrating", next |-> next + 1, cached |-> proc[p].cached]
           c == [ran |-> Append(Seen.ran, next), write |-> Seen.write, whole |-> Seen.whole]
<1>1. proc[p].pc = "locking" /\ UNCHANGED <<backup, written, past>>
  BY DEF Migrate
<1>2. Current \in Nat /\ Build[p] \in 1 .. Current /\ InOrder(Seen) /\ Seen \in Contents /\ FileInv
  BY BuildsAssumption, SeenIs DEF BuildsAssumption, DatabaseInv, InOrder
<1>3. /\ Len(Seen.ran) \in 0 .. Current /\ Seen.ran \in Seq(1 .. Current)
      /\ Recorded = 1 .. Len(Seen.ran)
  BY <1>2, VersionIsLength, RecordedIsPrefix
<1>4. /\ proc \in [Processes -> Rows] /\ proc[p] \in Rows /\ Progress(p)
      /\ written \in 0 .. MaxWrites
  BY DEF DatabaseInv, ProcInv
<1>5. proc' = [proc EXCEPT ![p] = row]
  BY <1>4 DEF Migrate, Rows
<1>6. Seen.whole /\ next \in 1 .. Len(main.ran) + 1 /\ next <= Build[p]
  BY <1>1, <1>4 DEF Progress, Migrating
<1>7. Seen = main /\ log # "stale"
  BY <1>2, <1>6, SeenIs
<1>8. row \in Rows
  BY <1>2, <1>3, <1>4, <1>6, <1>7 DEF Rows
<1>9. /\ proc'[p] = row /\ \A q \in Processes : q # p => proc'[q] = proc[q]
      /\ proc' \in [Processes -> Rows]
  BY <1>4, <1>5, <1>8
<1>10. CASE next \in Recorded
  <2>1. UNCHANGED <<main, log, tool>> /\ Seen' = Seen
    BY <1>10 DEF Migrate, Seen
  <2>2. Progress(p)'
    BY <1>2, <1>3, <1>6, <1>7, <1>9, <1>10, <2>1, SMTT(30) DEF Progress, Migrating
  <2> QED BY <1>1, <1>9, <2>1, <2>2, ProcessStep
<1>11. CASE next \notin Recorded
  <2>1. next = Len(Seen.ran) + 1
    BY <1>3, <1>6, <1>7, <1>11
  <2>2. Commit(c, FALSE) /\ Used
    <3>1. Commit([Seen EXCEPT !.ran = Append(Seen.ran, next)], FALSE) /\ Used
      BY <1>11, Zenon DEF Migrate
    <3> QED BY <1>2, <3>1, NextContents, Zenon
  <2>3. c.ran \in Seq(1 .. Current) /\ Len(c.ran) = Len(Seen.ran) + 1
    BY <1>2, <1>3, <1>6, <1>7
  <2>4. \A k \in 1 .. Len(c.ran) : c.ran[k] = k
    BY <1>2, <1>3, <2>1, <2>3 DEF InOrder
  <2>5. c \in Contents
    BY <1>2, <2>3 DEF Contents
  <2>6. InOrder(c) /\ c.whole
    BY <1>6, <2>4, <2>5 DEF InOrder
  <2>7. Len(c.ran) >= Len(main.ran)
    BY <1>3, <1>7, <2>3
  <2>8. main' = c
    BY <2>2 DEF Commit
  <2>9. Seen'.whole => Progress(p)'
    BY <1>2, <1>3, <1>6, <1>7, <1>9, <2>1, <2>3, <2>8 DEF Progress, Migrating
  <2> HIDE DEF c
  <2> QED BY <1>1, <1>4, <1>6, <1>9, <2>2, <2>6, <2>7, <2>9, CommitStep
<1> QED BY <1>10, <1>11

LEMMA WriteStep ==
  ASSUME DatabaseInv, NEW p \in Processes, NEW last \in BOOLEAN, Write(p, last)
  PROVE  DatabaseInv'
<1> DEFINE c == [ran |-> Seen.ran, write |-> written', whole |-> Seen.whole]
<1>1. /\ proc[p].pc = "ready" /\ Seen.whole /\ UNCHANGED <<backup, proc, past>> /\ Used
      /\ written < MaxWrites /\ written' = written + 1
  BY DEF Write
<1>2. InOrder(Seen) /\ Seen \in Contents /\ Seen = main /\ MaxWrites \in Nat
  BY <1>1, BuildsAssumption, SeenIs DEF BuildsAssumption, DatabaseInv, InOrder
<1>3. Len(Seen.ran) \in Nat /\ Seen.ran \in Seq(1 .. Current)
  BY <1>2, VersionIsLength
<1>4. Progress(p) /\ proc \in [Processes -> Rows] /\ written' \in 0 .. MaxWrites
  BY <1>1, <1>2 DEF DatabaseInv, ProcInv
<1>5. Commit(c, last)
  <2>1. Commit([Seen EXCEPT !.write = written'], last)
    BY DEF Write
  <2> QED BY <1>2, <2>1, NextContents, Zenon
<1>6. c \in Contents
  BY <1>2, <1>3, <1>4 DEF Contents
<1>7. InOrder(c) /\ c.whole /\ c.ran = main.ran
  BY <1>1, <1>2, <1>6 DEF InOrder
<1>8. main' = c
  BY <1>5 DEF Commit
<1> HIDE DEF c
<1>9. Progress(p)'
  BY <1>1, <1>2, <1>4, <1>7, <1>8, SeenIs DEF Progress, Migrating, DatabaseInv
<1>10. Len(c.ran) >= Len(main.ran)
  BY <1>2, <1>3, <1>7
<1> QED BY <1>1, <1>4, <1>5, <1>7, <1>9, <1>10, CommitStep

\* Who meets a database that is not whole can only spoil it for good.
LEMMA StumbleStep ==
  ASSUME DatabaseInv, NEW p \in Processes, NEW taken \in BOOLEAN, Stumble(p, taken)
  PROVE  DatabaseInv'
<1>1. FileInv /\ ProcInv /\ ToolInv /\ PastInv
  BY DEF DatabaseInv
<1>2. /\ ~Seen.whole /\ proc[p].pc \in {"off", "ready"} /\ UNCHANGED <<backup, tool, written, past>>
      /\ proc' = [proc EXCEPT ![p] = IF proc[p].pc = "ready" THEN proc[p] ELSE Adrift]
      /\ UNCHANGED <<main, log>> \/ (main' = None /\ log' = "none")
  <2>1. proc \in [Processes -> Rows]
    BY <1>1 DEF ProcInv
  <2> QED BY <2>1 DEF Stumble, Damaged
<1>3. tool.pc \in {"none", "replaced"} /\ \A q \in Processes : ~Migrating(q)
  BY <1>1, <1>2 DEF ToolInv, Tools, ProcInv, Progress
<1>4. ~Seen'.whole
  BY <1>2, Nothing DEF Seen, Damaged
<1>5. Full(main) /\ Full(main)'
  BY <1>1, <1>2, SeenIs, Nothing DEF PastInv, Full
<1>6. FileInv'
  BY <1>1, <1>2, Nothing DEF FileInv, InOrder
<1>7. ProcInv'
  <2>1. proc \in [Processes -> Rows] /\ proc' \in [Processes -> Rows]
    BY <1>1, <1>2, RowsIn DEF ProcInv
  <2>2. \A q \in Processes : proc'[q] = proc[q] \/ proc'[q] = Adrift
    BY <1>2, <2>1
  <2>3. ASSUME NEW q \in Processes PROVE Progress(q)'
    <3>1. Progress(q) /\ ~Migrating(q)
      BY <1>1, <1>3 DEF ProcInv
    <3>2. CASE proc'[q] = proc[q]
      BY <1>2, <1>5, <3>1, <3>2, Nothing DEF Progress, Migrating
    <3>3. CASE proc'[q] = Adrift
      BY <1>5, <3>3 DEF Progress, Migrating, Adrift
    <3> QED BY <2>2, <3>2, <3>3
  <2> QED BY <1>1, <1>2, <2>1, <2>3 DEF ProcInv
<1>8. ToolInv'
  BY <1>1, <1>2, <1>3 DEF ToolInv, Restoring, InOrder, Full
<1>9. PastInv'
  BY <1>1, <1>2, <1>4, <1>5 DEF PastInv
<1> QED BY <1>6, <1>7, <1>8, <1>9 DEF DatabaseInv

-----------------------------------------------------------------------------
(* Steps of the commands.                                                  *)

\* A step of a command that leaves the database alone.
LEMMA CommandStep ==
  ASSUME DatabaseInv, UNCHANGED <<main, log, proc, written, past>>,
         backup' \in [Paths -> Contents], \A path \in Paths : InOrder(backup'[path]),
         ToolInv', tool'.pc # "replaced",
         ~Seen.whole => backup'[past.path] = backup[past.path]
  PROVE  DatabaseInv'
<1>1. FileInv /\ ProcInv /\ PastInv /\ Seen' = Seen
  BY DEF DatabaseInv, Seen, Damaged
<1>2. FileInv'
  BY <1>1 DEF FileInv, InOrder
<1>3. ProcInv'
  BY <1>1 DEF ProcInv, Progress, Migrating, Full
<1>4. PastInv'
  BY <1>1 DEF PastInv, Full
<1> QED BY <1>2, <1>3, <1>4 DEF DatabaseInv

LEMMA BackupSteps ==
  ASSUME DatabaseInv,
         (\E path \in Paths : Bring(path) \/ StartBackup(path)) \/ PublishBackup \/ ToolEnds
  PROVE  DatabaseInv'
<1>1. FileInv /\ ToolInv /\ PastInv /\ InOrder(Seen) /\ Seen \in Contents
  BY SeenIs DEF DatabaseInv, InOrder
<1>2. None \in Contents
  BY Nothing DEF InOrder
<1>3. ASSUME NEW path \in Paths, Bring(path) PROVE DatabaseInv'
  <2> DEFINE full == [ran |-> [k \in 1 .. Current |-> k], write |-> 0, whole |-> TRUE]
  <2>1. /\ tool.pc = "none" /\ backup' = [backup EXCEPT ![path] = full]
        /\ UNCHANGED <<main, log, proc, tool, written, past>>
        /\ \A other \in Paths : backup[other] = None
    BY <1>3 DEF Bring
  <2>2. Current \in Nat /\ MaxWrites \in Nat
    BY BuildsAssumption DEF BuildsAssumption
  <2>3. full.ran \in Seq(1 .. Current) /\ Len(full.ran) = Current
    BY <2>2
  <2>4. InOrder(full)
    BY <2>2, <2>3 DEF InOrder, Contents
  <2> HIDE DEF full
  <2>5. backup' \in [Paths -> Contents] /\ \A q \in Paths : InOrder(backup'[q])
    BY <1>1, <2>1, <2>4 DEF FileInv, InOrder
  <2>6. Seen.whole
    BY <1>1, <2>1, Nothing DEF PastInv
  <2>7. ToolInv'
    BY <1>1, <2>1 DEF ToolInv, Restoring, InOrder
  <2> QED BY <2>1, <2>5, <2>6, <2>7, CommandStep
<1>4. ASSUME NEW path \in Paths, StartBackup(path) PROVE DatabaseInv'
  <2>1. /\ tool' = [pc |-> "copied", source |-> NoPath, target |-> path, copy |-> Seen, old |-> None,
                    used |-> FALSE]
        /\ Seen.whole /\ UNCHANGED <<main, log, backup, proc, written, past>>
    BY <1>4 DEF StartBackup
  <2>2. tool' \in Tools /\ Seen' = Seen
    BY <1>1, <1>2, <2>1 DEF Tools, Seen
  <2>3. ToolInv'
    BY <1>1, <2>1, <2>2 DEF ToolInv, Restoring, InOrder
  <2> QED BY <1>1, <2>1, <2>3, CommandStep DEF FileInv
<1>5. CASE PublishBackup
  <2>1. /\ tool.pc = "copied" /\ tool' = NoTool /\ backup' = [backup EXCEPT ![tool.target] = tool.copy]
        /\ UNCHANGED <<main, log, proc, written, past>>
    BY <1>5 DEF PublishBackup
  <2>2. Seen.whole /\ tool.target \in Paths /\ InOrder(tool.copy) /\ tool.copy \in Contents
    BY <1>1, <2>1 DEF ToolInv, InOrder
  <2>3. backup' \in [Paths -> Contents] /\ \A path \in Paths : InOrder(backup'[path])
    BY <1>1, <2>1, <2>2 DEF FileInv
  <2>4. ToolInv'
    BY <2>1, NoToolIn DEF ToolInv, Restoring, InOrder
  <2> QED BY <2>1, <2>2, <2>3, <2>4, NoToolIn, CommandStep
<1>6. CASE ToolEnds
  <2>1. tool' = NoTool /\ UNCHANGED <<main, log, backup, proc, written, past>>
    BY <1>6 DEF ToolEnds
  <2>2. ToolInv'
    BY <2>1, NoToolIn DEF ToolInv, Restoring, InOrder
  <2> QED BY <1>1, <2>1, <2>2, NoToolIn, CommandStep DEF FileInv
<1> QED BY <1>3, <1>4, <1>5, <1>6

LEMMA StartRestoreStep ==
  ASSUME DatabaseInv, NEW source \in Paths, NEW target \in Paths, StartRestore(source, target)
  PROVE  DatabaseInv'
<1>1. FileInv /\ InOrder(Seen) /\ Seen \in Contents
  BY SeenIs DEF DatabaseInv, InOrder
<1>2. /\ tool' = [pc |-> "saving", source |-> source, target |-> target, copy |-> Seen, old |-> Seen,
                  used |-> FALSE]
      /\ Version(backup[source]) = Current /\ Seen.whole
      /\ UNCHANGED <<main, log, backup, proc, written, past>>
  BY DEF StartRestore
<1>3. Len(backup[source].ran) = Current /\ Seen = main /\ Seen' = Seen
  BY <1>1, <1>2, VersionIsLength, SeenIs DEF FileInv, Seen
<1>4. tool' \in Tools
  BY <1>1, <1>2 DEF Tools, Restoring
<1>5. ToolInv'
  BY <1>1, <1>2, <1>3, <1>4 DEF ToolInv, InOrder, Restoring
<1> QED BY <1>1, <1>2, <1>5, CommandStep DEF FileInv

LEMMA SaveStep ==
  ASSUME DatabaseInv, Save
  PROVE  DatabaseInv'
<1>1. FileInv /\ ToolInv
  BY DEF DatabaseInv
<1>2. /\ tool.pc = "saving" /\ tool' = [tool EXCEPT !.pc = "saved"]
      /\ backup' = [backup EXCEPT ![tool.target] = tool.copy]
      /\ UNCHANGED <<main, log, proc, written, past>>
  BY DEF Save
<1>3. /\ tool.target \in Paths /\ InOrder(tool.copy) /\ tool.copy \in Contents /\ Seen.whole
      /\ tool.source \in Paths /\ tool.copy = tool.old
  BY <1>1, <1>2 DEF ToolInv, InOrder, Restoring
<1>4. /\ tool' \in Tools /\ tool'.pc = "saved" /\ tool'.copy = tool.copy /\ tool'.old = tool.old
      /\ tool'.source = tool.source /\ tool'.target = tool.target /\ tool'.used = tool.used
  BY <1>1, <1>2 DEF ToolInv, Tools, Restoring
<1>5. backup' \in [Paths -> Contents] /\ \A path \in Paths : InOrder(backup'[path])
  BY <1>1, <1>2, <1>3 DEF FileInv
<1>6. /\ backup'[tool.target] = tool.old
      /\ tool.source # tool.target => backup'[tool.source] = backup[tool.source]
  BY <1>1, <1>2, <1>3 DEF FileInv
<1>7. Seen' = Seen
  BY <1>2 DEF Seen
<1>8. ToolInv'
  BY <1>1, <1>2, <1>3, <1>4, <1>6, <1>7 DEF ToolInv, Restoring, InOrder
<1> QED BY <1>2, <1>3, <1>4, <1>5, <1>8, CommandStep

\* The command with the copy it has verified.
LEMMA CopyRow ==
  ASSUME NEW o \in Tools, NEW c \in Contents
  PROVE  [o EXCEPT !.pc = "verified", !.copy = c]
           = [pc |-> "verified", source |-> o.source, target |-> o.target, copy |-> c, old |-> o.old,
              used |-> o.used]
<1>1. PICK m : m = [o EXCEPT !.pc = "verified"]
  OBVIOUS
<1>2. /\ m \in Tools /\ m.pc = "verified" /\ m.source = o.source /\ m.target = o.target
      /\ m.old = o.old /\ m.used = o.used
  BY <1>1 DEF Tools, Restoring
<1>3. [m EXCEPT !.copy = c] = [pc |-> m.pc, source |-> m.source, target |-> m.target, copy |-> c,
                               old |-> m.old, used |-> m.used]
  BY <1>2 DEF Tools
<1> QED BY <1>1, <1>2, <1>3, Zenon

LEMMA CopyStep ==
  ASSUME DatabaseInv, Copy
  PROVE  DatabaseInv'
<1>1. FileInv /\ ToolInv
  BY DEF DatabaseInv
<1>2. PICK c \in {backup[tool.source], None} :
        /\ tool.pc = "saved" /\ c.whole /\ tool' = [tool EXCEPT !.pc = "verified", !.copy = c]
        /\ UNCHANGED <<main, log, backup, proc, written, past>>
  BY DEF Copy, Damaged
<1>3. /\ c = backup[tool.source] /\ tool.source \in Paths /\ InOrder(c) /\ c \in Contents
      /\ Seen.whole /\ tool.target \in Paths
  BY <1>1, <1>2, Nothing DEF ToolInv, FileInv, Restoring, InOrder
<1>4. tool' = [pc |-> "verified", source |-> tool.source, target |-> tool.target, copy |-> c,
               old |-> tool.old, used |-> tool.used]
  BY <1>1, <1>2, <1>3, CopyRow, Zenon DEF ToolInv
<1>5. tool' \in Tools /\ Seen' = Seen
  BY <1>1, <1>2, <1>3, <1>4 DEF ToolInv, Tools, Restoring, Seen
<1>6. ToolInv'
  BY <1>1, <1>2, <1>3, <1>4, <1>5 DEF ToolInv, Restoring, InOrder
<1>7. tool'.pc = "verified"
  BY <1>4
<1> QED BY <1>1, <1>2, <1>6, <1>7, CommandStep DEF FileInv

\* Nobody migrates any more; who serves finds the whole schema, or a file that was saved over
\* the source of its own restore, or no whole file at all.
LEMMA CutOffStep ==
  ASSUME ProcInv, CutOff, written' = written, Full(main)', Len(main'.ran) \in Nat
  PROVE  ProcInv'
<1>1. proc \in [Processes -> Rows] /\ Current \in Nat
  BY BuildsAssumption DEF BuildsAssumption, ProcInv
<1>2. proc' \in [Processes -> Rows]
  BY <1>1, RowsIn DEF CutOff
<1>3. ASSUME NEW p \in Processes PROVE Progress(p)'
  <2>1. Progress(p) /\ proc[p].cached <= Current
    BY <1>1 DEF ProcInv, Rows
  <2>2. CASE Migrating(p)
    <3>1. proc'[p] = Adrift
      BY <2>2 DEF CutOff
    <3> QED BY <3>1 DEF Progress, Migrating, Adrift
  <2>3. CASE ~Migrating(p)
    <3>1. proc'[p] = proc[p]
      BY <2>3 DEF CutOff
    <3>2. proc[p].pc = "ready" /\ main'.whole /\ ~past'.onItself => proc[p].cached <= Len(main'.ran)
      BY <1>1, <2>1 DEF Full
    <3>3. proc[p].pc = "ready" => Build[p] <= proc[p].cached
      BY <2>1 DEF Progress
    <3> QED BY <2>3, <3>1, <3>2, <3>3 DEF Progress, Migrating
  <2> QED BY <2>2, <2>3
<1> QED BY <1>2, <1>3 DEF ProcInv

LEMMA ReplaceStep ==
  ASSUME DatabaseInv, Replace
  PROVE  DatabaseInv'
<1>1. FileInv /\ ProcInv /\ ToolInv /\ PastInv
  BY DEF DatabaseInv
<1>2. PICK stray \in BOOLEAN :
        /\ log' = IF stray \/ log # "none" THEN "stale" ELSE "none"
        /\ past' = [path |-> tool.target, held |-> tool.old, exposed |-> stray \/ log # "none",
                    onItself |-> past.onItself \/ tool.source = tool.target]
  BY DEF Replace
<1>3. /\ tool.pc = "verified" /\ main' = tool.copy /\ CutOff /\ UNCHANGED <<backup, written>>
      /\ tool' = [pc |-> "replaced", source |-> NoPath, target |-> NoPath, copy |-> tool.copy,
                  old |-> None, used |-> FALSE]
  BY DEF Replace
<1>4. /\ tool.copy.whole /\ InOrder(tool.copy) /\ tool.target \in Paths /\ tool.old.whole
      /\ backup[tool.target] = tool.old /\ tool.old \in Contents /\ tool.copy \in Contents
      /\ tool.source # tool.target => Len(tool.copy.ran) = Current
  BY <1>1, <1>3 DEF ToolInv, Tools, Restoring, InOrder
<1>5. /\ past'.path = tool.target /\ past'.held = tool.old
      /\ past'.onItself <=> past.onItself \/ tool.source = tool.target
      /\ log' = "stale" => past'.exposed
  BY <1>2
<1>6. past' \in Pasts
  BY <1>1, <1>2, <1>4 DEF PastInv, Pasts
<1>7. Full(tool.copy)' /\ Full(main)'
  BY <1>3, <1>4, <1>5 DEF Full
<1>8. FileInv'
  BY <1>1, <1>2, <1>3, <1>4 DEF FileInv, InOrder
<1>9. ProcInv'
  <2>1. Len(main'.ran) \in Nat
    BY <1>3, <1>4, VersionIsLength
  <2> QED BY <1>1, <1>3, <1>7, <2>1, CutOffStep
<1>10. ToolInv'
  <2>1. None \in Contents
    BY Nothing DEF InOrder
  <2>2. tool' \in Tools
    BY <1>3, <1>4, <2>1 DEF Tools
  <2> QED BY <1>3, <1>4, <1>7, <2>2 DEF ToolInv, Restoring, InOrder, Full
<1>11. PastInv'
  <2>1. ~Seen'.whole => log' = "stale"
    BY <1>3, <1>4 DEF Seen
  <2> QED BY <1>3, <1>4, <1>5, <1>6, <1>7, <2>1 DEF PastInv
<1> QED BY <1>8, <1>9, <1>10, <1>11 DEF DatabaseInv

LEMMA RemoveLogStep ==
  ASSUME DatabaseInv, RemoveLog
  PROVE  DatabaseInv'
<1>1. FileInv /\ ProcInv /\ ToolInv /\ PastInv
  BY DEF DatabaseInv
<1>2. /\ tool.pc = "replaced" /\ log' = "none" /\ tool' = NoTool /\ CutOff
      /\ main' \in {main, tool.copy, None} /\ UNCHANGED <<backup, written>>
  BY DEF RemoveLog, Damaged
<1>3. past' = IF main'.whole THEN [NoPast EXCEPT !.onItself = past.onItself]
              ELSE [past EXCEPT !.exposed = TRUE]
  BY DEF RemoveLog
<1>4. /\ past' \in Pasts /\ past'.onItself = past.onItself
      /\ ~main'.whole => past'.exposed /\ past'.path = past.path /\ past'.held = past.held
  <2>1. None \in Contents /\ past \in Pasts
    BY <1>1, Nothing DEF PastInv, InOrder
  <2>2. NoPast \in Pasts
    BY <2>1 DEF NoPast, Pasts
  <2>3. CASE main'.whole
    <3>1. PICK itself \in BOOLEAN : itself = past.onItself
      BY <2>1 DEF Pasts
    <3>2. past' = [NoPast EXCEPT !.onItself = itself]
      BY <1>3, <2>3, <3>1, Zenon
    <3> QED BY <2>2, <2>3, <3>1, <3>2 DEF Pasts
  <2>4. CASE ~main'.whole
    <3>1. past' = [past EXCEPT !.exposed = TRUE]
      BY <1>3, <2>4
    <3> QED BY <2>1, <3>1 DEF Pasts
  <2> QED BY <2>3, <2>4
<1>5. InOrder(main') /\ Len(main'.ran) \in Nat
  <2>1. InOrder(main')
    BY <1>1, <1>2, Nothing DEF FileInv, ToolInv, InOrder
  <2> QED BY <2>1, VersionIsLength
<1>6. Full(main)'
  BY <1>1, <1>2, <1>4, Nothing DEF PastInv, ToolInv, Full
<1>7. FileInv'
  BY <1>1, <1>2, <1>5 DEF FileInv, InOrder
<1>8. ProcInv'
  BY <1>1, <1>2, <1>5, <1>6, CutOffStep
<1>9. ToolInv'
  BY <1>2, NoToolIn DEF ToolInv, Restoring, InOrder
<1>10. PastInv'
  <2>1. Seen' = main'
    BY <1>2 DEF Seen
  <2> QED BY <1>1, <1>2, <1>4, <2>1, NoToolIn DEF PastInv
<1> QED BY <1>7, <1>8, <1>9, <1>10 DEF DatabaseInv

LEMMA DatabaseStays == DatabaseInv /\ [DatabaseNext]_databaseVars => DatabaseInv'
<1> SUFFICES ASSUME DatabaseInv, [DatabaseNext]_databaseVars PROVE DatabaseInv'
  OBVIOUS
<1>1. CASE UNCHANGED databaseVars
  <2>1. UNCHANGED <<main, log, backup, proc, tool, written, past>> /\ Seen' = Seen
    BY <1>1 DEF databaseVars, Seen, Damaged
  <2>2. FileInv' /\ ProcInv'
    BY <2>1 DEF DatabaseInv, FileInv, InOrder, ProcInv, Progress, Migrating, Full
  <2>3. ToolInv' /\ PastInv'
    BY <2>1 DEF DatabaseInv, ToolInv, PastInv, InOrder, Full
  <2> QED BY <2>2, <2>3 DEF DatabaseInv
<1>2. ASSUME NEW p \in Processes,
             \/ Open(p) \/ Check(p) \/ Ready(p) \/ Migrate(p) \/ MigrationFails(p) \/ Read(p)
             \/ Settle(p) \/ Stop(p)
             \/ \E last \in BOOLEAN : Write(p, last)
             \/ \E taken \in BOOLEAN : Stumble(p, taken)
      PROVE  DatabaseInv'
  BY <1>2, OpenStep, CheckStep, ReadyStep, MigrateStep, LeaveStep, ReadStep, SettleStep, WriteStep,
     StumbleStep
<1>3. ASSUME NEW path \in Paths, NEW source \in Paths, StartRestore(source, path)
      PROVE  DatabaseInv'
  BY <1>3, StartRestoreStep
<1>4. ASSUME (\E path \in Paths : Bring(path) \/ StartBackup(path)) \/ PublishBackup \/ ToolEnds
      PROVE  DatabaseInv'
  BY <1>4, BackupSteps
<1>5. ASSUME Save \/ Copy \/ Replace \/ RemoveLog
      PROVE  DatabaseInv'
  BY <1>5, SaveStep, CopyStep, ReplaceStep, RemoveLogStep
<1> QED BY <1>1, <1>2, <1>3, <1>4, <1>5 DEF DatabaseNext

\* The database, the processes that use it, the backups, the command that runs and what the
\* last restore has replaced stay in step.
THEOREM DatabaseInvariant == DatabaseSpec => []DatabaseInv
BY DatabaseInitially, DatabaseStays, PTL DEF DatabaseSpec

\* For any number of processes and any builds, and commands that replace the file under them:
\* a migration of apply_migrations runs once and in its order, in the database and in every
\* backup, and a process that serves finds at least the schema that it remembers, unless a
\* restore has written its safety backup over its own source.
THEOREM MigrationsTheorem == DatabaseSpec => []MigrationsRunOnceInOrder
<1>1. DatabaseInv => MigrationsRunOnceInOrder
  <2> SUFFICES ASSUME DatabaseInv PROVE MigrationsRunOnceInOrder
    OBVIOUS
  <2>1. InOrder(Seen) /\ FileInv /\ \A path \in Paths : InOrder(backup[path])
    BY SeenIs DEF DatabaseInv, FileInv
  <2>2. \A content \in {Seen} \cup {backup[path] : path \in Paths} :
          \A k \in 1 .. Len(content.ran) : content.ran[k] = k
    BY <2>1 DEF InOrder
  <2>3. Version(Seen) = Len(Seen.ran) /\ Len(Seen.ran) \in Int
    BY <2>1, VersionIsLength
  <2>4. ASSUME NEW p \in Processes, proc[p].pc = "ready"
        PROVE  /\ proc[p].cached >= Build[p]
               /\ Seen.whole /\ ~past.onItself => Version(Seen) >= proc[p].cached
    <3>1. Build[p] <= proc[p].cached
      BY <2>4 DEF DatabaseInv, ProcInv, Progress
    <3>2. main.whole /\ ~past.onItself => proc[p].cached <= Len(main.ran)
      BY <2>4 DEF DatabaseInv, ProcInv, Progress
    <3>3. Build[p] \in Int /\ proc[p].cached \in Int
      BY BuildsAssumption DEF BuildsAssumption, DatabaseInv, ProcInv, Rows
    <3>4. Seen.whole => main.whole /\ Seen = main
      BY <2>1, SeenIs
    <3> QED BY <2>3, <3>1, <3>2, <3>3, <3>4
  <2> QED BY <2>2, <2>4 DEF MigrationsRunOnceInOrder
<1> QED BY <1>1, DatabaseInvariant, PTL

\* What restore_database replaces can be had back, whoever uses the database meanwhile and
\* wherever the command is killed: until then the database is what it was, but for commits,
\* and in the safety backup; and whenever it is not whole afterwards, also because the kill
\* came before the log was removed, the safety backup still holds what was replaced.
THEOREM RestoreTheorem == DatabaseSpec => []RestoreCanBeUndone
<1>1. DatabaseInv => RestoreCanBeUndone
  <2> SUFFICES ASSUME DatabaseInv PROVE RestoreCanBeUndone
    OBVIOUS
  <2>1. FileInv /\ ToolInv /\ PastInv
    BY DEF DatabaseInv
  <2>2. tool.pc \in Restoring => tool.used \/ Seen = tool.old
    BY <2>1, SeenIs DEF ToolInv
  <2> QED BY <2>1, <2>2 DEF ToolInv, PastInv, Restoring, RestoreCanBeUndone
<1> QED BY <1>1, DatabaseInvariant, PTL

-----------------------------------------------------------------------------
(* Request metrics.                                                        *)
(*                                                                         *)
(* The report adds up counters of buckets, and then of kinds of answers,   *)
(* with folds over sets.  A fold is a function that is chosen: one that    *)
(* sums up (IsSum).  Where the summands count disjoint sets there is one,  *)
(* which counts their union, and no other (SumIsUnique), so that the fold  *)
(* counts the union (TotalIs).  What a bucket counts, as long as a report  *)
(* may need it, are the stored answers of its time (RowsInv).              *)

IsSum(sum, g, S) ==
  sum = [T \in SUBSET S |->
          IF T = {} THEN 0
          ELSE g[CHOOSE x \in T : TRUE] + sum[T \ {CHOOSE x \in T : TRUE}]]

Total(g, S) == MapThenSumSet(LAMBDA x : g[x], S)

LEMMA TotalIsChosen ==
  ASSUME NEW g, NEW S
  PROVE  Total(g, S) = (CHOOSE sum : IsSum(sum, g, S))[S]
BY DEF Total, MapThenSumSet, MapThenFoldSet, IsSum

LEMMA SumIsUnique ==
  ASSUME NEW S, IsFiniteSet(S), NEW g, NEW f, NEW h, IsSum(f, g, S), IsSum(h, g, S)
  PROVE  f[S] = h[S]
<1> DEFINE Bad == {n \in Nat : \E T \in SUBSET S : Cardinality(T) = n /\ f[T] # h[T]}
<1>1. Bad = {}
  <2>1. SUFFICES ASSUME Bad # {} PROVE FALSE
    OBVIOUS
  <2>2. PICK n \in Bad : \A m \in Bad : n <= m
    BY <2>1, LeastExists
  <2>3. PICK T \in SUBSET S : Cardinality(T) = n /\ f[T] # h[T]
    BY <2>2
  <2>4. CASE T = {}
    BY <2>3, <2>4 DEF IsSum
  <2>5. CASE T # {}
    <3>1. PICK x \in T : x = (CHOOSE y \in T : TRUE)
      BY <2>5
    <3>2. PICK U \in SUBSET S : U = T \ {x}
      OBVIOUS
    <3>3. f[T] = g[x] + f[U] /\ h[T] = g[x] + h[U]
      BY <2>5, <3>1, <3>2 DEF IsSum
    <3>4. IsFiniteSet(T)
      BY FS_Subset
    <3>5. Cardinality(U) = n - 1 /\ Cardinality(U) \in Nat
      BY <2>3, <3>1, <3>2, <3>4, FS_RemoveElement, FS_CardinalityType
    <3>6. ~ (Cardinality(U) \in Bad)
      <4>1. n \in Nat
        BY <2>2
      <4> QED BY <2>2, <3>5, <4>1
    <3>7. f[U] = h[U]
      BY <3>5, <3>6
    <3> QED BY <2>3, <3>3, <3>7
  <2> QED BY <2>4, <2>5
<1>2. Cardinality(S) \in Nat
  BY FS_CardinalityType
<1> QED BY <1>1, <1>2

CountUnions(P, S) == [T \in SUBSET S |-> Cardinality(UNION {P[x] : x \in T})]

\* The counts of disjoint sets are summed up by the counts of their unions.
LEMMA CountsSumUp ==
  ASSUME NEW A, IsFiniteSet(A), NEW S, NEW P, NEW g,
         \A x \in S : P[x] \subseteq A /\ g[x] = Cardinality(P[x]),
         \A x, y \in S : x # y => P[x] \cap P[y] = {}
  PROVE  IsSum(CountUnions(P, S), g, S)
<1> DEFINE f == [T \in SUBSET S |-> Cardinality(UNION {P[x] : x \in T})]
<1>1. ASSUME NEW T \in SUBSET S
      PROVE  f[T] = IF T = {} THEN 0
                    ELSE g[CHOOSE x \in T : TRUE] + f[T \ {CHOOSE x \in T : TRUE}]
  <2>1. CASE T = {}
    <3>1. UNION {P[x] : x \in T} = {}
      BY <2>1
    <3> QED BY <2>1, <3>1, FS_EmptySet
  <2>2. CASE T # {}
    <3>1. PICK x \in T : x = (CHOOSE y \in T : TRUE)
      BY <2>2
    <3>2. PICK U \in SUBSET S : U = T \ {x}
      OBVIOUS
    <3>3. PICK all, rest : all = UNION {P[y] : y \in T} /\ rest = UNION {P[y] : y \in U}
      OBVIOUS
    <3>4. all = P[x] \cup rest /\ P[x] \cap rest = {}
      <4>1. all = P[x] \cup rest
        BY <3>2, <3>3
      <4>2. P[x] \cap rest = {}
        BY <3>2, <3>3
      <4> QED BY <4>1, <4>2
    <3>5. P[x] \subseteq A /\ rest \subseteq A /\ g[x] = Cardinality(P[x])
      BY <3>3
    <3>6. IsFiniteSet(P[x]) /\ IsFiniteSet(rest)
      BY <3>5, FS_Subset
    <3>7. PICK m \in Nat, n \in Nat : m = Cardinality(P[x]) /\ n = Cardinality(rest)
      BY <3>6, FS_CardinalityType
    <3>8. Cardinality(all) = m + n
      <4>1. Cardinality(P[x] \cap rest) = 0
        BY <3>4, FS_EmptySet
      <4>2. Cardinality(P[x] \cup rest) = Cardinality(P[x]) + Cardinality(rest) - Cardinality(P[x] \cap rest)
        BY <3>6, FS_Union
      <4> QED BY <3>4, <3>7, <4>1, <4>2
    <3>9. f[T] = Cardinality(all) /\ f[U] = Cardinality(rest)
      BY <3>3
    <3> QED BY <2>2, <3>1, <3>2, <3>5, <3>7, <3>8, <3>9
  <2> QED BY <2>1, <2>2
<1> HIDE DEF f
<1>2. f = [T \in SUBSET S |-> f[T]]
  BY DEF f
<1>3. [T \in SUBSET S |-> f[T]] = [T \in SUBSET S |->
         IF T = {} THEN 0 ELSE g[CHOOSE x \in T : TRUE] + f[T \ {CHOOSE x \in T : TRUE}]]
  BY <1>1
<1>4. IsSum(f, g, S)
  BY <1>2, <1>3 DEF IsSum
<1> QED BY <1>4 DEF f, CountUnions

LEMMA TotalIs ==
  ASSUME NEW A, IsFiniteSet(A), NEW S, IsFiniteSet(S), NEW P, NEW g,
         \A x \in S : P[x] \subseteq A /\ g[x] = Cardinality(P[x]),
         \A x, y \in S : x # y => P[x] \cap P[y] = {}
  PROVE  Total(g, S) = Cardinality(UNION {P[x] : x \in S})
<1>1. PICK f : f = CountUnions(P, S) /\ IsSum(f, g, S)
  BY CountsSumUp
<1>2. PICK h : h = (CHOOSE sum : IsSum(sum, g, S))
  OBVIOUS
<1>3. IsSum(h, g, S)
  BY <1>1, <1>2
<1>4. f[S] = h[S]
  BY <1>1, <1>3, SumIsUnique
<1>5. f[S] = Cardinality(UNION {P[x] : x \in S})
  BY <1>1 DEF CountUnions
<1> QED BY <1>2, <1>4, <1>5, TotalIsChosen

-----------------------------------------------------------------------------
(* Buckets.                                                                *)

LEMMA StartIs ==
  ASSUME NEW t \in Int
  PROVE  \E q \in Int : /\ Start(t) = q * BucketTicks
                        /\ q * BucketTicks <= t /\ t < q * BucketTicks + BucketTicks
<1>1. PICK b \in Nat \ {0} : b = BucketTicks
  BY MetricsAssumption
<1>2. PICK q \in Int, r \in 0 .. (b - 1) : q = t \div b /\ t = b * q + r
  BY <1>1
<1>3. q * b = b * q
  OBVIOUS
<1>4. Start(t) = q * b
  BY <1>1, <1>2 DEF Start
<1>5. q * b <= t /\ t < q * b + b
  BY <1>2, <1>3
<1> QED BY <1>1, <1>4, <1>5

\* A bucket that starts by some time starts by the start of its bucket.
LEMMA StartsBy ==
  ASSUME NEW t \in Int, NEW u \in Int
  PROVE  /\ Start(t) \in Int /\ Start(u) \in Int /\ Start(t) <= t
         /\ Start(t) <= u <=> Start(t) <= Start(u)
         /\ t <= u => Start(t) <= Start(u)
<1>1. PICK b \in Nat \ {0} : b = BucketTicks
  BY MetricsAssumption
<1>2. PICK p \in Int : Start(t) = p * b /\ p * b <= t /\ t < p * b + b
  BY <1>1, StartIs
<1>3. PICK q \in Int : Start(u) = q * b /\ q * b <= u /\ u < q * b + b
  BY <1>1, StartIs
<1>4. p > q => p * b >= q * b + b
  <2>1. SUFFICES ASSUME p > q PROVE p * b >= q * b + b
    OBVIOUS
  <2>2. PICK d \in Nat : p = q + 1 + d
    <3>1. p - (q + 1) \in Nat
      BY <2>1
    <3> QED BY <3>1
  <2>3. p * b = q * b + b + d * b
    BY <2>2
  <2>4. d * b \in Nat
    OBVIOUS
  <2> QED BY <2>3, <2>4
<1>5. p <= q => p * b <= q * b
  <2>1. SUFFICES ASSUME p <= q PROVE p * b <= q * b
    OBVIOUS
  <2>2. PICK d \in Nat : q = p + d
    <3>1. q - p \in Nat
      BY <2>1
    <3> QED BY <3>1
  <2>3. q * b = p * b + d * b
    BY <2>2
  <2>4. d * b \in Nat
    OBVIOUS
  <2> QED BY <2>3, <2>4
<1>6. PICK x \in Int, y \in Int : x = p * b /\ y = q * b
  OBVIOUS
<1>7. x <= u <=> x <= y
  BY <1>3, <1>4, <1>5, <1>6
<1>8. t <= u => x <= y
  BY <1>2, <1>6, <1>7
<1> QED BY <1>2, <1>3, <1>6, <1>7, <1>8

LEMMA StartsAreFinite ==
  Starts \subseteq 0 .. MaxTime /\ IsFiniteSet(Starts)
<1>1. ASSUME NEW t \in 0 .. MaxTime PROVE Start(t) \in 0 .. MaxTime
  <2>1. MaxTime \in Nat
    BY ClockAssumption
  <2>2. Start(t) \in Int /\ Start(t) <= t
    BY <2>1, StartsBy
  <2>3. Start(0) = 0
    <3>1. PICK b \in Nat \ {0} : b = BucketTicks
      BY MetricsAssumption
    <3>2. 0 \div b = 0
      OBVIOUS
    <3> QED BY <3>1, <3>2 DEF Start
  <2>4. Start(0) <= Start(t)
    BY <2>1, StartsBy
  <2> QED BY <2>1, <2>2, <2>3, <2>4
<1>2. Starts \subseteq 0 .. MaxTime
  BY <1>1 DEF Starts
<1>3. IsFiniteSet(0 .. MaxTime)
  BY ClockAssumption, FS_Interval
<1> QED BY <1>2, <1>3, FS_Subset

LEMMA KindsAreFinite ==
  IsFiniteSet(Kinds)
<1> DEFINE Two == {"success"} \cup {"client_error"}
           Three == Two \cup {"security_denied"}
           Four == Three \cup {"throttled"}
<1>1. IsFiniteSet(Four \cup {"server_error"})
  <2>1. IsFiniteSet({"success"})
    BY FS_Singleton
  <2>2. IsFiniteSet(Two)
    BY <2>1, FS_AddElement
  <2>3. IsFiniteSet(Three)
    BY <2>2, FS_AddElement
  <2>4. IsFiniteSet(Four)
    BY <2>3, FS_AddElement
  <2> QED BY <2>4, FS_AddElement
<1>4. Categories \subseteq Four \cup {"server_error"}
  BY MetricsAssumption
<1>2. IsFiniteSet(Categories)
  <2> HIDE DEF Four
  <2> QED BY <1>1, <1>4, FS_Subset
<1>3. IsFiniteSet(BOOLEAN)
  <2>1. IsFiniteSet({TRUE} \cup {FALSE})
    BY FS_Singleton, FS_AddElement
  <2>2. BOOLEAN = {TRUE} \cup {FALSE}
    OBVIOUS
  <2> QED BY <2>1, <2>2
<1> QED BY <1>2, <1>3, FS_Product DEF Kinds

\* The answers that a bucket should count.
Stored(k, s) ==
  {r \in Requests : answer[r].pc = "stored" /\ answer[r].kind = k /\ Start(answer[r].clock) = s}

RowsInv ==
  \A s \in Starts : \A k \in Kinds :
    s >= Start(now - RetentionTicks) => rows[s][k] = Cardinality(Stored(k, s))

MetricsInv ==
  /\ MetricsTypeOK /\ RowsInv
  /\ \A r \in Requests : answer[r].clock <= now
  /\ IsFiniteSet({r \in Requests : answer[r].pc = "stored"})

LEMMA MetricsInitially ==
  MetricsInit => MetricsInv
<1> SUFFICES ASSUME MetricsInit PROVE MetricsInv
  OBVIOUS
<1>1. PICK k0 \in Kinds, p0 \in Servers :
        k0 = (CHOOSE k \in Kinds : TRUE) /\ p0 = (CHOOSE p \in Servers : TRUE)
  <2>1. <<"server_error", TRUE>> \in Kinds /\ Servers # {}
    BY MetricsAssumption DEF Kinds
  <2> QED BY <2>1
<1>2. MaxTime \in Nat
  BY ClockAssumption
<1>3. /\ now = 0 /\ counter = [p \in Servers |-> Fresh]
      /\ rows = [s \in Starts |-> [k \in Kinds |-> 0]]
      /\ answer \in [Requests -> [pc : {"open"}, kind : {k0}, clock : {0}, process : {p0}]]
  BY <1>1 DEF MetricsInit
<1>4. \A r \in Requests : answer[r].pc = "open" /\ answer[r].clock = 0
  BY <1>3
<1>5. answer \in [Requests -> Answered]
  BY <1>2, <1>3 DEF Answered
<1>6. MetricsTypeOK
  BY <1>2, <1>3, <1>5 DEF MetricsTypeOK, Fresh
<1>7. RowsInv
  <2>1. \A s \in Starts : \A k \in Kinds : Stored(k, s) = {}
    BY <1>4 DEF Stored
  <2> QED BY <1>3, <2>1, FS_EmptySet DEF RowsInv
<1>8. {r \in Requests : answer[r].pc = "stored"} = {}
  BY <1>4
<1>9. IsFiniteSet({r \in Requests : answer[r].pc = "stored"})
  BY <1>8, FS_EmptySet
<1>10. \A r \in Requests : answer[r].clock <= now
  <2>1. 0 <= now
    BY <1>3
  <2> QED BY <1>4, <2>1
<1> QED BY <1>6, <1>7, <1>9, <1>10 DEF MetricsInv

\* A step that changes neither the rows nor what is stored, and lets the clock go on at most,
\* keeps what the rows count.
LEMMA RowsStay ==
  ASSUME MetricsInv, UNCHANGED rows, now' \in Int, now <= now',
         \A r \in Requests :
           /\ answer'[r].pc = "stored" <=> answer[r].pc = "stored"
           /\ answer[r].pc = "stored" =>
                answer'[r].kind = answer[r].kind /\ answer'[r].clock = answer[r].clock
  PROVE  RowsInv' /\ IsFiniteSet({r \in Requests : answer'[r].pc = "stored"})
<1>1. {r \in Requests : answer'[r].pc = "stored"} = {r \in Requests : answer[r].pc = "stored"}
  OBVIOUS
<1>2. ASSUME NEW s \in Starts, NEW k \in Kinds, s >= Start(now' - RetentionTicks)
      PROVE  rows'[s][k] = Cardinality(Stored(k, s)')
  <2>1. Stored(k, s)' = Stored(k, s)
    BY DEF Stored
  <2>2. PICK a \in Int, b \in Int :
          a = now - RetentionTicks /\ b = now' - RetentionTicks /\ a <= b
    <3>1. now \in Int /\ RetentionTicks \in Int
      BY MetricsAssumption, ClockAssumption DEF MetricsInv, MetricsTypeOK
    <3>2. PICK m \in Int : m = now'
      OBVIOUS
    <3>3. now <= m
      BY <3>2
    <3>4. now - RetentionTicks \in Int /\ m - RetentionTicks \in Int
      BY <3>1
    <3>5. now - RetentionTicks <= m - RetentionTicks
      BY <3>1, <3>3
    <3> QED BY <3>2, <3>4, <3>5
  <2>3. Start(a) \in Int /\ Start(b) \in Int /\ Start(a) <= Start(b)
    BY <2>2, StartsBy
  <2>4. s \in Int
    BY StartsAreFinite
  <2>5. s >= Start(now - RetentionTicks)
    BY <1>2, <2>2, <2>3, <2>4
  <2> QED BY <2>1, <2>5 DEF MetricsInv, RowsInv
<1>3. RowsInv'
  BY <1>2 DEF RowsInv
<1> QED BY <1>1, <1>3 DEF MetricsInv

LEMMA RecordStep ==
  ASSUME MetricsInv, NEW r \in Requests, Record(r)
  PROVE  MetricsInv'
<1>1. PICK q \in Answered : q = answer[r] /\ q.pc = "recording" /\ q.clock <= now
  BY DEF Record, MetricsInv, MetricsTypeOK
<1>2. PICK t \in 0 .. MaxTime, k0 \in Kinds : t = q.clock /\ k0 = q.kind
  BY DEF Answered
<1>3. /\ now' = now /\ counter' = counter /\ now \in 0 .. MaxTime /\ t <= now
      /\ answer' = [answer EXCEPT ![r].pc = "stored"]
      /\ rows' = [s \in Starts |->
           IF s < RetentionCutoff(t) THEN [k \in Kinds |-> 0]
           ELSE IF s = Start(t) THEN [rows[s] EXCEPT ![k0] = @ + 1]
           ELSE rows[s]]
  BY <1>1, <1>2 DEF Record, MetricsInv, MetricsTypeOK
<1>4. answer \in [Requests -> Answered] /\ rows \in [Starts -> [Kinds -> Nat]]
  BY DEF MetricsInv, MetricsTypeOK
<1>5. PICK p \in Answered : /\ p = [q EXCEPT !.pc = "stored"]
                            /\ p.pc = "stored" /\ p.kind = k0 /\ p.clock = t
  <2>1. PICK p : p = [q EXCEPT !.pc = "stored"]
    OBVIOUS
  <2>2. p \in Answered
    BY <2>1 DEF Answered
  <2>3. p.pc = "stored" /\ p.kind = k0 /\ p.clock = t
    BY <1>2, <2>1 DEF Answered
  <2> QED BY <2>1, <2>2, <2>3
<1>6. answer' = [answer EXCEPT ![r] = p]
  BY <1>1, <1>3, <1>4, <1>5
<1>7. /\ answer' \in [Requests -> Answered] /\ answer'[r] = p
      /\ \A x \in Requests \ {r} : answer'[x] = answer[x]
  BY <1>4, <1>5, <1>6
<1>8. rows' \in [Starts -> [Kinds -> Nat]]
  BY <1>3, <1>4
<1>9. MetricsTypeOK'
  BY <1>3, <1>7, <1>8 DEF MetricsInv, MetricsTypeOK
<1>10. IsFiniteSet({x \in Requests : answer'[x].pc = "stored"})
  <2>1. {x \in Requests : answer'[x].pc = "stored"}
          = {x \in Requests : answer[x].pc = "stored"} \cup {r}
    BY <1>5, <1>7
  <2> QED BY <2>1, FS_AddElement DEF MetricsInv
<1>11. ASSUME NEW s \in Starts, NEW k \in Kinds, s >= Start(now - RetentionTicks)
       PROVE  rows'[s][k] = Cardinality(Stored(k, s)')
  <2>1. PICK a \in Int, b \in Int :
          a = t - RetentionTicks /\ b = now - RetentionTicks /\ a <= b
    BY <1>3, MetricsAssumption, ClockAssumption
  <2>2. Start(a) \in Int /\ Start(b) \in Int /\ Start(a) <= Start(b) /\ s \in Int
    BY <2>1, StartsBy, StartsAreFinite
  <2>3. ~ (s < RetentionCutoff(t))
    BY <1>11, <2>1, <2>2 DEF RetentionCutoff
  <2>4. rows'[s] = IF s = Start(t) THEN [rows[s] EXCEPT ![k0] = @ + 1] ELSE rows[s]
    BY <1>3, <2>3
  <2>5. rows[s][k] = Cardinality(Stored(k, s)) /\ rows[s] \in [Kinds -> Nat]
    BY <1>4, <1>11 DEF MetricsInv, RowsInv
  <2>6. IsFiniteSet(Stored(k, s)) /\ r \notin Stored(k, s)
    <3>1. Stored(k, s) \subseteq {x \in Requests : answer[x].pc = "stored"}
      BY DEF Stored
    <3>2. IsFiniteSet(Stored(k, s))
      BY <3>1, FS_Subset DEF MetricsInv
    <3> QED BY <1>1, <3>2 DEF Stored
  <2>7. CASE s = Start(t) /\ k = k0
    <3>1. Stored(k, s)' = Stored(k, s) \cup {r}
      BY <1>5, <1>7, <2>7 DEF Stored
    <3>2. rows'[s][k] = rows[s][k] + 1
      BY <2>4, <2>5, <2>7
    <3>3. Cardinality(Stored(k, s) \cup {r}) = Cardinality(Stored(k, s)) + 1
      BY <2>6, FS_AddElement
    <3> QED BY <2>5, <3>1, <3>2, <3>3
  <2>8. CASE ~ (s = Start(t) /\ k = k0)
    <3>1. Stored(k, s)' = Stored(k, s)
      <4>1. ASSUME NEW x \in Requests
            PROVE  x \in Stored(k, s)' <=> x \in Stored(k, s)
        <5>1. CASE x = r
          BY <1>1, <1>5, <1>7, <2>8, <5>1 DEF Stored
        <5>2. CASE x # r
          BY <1>7, <5>2 DEF Stored
        <5> QED BY <5>1, <5>2
      <4>2. Stored(k, s)' \subseteq Requests /\ Stored(k, s) \subseteq Requests
        BY DEF Stored
      <4> QED BY <4>1, <4>2
    <3>2. rows'[s][k] = rows[s][k]
      BY <2>4, <2>5, <2>8
    <3> QED BY <2>5, <3>1, <3>2
  <2> QED BY <2>7, <2>8
<1>12. RowsInv'
  BY <1>3, <1>11 DEF RowsInv
<1>13. \A x \in Requests : answer'[x].clock <= now'
  BY <1>3, <1>5, <1>7 DEF MetricsInv
<1> QED BY <1>9, <1>10, <1>12, <1>13 DEF MetricsInv

LEMMA RespondStep ==
  ASSUME MetricsInv, NEW r \in Requests, NEW p \in Servers, NEW kind \in Kinds, Respond(r, p, kind)
  PROVE  MetricsInv'
<1>1. /\ answer \in [Requests -> Answered] /\ rows \in [Starts -> [Kinds -> Nat]]
      /\ now \in 0 .. MaxTime /\ MaxTime \in Nat
      /\ counter \in [Servers -> [count : Nat, errors : Nat, failures : Nat]]
  BY ClockAssumption DEF MetricsInv, MetricsTypeOK
<1>2. PICK q \in Answered : /\ q = [pc |-> "recording", kind |-> kind, process |-> p, clock |-> now]
                            /\ q.pc = "recording" /\ q.clock = now
  <2>1. PICK q : q = [pc |-> "recording", kind |-> kind, process |-> p, clock |-> now]
    OBVIOUS
  <2>2. q \in Answered /\ q.pc = "recording" /\ q.clock = now
    BY <1>1, <2>1 DEF Answered
  <2> QED BY <2>1, <2>2
<1>3. /\ answer' = [answer EXCEPT ![r] = q] /\ answer[r].pc = "open"
      /\ UNCHANGED <<now, rows>>
  BY <1>2 DEF Respond
<1>4. /\ answer' \in [Requests -> Answered] /\ answer'[r] = q
      /\ \A x \in Requests \ {r} : answer'[x] = answer[x]
  BY <1>1, <1>3
<1>5. counter' \in [Servers -> [count : Nat, errors : Nat, failures : Nat]]
  <2>1. PICK one \in {0, 1} : one = IF kind[1] = "server_error" THEN 1 ELSE 0
    OBVIOUS
  <2>2. counter' = [counter EXCEPT ![p].count = @ + 1, ![p].errors = @ + one]
    BY <2>1 DEF Respond
  <2>3. PICK c \in [count : Nat, errors : Nat, failures : Nat] : c = counter[p]
    BY <1>1
  <2>4. PICK d : d = [c EXCEPT !.count = @ + 1]
    OBVIOUS
  <2>7. d \in [count : Nat, errors : Nat, failures : Nat]
    BY <2>3, <2>4
  <2>5. PICK e : e = [d EXCEPT !.errors = @ + one]
    OBVIOUS
  <2>8. e \in [count : Nat, errors : Nat, failures : Nat]
    BY <2>5, <2>7
  <2>6. counter' = [counter EXCEPT ![p] = e]
    BY <1>1, <2>2, <2>3, <2>4, <2>5
  <2> QED BY <1>1, <2>6, <2>8
<1>6. MetricsTypeOK'
  BY <1>1, <1>3, <1>4, <1>5 DEF MetricsTypeOK
<1>7. \A x \in Requests :
        /\ answer'[x].pc = "stored" <=> answer[x].pc = "stored"
        /\ answer[x].pc = "stored" =>
             answer'[x].kind = answer[x].kind /\ answer'[x].clock = answer[x].clock
  BY <1>2, <1>3, <1>4
<1>8. RowsInv' /\ IsFiniteSet({x \in Requests : answer'[x].pc = "stored"})
  <2>1. UNCHANGED rows /\ now' \in Int /\ now <= now'
    BY <1>1, <1>3
  <2> QED BY <1>7, <2>1, RowsStay
<1>9. \A x \in Requests : answer'[x].clock <= now'
  BY <1>1, <1>2, <1>3, <1>4 DEF MetricsInv
<1> QED BY <1>6, <1>8, <1>9 DEF MetricsInv

\* What a failure, a restart and the clock change.
LEMMA QuietMetricsStep ==
  ASSUME MetricsInv,
         UNCHANGED rows, now' \in 0 .. MaxTime, now <= now',
         counter' \in [Servers -> [count : Nat, errors : Nat, failures : Nat]],
         answer' \in [Requests -> Answered],
         \A x \in Requests :
           /\ answer'[x].clock = answer[x].clock /\ answer'[x].kind = answer[x].kind
           /\ answer'[x].pc = "stored" <=> answer[x].pc = "stored"
  PROVE  MetricsInv'
<1>1. MaxTime \in Nat /\ now \in Int /\ now' \in Int
  BY ClockAssumption DEF MetricsInv, MetricsTypeOK
<1>2. MetricsTypeOK'
  BY DEF MetricsInv, MetricsTypeOK
<1>3. RowsInv' /\ IsFiniteSet({x \in Requests : answer'[x].pc = "stored"})
  BY <1>1, RowsStay
<1>4. \A x \in Requests : answer'[x].clock <= now'
  <2>1. \A x \in Requests : answer[x].clock <= now /\ answer[x].clock \in Int
    BY <1>1 DEF MetricsInv, MetricsTypeOK, Answered
  <2> QED BY <1>1, <2>1
<1> QED BY <1>2, <1>3, <1>4 DEF MetricsInv

LEMMA MetricsStep ==
  ASSUME MetricsInv, [MetricsNext]_metricsVars
  PROVE  MetricsInv'
<1>1. /\ answer \in [Requests -> Answered] /\ now \in 0 .. MaxTime /\ MaxTime \in Nat
      /\ counter \in [Servers -> [count : Nat, errors : Nat, failures : Nat]]
  BY ClockAssumption DEF MetricsInv, MetricsTypeOK
<1>2. CASE UNCHANGED metricsVars
  BY <1>1, <1>2, QuietMetricsStep DEF metricsVars
<1>3. ASSUME NEW r \in Requests, RecordFails(r) PROVE MetricsInv'
  <2>1. PICK q \in Answered : q = answer[r] /\ q.pc = "recording"
    BY <1>1, <1>3 DEF RecordFails
  <2>2. PICK f : f = [q EXCEPT !.pc = "failed"]
    OBVIOUS
  <2>3. f \in Answered /\ f.pc = "failed" /\ f.kind = q.kind /\ f.clock = q.clock
    BY <2>2 DEF Answered
  <2>4. answer' = [answer EXCEPT ![r] = f]
    BY <1>1, <1>3, <2>1, <2>2 DEF RecordFails
  <2>5. /\ answer' \in [Requests -> Answered]
        /\ \A x \in Requests :
             /\ answer'[x].clock = answer[x].clock /\ answer'[x].kind = answer[x].kind
             /\ answer'[x].pc = "stored" <=> answer[x].pc = "stored"
    BY <1>1, <2>1, <2>3, <2>4
  <2>6. counter' \in [Servers -> [count : Nat, errors : Nat, failures : Nat]]
    <3>1. PICK p \in Servers : p = q.process
      BY DEF Answered
    <3>2. PICK c \in [count : Nat, errors : Nat, failures : Nat] : c = counter[p]
      BY <1>1
    <3>3. PICK d : d = [c EXCEPT !.failures = @ + 1]
      OBVIOUS
    <3>5. d \in [count : Nat, errors : Nat, failures : Nat]
      BY <3>2, <3>3
    <3>4. counter' = [counter EXCEPT ![p] = d]
      BY <1>1, <1>3, <2>1, <3>1, <3>2, <3>3 DEF RecordFails
    <3> QED BY <1>1, <3>4, <3>5
  <2>7. UNCHANGED rows /\ now' \in 0 .. MaxTime /\ now <= now'
    BY <1>1, <1>3 DEF RecordFails
  <2> QED BY <2>5, <2>6, <2>7, QuietMetricsStep
<1>4. ASSUME NEW p \in Servers, Restart(p) PROVE MetricsInv'
  <2>1. ASSUME NEW x \in Requests
        PROVE  /\ answer'[x] \in Answered
               /\ answer'[x].clock = answer[x].clock /\ answer'[x].kind = answer[x].kind
               /\ answer'[x].pc = "stored" <=> answer[x].pc = "stored"
    <3>1. PICK q \in Answered : q = answer[x]
      BY <1>1
    <3>2. PICK f : f = [q EXCEPT !.pc = "lost"]
      OBVIOUS
    <3>3. f \in Answered /\ f.pc = "lost" /\ f.kind = q.kind /\ f.clock = q.clock
      BY <3>2 DEF Answered
    <3>4. answer'[x] = q \/ (answer'[x] = f /\ q.pc = "recording")
      BY <1>4, <3>1, <3>2 DEF Restart
    <3> QED BY <3>1, <3>3, <3>4
  <2>2. answer' = [x \in Requests |-> answer'[x]]
    BY <1>4 DEF Restart
  <2>3. answer' \in [Requests -> Answered]
    BY <2>1, <2>2
  <2>4. counter' \in [Servers -> [count : Nat, errors : Nat, failures : Nat]]
    BY <1>1, <1>4 DEF Restart, Fresh
  <2>5. UNCHANGED rows /\ now' \in 0 .. MaxTime /\ now <= now'
    BY <1>1, <1>4 DEF Restart
  <2> QED BY <2>1, <2>3, <2>4, <2>5, QuietMetricsStep
<1>5. CASE MetricsTick
  BY <1>1, <1>5, QuietMetricsStep DEF MetricsTick, Advances
<1> QED BY <1>2, <1>3, <1>4, <1>5, RecordStep, RespondStep DEF MetricsNext

\* The inductive invariant: a bucket that a report may need counts the stored answers of its
\* time.
THEOREM MetricsInvariant == MetricsSpec => []MetricsInv
<1> QED BY MetricsInitially, MetricsStep, PTL DEF MetricsSpec

-----------------------------------------------------------------------------
(* The report.                                                             *)

LEMMA SloIs ==
  ASSUME NEW count \in Nat, NEW bad \in Nat, NEW target \in 0 .. 100
  PROVE  Slo(count, bad, target) = "breached"
           <=> count >= AlertMin /\ 100 * bad > (100 - target) * count
<1>1. AlertMin \in Nat
  BY MetricsAssumption
<1>2. PICK z \in Int : z = target * count
  OBVIOUS
<1>3. (100 - target) * count = 100 * count - z
  BY <1>2
<1>4. 100 * (count - bad) >= target * count <=> 100 * count - 100 * bad >= z
  BY <1>2
<1>5. Slo(count, bad, target) = "breached"
        <=> ~ (count < AlertMin) /\ ~ (100 * (count - bad) >= target * count)
  BY DEF Slo
<1> QED BY <1>1, <1>2, <1>3, <1>4, <1>5

LEMMA JudgementIs ==
  ASSUME NEW counts
  PROVE  Judgement(counts) =
           [availability |-> Slo(Total(counts, Kinds),
                                 Total(counts, {"server_error"} \X BOOLEAN), AvailabilitySlo),
            latency      |-> Slo(Total(counts, Kinds),
                                 Total(counts, Categories \X {TRUE}), LatencySlo)]
BY DEF Judgement, Total

\* The answers of a kind in the buckets from a time on.
Since(k, cutoff) ==
  {r \in Requests : answer[r].pc = "stored" /\ answer[r].kind = k /\ answer[r].clock >= cutoff}

LEMMA CountIs ==
  ASSUME MetricsInv, NEW k \in Kinds
  PROVE  CountOf(k, Start(now - WindowTicks)) = Cardinality(Since(k, Start(now - WindowTicks)))
<1>1. PICK a \in Int, b \in Int :
        a = now - RetentionTicks /\ b = now - WindowTicks /\ a <= b
  <2>1. now \in Int /\ RetentionTicks \in Int /\ WindowTicks \in Int /\ WindowTicks <= RetentionTicks
    BY MetricsAssumption, ClockAssumption DEF MetricsInv, MetricsTypeOK
  <2> QED BY <2>1
<1>2. PICK c \in Int : c = Start(b) /\ Start(a) \in Int /\ Start(a) <= c
  BY <1>1, StartsBy
<1>3. PICK S \in SUBSET Starts : S = {s \in Starts : s >= c}
  OBVIOUS
<1>4. PICK A : A = {r \in Requests : answer[r].pc = "stored"} /\ IsFiniteSet(A)
  BY DEF MetricsInv
<1>5. PICK P, g : /\ P = [s \in S |-> Stored(k, s)]
                  /\ g = [s \in S |-> rows[s][k]]
  OBVIOUS
<1>6. ASSUME NEW s \in S
      PROVE  P[s] \subseteq A /\ g[s] = Cardinality(P[s])
  <2>1. s \in Starts /\ s \in Int /\ s >= c
    BY <1>3, StartsAreFinite
  <2>2. s >= Start(now - RetentionTicks)
    BY <1>1, <1>2, <2>1
  <2>3. rows[s][k] = Cardinality(Stored(k, s))
    BY <2>1, <2>2 DEF MetricsInv, RowsInv
  <2>4. Stored(k, s) \subseteq A
    BY <1>4 DEF Stored
  <2> QED BY <1>5, <2>3, <2>4
<1>7. \A s, t \in S : s # t => P[s] \cap P[t] = {}
  BY <1>5 DEF Stored
<1>8. IsFiniteSet(S)
  BY StartsAreFinite, FS_Subset
<1>9. Total(g, S) = Cardinality(UNION {P[s] : s \in S})
  BY <1>4, <1>6, <1>7, <1>8, TotalIs, SMTT(30)

<1>10. UNION {P[s] : s \in S} = Since(k, c)
  <2>1. ASSUME NEW r \in Requests, answer[r].pc = "stored"
        PROVE  /\ answer[r].clock \in Int /\ Start(answer[r].clock) \in Starts
               /\ answer[r].clock >= c <=> Start(answer[r].clock) \in S
    <3>1. PICK t \in 0 .. MaxTime : t = answer[r].clock
      BY DEF MetricsInv, MetricsTypeOK, Answered
    <3>2. MaxTime \in Nat /\ t \in Int
      BY ClockAssumption
    <3>3. Start(t) \in Starts
      BY DEF Starts
    <3>4. Start(t) \in Int /\ (c <= t <=> c <= Start(t))
      BY <1>2, <3>2, StartsBy
    <3> QED BY <1>3, <3>1, <3>2, <3>3, <3>4
  <2>2. ASSUME NEW r \in Since(k, c) PROVE r \in UNION {P[s] : s \in S}
    <3>1. r \in Requests /\ answer[r].pc = "stored" /\ answer[r].kind = k /\ answer[r].clock >= c
      BY DEF Since
    <3>2. Start(answer[r].clock) \in S
      BY <2>1, <3>1
    <3>3. r \in P[Start(answer[r].clock)]
      BY <1>5, <3>1, <3>2 DEF Stored
    <3> QED BY <3>2, <3>3
  <2>3. ASSUME NEW s \in S, NEW r \in P[s] PROVE r \in Since(k, c)
    <3>1. /\ r \in Requests /\ answer[r].pc = "stored" /\ answer[r].kind = k
          /\ Start(answer[r].clock) = s
      BY <1>5 DEF Stored
    <3>2. answer[r].clock >= c
      BY <2>1, <3>1
    <3> QED BY <3>1, <3>2 DEF Since
  <2> QED BY <2>2, <2>3
<1>11. CountOf(k, c) = Total(g, S)
  <2> DEFINE Adds(sum) == sum = [T \in SUBSET S |->
                IF T = {} THEN 0
                ELSE rows[CHOOSE x \in T : TRUE][k] + sum[T \ {CHOOSE x \in T : TRUE}]]
  <2>1. CountOf(k, c) = (CHOOSE sum : Adds(sum))[S]
    BY <1>3 DEF CountOf, MapThenSumSet, MapThenFoldSet
  <2>2. ASSUME NEW sum PROVE Adds(sum) <=> IsSum(sum, g, S)
    <3>1. ASSUME NEW T \in SUBSET S, T # {}
          PROVE  g[CHOOSE x \in T : TRUE] = rows[CHOOSE x \in T : TRUE][k]
      BY <1>5, <3>1
    <3>2. [T \in SUBSET S |->
                IF T = {} THEN 0
                ELSE rows[CHOOSE x \in T : TRUE][k] + sum[T \ {CHOOSE x \in T : TRUE}]]
          = [T \in SUBSET S |->
                IF T = {} THEN 0
                ELSE g[CHOOSE x \in T : TRUE] + sum[T \ {CHOOSE x \in T : TRUE}]]
      BY <3>1
    <3> QED BY <3>2 DEF IsSum
  <2> HIDE DEF Adds
  <2>3. PICK f : f = CountUnions(P, S) /\ IsSum(f, g, S)
    BY <1>4, <1>6, <1>7, CountsSumUp
  <2>4. PICK h : h = (CHOOSE sum : Adds(sum)) /\ Adds(h)
    BY <2>2, <2>3
  <2>5. IsSum(h, g, S)
    BY <2>2, <2>4
  <2>6. f[S] = h[S]
    BY <1>8, <2>3, <2>5, SumIsUnique
  <2>7. f[S] = Cardinality(UNION {P[s] : s \in S})
    BY <2>3 DEF CountUnions
  <2> QED BY <1>9, <2>1, <2>4, <2>6, <2>7
<1> QED BY <1>1, <1>2, <1>9, <1>10, <1>11

LEMMA ReportFromInv ==
  ASSUME MetricsInv
  PROVE  ReportIsExact
<1>1. PICK c : c = Start(now - WindowTicks)
  OBVIOUS
<1>2. PICK stored : stored = {r \in Requests : answer[r].pc = "stored" /\ answer[r].clock >= c}
  OBVIOUS
<1>3. IsFiniteSet(stored)
  <2>1. stored \subseteq {r \in Requests : answer[r].pc = "stored"}
    BY <1>2
  <2> QED BY <2>1, FS_Subset DEF MetricsInv
<1>4. PICK P : P = [k \in Kinds |-> {r \in stored : answer[r].kind \in {k}}]
  OBVIOUS
<1>5. PICK counts : counts = [k \in Kinds |-> CountOf(k, c)]
  OBVIOUS
<1>6. ASSUME NEW k \in Kinds
      PROVE  P[k] \subseteq stored /\ counts[k] = Cardinality(P[k])
  <2>1. Since(k, c) = P[k]
    BY <1>2, <1>4 DEF Since
  <2> QED BY <1>1, <1>4, <1>5, <2>1, CountIs
<1>7. \A k, l \in Kinds : k # l => P[k] \cap P[l] = {}
  BY <1>4
<1>8. ASSUME NEW kinds \in SUBSET Kinds
      PROVE  /\ Total(counts, kinds) = Cardinality({r \in stored : answer[r].kind \in kinds})
             /\ Total(counts, kinds) \in Nat
  <2>1. IsFiniteSet(kinds)
    BY KindsAreFinite, FS_Subset
  <2>2. Total(counts, kinds) = Cardinality(UNION {P[k] : k \in kinds})
    BY <1>3, <1>6, <1>7, <2>1, TotalIs
  <2>3. UNION {P[k] : k \in kinds} = {r \in stored : answer[r].kind \in kinds}
    BY <1>4
  <2>4. {r \in stored : answer[r].kind \in kinds} \subseteq stored
    OBVIOUS
  <2> QED BY <1>3, <2>2, <2>3, <2>4, FS_Subset, FS_CardinalityType
<1>9. {r \in stored : answer[r].kind \in Kinds} = stored
  BY <1>2 DEF MetricsInv, MetricsTypeOK, Answered
<1>10. {"server_error"} \X BOOLEAN \in SUBSET Kinds /\ Categories \X {TRUE} \in SUBSET Kinds
  BY MetricsAssumption DEF Kinds
<1>11. PICK all \in Nat, bad \in Nat, slow \in Nat :
         /\ all = Total(counts, Kinds) /\ all = Cardinality(stored)
         /\ bad = Total(counts, {"server_error"} \X BOOLEAN)
         /\ bad = Cardinality({r \in stored : answer[r].kind \in {"server_error"} \X BOOLEAN})
         /\ slow = Total(counts, Categories \X {TRUE})
         /\ slow = Cardinality({r \in stored : answer[r].kind \in Categories \X {TRUE}})
  BY <1>8, <1>9, <1>10
<1>12. PICK report : /\ report = Snapshot(now) /\ report.counts = counts
                     /\ report.slo.availability = Slo(all, bad, AvailabilitySlo)
                     /\ report.slo.latency = Slo(all, slow, LatencySlo)
  <2>1. Judgement(counts) = [availability |-> Slo(all, bad, AvailabilitySlo),
                             latency      |-> Slo(all, slow, LatencySlo)]
    BY <1>11, JudgementIs
  <2>2. Snapshot(now) = [counts |-> counts, slo |-> Judgement(counts)]
    BY <1>1, <1>5 DEF Snapshot
  <2> QED BY <2>1, <2>2
<1>13. ASSUME NEW n \in Nat, NEW target \in 0 .. 100
       PROVE  (Slo(all, n, target) = "breached")
                = (all >= AlertMin /\ 100 * n > (100 - target) * all)
  <2>1. (Slo(all, n, target) = "breached")
          <=> (all >= AlertMin /\ 100 * n > (100 - target) * all)
    BY SloIs
  <2> QED BY <2>1, Zenon
<1>15. AvailabilitySlo \in 0 .. 100 /\ LatencySlo \in 0 .. 100
  BY MetricsAssumption
<1>16. /\ (report.slo.availability = "breached")
            = (all >= AlertMin /\ 100 * bad > (100 - AvailabilitySlo) * all)
       /\ (report.slo.latency = "breached")
            = (all >= AlertMin /\ 100 * slow > (100 - LatencySlo) * all)
  <2>1. (Slo(all, bad, AvailabilitySlo) = "breached")
          = (all >= AlertMin /\ 100 * bad > (100 - AvailabilitySlo) * all)
    BY <1>13, <1>15
  <2>2. (Slo(all, slow, LatencySlo) = "breached")
          = (all >= AlertMin /\ 100 * slow > (100 - LatencySlo) * all)
    BY <1>13, <1>15
  <2>3. /\ report.slo.availability = Slo(all, bad, AvailabilitySlo)
        /\ report.slo.latency = Slo(all, slow, LatencySlo)
    BY <1>12
  <2> QED BY <2>1, <2>2, <2>3, Zenon

<1>14. \A k \in Kinds :
         report.counts[k] = Cardinality({r \in stored : answer[r].kind \in {k}})
  BY <1>4, <1>6, <1>12
<1> QED BY <1>1, <1>2, <1>11, <1>12, <1>14, <1>16, ZenonT(40) DEF ReportIsExact

\* The answers, the rows and the counters keep their types.
THEOREM MetricsTypeTheorem == MetricsSpec => []MetricsTypeOK
<1>1. MetricsInv => MetricsTypeOK
  BY DEF MetricsInv
<1> QED BY <1>1, MetricsInvariant, PTL

\* For any number of processes, requests and categories, and any lag of their clocks: what
\* metrics_snapshot reports of its window is what was stored of it, and an alert is raised
\* exactly when it should be.
THEOREM ReportTheorem == MetricsSpec => []ReportIsExact
<1> QED BY MetricsInvariant, ReportFromInv, PTL

-----------------------------------------------------------------------------
(* The components side by side.                                            *)
(*                                                                         *)
(* Accounts, administration and the database have variables of their own.  *)
(* The limiter and the metrics share the clock: the one that does not run  *)
(* has no transaction that time could run away from (Resting), so that a   *)
(* tick of the other is one of its own.  So every theorem about a          *)
(* component holds of the product.                                         *)

Resting ==
  /\ part # "limits" => \A r \in Requests : req[r].pc = "new"
  /\ part # "metrics" => \A r \in Requests : answer[r].pc = "open"

LEMMA LimitClock ==
  ASSUME LimitNext
  PROVE  now' = now \/ Advances
BY DEF LimitNext, Deny, Arrive, Consume, FailClosed, Contend, Kill, LimitTick

LEMMA MetricsClock ==
  ASSUME MetricsNext
  PROVE  now' = now \/ Advances
BY DEF MetricsNext, Respond, Record, RecordFails, Restart, MetricsTick

LEMMA RestingInitially ==
  ASSUME PlatformInit
  PROVE  Resting
<1>1. \A r \in Requests : req[r].pc = "new"
  BY DEF PlatformInit, LimitInit, NotMade
<1>2. \A r \in Requests : answer[r].pc = "open"
  BY DEF PlatformInit, MetricsInit
<1> QED BY <1>1, <1>2 DEF Resting

LEMMA RestingStep ==
  ASSUME Resting, [PlatformNext]_platformVars
  PROVE  Resting'
BY DEF Resting, PlatformNext, platformVars, limitOnly, metricsOnly

\* A step of the product is a step of each component, or changes nothing of it.
LEMMA PlatformStep ==
  ASSUME Resting, [PlatformNext]_platformVars
  PROVE  /\ [LimitNext]_limitVars /\ [MetricsNext]_metricsVars /\ [AdminNext]_adminVars
         /\ [AuthNext]_authVars /\ [DatabaseNext]_databaseVars
<1>1. [AdminNext]_adminVars /\ [AuthNext]_authVars /\ [DatabaseNext]_databaseVars
  BY DEF PlatformNext, platformVars
<1>2. CASE part = "limits" /\ LimitNext /\ UNCHANGED metricsOnly
  <2>1. UNCHANGED metricsVars \/ MetricsTick
    BY <1>2, LimitClock DEF Resting, MetricsTick, metricsOnly, metricsVars
  <2> QED BY <1>1, <1>2, <2>1 DEF MetricsNext
<1>3. CASE part = "metrics" /\ MetricsNext /\ UNCHANGED limitOnly
  <2>1. UNCHANGED limitVars \/ LimitTick
    BY <1>3, MetricsClock DEF Resting, LimitTick, limitOnly, limitVars
  <2> QED BY <1>1, <1>3, <2>1 DEF LimitNext
<1>4. CASE UNCHANGED <<now, limitOnly, metricsOnly>>
  BY <1>1, <1>4 DEF limitOnly, metricsOnly, limitVars, metricsVars
<1> QED BY <1>2, <1>3, <1>4 DEF PlatformNext, platformVars

\* Whichever component runs, each of the five follows its own specification.
THEOREM PlatformImplementsComponents ==
  PlatformSpec => LimitSpec /\ MetricsSpec /\ AdminSpec /\ AuthSpec /\ DatabaseSpec
<1>1. PlatformInit => LimitInit /\ MetricsInit /\ AdminInit /\ AuthInit /\ DatabaseInit
  BY Zenon DEF PlatformInit
<1>2. PlatformSpec => []Resting
  BY RestingInitially, RestingStep, PTL DEF PlatformSpec
<1> QED
  BY <1>1, <1>2, PlatformStep, PTL
     DEF PlatformSpec, LimitSpec, MetricsSpec, AdminSpec, AuthSpec, DatabaseSpec

LEMMA DatabaseTypeFromInv ==
  ASSUME DatabaseInv
  PROVE  DatabaseTypeOK
<1>1. main \in Contents /\ log \in {"none", "live", "stale"} /\ backup \in [Paths -> Contents]
  BY DEF DatabaseInv, FileInv, InOrder
<1>2. tool.pc \in {"none", "copied", "saving", "saved", "verified", "replaced"}
  BY DEF DatabaseInv, ToolInv, Tools, Restoring
<1>3. proc \in [Processes -> Rows] /\ written \in 0 .. MaxWrites
  BY DEF DatabaseInv, ProcInv
<1> QED BY <1>1, <1>2, <1>3 DEF Rows, DatabaseTypeOK

\* Of the five components that every request shares, each keeps the types of its variables,
\* in all states of the product.
THEOREM PlatformTypeTheorem == PlatformSpec => []PlatformTypeOK
<1>1. LimitInv => LimitTypeOK
  BY DEF LimitInv
<1>2. LimitTypeOK /\ MetricsTypeOK /\ AdminTypeOK /\ AuthTypeOK /\ DatabaseTypeOK => PlatformTypeOK
  BY Zenon DEF PlatformTypeOK
<1>3. DatabaseInv => DatabaseTypeOK
  BY DatabaseTypeFromInv
<1> QED
  BY <1>1, <1>2, <1>3, PlatformImplementsComponents, LimitInvariant, MetricsTypeTheorem,
     AdminTypes, AuthTypeTheorem, DatabaseInvariant, PTL

\* And each keeps what it promises: for every value of the constants, all that is checked of
\* the product.
THEOREM PlatformSafety ==
  PlatformSpec
    => /\ [](AdmittedWithinLimit /\ ReportIsExact /\ TrailTellsAccess /\ IdleTellsUse)
       /\ [](SessionCap /\ MigrationsRunOnceInOrder /\ RestoreCanBeUndone)
       /\ RetryAfterSuffices /\ KeepsAdmin
BY PlatformImplementsComponents, AdmittedTheorem, ReportTheorem, TrailTheorem, IdleTheorem,
   CapTheorem, MigrationsTheorem, RestoreTheorem, RetryAfterTheorem, KeepsAdminTheorem, PTL

=============================================================================
