------------------------------- MODULE AuthStore -------------------------------
(***************************************************************************)
(* Logins and sessions: app/storage/auth_store.py with the handlers of     *)
(* app/api/auth.py and the part of app/storage/admin_store.py that         *)
(* activates users and revokes their sessions.                             *)
(*                                                                         *)
(* The code reads the clock, then waits: for a password check, or for the  *)
(* write lock of the database.  What it writes afterwards is as of then.   *)
(* A call's lag is the time since it has read the clock; it is at most one *)
(* tick, since the lock is waited for ten seconds and the shortest period  *)
(* that is measured is thirty.                                             *)
(*                                                                         *)
(* Instants are kept relative to the current time, as in VideoJobs.  A     *)
(* session that is revoked or has expired is gone; that its row is removed *)
(* later makes no difference.                                              *)
(***************************************************************************)
EXTENDS Integers, FiniteSets

CONSTANTS
  Users,
  Tokens,        \* session tokens; each is drawn once
  NoUser,
  NoToken,
  Calls,         \* requests that are processed at the same time
  MaxFailed,     \* settings.auth_max_failed_attempts
  LockTicks,     \* settings.auth_lockout_seconds
  TtlTicks,      \* settings.auth_session_ttl_seconds
  IdleTicks,     \* settings.auth_session_idle_timeout_seconds
  RefreshTicks,  \* _last_seen_refresh_seconds
  MaxSessions    \* settings.auth_max_active_sessions

ASSUME NamesAssumption == NoUser \notin Users /\ NoToken \notin Tokens
ASSUME TokensAssumption == IsFiniteSet(Tokens)
ASSUME LimitsAssumption == MaxFailed \in Nat \ {0} /\ MaxSessions \in Nat \ {0}
\* The refresh period is a tenth of the idle timeout, and longer than the lag.
ASSUME PeriodsAssumption ==
  /\ LockTicks \in Nat \ {0} /\ TtlTicks \in Nat /\ IdleTicks \in Nat /\ RefreshTicks \in Nat
  /\ 1 < RefreshTicks /\ RefreshTicks < IdleTicks /\ IdleTicks <= TtlTicks

CallLag == 1

VARIABLES
  account,  \* the rows of users
  session,  \* the rows of auth_sessions
  call      \* what each request is doing

authVars == <<account, session, call>>

NoLock == -1   \* locked_until IS NULL; 0 is an instant in the past

\* users: is_active, failed_login_attempts, locked_until - now.
LoginAccount == [active : BOOLEAN, failed : 0 .. MaxFailed, lock : NoLock .. LockTicks]

\* auth_sessions: left is expires_at - now, idle is now - last_seen_at, counted
\* up to a tick beyond the timeout and its lag.  The last two columns are not in
\* the table: the ticks since the session was last used, and whether it was
\* refreshed when it had already been idle for too long.
Longest == IdleTicks + CallLag

Session == [user : Users, left : 1 .. TtlTicks, idle : 0 .. Longest,
            unused : 0 .. Longest, late : BOOLEAN]

Blank(left) == [user |-> NoUser, left |-> left, idle |-> 0, unused |-> 0, late |-> FALSE]
NotDrawn == Blank(TtlTicks)
Gone == Blank(0)

Live(t) == session[t].user # NoUser

\* revoked_at IS NULL AND expires_at > now AND last_seen_at > idle_cutoff
Usable(t) == Live(t) /\ session[t].idle < IdleTicks

CallSteps == {"free", "verifying", "inserting", "refreshing", "serving"}

Call == [pc : CallSteps, user : Users \cup {NoUser}, token : Tokens \cup {NoToken},
         failed : 0 .. MaxFailed, lock : NoLock .. LockTicks, lag : 0 .. CallLag]

At(pc, u, t) == [pc |-> pc, user |-> u, token |-> t, failed |-> 0, lock |-> NoLock, lag |-> 0]

Free == At("free", NoUser, NoToken)

CallEnds(c) == call' = [call EXCEPT ![c] = Free]

AtMost(n, limit) == IF n < limit THEN n ELSE limit

-----------------------------------------------------------------------------
(* Signing in.                                                             *)

\* The SELECT of authenticate_user.
ReadAccount(c, u) ==
  /\ call[c].pc = "free"
  /\ account[u].active
  /\ call' = [call EXCEPT ![c] =
       [pc |-> "verifying", user |-> u, token |-> NoToken,
        failed |-> account[u].failed, lock |-> account[u].lock, lag |-> 0]]
  /\ UNCHANGED <<account, session>>

\* UPDATE users SET failed_login_attempts, locked_until
Counted(u, failed, lock) ==
  [account EXCEPT ![u] = [active |-> account[u].active, failed |-> failed, lock |-> lock]]

\* _register_failed_login
FailLogin(c) ==
  LET u        == call[c].user
      attempts == call[c].failed + 1
  IN  /\ call[c].pc = "verifying"
      /\ account' =
           IF call[c].lock > 0 THEN account
           ELSE IF attempts >= MaxFailed THEN Counted(u, 0, LockTicks - call[c].lag)
           ELSE Counted(u, attempts, NoLock)
      /\ CallEnds(c)
      /\ UNCHANGED session

\* The password was right, but the account was locked.
RefuseLogin(c) ==
  /\ call[c].pc = "verifying"
  /\ call[c].lock > 0
  /\ CallEnds(c)
  /\ UNCHANGED <<account, session>>

\* _clear_failed_logins, and the clock is read for the session.
SucceedLogin(c) ==
  LET u == call[c].user
  IN  /\ call[c].pc = "verifying"
      /\ call[c].lock <= 0
      /\ account' =
           IF call[c].failed = 0 /\ call[c].lock = NoLock THEN account ELSE Counted(u, 0, NoLock)
      /\ call' = [call EXCEPT ![c] = At("inserting", u, NoToken)]
      /\ UNCHANGED session

\* The active sessions of u as of a clock read lag ago.
Active(u, lag) == {t \in Tokens : session[t].user = u /\ session[t].idle - lag < IdleTicks}

\* Fault: the new session is not counted.
NewestBesides(kept, active) ==
  /\ kept \subseteq active
  /\ Cardinality(kept) = AtMost(Cardinality(active), MaxSessions)
  /\ \A t \in kept, s \in active \ kept : session[t].left >= session[s].left

\* kept are the newest of the active sessions, as many as may stay beside a new one.
Newest(kept, active) ==
  /\ kept \subseteq active
  /\ Cardinality(kept) = AtMost(Cardinality(active), MaxSessions - 1)
  /\ \A t \in kept, s \in active \ kept : session[t].left >= session[s].left

\* _insert_session
InsertSession(c, t, kept) ==
  LET u   == call[c].user
      lag == call[c].lag
  IN  /\ call[c].pc = "inserting"
      /\ session[t] = NotDrawn
      /\ Newest(kept, Active(u, lag))
      /\ session' = [s \in Tokens |->
           IF s = t THEN [user |-> u, left |-> TtlTicks - lag, idle |-> lag,
                          unused |-> lag, late |-> FALSE]
           ELSE IF s \in Active(u, lag) \ kept THEN Gone
           ELSE session[s]]
      /\ CallEnds(c)
      /\ UNCHANGED account

-----------------------------------------------------------------------------
(* Requests with a session.                                                *)

\* get_user_by_token: the SELECT, which is all when the session was seen lately.
Authenticate(c, t) ==
  LET stale == session[t].idle >= RefreshTicks
  IN  /\ call[c].pc = "free"
      /\ Usable(t)
      /\ account[session[t].user].active
      /\ call' = [call EXCEPT ![c] = At(IF stale THEN "refreshing" ELSE "serving",
                                          session[t].user, t)]
      /\ session' = IF stale THEN session ELSE [session EXCEPT ![t].unused = 0]
      /\ UNCHANGED account

\* Fault: what is written is the time at which the session was last seen.
SeenBefore(s, lag) ==
  [user |-> s.user, left |-> s.left, idle |-> s.idle, unused |-> 0,
   late |-> s.late \/ s.idle >= IdleTicks]

\* UPDATE auth_sessions SET last_seen_at
SeenAt(s, lag) ==
  [user |-> s.user, left |-> s.left, idle |-> lag, unused |-> 0,
   late |-> s.late \/ s.idle >= IdleTicks]

\* get_user_by_token: the UPDATE.
Refresh(c) ==
  LET t == call[c].token
  IN  /\ call[c].pc = "refreshing"
      /\ session' = IF Live(t) THEN [session EXCEPT ![t] = SeenAt(@, call[c].lag)] ELSE session
      /\ call' = [call EXCEPT ![c] = At("serving", call[c].user, t)]
      /\ UNCHANGED account

Revoked(tokens) == [t \in Tokens |-> IF t \in tokens /\ Live(t) THEN Gone ELSE session[t]]

TokensOf(u) == {t \in Tokens : session[t].user = u}

\* logout_user, logout_all_user_sessions, or any other request.
Serve(c) ==
  /\ call[c].pc = "serving"
  /\ session' \in {session, Revoked({call[c].token}), Revoked(TokensOf(call[c].user))}
  /\ CallEnds(c)
  /\ UNCHANGED account

Waiting == {"verifying", "inserting", "refreshing"}

\* A request is broken off: a lock is not obtained, or the process is killed.
DropCall(c) ==
  /\ call[c].pc \in Waiting
  /\ CallEnds(c)
  /\ UNCHANGED <<account, session>>

-----------------------------------------------------------------------------
\* update_organization_user: the activation or the role of u is changed.
Administer(u, active) ==
  /\ account' = [account EXCEPT ![u].active = active]
  /\ session' \in {Revoked(TokensOf(u))} \cup (IF active THEN {session} ELSE {})
  /\ UNCHANGED call

Aged(s) ==
  IF s.user = NoUser THEN s
  ELSE IF s.left = 1 THEN Gone
  ELSE [s EXCEPT !.left = @ - 1, !.idle = AtMost(@ + 1, Longest), !.unused = AtMost(@ + 1, Longest)]

AuthTick ==
  /\ \A c \in Calls : call[c].lag < CallLag
  /\ account' = [u \in Users |-> [account[u] EXCEPT !.lock = IF @ > 0 THEN @ - 1 ELSE @]]
  /\ session' = [t \in Tokens |-> Aged(session[t])]
  /\ call' = [c \in Calls |-> [call[c] EXCEPT !.lag = IF call[c].pc \in Waiting THEN @ + 1 ELSE @]]

AuthInit ==
  /\ account = [u \in Users |-> [active |-> TRUE, failed |-> 0, lock |-> NoLock]]
  /\ session = [t \in Tokens |-> NotDrawn]
  /\ call = [c \in Calls |-> Free]

AuthNext ==
  \/ \E c \in Calls :
       \/ \E u \in Users : ReadAccount(c, u)
       \/ FailLogin(c) \/ RefuseLogin(c) \/ SucceedLogin(c)
       \/ \E t \in Tokens, kept \in SUBSET Tokens : InsertSession(c, t, kept)
       \/ \E t \in Tokens : Authenticate(c, t)
       \/ Refresh(c) \/ Serve(c) \/ DropCall(c)
  \/ \E u \in Users, active \in BOOLEAN : Administer(u, active)
  \/ AuthTick

AuthSpec == AuthInit /\ [][AuthNext]_authVars

-----------------------------------------------------------------------------
(* Properties.                                                             *)

AuthTypeOK ==
  /\ account \in [Users -> LoginAccount]
  /\ session \in [Tokens -> Session \cup {NotDrawn, Gone}]
  /\ call \in [Calls -> Call]

\* The recorded time of use tells the real one: a session is not refreshed
\* without being used, and when it is used it looks idle by less than the refresh
\* period, so that nobody who uses a session more often than the timeout less the
\* period is signed out, in whatever order overlapping requests refresh it.
IdleTellsUse ==
  \A t \in Tokens : Live(t) =>
    /\ session[t].unused <= session[t].idle
    /\ session[t].idle < session[t].unused + RefreshTicks

\* A user has no more than MaxSessions usable sessions, however many logins are
\* in flight.  A session that became idle while a request with it waited for the
\* lock comes on top.
SessionCap ==
  \A u \in Users :
    Cardinality({t \in TokensOf(u) : Usable(t) /\ ~session[t].late}) <= MaxSessions

\* A lockout ends when its time is over, not earlier.
LockoutStands ==
  [][\A u \in Users : account[u].lock > 0 => account'[u].lock >= account[u].lock - 1]_authVars
=============================================================================
