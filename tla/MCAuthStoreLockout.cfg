\* One user with three sessions, of which one may be active, and two requests at a
\* time; an idle timeout of three ticks, of which the refresh takes two.
SPECIFICATION AuthSpec
CONSTANTS
  u1 = u1
  t1 = t1
  t2 = t2
  t3 = t3
  c1 = c1
  c2 = c2
  Users = {u1}
  Tokens = {t1, t2, t3}
  NoUser = NoUser
  NoToken = NoToken
  Calls = {c1, c2}
  MaxFailed = 2
  LockTicks = 2
  TtlTicks = 4
  IdleTicks = 3
  RefreshTicks = 2
  MaxSessions = 1
PROPERTIES
  LockoutStands
