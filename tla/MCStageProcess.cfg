\* A request larger than the pipe; two polls to the deadline, the second cut
\* short by it.
SPECIFICATION FairSpec
CONSTANTS
  Deadline = 3
  PollTicks = 2
  Grace = 1
  Request = 2
  PipeSize = 1
  Horizon = 10
INVARIANTS
  ChildIsGone
  ResultIsWhole
  StopsInTime
PROPERTIES
  Returns
\* The parent returns, and that is the end.
CHECK_DEADLOCK FALSE
