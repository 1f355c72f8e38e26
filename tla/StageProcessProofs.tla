-------------------------- MODULE StageProcessProofs --------------------------
(***************************************************************************)
(* Theorems about run_isolated_stage for every deadline, poll interval and *)
(* grace period, every size of the request and of the pipe, and every      *)
(* child: one that never reads, never ends, or survives SIGKILL.           *)
(*                                                                         *)
(* The invariant follows the parent's labels.  OutcomeInv says where there *)
(* is an outcome already and whether a signal was sent, WholeInv what has  *)
(* been read by a child that works, GoneInv why a child may outlive the    *)
(* call, PromptInv how old an interrupt may be that nobody acted on, and   *)
(* TimeInv how late it may be at each label.                               *)
(***************************************************************************)
EXTENDS StageProcess, TLAPS

\* The labels of the while loop, and of stopping the child.
Watching == {"polling", "asking", "sizing", "timing", "sleeping"}
Stopping == {"stopping", "terminating", "killing", "handling"}

OutcomeInv ==
  /\ pc \in Watching \cup {"judging"} => outcome = "none"
  /\ pc \in Stopping => outcome \notin {"none", "result", "value_error"}
  /\ pc \in Watching => ~again
  /\ outcome \in {"none", "result"} => signal = "none"
  /\ outcome = "result" => pc = "returned" /\ child = "ok"
  /\ pc \in {"joining", "judging"} /\ outcome = "none" => ~Alive
  /\ pc \in {"terminating", "killing"} => signal # "none"

\* The child works once it has read to the end of the stream, which the writer
\* closes after the last chunk, or when the child is gone.
WholeInv ==
  /\ writer = "closed" /\ child = "reading" => unsent = 0
  /\ child \in {"working"} \cup Answers => unsent = 0 /\ pipe = 0

\* A child that is there after the second round has survived both.
GoneInv ==
  /\ pc = "killing" => signal = "kill"
  /\ \/ pc = "handling" /\ again
     \/ pc \in {"joining", "judging", "returned"}
     => (Alive => outcome = "error" /\ signal = "kill")

\* Nobody sleeps through more than the rest of the poll interval in which the
\* interrupt came, and no time passes between asking and going to sleep.
PromptInv ==
  /\ since <= now
  /\ pc = "sleeping" => now <= wake /\ wake <= now + PollTicks
  /\ interrupt # "none" /\ signal = "none" /\ Alive =>
       /\ now - since <= PollTicks
       /\ pc = "sleeping" => wake - since <= PollTicks
       /\ pc \in {"sizing", "timing"} => since = now

\* When the first or the second round of stopping the child begins at the latest.
RoundBegins == IF again THEN Deadline + 2 * Grace ELSE Deadline

TimeInv ==
  /\ pc \in Watching => now <= Deadline
  /\ pc = "sleeping" => now <= wake /\ wake <= Deadline
  /\ pc = "stopping" => now <= RoundBegins
  /\ pc = "terminating" => now <= wake /\ wake <= RoundBegins + Grace
  /\ pc = "killing" => now <= wake /\ wake <= RoundBegins + 2 * Grace
  /\ pc = "handling" => now <= RoundBegins + 2 * Grace
  /\ pc = "joining" => now <= wake /\ wake <= Deadline + 5 * Grace
  /\ pc = "judging" => now <= Deadline + 5 * Grace

StageInv == TypeOK /\ OutcomeInv /\ WholeInv /\ GoneInv /\ PromptInv /\ TimeInv

-----------------------------------------------------------------------------
LEMMA TypeStep ==
  ASSUME TypeOK, [Next]_vars
  PROVE  TypeOK'
<1> USE TimeAssumption, PipeAssumption
    DEF TypeOK, Goto, WaitAt, OthersUnchanged, Continue, Throw, parentVars, writerVars,
        childVars, interruptVars, Reasons, Answers, Ended, Outcomes, Alive
<1>1. CASE Poll \/ Awake \/ Join
  BY <1>1 DEF Poll, Awake, Join
<1>2. CASE Ask \/ Size
  BY <1>2 DEF Ask, Size
<1>3. CASE CheckDeadline
  BY <1>3 DEF CheckDeadline, Min
<1>4. CASE Terminate \/ Kill
  BY <1>4 DEF Terminate, Kill
<1>5. CASE AwaitKill \/ Handle \/ Judge
  <2>1. CASE AwaitKill
    <3>1. outcome' \in {outcome, "error"} /\ UNCHANGED <<wake, again, signal>>
      BY <2>1 DEF AwaitKill
    <3> QED
      BY <2>1, <3>1 DEF AwaitKill
  <2>2. CASE Handle
    <3>1. CASE Alive /\ ~again
      BY <2>2, <3>1 DEF Handle
    <3>2. CASE ~(Alive /\ ~again)
      <4>1. pc' = "joining" /\ wake' = now + Grace /\ UNCHANGED <<again, outcome, signal>>
        BY <2>2, <3>2 DEF Handle
      <4>2. wake' \in Nat
        BY <4>1
      <4> QED
        BY <2>2, <4>1, <4>2 DEF Handle
    <3> QED
      BY <3>1, <3>2
  <2>3. CASE Judge
    BY <2>3 DEF Judge
  <2> QED
    BY <1>5, <2>1, <2>2, <2>3
<1>6. CASE Write
  BY <1>6 DEF Write
<1>7. CASE ChildReads
  BY <1>7 DEF ChildReads
<1>8. CASE ChildEnds \/ ChildFloods
  <2>1. CASE ChildEnds
    <3>1. child' \in Ended
      BY <2>1 DEF ChildEnds
    <3>2. child' \in {"reading", "working"} \cup Ended
      BY <3>1
    <3> QED
      BY <2>1, <3>2 DEF ChildEnds
  <2>2. CASE ChildFloods
    BY <2>2 DEF ChildFloods
  <2> QED
    BY <1>8, <2>1, <2>2
<1>9. CASE Interrupt
  BY <1>9 DEF Interrupt
<1>10. CASE Tick
  BY <1>10 DEF Tick
<1>11. CASE UNCHANGED vars
  BY <1>11 DEF vars
<1> QED
  BY <1>1, <1>2, <1>3, <1>4, <1>5, <1>6, <1>7, <1>8, <1>9, <1>10, <1>11 DEF Next, Parent

LEMMA OutcomeStep ==
  ASSUME TypeOK, OutcomeInv, [Next]_vars
  PROVE  OutcomeInv'
<1> USE DEF TypeOK, OutcomeInv, Watching, Stopping, Goto, WaitAt, OthersUnchanged,
            Continue, Throw, parentVars, writerVars, childVars, interruptVars, Reasons,
            Answers, Ended, Outcomes, Alive
<1>1. CASE Poll \/ Awake \/ Join
  BY <1>1 DEF Poll, Awake, Join
<1>2. CASE Ask \/ Size
  BY <1>2 DEF Ask, Size
<1>3. CASE CheckDeadline
  BY <1>3 DEF CheckDeadline
<1>4. CASE Terminate \/ Kill \/ AwaitKill \/ Handle
  BY <1>4 DEF Terminate, Kill, AwaitKill, Handle
<1>5. CASE Judge
  BY <1>5 DEF Judge
<1>6. CASE Write \/ ChildReads
  BY <1>6 DEF Write, ChildReads
<1>7. CASE ChildEnds \/ ChildFloods
  BY <1>7 DEF ChildEnds, ChildFloods
<1>8. CASE Interrupt \/ Tick
  BY <1>8 DEF Interrupt, Tick
<1>9. CASE UNCHANGED vars
  BY <1>9 DEF vars
<1> QED
  BY <1>1, <1>2, <1>3, <1>4, <1>5, <1>6, <1>7, <1>8, <1>9 DEF Next, Parent

LEMMA WholeStep ==
  ASSUME TypeOK, WholeInv, [Next]_vars
  PROVE  WholeInv'
<1> USE DEF TypeOK, WholeInv, parentVars, writerVars, childVars, interruptVars, Answers,
            Ended, Alive
<1>1. CASE Parent
  BY <1>1
     DEF Parent, Poll, Ask, Size, CheckDeadline, Awake, Terminate, Kill, AwaitKill, Handle,
         Join, Judge, Continue, Throw, OthersUnchanged
<1>2. CASE Write
  BY <1>2 DEF Write
<1>3. CASE ChildReads
  BY <1>3 DEF ChildReads
<1>4. CASE ChildEnds \/ ChildFloods
  BY <1>4 DEF ChildEnds, ChildFloods
<1>5. CASE Interrupt \/ Tick \/ UNCHANGED vars
  BY <1>5 DEF Interrupt, Tick, vars
<1> QED
  BY <1>1, <1>2, <1>3, <1>4, <1>5 DEF Next

LEMMA GoneStep ==
  ASSUME TypeOK, OutcomeInv, GoneInv, [Next]_vars
  PROVE  GoneInv'
<1> USE DEF TypeOK, OutcomeInv, GoneInv, Watching, Stopping, Goto, WaitAt,
            OthersUnchanged, Continue, Throw, parentVars, writerVars, childVars,
            interruptVars, Answers, Ended, Alive
<1>1. CASE Poll \/ Awake \/ Join
  BY <1>1 DEF Poll, Awake, Join
<1>2. CASE Ask \/ Size \/ CheckDeadline
  BY <1>2 DEF Ask, Size, CheckDeadline
<1>3. CASE Terminate \/ Kill \/ AwaitKill \/ Handle
  BY <1>3 DEF Terminate, Kill, AwaitKill, Handle
<1>4. CASE Judge
  BY <1>4 DEF Judge
<1>5. CASE Write \/ ChildReads
  BY <1>5 DEF Write, ChildReads
<1>6. CASE ChildEnds \/ ChildFloods
  BY <1>6 DEF ChildEnds, ChildFloods
<1>7. CASE Interrupt \/ Tick \/ UNCHANGED vars
  BY <1>7 DEF Interrupt, Tick, vars
<1> QED
  BY <1>1, <1>2, <1>3, <1>4, <1>5, <1>6, <1>7 DEF Next, Parent

LEMMA PromptStep ==
  ASSUME TypeOK, OutcomeInv, GoneInv, PromptInv, [Next]_vars
  PROVE  PromptInv'
<1> USE TimeAssumption
    DEF TypeOK, PromptInv, Goto, WaitAt, OthersUnchanged, Continue, Throw, parentVars,
        writerVars, childVars, interruptVars, Answers, Ended, Alive
<1>1. CASE Poll \/ Awake \/ Join
  BY <1>1 DEF Poll, Awake, Join
<1>2. CASE Ask \/ Size
  BY <1>2 DEF Ask, Size
<1>3. CASE CheckDeadline
  BY <1>3 DEF CheckDeadline, Min
<1>4. CASE Terminate \/ Kill \/ AwaitKill \/ Handle
  BY <1>4 DEF Terminate, Kill, AwaitKill, Handle
<1>5. CASE Judge \/ Write \/ ChildReads \/ ChildEnds \/ ChildFloods
  BY <1>5 DEF Judge, Write, ChildReads, ChildEnds, ChildFloods
<1>6. CASE Interrupt
  BY <1>6 DEF Interrupt
<1>7. CASE Tick
  <2>1. signal = "none" /\ Alive => pc = "sleeping"
    BY <1>7 DEF Tick, Waiting, OutcomeInv, GoneInv
  <2> QED
    BY <1>7, <2>1 DEF Tick, Waiting
<1>8. CASE UNCHANGED vars
  BY <1>8 DEF vars
<1> QED
  BY <1>1, <1>2, <1>3, <1>4, <1>5, <1>6, <1>7, <1>8 DEF Next, Parent

LEMMA TimeStep ==
  ASSUME TypeOK, OutcomeInv, TimeInv, [Next]_vars
  PROVE  TimeInv'
<1> USE TimeAssumption
    DEF TypeOK, OutcomeInv, TimeInv, RoundBegins, Watching, Stopping, Goto, WaitAt,
        OthersUnchanged, Continue, Throw, parentVars, writerVars, childVars, interruptVars,
        Alive
<1>1. CASE Poll \/ Awake \/ Join
  BY <1>1 DEF Poll, Awake, Join
<1>2. CASE Ask \/ Size
  BY <1>2 DEF Ask, Size
<1>3. CASE CheckDeadline
  BY <1>3 DEF CheckDeadline, Min
<1>4. CASE Terminate \/ Kill
  BY <1>4 DEF Terminate, Kill
<1>5. CASE AwaitKill \/ Handle
  BY <1>5 DEF AwaitKill, Handle
<1>6. CASE Judge \/ Write \/ ChildReads \/ ChildEnds \/ ChildFloods \/ Interrupt
  BY <1>6 DEF Judge, Write, ChildReads, ChildEnds, ChildFloods, Interrupt
<1>7. CASE Tick
  BY <1>7 DEF Tick, Waiting
<1>8. CASE UNCHANGED vars
  BY <1>8 DEF vars
<1> QED
  BY <1>1, <1>2, <1>3, <1>4, <1>5, <1>6, <1>7, <1>8 DEF Next, Parent

\* The invariant of the stage.
THEOREM StageInvariant == Spec => []StageInv
<1>1. Init => StageInv
  <2> SUFFICES ASSUME Init PROVE StageInv
    OBVIOUS
  <2>1. TypeOK
    <3>1. since \in 0 .. Horizon /\ now \in 0 .. Horizon /\ wake \in Nat
      BY TimeAssumption DEF Init
    <3>2. unsent \in 0 .. Request /\ pipe \in 0 .. PipeSize
      BY PipeAssumption DEF Init
    <3> QED
      BY <3>1, <3>2 DEF Init, TypeOK
  <2>2. OutcomeInv /\ WholeInv /\ GoneInv /\ PromptInv
    BY DEF Init, OutcomeInv, WholeInv, GoneInv, PromptInv, Watching, Stopping, Answers, Alive
  <2>3. TimeInv
    BY TimeAssumption DEF Init, TimeInv, Watching, RoundBegins
  <2> QED
    BY <2>1, <2>2, <2>3 DEF StageInv
<1>2. StageInv /\ [Next]_vars => StageInv'
  BY TypeStep, OutcomeStep, WholeStep, GoneStep, PromptStep, TimeStep DEF StageInv
<1> QED
  BY <1>1, <1>2, PTL DEF Spec

\* The call neither returns nor reports a timeout, a cancellation, a lost lease
\* or a flood while the child runs: a child that is still there has survived
\* two rounds of SIGTERM and SIGKILL, and a TimeoutExpired says so.
THEOREM ChildIsGoneTheorem == Spec => []ChildIsGone
<1>1. StageInv => ChildIsGone
  BY DEF StageInv, GoneInv, ChildIsGone
<1> QED
  BY <1>1, StageInvariant, PTL

\* A result is the answer of a child that read the whole request and was never
\* told to stop.
THEOREM ResultIsWholeTheorem == Spec => []ResultIsWhole
<1>1. StageInv => ResultIsWhole
  BY DEF StageInv, OutcomeInv, WholeInv, ResultIsWhole, Answers
<1> QED
  BY <1>1, StageInvariant, PTL

\* A cancellation or a lost lease is acted on within one poll interval, and the
\* call is over by the deadline and five grace periods, whatever the child, its
\* writer and their signals do.
THEOREM StopsInTimeTheorem == Spec => []StopsInTime
<1>1. StageInv => StopsPromptly
  BY DEF StageInv, PromptInv, StopsPromptly
<1>2. StageInv => HardDeadline
  BY TimeAssumption
     DEF StageInv, TypeOK, TimeInv, RoundBegins, Watching, HardDeadline
<1> QED
  BY <1>1, <1>2, StageInvariant, PTL DEF StopsInTime

LEMMA StepsAreNumbers ==
  ASSUME StageInv
  PROVE  StepsLeft \in 0 .. 5 * Deadline + 15
<1> USE TimeAssumption
<1>1. now \in Nat /\ wake \in Nat /\ Deadline \in Nat
  BY DEF StageInv, TypeOK
<1>2. CASE pc \in {"timing", "sizing", "asking", "polling"}
  <2>1. now <= Deadline
    BY <1>2 DEF StageInv, TimeInv, Watching
  <2>2. PICK k \in 11 .. 14 : StepsLeft = 5 * (Deadline - now) + k
    BY <1>2 DEF StepsLeft
  <2> QED
    BY <1>1, <2>1, <2>2
<1>3. CASE pc = "sleeping"
  <2>1. wake <= Deadline
    BY <1>3 DEF StageInv, TimeInv
  <2>2. StepsLeft = 5 * (Deadline - wake) + 15
    BY <1>3 DEF StepsLeft
  <2> QED
    BY <1>1, <2>1, <2>2
<1>4. CASE pc \in {"returned", "judging", "joining", "handling", "killing", "terminating",
                   "stopping"}
  <2>1. StepsLeft \in 0 .. 10
    BY <1>4 DEF StepsLeft
  <2> QED
    BY <1>1, <2>1
<1> QED
  BY <1>2, <1>3, <1>4 DEF StageInv, TypeOK

LEMMA ParentSpends ==
  ASSUME StageInv, Parent
  PROVE  StepsLeft' < StepsLeft
<1> USE TimeAssumption
    DEF StageInv, TypeOK, TimeInv, Watching, StepsLeft, Goto, WaitAt, OthersUnchanged,
        Continue, Throw, interruptVars
<1>1. CASE Poll \/ Ask \/ Size
  BY <1>1 DEF Poll, Ask, Size, OutcomeInv
<1>2. CASE CheckDeadline
  BY <1>2 DEF CheckDeadline, OutcomeInv, Min
<1>3. CASE Awake
  BY <1>3 DEF Awake
<1>4. CASE Terminate \/ Kill \/ AwaitKill
  BY <1>4 DEF Terminate, Kill, AwaitKill
<1>5. CASE Handle
  BY <1>5 DEF Handle
<1>6. CASE Join \/ Judge
  BY <1>6 DEF Join, Judge
<1> QED
  BY <1>1, <1>2, <1>3, <1>4, <1>5, <1>6 DEF Parent

LEMMA OthersSpendNothing ==
  ASSUME StageInv, [Next]_vars, ~Parent
  PROVE  StepsLeft' = StepsLeft
<1>1. CASE Tick
  <2>1. pc \in {"sleeping", "terminating", "killing", "joining"}
    BY <1>1 DEF Tick, Waiting
  <2> QED
    BY <1>1, <2>1 DEF Tick, parentVars, StepsLeft
<1>2. CASE UNCHANGED <<parentVars, now>>
  BY <1>2 DEF parentVars, StepsLeft
<1>3. CASE Write \/ ChildReads \/ ChildEnds \/ ChildFloods \/ Interrupt \/ UNCHANGED vars
  BY <1>2, <1>3 DEF Write, ChildReads, ChildEnds, ChildFloods, Interrupt, interruptVars, vars
<1> QED
  BY <1>1, <1>3 DEF Next

\* The parent takes at most 5 * Deadline + 15 steps, whatever the child does: each one takes
\* it nearer to its return, and nothing else sets it back.  (That it takes them, and that
\* time passes while it sleeps, is the fairness of Returns.)
THEOREM StepsTheorem == Spec => StepsRunOut /\ [](StepsLeft \in 0 .. 5 * Deadline + 15)
<1>1. StageInv /\ [Next]_vars
        => [/\ Parent => StepsLeft' < StepsLeft
            /\ ~Parent => StepsLeft' = StepsLeft]_vars
  BY ParentSpends, OthersSpendNothing
<1>2. StageInv => StepsLeft \in 0 .. 5 * Deadline + 15
  BY StepsAreNumbers
<1> QED
  BY <1>1, <1>2, StageInvariant, PTL DEF Spec, StepsRunOut
=============================================================================
