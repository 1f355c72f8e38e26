------------------------------ MODULE StageProcess ------------------------------
(***************************************************************************)
(* run_isolated_stage of app/workers/stage_process.py: the parent's loop   *)
(* that watches a child process, the thread that writes the request into   *)
(* the child's stdin, and the child.  Other processes of the child's group *)
(* get the same signals, but nobody waits for them; they are left out.     *)
(*                                                                         *)
(* Time is counted in ticks from the start of the stage.  The parent's own *)
(* steps take no time; time passes while it sleeps or waits.               *)
(***************************************************************************)
EXTENDS Integers

CONSTANTS
  Deadline,     \* timeout_seconds
  PollTicks,    \* poll_seconds
  Grace,        \* PROCESS_TERMINATE_GRACE_SECONDS
  Request,      \* chunks of the request
  PipeSize,     \* chunks the pipe holds
  Horizon       \* bounds the clock

ASSUME TimeAssumption ==
  /\ Deadline \in Nat /\ PollTicks \in Nat \ {0} /\ Grace \in Nat \ {0}
  /\ Horizon \in Nat
ASSUME PipeAssumption == Request \in Nat /\ PipeSize \in Nat \ {0}

VARIABLES
  pc,        \* the next step of the parent
  wake,      \* when the parent's sleep, or its timed wait, is over
  again,     \* is the parent in its except BaseException handler?
  outcome,   \* what run_isolated_stage returns or raises
  writer,    \* the stdin thread
  unsent,    \* chunks of the request still to be written
  pipe,      \* chunks in the pipe
  child,     \* the child process
  signal,    \* the strongest signal sent to the process group
  flooded,   \* is the stderr file over its limit?
  interrupt, \* what interrupt_reason answers
  since,     \* when it first answered something
  now

parentVars == <<pc, wake, again, outcome>>
writerVars == <<writer, unsent>>
childVars == <<child, flooded>>
interruptVars == <<interrupt, since>>
vars == <<parentVars, writerVars, pipe, childVars, signal, interruptVars, now>>

Alive == child \in {"reading", "working"}

Reasons == {"lease_lost", "cancelled"}

\* How the child may have ended.  It writes its answer right before it exits 0.
Answers == {"ok", "value_error", "other"}
Ended == Answers \cup {"exit_status", "signalled"}

Outcomes == {"result", "value_error", "timeout", "execution_error", "error"} \cup Reasons

Min(a, b) == IF a <= b THEN a ELSE b

-----------------------------------------------------------------------------
(* The parent.                                                             *)

Goto(label) == pc' = label /\ UNCHANGED wake
WaitAt(label, ticks) == pc' = label /\ wake' = now + ticks

OthersUnchanged == UNCHANGED <<writerVars, pipe, childVars, interruptVars, now>>

Continue(label) ==
  Goto(label) /\ UNCHANGED <<again, outcome, signal>> /\ OthersUnchanged

\* process.poll() of the while loop
Poll ==
  /\ pc = "polling"
  /\ IF Alive THEN Goto("asking") ELSE WaitAt("joining", Grace)
  /\ UNCHANGED <<again, outcome, signal>> /\ OthersUnchanged

\* An exception leaves the loop; those raised there have stopped the child.
Throw(label, what) ==
  /\ Goto(label) /\ outcome' = what
  /\ UNCHANGED <<again, signal>> /\ OthersUnchanged

Ask ==
  /\ pc = "asking"
  /\ \/ interrupt # "none" /\ Throw("stopping", interrupt)
     \/ interrupt = "none" /\ Continue("sizing")
     \/ Throw("handling", "error")

Size ==
  /\ pc = "sizing"
  /\ \/ flooded /\ Throw("stopping", "execution_error")
     \/ ~flooded /\ Continue("timing")

\* Fault: it always sleeps for a whole poll interval.
CheckDeadlineLate ==
  /\ pc = "timing"
  /\ \/ now >= Deadline /\ Throw("stopping", "timeout")
     \/ /\ now < Deadline
        /\ WaitAt("sleeping", PollTicks)
        /\ UNCHANGED <<again, outcome, signal>> /\ OthersUnchanged

\* Fault: there is no deadline.
CheckDeadlineNever ==
  /\ pc = "timing"
  /\ WaitAt("sleeping", PollTicks)
  /\ UNCHANGED <<again, outcome, signal>> /\ OthersUnchanged

\* The sleep ends at the deadline if that comes first.
CheckDeadline ==
  /\ pc = "timing"
  /\ \/ now >= Deadline /\ Throw("stopping", "timeout")
     \/ /\ now < Deadline
        /\ WaitAt("sleeping", Min(PollTicks, Deadline - now))
        /\ UNCHANGED <<again, outcome, signal>> /\ OthersUnchanged

Awake ==
  /\ pc = "sleeping" /\ now >= wake
  /\ Continue("polling")

\* _stop_process, up to SIGTERM
Terminate ==
  /\ pc = "stopping"
  /\ IF Alive THEN WaitAt("terminating", Grace) /\ signal' = "term"
              ELSE Goto("handling") /\ UNCHANGED signal
  /\ UNCHANGED <<again, outcome>> /\ OthersUnchanged

\* Fault: SIGTERM is all that is sent.
KillNever ==
  /\ pc = "terminating"
  /\ ~Alive \/ now >= wake
  /\ Goto("handling")
  /\ UNCHANGED <<again, outcome, signal>> /\ OthersUnchanged

\* process.wait, and SIGKILL when it times out
Kill ==
  /\ pc = "terminating"
  /\ \/ ~Alive /\ Goto("handling") /\ UNCHANGED signal
     \/ Alive /\ now >= wake /\ WaitAt("killing", Grace) /\ signal' = "kill"
  /\ UNCHANGED <<again, outcome>> /\ OthersUnchanged

\* The second process.wait; when it times out, that is what is raised.
AwaitKill ==
  /\ pc = "killing"
  /\ \/ ~Alive /\ Goto("handling") /\ UNCHANGED outcome
     \/ Alive /\ now >= wake /\ Goto("handling") /\ outcome' = "error"
  /\ UNCHANGED <<again, signal>> /\ OthersUnchanged

\* except BaseException: a child that still runs is stopped once more.
Handle ==
  /\ pc = "handling"
  /\ IF Alive /\ ~again THEN Goto("stopping") /\ again' = TRUE
                        ELSE WaitAt("joining", Grace) /\ UNCHANGED again
  /\ UNCHANGED <<outcome, signal>> /\ OthersUnchanged

\* Fault: what was raised is forgotten, and the answer read all the same.
JoinForgets ==
  /\ pc = "joining"
  /\ writer # "writing" \/ now >= wake
  /\ Continue("judging")

\* finally: writer.join(timeout)
Join ==
  /\ pc = "joining"
  /\ writer # "writing" \/ now >= wake
  /\ Continue(IF outcome = "none" THEN "judging" ELSE "returned")

\* The child has exited: its status and its answer decide.
Judge ==
  /\ pc = "judging"
  /\ outcome' = CASE child = "ok"          -> "result"
                  [] child = "value_error" -> "value_error"
                  [] OTHER                 -> "execution_error"
  /\ Goto("returned")
  /\ UNCHANGED <<again, signal>> /\ OthersUnchanged

Parent ==
  \/ Poll \/ Ask \/ Size \/ CheckDeadline \/ Awake
  \/ Terminate \/ Kill \/ AwaitKill \/ Handle \/ Join \/ Judge

-----------------------------------------------------------------------------
(* The writer thread, the child, and the reasons to stop.                  *)

\* _write_request: it blocks while the pipe is full and the child is there.
Write ==
  /\ writer = "writing"
  /\ \/ /\ Alive /\ unsent > 0 /\ pipe < PipeSize
        /\ unsent' = unsent - 1 /\ pipe' = pipe + 1
        /\ UNCHANGED writer
     \/ /\ unsent = 0 \/ ~Alive
        /\ writer' = "closed"
        /\ UNCHANGED <<unsent, pipe>>
  /\ UNCHANGED <<parentVars, childVars, signal, interruptVars, now>>

\* _read_payload reads up to the end of the stream.
ChildReads ==
  /\ child = "reading"
  /\ \/ pipe > 0 /\ pipe' = pipe - 1 /\ UNCHANGED child
     \/ pipe = 0 /\ writer = "closed" /\ child' = "working" /\ UNCHANGED pipe
  /\ UNCHANGED <<parentVars, writerVars, flooded, signal, interruptVars, now>>

\* main answers, or the child exits with a status, or dies of a signal.
ChildEnds ==
  /\ \/ child = "working" /\ child' \in Answers
     \/ Alive /\ child' = "exit_status"
     \/ Alive /\ signal # "none" /\ child' = "signalled"
  /\ UNCHANGED <<parentVars, writerVars, pipe, flooded, signal, interruptVars, now>>

ChildFloods ==
  /\ Alive /\ ~flooded
  /\ flooded' = TRUE
  /\ UNCHANGED <<parentVars, writerVars, pipe, child, signal, interruptVars, now>>

\* A cancellation is requested or the lease is lost.
Interrupt ==
  /\ interrupt = "none" /\ pc # "returned"
  /\ interrupt' \in Reasons
  /\ since' = now
  /\ UNCHANGED <<parentVars, writerVars, pipe, childVars, signal, now>>

\* The parent sleeps, or waits for what has not happened yet.
Waiting ==
  /\ now < wake
  /\ \/ pc = "sleeping"
     \/ pc \in {"terminating", "killing"} /\ Alive
     \/ pc = "joining" /\ writer = "writing"

Tick ==
  /\ Waiting /\ now < Horizon
  /\ now' = now + 1
  /\ UNCHANGED <<parentVars, writerVars, pipe, childVars, signal, interruptVars>>

-----------------------------------------------------------------------------
Init ==
  /\ pc = "polling" /\ wake = 0 /\ again = FALSE /\ outcome = "none"
  /\ writer = "writing" /\ unsent = Request /\ pipe = 0
  /\ child = "reading" /\ signal = "none" /\ flooded = FALSE
  /\ interrupt = "none" /\ since = 0 /\ now = 0

Next ==
  \/ Parent \/ Write \/ Tick
  \/ ChildReads \/ ChildEnds \/ ChildFloods \/ Interrupt

Spec == Init /\ [][Next]_vars

\* The parent takes its steps and time passes.  Nothing is assumed of the
\* child, which may never read, never end and survive SIGKILL for a while, nor
\* of the thread that writes to it.
Fairness == WF_vars(Parent) /\ WF_vars(Tick)

FairSpec == Spec /\ Fairness

-----------------------------------------------------------------------------
(* Properties.                                                             *)

TypeOK ==
  /\ pc \in {"polling", "asking", "sizing", "timing", "sleeping", "stopping",
             "terminating", "killing", "handling", "joining", "judging", "returned"}
  /\ wake \in Nat /\ again \in BOOLEAN
  /\ outcome \in Outcomes \cup {"none"}
  /\ writer \in {"writing", "closed"}
  /\ unsent \in 0 .. Request /\ pipe \in 0 .. PipeSize
  /\ child \in {"reading", "working"} \cup Ended
  /\ signal \in {"none", "term", "kill"} /\ flooded \in BOOLEAN
  /\ interrupt \in Reasons \cup {"none"}
  /\ since \in 0 .. Horizon /\ now \in 0 .. Horizon

\* run_isolated_stage neither returns nor reports a timeout, a cancellation, a
\* lost lease or a flood while the child still runs, so the worker changes the
\* job's state only afterwards.  Only a child that has survived SIGKILL may
\* still be there, and then it is a TimeoutExpired that is raised.
ChildIsGone == pc = "returned" /\ Alive => outcome = "error" /\ signal = "kill"

\* A result comes from a child that read the whole request and exited by
\* itself: the answer of a child that was stopped is never taken.
ResultIsWhole ==
  outcome = "result" => child = "ok" /\ unsent = 0 /\ pipe = 0 /\ signal = "none"

\* A cancellation or a lost lease is acted on within one poll interval.
StopsPromptly ==
  interrupt # "none" /\ signal = "none" /\ Alive => now - since <= PollTicks

\* The stage is over by its deadline, two attempts to stop the child and one
\* wait for the writer, even if the child never reads its request and survives
\* every signal.
HardDeadline == pc # "returned" => now <= Deadline + 5 * Grace

\* A stage that is to stop is stopped, and every stage is over, in time.
StopsInTime == StopsPromptly /\ HardDeadline

\* The stage comes to an end.
Returns == <>(pc = "returned")

\* How many steps the parent may still take: a round of its loop costs five, and a sleep of
\* at least one tick of the time that is left; stopping the child happens at most twice.
StepsLeft ==
  CASE pc = "returned"    -> 0
    [] pc = "judging"     -> 1
    [] pc = "joining"     -> 2
    [] pc = "handling"    -> IF again THEN 3 ELSE 7
    [] pc = "killing"     -> IF again THEN 4 ELSE 8
    [] pc = "terminating" -> IF again THEN 5 ELSE 9
    [] pc = "stopping"    -> IF again THEN 6 ELSE 10
    [] pc = "timing"      -> 5 * (Deadline - now) + 11
    [] pc = "sizing"      -> 5 * (Deadline - now) + 12
    [] pc = "asking"      -> 5 * (Deadline - now) + 13
    [] pc = "polling"     -> 5 * (Deadline - now) + 14
    [] pc = "sleeping"    -> 5 * (Deadline - wake) + 15

\* The parent never spins: each of its steps takes it nearer to its return, and nothing the
\* child, the writer, an interrupt or the passing of time does sets it back.
StepsRunOut ==
  [][/\ Parent => StepsLeft' < StepsLeft
     /\ ~Parent => StepsLeft' = StepsLeft]_vars
=============================================================================
