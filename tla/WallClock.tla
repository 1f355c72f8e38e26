------------------------------- MODULE WallClock -------------------------------
(***************************************************************************)
(* The clock that requests read before their transaction waits for the     *)
(* write lock of a database.                                               *)
(***************************************************************************)
EXTENDS Integers

CONSTANTS
  Requests,  \* each is made once
  MaxLag,    \* bound: the timeout of a connection, in ticks
  MaxTime    \* bound of the clock

ASSUME ClockAssumption == MaxLag \in Nat \ {0} /\ MaxTime \in Nat

VARIABLE now

\* A transaction that has read the clock at t runs at most MaxLag later.
InTime(t) == now - t < MaxLag

Advances == now < MaxTime /\ now' = now + 1
=============================================================================
