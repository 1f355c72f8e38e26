------------------------------- MODULE Rounding -------------------------------
(***************************************************************************)
(* external: round of Python, for a quotient.                              *)
(***************************************************************************)
EXTENDS Integers

\* round(a / b): a half goes to the even neighbour.
Rounded(a, b) ==
  LET q == a \div b
      r == 2 * (a % b)
  IN  IF r > b \/ (r = b /\ q % 2 = 1) THEN q + 1 ELSE q
=============================================================================
