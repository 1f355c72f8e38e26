------------------------------ MODULE VideoIntake ------------------------------
(***************************************************************************)
(* What the Idempotency-Key of POST /api/videos/jobs promises: the first   *)
(* request of a key decides once and for all which job the key stands for, *)
(* and every request of the key that is answered is answered with that     *)
(* job.  The abstract specification of the enqueue handler.                *)
(***************************************************************************)
CONSTANTS Requests, Keys, NoJob

VARIABLES
  key,       \* key[r] is the key that request r carries
  accepted,  \* accepted[k] is the job of key k, named after the request it is of
  answer     \* answer[r] is the job request r was answered with

Accept(r) ==
  /\ accepted[key[r]] = NoJob
  /\ accepted' = [accepted EXCEPT ![key[r]] = r]

Answer(r) ==
  /\ answer[r] = NoJob
  /\ accepted'[key[r]] # NoJob
  /\ answer' = [answer EXCEPT ![r] = accepted'[key[r]]]

Init ==
  /\ key \in [Requests -> Keys]
  /\ accepted = [k \in Keys |-> NoJob]
  /\ answer = [r \in Requests |-> NoJob]

\* The handler may decide and answer in one step.
Next ==
  /\ \E r \in Requests :
       \/ Accept(r) /\ UNCHANGED answer
       \/ Answer(r) /\ UNCHANGED accepted
       \/ Accept(r) /\ Answer(r)
  /\ UNCHANGED key

Spec == Init /\ [][Next]_<<key, accepted, answer>>
=============================================================================
