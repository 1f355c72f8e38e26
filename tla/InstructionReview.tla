--------------------------- MODULE InstructionReview ---------------------------
(***************************************************************************)
(* What the instruction history promises its readers: a version, once      *)
(* there, is never replaced; its status moves along the review workflow,   *)
(* one decision at a time; and the claims confirmed for it only grow.  The *)
(* abstract specification of the history, without payloads, trails, files  *)
(* and processes.                                                          *)
(***************************************************************************)
CONSTANTS Versions, Claims

VARIABLES
  status,    \* status[v], "none" for a version that does not exist
  confirmed  \* confirmed[v] are the claims of v that a reviewer has confirmed

Statuses == {"ai_draft", "expert_review", "approved", "rejected"}

\* A draft or rejected version is approved only after an expert's review.
Moves ==
  {<<"ai_draft", "expert_review">>, <<"ai_draft", "rejected">>,
   <<"expert_review", "approved">>, <<"expert_review", "rejected">>,
   <<"expert_review", "ai_draft">>, <<"approved", "expert_review">>,
   <<"rejected", "ai_draft">>, <<"rejected", "expert_review">>}

Init ==
  /\ status = [v \in Versions |-> "none"]
  /\ confirmed = [v \in Versions |-> {}]

\* Versions are added, with nothing confirmed yet.
Add ==
  /\ status' \in [Versions -> Statuses \cup {"none"}]
  /\ \A v \in Versions : status[v] # "none" => status'[v] = status[v]
  /\ UNCHANGED confirmed

Move(v) ==
  /\ status' \in [Versions -> Statuses \cup {"none"}]
  /\ <<status[v], status'[v]>> \in Moves
  /\ \A w \in Versions \ {v} : status'[w] = status[w]
  /\ UNCHANGED confirmed

Confirm(v, claim) ==
  /\ status[v] # "none"
  /\ claim \notin confirmed[v]
  /\ confirmed' = [confirmed EXCEPT ![v] = @ \cup {claim}]
  /\ UNCHANGED status

Next ==
  \/ Add
  \/ \E v \in Versions : Move(v) \/ \E claim \in Claims : Confirm(v, claim)

Spec == Init /\ [][Next]_<<status, confirmed>>
=============================================================================
