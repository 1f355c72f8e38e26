--------------------------- MODULE VideoJobLifecycle ---------------------------
(***************************************************************************)
(* What the video-job API promises a client that polls a job's status:     *)
(* the abstract specification of the queue, without leases, attempts,      *)
(* retries, workers or time.  A pending job may be asked to stop; from     *)
(* then on it can only end cancelled.  A final phase is for ever.          *)
(* Several jobs may change phase in one step, since one transaction of     *)
(* the queue may recover many expired leases.                              *)
(***************************************************************************)
CONSTANT Jobs

VARIABLE phase

Phases == {"absent", "pending", "stopping", "succeeded", "failed", "cancelled"}

\* The changes of phase a client can see.
Moves ==
  {<<"absent", "pending">>, <<"pending", "stopping">>,
   <<"pending", "succeeded">>, <<"pending", "failed">>,
   <<"pending", "cancelled">>, <<"stopping", "cancelled">>}

Init == phase = [j \in Jobs |-> "absent"]

Next ==
  /\ phase' \in [Jobs -> Phases]
  /\ \A j \in Jobs : phase'[j] = phase[j] \/ <<phase[j], phase'[j]>> \in Moves

Spec == Init /\ [][Next]_phase
=============================================================================
