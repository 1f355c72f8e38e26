-------------------------------- MODULE Drafting --------------------------------
(***************************************************************************)
(* One instruction from its generation to its review.  The pipeline        *)
(* (app/generation/pipeline.py) asks a model or falls back, and guards     *)
(* what comes out of it; the page evaluates it again, saves it as a        *)
(* version, loads a version and goes on from there (app/api/instructions.py,*)
(* app/api/history.py).  How a text is scored is in Quality.               *)
(*                                                                         *)
(* A text is reduced to the signals that the detector finds in what it was *)
(* made from, and an evaluation to the signals and the claims it has seen. *)
(***************************************************************************)
EXTENDS FiniteSets

CONSTANTS
  Signals,    \* codes of the findings
  Endpoints   \* the model endpoints that a deployment can be set to

\* external: llm_allow_external_calls.
ASSUME EndpointsAssumption ==
  Endpoints \subseteq [configured : BOOLEAN, external : BOOLEAN, url : BOOLEAN,
                       addresses : SUBSET {"internal", "public"}]

VARIABLES
  place,      \* where the draft is: nowhere yet, generated, on the page, in the history
  draft

draftingVars == <<place, draft>>

\* signals: what the detector finds in the text the draft was made from, and resolved what
\* a decision has dealt with since.  blockers: in workflow.approval_blockers.  validated:
\* a claim has a validation record; seen, trusted: what the evaluation was made of.
Draft == [signals : SUBSET Signals, resolved : SUBSET Signals, blockers : SUBSET Signals,
          granted : BOOLEAN,      \* the status is not ai_draft
          validated : BOOLEAN, seen : SUBSET Signals, trusted : BOOLEAN]

Places == {"nowhere", "generated", "page", "history"}

-----------------------------------------------------------------------------
(* The model.                                                              *)

\* ensure_endpoint_allowed
EndpointAllowed(e) ==
  e.external \/ (e.url /\ e.addresses # {} /\ "public" \notin e.addresses)

\* What a reply may be: an error, something that is no instruction, or an instruction, with
\* the status and the claims it likes.  One with a fact too long for a claim is one, too.
Replies == [kind : {"error", "malformed", "instruction", "long_fact"},
            granted : BOOLEAN, validated : BOOLEAN]

\* generate_fallback_instruction
Fallback == [kind |-> "instruction", granted |-> FALSE, validated |-> FALSE]

\* enforce_provenance_and_safety makes the claims anew, the status a draft's, and blockers
\* of the findings, and evaluate_instruction sees that.
Guarded(given, reply) ==
  [signals |-> given, resolved |-> {}, blockers |-> given, granted |-> FALSE,
   validated |-> FALSE, seen |-> given, trusted |-> FALSE]

Produce(given, reply) == draft' = Guarded(given, reply) /\ place' = "generated"

\* generate_instruction_with_context.  What the user gives and the sources that are found
\* become one context, of which the middle is left out when it is too long.  What remains
\* is what the model gets, and what is searched for signals.  Without an endpoint that is
\* set and allowed, and without a reply that is an instruction, the fallback stands in.
Generate ==
  /\ place = "nowhere"
  /\ \E context \in SUBSET Signals : \E given \in SUBSET context, e \in Endpoints, reply \in Replies :
       LET asked == e.configured /\ EndpointAllowed(e)
       IN  /\ asked => reply.kind # "long_fact"
           /\ Produce(given, IF asked /\ reply.kind = "instruction" THEN reply ELSE Fallback)

\* The fact does not fit into a claim, after the fallback could have stood in: the request
\* fails and nothing comes out of it.
GenerateBreaks ==
  /\ place = "nowhere"
  /\ \E e \in Endpoints : e.configured /\ EndpointAllowed(e)
  /\ UNCHANGED draftingVars

-----------------------------------------------------------------------------
(* The page and the history.                                               *)

\* The response is shown.
Show ==
  /\ place = "generated"
  /\ place' = "page"
  /\ UNCHANGED draft

\* Fault: the blockers are made anew from what the form holds.
BlocksAnew(found) ==
  draft' = [draft EXCEPT !.blockers = found, !.seen = found, !.trusted = draft.validated]

\* rebuild_instruction_payload and improve_instruction_payload: the evaluation is of the
\* request that the form holds at that time.
EvaluatesAnew(found) ==
  draft' = [draft EXCEPT !.seen = found, !.trusted = draft.validated]

Rebuild ==
  /\ place = "page"
  /\ \E found \in SUBSET Signals : EvaluatesAnew(found)
  /\ UNCHANGED place

\* save_instruction_history: no claim is validated any more; the evaluation is kept.
SaveDraft ==
  /\ place = "page"
  /\ draft' = [draft EXCEPT !.validated = FALSE]
  /\ place' = "history"

Load ==
  /\ place = "history"
  /\ place' = "page"
  /\ UNCHANGED draft

\* validate_instruction_claim
Validate ==
  /\ place = "history"
  /\ draft' = [draft EXCEPT !.validated = TRUE]
  /\ UNCHANGED place

\* update_instruction_workflow_status: an approval closes all blockers, any other decision
\* those that it names.
Decide ==
  /\ place = "history"
  /\ \E granted \in BOOLEAN, closed \in SUBSET Signals :
       draft' = [draft EXCEPT !.granted = granted, !.blockers = @ \ closed,
                              !.resolved = @ \cup (closed \cap draft.signals)]
  /\ UNCHANGED place

DraftingInit ==
  /\ place = "nowhere"
  /\ draft = Guarded({}, Fallback)

DraftingNext ==
  Generate \/ GenerateBreaks \/ Show \/ Rebuild \/ SaveDraft \/ Load \/ Validate \/ Decide

DraftingSpec == DraftingInit /\ [][DraftingNext]_draftingVars

-----------------------------------------------------------------------------
DraftingTypeOK == place \in Places /\ draft \in Draft

\* What the generation returns is a draft whose claims nobody has validated, and its
\* evaluation tells every signal, whatever the context and the model's answer say of
\* themselves; and a signal blocks it until a decision has dealt with it, however often
\* it is edited, evaluated, saved and loaded in between.
SignalsStayBlockers ==
  /\ draft.signals \subseteq draft.blockers \cup draft.resolved
  /\ place = "generated" => /\ ~ draft.granted /\ ~ draft.validated /\ ~ draft.trusted
                            /\ draft.seen = draft.signals

\* A version in the history with a blocker for a signal has an evaluation that has seen it,
\* and so a high or critical risk.
RiskTellsSignals ==
  place = "history" => draft.signals \cap draft.blockers \subseteq draft.seen
=================================================================================
