-------------------------------- MODULE Content --------------------------------
(***************************************************************************)
(* The components that hold or judge content and share no state, side by   *)
(* side: a behaviour takes steps of one of them only.                      *)
(***************************************************************************)
EXTENDS Documents, Sweep, VideoEgress, Quality, Drafting, Retrieval, AuditChain, Keyframes

VARIABLE part   \* the component that runs

Components == {"documents", "sweep", "egress", "quality", "drafting", "retrieval", "audit", "keyframes"}

\* Of the components that do not run, one initial state is enough.
ContentInit ==
  /\ part \in Components
  /\ part # "documents" => file = [d \in Documents |-> NoFile]
  /\ part # "egress" => dns = [h \in Hosts |-> {}]
  /\ part # "keyframes" => frames = 0 /\ wanted = 1
  /\ DocumentsInit /\ SweepInit /\ EgressInit /\ QualityInit
  /\ DraftingInit /\ RetrievalInit /\ ChainInit /\ KeyframesInit

ContentNext ==
  /\ UNCHANGED part
  /\ IF part = "documents" THEN DocumentsNext ELSE UNCHANGED documentsVars
  /\ IF part = "sweep" THEN SweepNext ELSE UNCHANGED sweepVars
  /\ IF part = "egress" THEN EgressNext ELSE UNCHANGED egressVars
  /\ IF part = "quality" THEN QualityNext ELSE UNCHANGED qualityVars
  /\ IF part = "drafting" THEN DraftingNext ELSE UNCHANGED draftingVars
  /\ IF part = "retrieval" THEN RetrievalNext ELSE UNCHANGED retrievalVars
  /\ IF part = "audit" THEN ChainNext ELSE UNCHANGED chainVars
  /\ IF part = "keyframes" THEN KeyframesNext ELSE UNCHANGED keyframesVars

contentVars ==
  <<part, documentsVars, sweepVars, egressVars, qualityVars, draftingVars, retrievalVars,
    chainVars, keyframesVars>>

ContentSpec == ContentInit /\ [][ContentNext]_contentVars

\* The variables of the eight components keep their types.
ContentTypeOK ==
  /\ part = "documents" => DocumentsTypeOK
  /\ part = "sweep" => SweepTypeOK
  /\ part = "egress" => EgressTypeOK
  /\ part = "quality" => QualityTypeOK
  /\ part = "drafting" => DraftingTypeOK
  /\ part = "retrieval" => RetrievalTypeOK
  /\ part = "audit" => ChainTypeOK
  /\ part = "keyframes" => KeyframesTypeOK
=============================================================================
