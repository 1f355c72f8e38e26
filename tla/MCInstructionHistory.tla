-------------------------- MODULE MCInstructionHistory --------------------------
EXTENDS InstructionHistory, TLC

CONSTANTS i1, technologist, master, r1, c1, c2

\* The legacy record of the second version, with its two events, and an
\* execution of it; c1 and c2 see the files under different paths.
MCLegacyStatus == <<i1, 2>> :> "expert_review"

OldEntry(type, role, from, to) ==
  [type |-> type, role |-> role, from |-> from, to |-> to, claim |-> NoClaim, legacy |-> TRUE]

MCLegacyTrail ==
  <<i1, 2>> :> <<OldEntry("version_saved", NoRole, NoStatus, "ai_draft"),
                 OldEntry("workflow_updated", master, "ai_draft", "expert_review")>>

MCLegacyRuns == r1 :> <<i1, 2>>
MCDirectory == c1 :> "/app/generated" @@ c2 :> "/srv/generated"

ASSUME LegacyTrailsTell
=============================================================================
