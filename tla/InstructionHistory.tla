--------------------------- MODULE InstructionHistory ---------------------------
(***************************************************************************)
(* The versions of instruction sets, their review workflow and their audit *)
(* trail: app/storage/instruction_history.py with the handlers of          *)
(* app/api/history.py.                                                     *)
(*                                                                         *)
(* Every call opens the storage first, which imports the records that an   *)
(* earlier release has kept as JSON files, and then runs one transaction.  *)
(* The callers run in several processes, which may see the directory of    *)
(* those files under different paths.                                      *)
(*                                                                         *)
(* A version is a pair <<i, n>>.  Its payload is reduced to what the       *)
(* operations change in it; a digest of a payload is the payload itself.   *)
(* The position of an event in a trail is its sequence number, and the     *)
(* hash chain is the trail.                                                *)
(***************************************************************************)
EXTENDS Integers, Sequences, FiniteSets

CONSTANTS
  Instructions,  \* instruction ids
  MaxVersion,    \* bounds the version numbers
  MaxEvents,     \* bounds the audit events of all versions
  Claims,        \* evidence claims that can be validated
  Roles,         \* the roles with the permission workflow:review
  Approvers,     \* those that may approve and validate as well
  NoRole,
  Callers,
  Directory,     \* Directory[c] is the path under which c sees the legacy files
  LegacyStatus,  \* LegacyStatus[v] is the status in the legacy record of v ...
  LegacyTrail,   \* ... and LegacyTrail[v] its audit events
  LegacyRuns     \* LegacyRuns[x] is the version that the legacy execution x is of

Statuses == {"ai_draft", "expert_review", "approved", "rejected"}
Versions == Instructions \X (1 .. MaxVersion)

\* The legacy files: a record is named after its version.
Records == DOMAIN LegacyStatus
Executions == DOMAIN LegacyRuns
Files == Records \cup Executions

NoStatus == "none"
NoClaim == "none"

Payload == [status : Statuses, validated : SUBSET Claims]

\* The columns of a stored version.
Row == [payload : Payload,
        listed  : Statuses]    \* workflow_status in record_json

NoRow == [payload |-> [status |-> NoStatus, validated |-> {}], listed |-> NoStatus]

Entry == [type   : {"version_saved", "workflow_updated", "claim_validated", "execution_saved"},
          role   : Roles \cup {NoRole},
          from   : Statuses \cup {NoStatus},
          to     : Statuses \cup {NoStatus},
          claim  : Claims \cup {NoClaim},
          legacy : BOOLEAN]    \* imported from a file

\* An event is an entry with its content_sha256.
Event == [entry : Entry, digest : Payload]

ASSUME VersionAssumption == MaxVersion \in Nat \ {0} /\ MaxEvents \in Nat
ASSUME RoleAssumption == Approvers \subseteq Roles /\ NoRole \notin Roles
ASSUME ClaimAssumption == NoClaim \notin Claims
\* The file of an execution has a name of its own: <version>-execution-<number>.
ASSUME RecordAssumption ==
  /\ LegacyStatus \in [Records -> Statuses] /\ Records \subseteq Versions
  /\ Executions \cap Versions = {}
  /\ LegacyTrail \in [Records -> Seq(Entry)]
  /\ LegacyRuns \in [Executions -> Versions]
\* What an old trail tells is old, and its claims were not validated.
ASSUME LegacyAssumption ==
  \A v \in Records : \A k \in DOMAIN LegacyTrail[v] :
    LegacyTrail[v][k].legacy /\ LegacyTrail[v][k].claim = NoClaim

VARIABLES
  rows,      \* instruction_versions
  trail,     \* instruction_audit_events
  runs,      \* instruction_execution_runs, as pairs <<version, run_id>>
  imported,  \* legacy_history_imports, as pairs <<directory, file>>
  present,   \* the legacy files that are there
  caller     \* what each caller is doing, and the files it has found to import

vars == <<rows, trail, runs, imported, present, caller>>
tables == <<rows, trail, runs, imported>>

Stored(v) == rows[v].listed # NoStatus

Idle == [pc |-> "idle", pending |-> {}]

Finish(c) == caller' = [caller EXCEPT ![c] = Idle]

-----------------------------------------------------------------------------
(* The audit trail.                                                        *)

New(type, role, from, to, claim) ==
  [type |-> type, role |-> role, from |-> from, to |-> to, claim |-> claim,
   legacy |-> FALSE]

\* The rows of instruction_audit_events.
Events == UNION {{v} \X DOMAIN trail[v] : v \in Versions}

\* Fault: the payload is read before the UPDATE.
LogsEarly(v, entry) ==
  /\ trail' = [trail EXCEPT ![v] = Append(@, [entry |-> entry, digest |-> rows[v].payload])]
  /\ Cardinality(Events') <= MaxEvents

\* _append_audit_event.  The digest is that of the payload as the transaction
\* has left it.
Logs(v, entry) ==
  /\ trail' = [trail EXCEPT ![v] = Append(@, [entry |-> entry, digest |-> rows'[v].payload])]
  /\ Cardinality(Events') <= MaxEvents

-----------------------------------------------------------------------------
(* Opening the storage.                                                    *)

\* The look for files that are not imported yet, outside any transaction.
Open(c) ==
  /\ caller[c].pc = "idle"
  /\ LET pending == {x \in present : <<Directory[c], x>> \notin imported}
     IN  caller' = [caller EXCEPT ![c] =
                      IF pending = {} THEN [pc |-> "ready", pending |-> {}]
                                      ELSE [pc |-> "importing", pending |-> pending]]
  /\ UNCHANGED <<tables, present>>

Fresh(status) == [payload |-> [status |-> status, validated |-> {}], listed |-> status]

\* INSERT OR IGNORE INTO instruction_versions
WithRecord(v) == IF Stored(v) THEN rows[v] ELSE Fresh(LegacyStatus[v])

\* The events of the record whose event_id is not there.  They come together.
MissingEvents(v) ==
  IF \E k \in DOMAIN trail[v] : trail[v][k].entry.legacy THEN <<>> ELSE LegacyTrail[v]

\* Fault: the mark is set for an execution whose version is not there, too.
ImportedWithOrphans(todo) == todo

\* The files that are imported, not skipped: an execution needs its version.
ImportedOf(todo) ==
  {x \in todo : x \in Executions => Stored(LegacyRuns[x]) \/ LegacyRuns[x] \in todo}

\* The transaction of _import_legacy_history, which looks at the marks again.
Import(c) ==
  LET todo    == {x \in caller[c].pending : <<Directory[c], x>> \notin imported}
      records == todo \cap Records
      done    == ImportedOf(todo)
  IN  /\ caller[c].pc = "importing"
      /\ rows' = [v \in Versions |-> IF v \in records THEN WithRecord(v) ELSE rows[v]]
      /\ trail' = [v \in Versions |->
           IF v \in records
             THEN trail[v] \o [k \in DOMAIN MissingEvents(v) |->
                    [entry |-> MissingEvents(v)[k], digest |-> rows'[v].payload]]
             ELSE trail[v]]
      /\ Cardinality(Events') <= MaxEvents
      /\ runs' = runs \cup {<<LegacyRuns[x], x>> : x \in done \cap Executions}
      /\ imported' = imported \cup {<<Directory[c], x>> : x \in done}
      /\ caller' = [caller EXCEPT ![c] = [pc |-> "ready", pending |-> {}]]
      /\ UNCHANGED present

\* A file cannot be read, or its instruction is owned by another project: the
\* transaction is rolled back and the caller's operation fails.
ImportFails(c) ==
  /\ caller[c].pc = "importing"
  /\ Finish(c)
  /\ UNCHANGED <<tables, present>>

-----------------------------------------------------------------------------
(* The operations of a caller that has opened the storage.                 *)

Numbers(i) == {n \in 1 .. MaxVersion : Stored(<<i, n>>)}

\* Fault: the versions are counted.
IsNextCounted(i, n) == n = Cardinality(Numbers(i)) + 1

\* n = COALESCE(MAX(version), 0) + 1
IsNext(i, n) ==
  /\ \A m \in Numbers(i) : m < n
  /\ n = 1 \/ n - 1 \in Numbers(i)

\* Fault: strip_client_claim_validations is not called.
StrippedNot(payload) == payload

\* strip_client_claim_validations
Stripped(payload) == [payload EXCEPT !.validated = {}]

\* What a client may save: what was generated, which is a draft, or what it
\* has loaded from the history.
Saveable ==
  {[status |-> "ai_draft", validated |-> {}]} \cup {rows[v].payload : v \in {w \in Versions : Stored(w)}}

\* save_instruction_history
Save(c, i, n, payload) ==
  /\ caller[c].pc = "ready"
  /\ IsNext(i, n)
  /\ payload \in Saveable
  /\ rows' = [rows EXCEPT ![<<i, n>>] = [payload |-> Stripped(payload),
                                        listed |-> payload.status]]
  /\ Logs(<<i, n>>, New("version_saved", NoRole, NoStatus, payload.status, NoClaim))
  /\ Finish(c)
  /\ UNCHANGED <<runs, imported, present>>

\* _validate_workflow_transition
Allowed(status) ==
  CASE status = "ai_draft"      -> {"ai_draft", "expert_review", "rejected"}
    [] status = "expert_review" -> Statuses
    [] status = "approved"      -> {"approved", "expert_review"}
    [] status = "rejected"      -> {"rejected", "ai_draft", "expert_review"}

\* Fault: the previous status is taken from the workflow just changed.
DecideMislogged(c, v, status, role) ==
  /\ caller[c].pc = "ready"
  /\ Stored(v)
  /\ status \in Allowed(rows[v].payload.status)
  /\ status = "approved" => role \in Approvers
  /\ rows' = [rows EXCEPT ![v] = [payload |-> [@.payload EXCEPT !.status = status],
                                  listed |-> status]]
  /\ Logs(v, New("workflow_updated", role, status, status, NoClaim))
  /\ Finish(c)
  /\ UNCHANGED <<runs, imported, present>>

\* update_instruction_workflow_status
Decide(c, v, status, role) ==
  /\ caller[c].pc = "ready"
  /\ Stored(v)
  /\ status \in Allowed(rows[v].payload.status)
  /\ status = "approved" => role \in Approvers
  /\ rows' = [rows EXCEPT ![v] = [payload |-> [@.payload EXCEPT !.status = status],
                                  listed |-> status]]
  /\ Logs(v, New("workflow_updated", role, rows[v].payload.status, status, NoClaim))
  /\ Finish(c)
  /\ UNCHANGED <<runs, imported, present>>

\* validate_instruction_claim
Validate(c, v, claim, role) ==
  /\ caller[c].pc = "ready"
  /\ Stored(v)
  /\ claim \notin rows[v].payload.validated
  /\ role \in Approvers
  /\ rows' = [rows EXCEPT ![v] =
       [payload |-> [status |-> @.payload.status,
                     validated |-> @.payload.validated \cup {claim}],
        listed |-> @.listed]]
  /\ Logs(v, New("claim_validated", role, NoStatus, NoStatus, claim))
  /\ Finish(c)
  /\ UNCHANGED <<runs, imported, present>>

\* save_instruction_execution.  The new run_id is named after its event.
Execute(c, v) ==
  /\ caller[c].pc = "ready"
  /\ Stored(v)
  /\ runs' = runs \cup {<<v, Len(trail[v]) + 1>>}
  /\ UNCHANGED rows
  /\ Logs(v, New("execution_saved", NoRole, NoStatus, rows[v].payload.status, NoClaim))
  /\ Finish(c)
  /\ UNCHANGED <<imported, present>>

\* A query, or an operation that is refused or rolled back, or a killed process.
Leave(c) ==
  /\ caller[c].pc = "ready"
  /\ Finish(c)
  /\ UNCHANGED <<tables, present>>

\* Somebody restores a legacy file.
Appear(x) ==
  /\ x \notin present
  /\ present' = present \cup {x}
  /\ UNCHANGED <<tables, caller>>

-----------------------------------------------------------------------------
Init ==
  /\ rows = [v \in Versions |-> NoRow]
  /\ trail = [v \in Versions |-> <<>>]
  /\ runs = {} /\ imported = {}
  /\ present \in SUBSET Files
  /\ caller = [c \in Callers |-> Idle]

Operation(c) ==
  \/ \E i \in Instructions, n \in 1 .. MaxVersion, payload \in Saveable : Save(c, i, n, payload)
  \/ \E v \in Versions, role \in Roles :
       \/ \E status \in Statuses : Decide(c, v, status, role)
       \/ \E claim \in Claims : Validate(c, v, claim, role)
  \/ \E v \in Versions : Execute(c, v)

Next ==
  \/ \E c \in Callers : Open(c) \/ Import(c) \/ ImportFails(c) \/ Operation(c) \/ Leave(c)
  \/ \E x \in Files : Appear(x)

Spec == Init /\ [][Next]_vars

-----------------------------------------------------------------------------
(* Properties.                                                             *)

statusOfRows == [v \in Versions |-> rows[v].payload.status]
validatedOfRows == [v \in Versions |-> rows[v].payload.validated]

Review == INSTANCE InstructionReview
            WITH status <- statusOfRows, confirmed <- validatedOfRows

\* Saves, decisions, validations and imports, in any order and by any number of
\* processes, add versions and review them, and do nothing else to them.
ImplementsReview == Review!Spec

TypeOK ==
  /\ rows \in [Versions -> Row \cup {NoRow}]
  /\ trail \in [Versions -> Seq(Event)]
  /\ runs \subseteq Versions \X (Nat \cup Executions)
  /\ imported \subseteq {Directory[c] : c \in Callers} \X Files
  /\ present \subseteq Files
  /\ caller \in [Callers -> [pc : {"idle", "importing", "ready"}, pending : SUBSET Files]]

\* The last event of a trail carries the digest of the stored payload, whoever
\* of the four writers and the import has written last: the verification of the
\* database (_verify_audit_content_hashes), which the readiness probe and every
\* backup and restore run, never takes a legitimate change for tampering.
TrailFitsContent ==
  \A v \in Versions :
    trail[v] # <<>> => Stored(v) /\ trail[v][Len(trail[v])].digest = rows[v].payload

\* The status that the first k events of a trail tell.
ToldBy(t, k) ==
  LET told == {l \in 1 .. k : t[l].entry.to # NoStatus}
  IN  IF told = {} THEN NoStatus
      ELSE t[CHOOSE l \in told : \A m \in told : m <= l].entry.to

\* A trail explains a status: what it tells last is the status, and each decision was taken
\* on the status told before it, along an allowed transition, and approvals by those who
\* may approve.
Explains(t, status) ==
  /\ ToldBy(t, Len(t)) = status
  /\ \A k \in DOMAIN t :
       LET e == t[k].entry
       IN  /\ e.type = "workflow_updated" =>
                /\ e.from = ToldBy(t, k - 1)
                /\ e.to \in Allowed(e.from)
                /\ e.to = "approved" => e.role \in Approvers
           /\ e.type = "execution_saved" => e.to = ToldBy(t, k - 1)

\* The legacy records have trails, which explain their statuses.
LegacyTrailsTell ==
  \A v \in Records : /\ LegacyTrail[v] # <<>>
                     /\ Explains([k \in DOMAIN LegacyTrail[v] |-> [entry |-> LegacyTrail[v][k]]],
                                 LegacyStatus[v])

\* A legacy record came for a version that had been saved anew.
Collided(v) ==
  \E k \in DOMAIN trail[v] \ {1} : trail[v][k].entry.legacy /\ ~trail[v][k - 1].entry.legacy

\* The trail explains the status of the payload, which is that of the list, however many
\* reviewers decide at once.
TrailTellsStatus ==
  \A v \in Versions : Stored(v) /\ trail[v] # <<>> /\ ~Collided(v) =>
    rows[v].listed = rows[v].payload.status /\ Explains(trail[v], rows[v].listed)

\* A claim counts as validated exactly if one event of the version's trail says
\* who validated it: not by a payload saved with it, nor twice by two reviewers.
ValidationsAreWitnessed ==
  \A v \in Versions, claim \in Claims :
    LET witnesses == {k \in DOMAIN trail[v] : trail[v][k].entry.claim = claim}
    IN  /\ claim \in rows[v].payload.validated <=> witnesses # {}
        /\ \A k, l \in witnesses : k = l /\ trail[v][k].entry.role \in Approvers

LegacyEvents(v) == {k \in DOMAIN trail[v] : trail[v][k].entry.legacy}

\* Legacy records are imported as a whole and once, under however many paths,
\* by however many processes at once: the events of a record are all in its
\* trail, or none is, and a file that is marked as imported is there.
ImportsAreWhole ==
  /\ \A v \in Records : Cardinality(LegacyEvents(v)) \in {0, Len(LegacyTrail[v])}
  /\ \A d \in {Directory[c] : c \in Callers} :
       /\ \A v \in Records : <<d, v>> \in imported =>
            Stored(v) /\ Cardinality(LegacyEvents(v)) = Len(LegacyTrail[v])
       /\ \A x \in Executions : <<d, x>> \in imported =>
            Stored(LegacyRuns[x]) /\ <<LegacyRuns[x], x>> \in runs

\* The content of a stored version changes only together with one new event,
\* of the decision or validation that changed it: no import and no later save
\* overwrites a version.
ContentChangesAreLogged ==
  [][\A v \in Versions : Stored(v) /\ rows'[v] # rows[v] =>
       /\ Len(trail'[v]) = Len(trail[v]) + 1
       /\ trail'[v][Len(trail'[v])].entry.type \in {"workflow_updated", "claim_validated"}]_vars

\* A version is approved only by a decision of somebody who may approve.
ApprovalIsADecision ==
  \A v \in Versions : rows[v].payload.status = "approved" =>
    \E k \in DOMAIN trail[v] :
      /\ trail[v][k].entry.type = "workflow_updated"
      /\ trail[v][k].entry.to = "approved"
      /\ trail[v][k].entry.role \in Approvers
=============================================================================
