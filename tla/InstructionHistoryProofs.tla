------------------------ MODULE InstructionHistoryProofs ------------------------
(***************************************************************************)
(* Theorems about InstructionHistory.  Every step that writes a version    *)
(* falls into one of five kinds; the invariants are proved for the kinds.  *)
(***************************************************************************)
EXTENDS InstructionHistory, SequenceTheorems, FiniteSetTheorems, WellFoundedInduction, TLAPS

USE VersionAssumption DEF Statuses, NoStatus, NoClaim

-----------------------------------------------------------------------------
(* The kinds of steps.                                                     *)

\* One row is written and one event is appended to its trail.
Writes(v, row, entry) ==
  /\ rows' = [rows EXCEPT ![v] = row]
  /\ trail' = [trail EXCEPT ![v] = Append(@, [entry |-> entry, digest |-> row.payload])]

Saved(v) ==
  \E status \in Statuses, entry \in Entry :
    /\ ~Stored(v) /\ entry.claim = NoClaim
    /\ entry.legacy = FALSE /\ entry.type = "version_saved" /\ entry.to = status
    /\ Writes(v, Fresh(status), entry)

Decided(v) ==
  \E status \in Statuses, entry \in Entry :
    /\ Stored(v) /\ entry.claim = NoClaim /\ entry.type = "workflow_updated"
    /\ entry.legacy = FALSE /\ entry.from = rows[v].payload.status /\ entry.to = status
    /\ status = "approved" => entry.role \in Approvers
    /\ status \in Allowed(rows[v].payload.status)
    /\ Writes(v, [payload |-> [status |-> status, validated |-> rows[v].payload.validated],
                  listed |-> status], entry)

Validated(v) ==
  \E entry \in Entry :
    /\ Stored(v) /\ entry.type = "claim_validated"
    /\ entry.legacy = FALSE /\ entry.to = NoStatus
    /\ entry.claim \in Claims \ rows[v].payload.validated /\ entry.role \in Approvers
    /\ Writes(v, [payload |-> [status |-> rows[v].payload.status,
                               validated |-> rows[v].payload.validated \cup {entry.claim}],
                  listed |-> rows[v].listed], entry)

Executed(v) ==
  \E entry \in Entry :
    /\ Stored(v) /\ entry.claim = NoClaim
    /\ entry.legacy = FALSE /\ entry.type = "execution_saved" /\ entry.to = rows[v].payload.status
    /\ Writes(v, rows[v], entry)

Imports ==
  \E records \in SUBSET Records :
    /\ rows' = [v \in Versions |-> IF v \in records THEN WithRecord(v) ELSE rows[v]]
    /\ trail' = [v \in Versions |->
         IF v \in records
           THEN trail[v] \o [k \in DOMAIN MissingEvents(v) |->
                  [entry |-> MissingEvents(v)[k], digest |-> rows'[v].payload]]
           ELSE trail[v]]

Quiet == UNCHANGED <<rows, trail>>

\* The columns that the invariants are about.
TablesOK ==
  /\ rows \in [Versions -> Row \cup {NoRow}]
  /\ trail \in [Versions -> Seq(Event)]

-----------------------------------------------------------------------------
\* A row is stored or it is no row.
LEMMA StoredRows ==
  ASSUME TablesOK, NEW v \in Versions
  PROVE  /\ Stored(v) => rows[v] \in Row
         /\ ~Stored(v) => rows[v] = NoRow
  BY DEF TablesOK, Stored, Row, NoRow

\* What may be saved has a status, and nothing validated once it is stripped.
LEMMA SaveableRows ==
  ASSUME TablesOK, NEW payload \in Saveable
  PROVE  /\ payload.status \in Statuses
         /\ [payload |-> Stripped(payload), listed |-> payload.status] = Fresh(payload.status)
<1>1. payload \in Payload
  <2>1. CASE payload = [status |-> "ai_draft", validated |-> {}]
    BY <2>1 DEF Payload
  <2>2. CASE \E v \in Versions : Stored(v) /\ payload = rows[v].payload
    BY <2>2, StoredRows DEF Row
  <2> QED BY <2>1, <2>2 DEF Saveable
<1>2. PICK status \in Statuses, validated \in SUBSET Claims :
        payload = [status |-> status, validated |-> validated]
  BY <1>1 DEF Payload
<1>3. payload.status = status /\ Stripped(payload) = [status |-> status, validated |-> {}]
  BY <1>2 DEF Stripped
<1> QED BY <1>3 DEF Fresh

\* Logging extends one trail by one event with the digest of the new row.
LEMMA LogsWrites ==
  ASSUME TablesOK, NEW v \in Versions, NEW row, NEW entry,
         rows' = [rows EXCEPT ![v] = row], Logs(v, entry)
  PROVE  Writes(v, row, entry)
<1>1. rows'[v] = row
  BY DEF TablesOK
<1> QED BY <1>1 DEF Logs, Writes

LEMMA SaveIsSaved ==
  ASSUME TablesOK, NEW c \in Callers, NEW i \in Instructions, NEW n \in 1 .. MaxVersion,
         NEW payload \in Saveable, Save(c, i, n, payload)
  PROVE  Saved(<<i, n>>)
<1> DEFINE v == <<i, n>>
           entry == New("version_saved", NoRole, NoStatus, payload.status, NoClaim)
<1>1. v \in Versions
  BY DEF Versions
<1>2. ~Stored(v)
  BY DEF Save, IsNext, Numbers
<1>3. payload.status \in Statuses
  BY SaveableRows
<1>4. /\ entry \in Entry /\ entry.claim = NoClaim
      /\ entry.legacy = FALSE /\ entry.type = "version_saved" /\ entry.to = payload.status
  BY <1>3 DEF New, Entry
<1>5. rows' = [rows EXCEPT ![v] = Fresh(payload.status)]
  BY SaveableRows DEF Save
<1>6. Writes(v, Fresh(payload.status), entry)
  BY <1>1, <1>5, LogsWrites DEF Save
<1> QED BY <1>2, <1>3, <1>4, <1>6 DEF Saved

LEMMA DecideIsDecided ==
  ASSUME TablesOK, NEW c \in Callers, NEW v \in Versions, NEW status \in Statuses,
         NEW role \in Roles, Decide(c, v, status, role)
  PROVE  Decided(v)
<1> DEFINE entry == New("workflow_updated", role, rows[v].payload.status, status, NoClaim)
           row == [payload |-> [status |-> status, validated |-> rows[v].payload.validated],
                   listed |-> status]
<1>1. Stored(v) /\ rows[v] \in Row
  BY StoredRows DEF Decide
<1>2. rows[v].payload.status \in Statuses
  BY <1>1 DEF Row, Payload
<1>3. /\ entry \in Entry /\ entry.claim = NoClaim /\ entry.type = "workflow_updated"
      /\ entry.legacy = FALSE /\ entry.from = rows[v].payload.status /\ entry.to = status
      /\ entry.role = role
  BY <1>2 DEF New, Entry
<1>4. [rows[v].payload EXCEPT !.status = status]
        = [status |-> status, validated |-> rows[v].payload.validated]
  BY <1>1 DEF Row, Payload
<1>5. rows' = [rows EXCEPT ![v] = row]
  BY <1>4 DEF Decide
<1>6. Writes(v, row, entry)
  BY <1>5, LogsWrites DEF Decide
<1> QED BY <1>1, <1>3, <1>6 DEF Decided, Decide

LEMMA ValidateIsValidated ==
  ASSUME TablesOK, NEW c \in Callers, NEW v \in Versions, NEW claim \in Claims,
         NEW role \in Roles, Validate(c, v, claim, role)
  PROVE  Validated(v)
<1> DEFINE entry == New("claim_validated", role, NoStatus, NoStatus, claim)
           row == [payload |-> [status |-> rows[v].payload.status,
                                validated |-> rows[v].payload.validated \cup {claim}],
                   listed |-> rows[v].listed]
<1>1. Stored(v) /\ rows[v] \in Row
  BY StoredRows DEF Validate
<1>2. /\ entry \in Entry /\ entry.claim = claim
      /\ entry.type = "claim_validated" /\ entry.role = role
      /\ entry.legacy = FALSE /\ entry.to = NoStatus
  BY DEF New, Entry
<1>3. rows' = [rows EXCEPT ![v] = row]
  BY DEF Validate
<1>4. Writes(v, row, entry)
  BY <1>3, LogsWrites DEF Validate
<1> QED BY <1>1, <1>2, <1>4 DEF Validated, Validate

LEMMA ExecuteIsExecuted ==
  ASSUME TablesOK, NEW c \in Callers, NEW v \in Versions, Execute(c, v)
  PROVE  Executed(v)
<1> DEFINE entry == New("execution_saved", NoRole, NoStatus, rows[v].payload.status, NoClaim)
<1>1. Stored(v) /\ rows[v].payload.status \in Statuses
  BY StoredRows DEF Execute, Row, Payload
<1>2. /\ entry \in Entry /\ entry.claim = NoClaim
      /\ entry.legacy = FALSE /\ entry.type = "execution_saved" /\ entry.to = rows[v].payload.status
  BY <1>1 DEF New, Entry
<1>3. rows' = [rows EXCEPT ![v] = rows[v]]
  BY DEF Execute, TablesOK
<1>4. Writes(v, rows[v], entry)
  BY <1>3, LogsWrites DEF Execute
<1> QED BY <1>1, <1>2, <1>4 DEF Executed

LEMMA ImportImports ==
  ASSUME NEW c \in Callers, Import(c)
  PROVE  Imports
<1> DEFINE records == {x \in caller[c].pending : <<Directory[c], x>> \notin imported} \cap Records
<1>1. records \in SUBSET Records
  OBVIOUS
<1> QED BY <1>1 DEF Import, Imports

\* Every step is of one of the kinds.
LEMMA StepKinds ==
  ASSUME TablesOK, [Next]_vars
  PROVE  \/ Quiet
         \/ Imports
         \/ \E v \in Versions : Saved(v) \/ Decided(v) \/ Validated(v) \/ Executed(v)
<1>1. CASE UNCHANGED vars
  BY <1>1 DEF vars, Quiet
<1>2. ASSUME NEW c \in Callers, Open(c) \/ ImportFails(c) \/ Leave(c)
      PROVE  Quiet
  BY <1>2 DEF Open, ImportFails, Leave, Quiet, tables
<1>3. ASSUME NEW c \in Callers, Import(c)
      PROVE  Imports
  BY <1>3, ImportImports
<1>4. ASSUME NEW c \in Callers, Operation(c)
      PROVE  \E v \in Versions : Saved(v) \/ Decided(v) \/ Validated(v) \/ Executed(v)
  <2>1. ASSUME NEW i \in Instructions, NEW n \in 1 .. MaxVersion, NEW payload \in Saveable,
               Save(c, i, n, payload)
        PROVE  \E v \in Versions : Saved(v)
    <3>1. <<i, n>> \in Versions
      BY DEF Versions
    <3> QED BY <2>1, <3>1, SaveIsSaved
  <2>2. ASSUME NEW v \in Versions, NEW role \in Roles, NEW status \in Statuses,
               Decide(c, v, status, role)
        PROVE  Decided(v)
    BY <2>2, DecideIsDecided
  <2>3. ASSUME NEW v \in Versions, NEW role \in Roles, NEW claim \in Claims,
               Validate(c, v, claim, role)
        PROVE  Validated(v)
    BY <2>3, ValidateIsValidated
  <2>4. ASSUME NEW v \in Versions, Execute(c, v)
        PROVE  Executed(v)
    BY <2>4, ExecuteIsExecuted
  <2> QED BY <1>4, <2>1, <2>2, <2>3, <2>4 DEF Operation
<1>5. ASSUME NEW x \in Files, Appear(x)
      PROVE  Quiet
  BY <1>5 DEF Appear, Quiet, tables
<1> QED BY <1>1, <1>2, <1>3, <1>4, <1>5 DEF Next

-----------------------------------------------------------------------------
(* What the kinds of steps do.                                             *)

\* A write touches one version, whose trail it extends by one event.
LEMMA WriteEffect ==
  ASSUME TablesOK, NEW v \in Versions, NEW row \in Row, NEW entry \in Entry,
         Writes(v, row, entry)
  PROVE  /\ TablesOK'
         /\ rows'[v] = row
         /\ trail'[v] = Append(trail[v], [entry |-> entry, digest |-> row.payload])
         /\ \A w \in Versions \ {v} : rows'[w] = rows[w] /\ trail'[w] = trail[w]
<1> DEFINE event == [entry |-> entry, digest |-> row.payload]
<1>1. event \in Event
  BY DEF Event, Row
<1>2. Append(trail[v], event) \in Seq(Event)
  BY <1>1 DEF TablesOK
<1>3. rows' \in [Versions -> Row \cup {NoRow}]
  BY DEF TablesOK, Writes
<1>4. trail' \in [Versions -> Seq(Event)]
  BY <1>2 DEF TablesOK, Writes
<1> QED BY <1>3, <1>4 DEF TablesOK, Writes

\* Every kind of write stores a row.
LEMMA KindWrites ==
  ASSUME TablesOK, NEW v \in Versions,
         Saved(v) \/ Decided(v) \/ Validated(v) \/ Executed(v)
  PROVE  \E row \in Row, entry \in Entry : Writes(v, row, entry)
<1>1. CASE Saved(v)
  <2>1. \A status \in Statuses : Fresh(status) \in Row
    BY DEF Fresh, Row, Payload
  <2> QED BY <1>1, <2>1 DEF Saved
<1>2. Stored(v) => /\ rows[v] \in Row
                   /\ rows[v].payload.status \in Statuses
                   /\ rows[v].payload.validated \in SUBSET Claims
                   /\ rows[v].listed \in Statuses
  BY StoredRows DEF Row, Payload
<1>3. CASE Decided(v)
  <2>1. PICK status \in Statuses, entry \in Entry :
          /\ Stored(v)
          /\ Writes(v, [payload |-> [status |-> status, validated |-> rows[v].payload.validated],
                        listed |-> status], entry)
    BY <1>3 DEF Decided
  <2>2. [payload |-> [status |-> status, validated |-> rows[v].payload.validated],
         listed |-> status] \in Row
    BY <1>2, <2>1 DEF Row, Payload
  <2> QED BY <2>1, <2>2
<1>4. CASE Validated(v)
  <2>1. PICK entry \in Entry :
          /\ Stored(v) /\ entry.claim \in Claims
          /\ Writes(v, [payload |-> [status |-> rows[v].payload.status,
                                     validated |-> rows[v].payload.validated \cup {entry.claim}],
                        listed |-> rows[v].listed], entry)
    BY <1>4 DEF Validated
  <2>2. [payload |-> [status |-> rows[v].payload.status,
                      validated |-> rows[v].payload.validated \cup {entry.claim}],
         listed |-> rows[v].listed] \in Row
    BY <1>2, <2>1 DEF Row, Payload
  <2> QED BY <2>1, <2>2
<1>5. CASE Executed(v)
  BY <1>2, <1>5 DEF Executed
<1> QED BY <1>1, <1>3, <1>4, <1>5

LEMMA MissingEventsType ==
  ASSUME NEW v \in Records
  PROVE  /\ MissingEvents(v) \in Seq(Entry)
         /\ \A k \in DOMAIN MissingEvents(v) : MissingEvents(v)[k].claim = NoClaim
<1>1. LegacyTrail[v] \in Seq(Entry)
  BY RecordAssumption
<1>2. \A k \in DOMAIN LegacyTrail[v] : LegacyTrail[v][k].claim = NoClaim
  BY LegacyAssumption
<1>3. <<>> \in Seq(Entry) /\ DOMAIN <<>> = {}
  OBVIOUS
<1> QED BY <1>1, <1>2, <1>3 DEF MissingEvents

\* An import keeps the rows that are there, and appends events stamped with
\* the digest of the row, none of which is about a claim.
LEMMA ImportEffect ==
  ASSUME TablesOK, Imports
  PROVE  /\ TablesOK'
         /\ \A v \in Versions :
              /\ Stored(v) => rows'[v] = rows[v]
              /\ ~Stored(v) => rows'[v] = NoRow \/ \E status \in Statuses : rows'[v] = Fresh(status)
              /\ \/ trail'[v] = trail[v] /\ (rows'[v] = rows[v] \/ ~Stored(v))
                 \/ /\ rows'[v] \in Row
                    /\ \E new \in Seq(Event) :
                         /\ trail'[v] = trail[v] \o new
                         /\ \A k \in DOMAIN new : /\ new[k].digest = rows'[v].payload
                                                  /\ new[k].entry.claim = NoClaim
              /\ Stored(v)' \/ (trail'[v] = trail[v] /\ rows'[v] = rows[v])
<1>1. PICK records \in SUBSET Records :
        /\ rows' = [v \in Versions |-> IF v \in records THEN WithRecord(v) ELSE rows[v]]
        /\ trail' = [v \in Versions |->
             IF v \in records
               THEN trail[v] \o [k \in DOMAIN MissingEvents(v) |->
                      [entry |-> MissingEvents(v)[k], digest |-> rows'[v].payload]]
               ELSE trail[v]]
  BY DEF Imports
<1>2. ASSUME NEW v \in Versions, v \notin records
      PROVE  rows'[v] = rows[v] /\ trail'[v] = trail[v]
  BY <1>1, <1>2
<1>3. ASSUME NEW v \in Versions, v \in records
      PROVE  /\ rows'[v] \in Row
             /\ Stored(v) => rows'[v] = rows[v]
             /\ \E status \in Statuses : ~Stored(v) => rows'[v] = Fresh(status)
             /\ \E new \in Seq(Event) :
                  /\ trail'[v] = trail[v] \o new
                  /\ \A k \in DOMAIN new : /\ new[k].digest = rows'[v].payload
                                           /\ new[k].entry.claim = NoClaim
  <2>1. LegacyStatus[v] \in Statuses
    BY <1>3, RecordAssumption
  <2>2. Fresh(LegacyStatus[v]) \in Row
    BY <2>1 DEF Fresh, Row, Payload
  <2>3. rows'[v] = WithRecord(v)
    BY <1>1, <1>3
  <2>4. /\ rows'[v] \in Row
        /\ Stored(v) => rows'[v] = rows[v]
        /\ ~Stored(v) => rows'[v] = Fresh(LegacyStatus[v])
    BY <2>2, <2>3, StoredRows DEF WithRecord
  <2> DEFINE missing == MissingEvents(v)
             new == [k \in DOMAIN missing |-> [entry |-> missing[k], digest |-> rows'[v].payload]]
  <2>5. /\ missing \in Seq(Entry)
        /\ \A k \in DOMAIN missing : missing[k].claim = NoClaim
    BY <1>3, MissingEventsType
  <2>6. rows'[v].payload \in Payload
    BY <2>4 DEF Row
  <2>7. new \in [1 .. Len(missing) -> Event]
    BY <2>5, <2>6 DEF Event
  <2>8. new \in Seq(Event)
    BY <2>5, <2>7
  <2>9. trail'[v] = trail[v] \o new
    BY <1>1, <1>3
  <2>10. \A k \in DOMAIN new : new[k].digest = rows'[v].payload /\ new[k].entry.claim = NoClaim
    BY <2>5
  <2> QED BY <2>1, <2>4, <2>8, <2>9, <2>10
<1>4. TablesOK'
  <2>1. ASSUME NEW v \in Versions
        PROVE  rows'[v] \in Row \cup {NoRow} /\ trail'[v] \in Seq(Event)
    <3>1. rows[v] \in Row \cup {NoRow} /\ trail[v] \in Seq(Event)
      BY DEF TablesOK
    <3>2. CASE v \notin records
      BY <1>2, <3>1, <3>2
    <3>3. CASE v \in records
      <4>1. PICK new \in Seq(Event) : trail'[v] = trail[v] \o new
        BY <1>3, <3>3
      <4>2. trail[v] \o new \in Seq(Event)
        BY <3>1
      <4> QED BY <1>3, <3>3, <4>1, <4>2
    <3> QED BY <3>2, <3>3
  <2>2. /\ rows' = [v \in Versions |-> rows'[v]]
        /\ trail' = [v \in Versions |-> trail'[v]]
    BY <1>1
  <2> QED BY <2>1, <2>2 DEF TablesOK
<1>5. \A v \in Versions : rows'[v] \in Row => Stored(v)'
  BY DEF Row, Stored
<1>6. \A v \in Versions : ~Stored(v) => rows[v] = NoRow
  BY StoredRows
<1> QED BY <1>2, <1>3, <1>4, <1>5, <1>6

-----------------------------------------------------------------------------
(* The tables have their types, and a trail fits its content.              *)

LEMMA TablesStep ==
  ASSUME TablesOK, [Next]_vars
  PROVE  TablesOK'
<1>1. CASE Quiet
  BY <1>1 DEF Quiet, TablesOK
<1>2. CASE Imports
  BY <1>2, ImportEffect
<1>3. CASE \E v \in Versions : Saved(v) \/ Decided(v) \/ Validated(v) \/ Executed(v)
  BY <1>3, KindWrites, WriteEffect
<1> QED BY <1>1, <1>2, <1>3, StepKinds

LEMMA TrailFitsStep ==
  ASSUME TablesOK, TrailFitsContent, [Next]_vars
  PROVE  TrailFitsContent'
<1> SUFFICES ASSUME NEW v \in Versions, trail'[v] # <<>>
             PROVE  Stored(v)' /\ trail'[v][Len(trail'[v])].digest = rows'[v].payload
  BY DEF TrailFitsContent
<1>0. /\ trail[v] \in Seq(Event)
      /\ trail[v] # <<>> => Stored(v) /\ trail[v][Len(trail[v])].digest = rows[v].payload
  BY DEF TablesOK, TrailFitsContent
<1>1. CASE trail'[v] = trail[v] /\ rows'[v] = rows[v]
  BY <1>0, <1>1 DEF Stored
<1>2. CASE Quiet
  BY <1>1, <1>2 DEF Quiet
<1>3. CASE Imports
  <2>1. CASE Stored(v)' /\ trail'[v] = trail[v]
    BY <1>0, <1>1, <1>3, <2>1, ImportEffect
  <2>2. CASE Stored(v)' /\ trail'[v] # trail[v]
    <3>1. PICK new \in Seq(Event) :
            /\ trail'[v] = trail[v] \o new
            /\ \A k \in DOMAIN new : new[k].digest = rows'[v].payload
      BY <1>3, <2>2, ImportEffect
    <3>2. Len(new) # 0
      BY <1>0, <2>2, <3>1
    <3>3. /\ Len(trail'[v]) = Len(trail[v]) + Len(new)
          /\ trail'[v][Len(trail'[v])] = new[Len(new)]
          /\ Len(new) \in DOMAIN new
      BY <1>0, <3>1, <3>2
    <3> QED BY <2>2, <3>1, <3>3
  <2> QED BY <1>1, <1>3, <2>1, <2>2, ImportEffect
<1>4. ASSUME NEW w \in Versions, Saved(w) \/ Decided(w) \/ Validated(w) \/ Executed(w)
      PROVE  Stored(v)' /\ trail'[v][Len(trail'[v])].digest = rows'[v].payload
  <2>1. PICK row \in Row, entry \in Entry : Writes(w, row, entry)
    BY <1>4, KindWrites
  <2>2. CASE v # w
    BY <1>1, <2>1, <2>2, WriteEffect
  <2>3. CASE v = w
    <3>1. /\ rows'[v] = row
          /\ trail'[v] = Append(trail[v], [entry |-> entry, digest |-> row.payload])
      BY <2>1, <2>3, WriteEffect
    <3>2. trail'[v][Len(trail'[v])] = [entry |-> entry, digest |-> row.payload]
      BY <1>0, <3>1
    <3> QED BY <3>1, <3>2 DEF Stored, Row
  <2> QED BY <2>2, <2>3
<1> QED BY <1>2, <1>3, <1>4, StepKinds

-----------------------------------------------------------------------------
(* Validations have one witness.                                           *)

Witnesses(v, claim) == {k \in DOMAIN trail[v] : trail[v][k].entry.claim = claim}

WitnessOK(v, claim) ==
  /\ claim \in rows[v].payload.validated <=> Witnesses(v, claim) # {}
  /\ \A k, l \in Witnesses(v, claim) : k = l /\ trail[v][k].entry.role \in Approvers

LEMMA WitnessForm ==
  ValidationsAreWitnessed <=> \A v \in Versions, claim \in Claims : WitnessOK(v, claim)
  BY DEF ValidationsAreWitnessed, WitnessOK, Witnesses

\* Events that are not about a claim leave its witnesses alone.
LEMMA OtherEvents ==
  ASSUME NEW v \in Versions, NEW claim \in Claims, WitnessOK(v, claim),
         trail[v] \in Seq(Event), NEW new \in Seq(Event), trail'[v] = trail[v] \o new,
         \A k \in DOMAIN new : new[k].entry.claim # claim,
         (claim \in rows'[v].payload.validated) <=> (claim \in rows[v].payload.validated)
  PROVE  WitnessOK(v, claim)'
<1>1. \A k \in 1 .. Len(trail[v]) : trail'[v][k] = trail[v][k]
  OBVIOUS
<1>2. \A k \in 1 .. Len(trail'[v]) : k \notin 1 .. Len(trail[v]) =>
        /\ k - Len(trail[v]) \in DOMAIN new
        /\ trail'[v][k] = new[k - Len(trail[v])]
  OBVIOUS
<1>3. Len(trail'[v]) = Len(trail[v]) + Len(new)
  OBVIOUS
<1>4. Witnesses(v, claim)' = Witnesses(v, claim)
  BY <1>1, <1>2, <1>3 DEF Witnesses
<1>5. Witnesses(v, claim) \subseteq 1 .. Len(trail[v])
  BY DEF Witnesses
<1> QED BY <1>1, <1>4, <1>5 DEF WitnessOK

LEMMA OneOtherEvent ==
  ASSUME NEW v \in Versions, NEW claim \in Claims, WitnessOK(v, claim),
         trail[v] \in Seq(Event), NEW event \in Event, trail'[v] = Append(trail[v], event),
         event.entry.claim # claim,
         (claim \in rows'[v].payload.validated) <=> (claim \in rows[v].payload.validated)
  PROVE  WitnessOK(v, claim)'
<1> DEFINE new == <<event>>
<1>1. new \in Seq(Event) /\ trail'[v] = trail[v] \o new
  OBVIOUS
<1>2. \A k \in DOMAIN new : new[k].entry.claim # claim
  OBVIOUS
<1> HIDE DEF new
<1> QED BY <1>1, <1>2, OtherEvents

\* The first event about a claim becomes its witness.
LEMMA FirstWitness ==
  ASSUME NEW v \in Versions, NEW claim \in Claims, WitnessOK(v, claim),
         claim \notin rows[v].payload.validated, claim \in rows'[v].payload.validated,
         trail[v] \in Seq(Event), NEW event \in Event, trail'[v] = Append(trail[v], event),
         event.entry.claim = claim, event.entry.role \in Approvers
  PROVE  WitnessOK(v, claim)'
<1>1. Witnesses(v, claim) = {}
  BY DEF WitnessOK
<1>2. \A k \in 1 .. Len(trail[v]) : trail[v][k].entry.claim # claim
  BY <1>1 DEF Witnesses
<1>3. /\ Len(trail'[v]) = Len(trail[v]) + 1
      /\ trail'[v][Len(trail[v]) + 1] = event
      /\ \A k \in 1 .. Len(trail[v]) : trail'[v][k] = trail[v][k]
  OBVIOUS
<1>4. Witnesses(v, claim)' = {Len(trail[v]) + 1}
  BY <1>2, <1>3 DEF Witnesses
<1> QED BY <1>3, <1>4 DEF WitnessOK

LEMMA WitnessStep ==
  ASSUME TablesOK, ValidationsAreWitnessed, [Next]_vars
  PROVE  ValidationsAreWitnessed'
<1> SUFFICES ASSUME NEW v \in Versions, NEW claim \in Claims
             PROVE  WitnessOK(v, claim)'
  BY DEF ValidationsAreWitnessed, WitnessOK, Witnesses
<1>0. WitnessOK(v, claim) /\ trail[v] \in Seq(Event)
  BY WitnessForm DEF TablesOK
<1>1. CASE trail'[v] = trail[v] /\ rows'[v] = rows[v]
  BY <1>0, <1>1 DEF WitnessOK, Witnesses
<1>2. CASE Quiet
  BY <1>1, <1>2 DEF Quiet
<1>3. CASE Imports
  <2>1. rows'[v].payload.validated = rows[v].payload.validated
    <3>1. CASE Stored(v)
      BY <1>3, <3>1, ImportEffect
    <3>2. CASE ~Stored(v)
      <4>1. rows[v].payload.validated = {}
        BY <3>2, StoredRows DEF NoRow
      <4>2. rows'[v] = NoRow \/ \E status \in Statuses : rows'[v] = Fresh(status)
        BY <1>3, <3>2, ImportEffect
      <4>3. rows'[v].payload.validated = {}
        BY <4>2 DEF Fresh, NoRow
      <4> QED BY <4>1, <4>3
    <3> QED BY <3>1, <3>2
  <2>2. CASE trail'[v] = trail[v]
    BY <1>0, <2>1, <2>2 DEF WitnessOK, Witnesses
  <2>3. CASE trail'[v] # trail[v]
    <3>1. PICK new \in Seq(Event) :
            /\ trail'[v] = trail[v] \o new
            /\ \A k \in DOMAIN new : new[k].entry.claim = NoClaim
      BY <1>3, <2>3, ImportEffect
    <3>2. \A k \in DOMAIN new : new[k].entry.claim # claim
      BY <3>1, ClaimAssumption
    <3> QED BY <1>0, <2>1, <3>1, <3>2, OtherEvents
  <2> QED BY <2>2, <2>3
<1>4. ASSUME NEW w \in Versions, w # v, Saved(w) \/ Decided(w) \/ Validated(w) \/ Executed(w)
      PROVE  WitnessOK(v, claim)'
  BY <1>1, <1>4, KindWrites, WriteEffect
<1> DEFINE Logged(row, entry) ==
      /\ rows'[v] = row
      /\ trail'[v] = Append(trail[v], [entry |-> entry, digest |-> row.payload])
      /\ [entry |-> entry, digest |-> row.payload] \in Event
<1>5. ASSUME NEW row, NEW entry \in Entry, Writes(v, row, entry), row.payload \in Payload
      PROVE  Logged(row, entry)
  BY <1>5 DEF Writes, TablesOK, Event
<1>6. Stored(v) => rows[v] \in Row /\ rows[v].payload \in Payload
  BY StoredRows DEF Row
<1>7. CASE Saved(v)
  <2>1. PICK status \in Statuses, entry \in Entry :
          ~Stored(v) /\ entry.claim = NoClaim /\ Writes(v, Fresh(status), entry)
    BY <1>7 DEF Saved
  <2>2. Fresh(status).payload \in Payload /\ Fresh(status).payload.validated = {}
    BY DEF Fresh, Payload
  <2>3. Logged(Fresh(status), entry)
    BY <1>5, <2>1, <2>2
  <2>4. rows[v].payload.validated = {}
    BY <2>1, StoredRows DEF NoRow
  <2> QED BY <1>0, <2>1, <2>2, <2>3, <2>4, OneOtherEvent, ClaimAssumption
<1>8. CASE Decided(v)
  <2>1. PICK status \in Statuses, entry \in Entry :
          /\ Stored(v) /\ entry.claim = NoClaim
          /\ Writes(v, [payload |-> [status |-> status, validated |-> rows[v].payload.validated],
                        listed |-> status], entry)
    BY <1>8 DEF Decided
  <2> DEFINE row == [payload |-> [status |-> status, validated |-> rows[v].payload.validated],
                     listed |-> status]
  <2>2. row.payload \in Payload /\ row.payload.validated = rows[v].payload.validated
    BY <1>6, <2>1 DEF Payload
  <2>3. Logged(row, entry)
    BY <1>5, <2>1, <2>2
  <2> QED BY <1>0, <2>1, <2>2, <2>3, OneOtherEvent, ClaimAssumption
<1>9. CASE Validated(v)
  <2>1. PICK entry \in Entry :
          /\ Stored(v)
          /\ entry.claim \in Claims \ rows[v].payload.validated /\ entry.role \in Approvers
          /\ Writes(v, [payload |-> [status |-> rows[v].payload.status,
                                     validated |-> rows[v].payload.validated \cup {entry.claim}],
                        listed |-> rows[v].listed], entry)
    BY <1>9 DEF Validated
  <2> DEFINE row == [payload |-> [status |-> rows[v].payload.status,
                                  validated |-> rows[v].payload.validated \cup {entry.claim}],
                     listed |-> rows[v].listed]
  <2>2. /\ row.payload \in Payload
        /\ row.payload.validated = rows[v].payload.validated \cup {entry.claim}
    BY <1>6, <2>1 DEF Payload
  <2>3. Logged(row, entry)
    BY <1>5, <2>1, <2>2
  <2>4. CASE entry.claim = claim
    BY <1>0, <2>1, <2>2, <2>3, <2>4, FirstWitness
  <2>5. CASE entry.claim # claim
    BY <1>0, <2>1, <2>2, <2>3, <2>5, OneOtherEvent
  <2> QED BY <2>4, <2>5
<1>10. CASE Executed(v)
  <2>1. PICK entry \in Entry :
          Stored(v) /\ entry.claim = NoClaim /\ Writes(v, rows[v], entry)
    BY <1>10 DEF Executed
  <2>2. Logged(rows[v], entry)
    BY <1>5, <1>6, <2>1
  <2> QED BY <1>0, <2>1, <2>2, OneOtherEvent, ClaimAssumption
<1> QED BY <1>2, <1>3, <1>4, <1>7, <1>8, <1>9, <1>10, StepKinds

-----------------------------------------------------------------------------
(* The theorems.                                                           *)

HistoryInv == TablesOK /\ TrailFitsContent /\ ValidationsAreWitnessed

LEMMA HistoryInitially == Init => HistoryInv
<1> SUFFICES ASSUME Init PROVE HistoryInv
  OBVIOUS
<1>1. TablesOK
  BY DEF Init, TablesOK
<1>2. TrailFitsContent
  BY DEF Init, TrailFitsContent
<1>3. ValidationsAreWitnessed
  BY DEF Init, ValidationsAreWitnessed, NoRow
<1> QED BY <1>1, <1>2, <1>3 DEF HistoryInv

LEMMA HistoryStep == HistoryInv /\ [Next]_vars => HistoryInv'
  BY TablesStep, TrailFitsStep, WitnessStep DEF HistoryInv

\* The inductive invariant of the tables, their trails and their callers.
THEOREM HistoryInvariant == Spec => []HistoryInv
<1> QED BY HistoryInitially, HistoryStep, PTL DEF Spec

\* The digest at the end of a trail is always that of the stored payload, so
\* that verification fails only for a change that bypassed the operations.
THEOREM TrailFitsTheorem == Spec => []TrailFitsContent
<1>1. HistoryInv => TrailFitsContent
  BY DEF HistoryInv
<1> QED BY <1>1, HistoryInvariant, PTL

\* Every validated claim of every version has one witness, an approver, and
\* nothing else counts as validated.
THEOREM WitnessTheorem == Spec => []ValidationsAreWitnessed
<1>1. HistoryInv => ValidationsAreWitnessed
  BY DEF HistoryInv
<1> QED BY <1>1, HistoryInvariant, PTL

LEMMA ContentStep ==
  ASSUME TablesOK, [Next]_vars, NEW v \in Versions, Stored(v), rows'[v] # rows[v]
  PROVE  /\ Len(trail'[v]) = Len(trail[v]) + 1
         /\ trail'[v][Len(trail'[v])].entry.type \in {"workflow_updated", "claim_validated"}
<1>0. trail[v] \in Seq(Event) /\ v \in DOMAIN rows /\ v \in DOMAIN trail
  BY DEF TablesOK
<1>1. ~Quiet /\ ~Imports
  BY ImportEffect DEF Quiet
<1>2. ASSUME NEW w \in Versions, Saved(w) \/ Decided(w) \/ Validated(w) \/ Executed(w)
      PROVE  w = v
  BY <1>2, KindWrites, WriteEffect
<1>3. ~Saved(v)
  BY DEF Saved
<1>4. ~Executed(v)
  BY <1>0 DEF Executed, Writes
<1>5. Decided(v) \/ Validated(v)
  BY <1>1, <1>2, <1>3, <1>4, StepKinds
<1>6. \E entry \in Entry : /\ entry.type \in {"workflow_updated", "claim_validated"}
                          /\ \E row : Writes(v, row, entry)
  <2>1. CASE Decided(v)
    BY <2>1 DEF Decided
  <2>2. CASE Validated(v)
    BY <2>2 DEF Validated
  <2> QED BY <1>5, <2>1, <2>2
<1>7. PICK entry \in Entry : /\ entry.type \in {"workflow_updated", "claim_validated"}
                            /\ \E row : Writes(v, row, entry)
  BY <1>6
<1>8. PICK row : Writes(v, row, entry)
  BY <1>7
<1>9. trail'[v] = Append(trail[v], [entry |-> entry, digest |-> row.payload])
  BY <1>0, <1>8 DEF Writes
<1>10. /\ Len(trail'[v]) = Len(trail[v]) + 1
       /\ trail'[v][Len(trail'[v])] = [entry |-> entry, digest |-> row.payload]
  BY <1>0, <1>9
<1> QED BY <1>7, <1>10

\* No stored version is overwritten: its content changes only with the one
\* event that tells of the change.
THEOREM ContentTheorem == Spec => ContentChangesAreLogged
<1>1. HistoryInv /\ [Next]_vars =>
        [\A v \in Versions : Stored(v) /\ rows'[v] # rows[v] =>
           /\ Len(trail'[v]) = Len(trail[v]) + 1
           /\ trail'[v][Len(trail'[v])].entry.type \in {"workflow_updated", "claim_validated"}]_vars
  BY ContentStep DEF HistoryInv
<1> QED BY <1>1, HistoryInvariant, PTL DEF Spec, ContentChangesAreLogged

-----------------------------------------------------------------------------
(* The history implements the review workflow.                             *)

LEMMA MappedTypes ==
  ASSUME TablesOK, NEW v \in Versions
  PROVE  /\ statusOfRows[v] = rows[v].payload.status
         /\ validatedOfRows[v] = rows[v].payload.validated
         /\ Stored(v) <=> statusOfRows[v] # "none"
         /\ statusOfRows[v] \in Statuses \cup {"none"}
<1>1. Stored(v) => rows[v].payload.status \in Statuses
  BY StoredRows DEF Row, Payload
<1>2. ~Stored(v) => rows[v].payload.status = "none"
  BY StoredRows DEF NoRow
<1> QED BY <1>1, <1>2 DEF statusOfRows, validatedOfRows

\* The mapped variables after a step, version by version.
LEMMA MappedAfter ==
  ASSUME TablesOK'
  PROVE  /\ statusOfRows' = [v \in Versions |-> rows'[v].payload.status]
         /\ validatedOfRows' = [v \in Versions |-> rows'[v].payload.validated]
         /\ statusOfRows' \in [Versions -> Statuses \cup {"none"}]
<1>1. \A v \in Versions : rows'[v] \in Row \cup {NoRow}
  BY DEF TablesOK
<1>2. \A v \in Versions : rows'[v].payload.status \in Statuses \cup {"none"}
  BY <1>1 DEF Row, NoRow, Payload
<1> QED BY <1>2 DEF statusOfRows, validatedOfRows

\* Writes to one version change nothing else that is mapped.
LEMMA MappedElsewhere ==
  ASSUME TablesOK, TablesOK', NEW v \in Versions, NEW row, NEW entry, Writes(v, row, entry)
  PROVE  \A w \in Versions \ {v} : /\ statusOfRows'[w] = statusOfRows[w]
                                   /\ validatedOfRows'[w] = validatedOfRows[w]
  BY MappedAfter DEF Writes, TablesOK, statusOfRows, validatedOfRows

LEMMA RowsSameMapped ==
  ASSUME TablesOK, TablesOK',
         \A v \in Versions : /\ rows'[v].payload.validated = rows[v].payload.validated
                             /\ Stored(v) => rows'[v].payload.status = rows[v].payload.status
  PROVE  Review!Add
<1>1. validatedOfRows' = validatedOfRows
  BY MappedAfter DEF validatedOfRows
<1>2. \A v \in Versions : statusOfRows[v] # "none" => statusOfRows'[v] = statusOfRows[v]
  BY MappedAfter, MappedTypes
<1> QED BY <1>1, <1>2, MappedAfter DEF Review!Add, Review!Statuses

LEMMA ReviewStep ==
  ASSUME TablesOK, [Next]_vars
  PROVE  [Review!Next]_<<statusOfRows, validatedOfRows>>
<1>0. TablesOK'
  BY TablesStep
<1>1. CASE Quiet
  BY <1>1 DEF Quiet, statusOfRows, validatedOfRows
<1>2. CASE Imports
  <2>1. ASSUME NEW v \in Versions
        PROVE  /\ rows'[v].payload.validated = rows[v].payload.validated
               /\ Stored(v) => rows'[v].payload.status = rows[v].payload.status
    <3>1. CASE Stored(v)
      BY <1>2, <3>1, ImportEffect
    <3>2. CASE ~Stored(v)
      <4>1. rows[v].payload.validated = {}
        BY <3>2, StoredRows DEF NoRow
      <4>2. rows'[v] = NoRow \/ \E status \in Statuses : rows'[v] = Fresh(status)
        BY <1>2, <3>2, ImportEffect
      <4>3. rows'[v].payload.validated = {}
        BY <4>2 DEF Fresh, NoRow
      <4> QED BY <3>2, <4>1, <4>3
    <3> QED BY <3>1, <3>2
  <2> QED BY <1>0, <2>1, RowsSameMapped DEF Review!Next
<1>3. ASSUME NEW v \in Versions, Saved(v)
      PROVE  Review!Add
  <2>1. PICK status \in Statuses, entry \in Entry : ~Stored(v) /\ Writes(v, Fresh(status), entry)
    BY <1>3 DEF Saved
  <2>2. rows[v].payload.validated = {}
    BY <2>1, StoredRows DEF NoRow
  <2>3. rows'[v].payload.validated = {}
    BY <2>1 DEF Writes, TablesOK, Fresh
  <2>4. \A w \in Versions \ {v} : rows'[w] = rows[w]
    BY <2>1 DEF Writes, TablesOK
  <2> QED BY <1>0, <2>1, <2>2, <2>3, <2>4, RowsSameMapped
<1>4. ASSUME NEW v \in Versions, Decided(v)
      PROVE  Review!Add \/ Review!Move(v)
  <2>1. PICK status \in Statuses, entry \in Entry :
          /\ Stored(v)
          /\ status \in Allowed(rows[v].payload.status)
          /\ Writes(v, [payload |-> [status |-> status, validated |-> rows[v].payload.validated],
                        listed |-> status], entry)
    BY <1>4 DEF Decided
  <2>2. /\ rows'[v].payload.status = status
        /\ rows'[v].payload.validated = rows[v].payload.validated
    BY <2>1 DEF Writes, TablesOK
  <2>3. \A w \in Versions \ {v} : rows'[w] = rows[w]
    BY <2>1 DEF Writes, TablesOK
  <2>4. CASE status = rows[v].payload.status
    BY <1>0, <2>2, <2>3, <2>4, RowsSameMapped
  <2>5. CASE status # rows[v].payload.status
    <3>1. rows[v].payload.status \in Statuses
      BY <2>1, StoredRows DEF Row, Payload
    <3>2. <<rows[v].payload.status, status>> \in Review!Moves
      BY <2>1, <2>5, <3>1 DEF Allowed, Review!Moves
    <3>3. <<statusOfRows[v], statusOfRows'[v]>> \in Review!Moves
      BY <1>0, <2>2, <3>2, MappedAfter, MappedTypes
    <3>4. validatedOfRows' = validatedOfRows
      BY <1>0, <2>2, <2>3, MappedAfter DEF validatedOfRows
    <3>5. \A w \in Versions \ {v} : statusOfRows'[w] = statusOfRows[w]
      BY <1>0, <2>1, MappedElsewhere
    <3> QED BY <1>0, <3>3, <3>4, <3>5, MappedAfter DEF Review!Move, Review!Statuses
  <2> QED BY <2>4, <2>5
<1>5. ASSUME NEW v \in Versions, Validated(v)
      PROVE  \E claim \in Claims : Review!Confirm(v, claim)
  <2>1. PICK entry \in Entry :
          /\ Stored(v)
          /\ entry.claim \in Claims \ rows[v].payload.validated
          /\ Writes(v, [payload |-> [status |-> rows[v].payload.status,
                                     validated |-> rows[v].payload.validated \cup {entry.claim}],
                        listed |-> rows[v].listed], entry)
    BY <1>5 DEF Validated
  <2>2. /\ rows'[v].payload.status = rows[v].payload.status
        /\ rows'[v].payload.validated = rows[v].payload.validated \cup {entry.claim}
    BY <2>1 DEF Writes, TablesOK
  <2>3. \A w \in Versions \ {v} : rows'[w] = rows[w]
    BY <2>1 DEF Writes, TablesOK
  <2>4. statusOfRows' = statusOfRows
    BY <1>0, <2>2, <2>3, MappedAfter DEF statusOfRows
  <2>5. validatedOfRows' = [validatedOfRows EXCEPT ![v] = @ \cup {entry.claim}]
    BY <1>0, <2>2, <2>3, MappedAfter DEF validatedOfRows
  <2>6. statusOfRows[v] # "none" /\ entry.claim \notin validatedOfRows[v]
    BY <2>1, MappedTypes
  <2> QED BY <2>1, <2>4, <2>5, <2>6 DEF Review!Confirm
<1>6. ASSUME NEW v \in Versions, Executed(v)
      PROVE  Review!Add
  <2>1. \A w \in Versions : rows'[w] = rows[w]
    BY <1>6 DEF Executed, Writes, TablesOK
  <2> QED BY <1>0, <2>1, RowsSameMapped
<1> QED BY <1>1, <1>2, <1>3, <1>4, <1>5, <1>6, StepKinds DEF Review!Next

\* Whatever the operations and imports of any number of processes do, a reader
\* sees versions that are added and reviewed along the workflow, and no more.
THEOREM ReviewTheorem == Spec => ImplementsReview
<1>1. Init => Review!Init
  BY DEF Init, Review!Init, statusOfRows, validatedOfRows, NoRow
<1>2. HistoryInv /\ [Next]_vars => [Review!Next]_<<statusOfRows, validatedOfRows>>
  BY ReviewStep DEF HistoryInv
<1> QED BY <1>1, <1>2, HistoryInvariant, PTL DEF Spec, ImplementsReview, Review!Spec

-----------------------------------------------------------------------------
(* The other variables.                                                    *)

OthersOK ==
  /\ runs \subseteq Versions \X (Nat \cup Executions)
  /\ imported \subseteq {Directory[c] : c \in Callers} \X Files
  /\ present \subseteq Files
  /\ caller \in [Callers -> [pc : {"idle", "importing", "ready"}, pending : SUBSET Files]]

LEMMA OthersStep ==
  ASSUME TablesOK, OthersOK, [Next]_vars
  PROVE  OthersOK'
<1> DEFINE Doing == [pc : {"idle", "importing", "ready"}, pending : SUBSET Files]
<1>1. CASE UNCHANGED vars
  BY <1>1 DEF vars, OthersOK
<1>2. Idle \in Doing
  BY DEF Idle
<1>3. ASSUME NEW c \in Callers, Finish(c)
      PROVE  caller' \in [Callers -> Doing]
  BY <1>2, <1>3 DEF Finish, OthersOK
<1>4. ASSUME NEW c \in Callers, Open(c)
      PROVE  OthersOK'
  <2> DEFINE pending == {x \in present : <<Directory[c], x>> \notin imported}
             next == IF pending = {} THEN [pc |-> "ready", pending |-> {}]
                                     ELSE [pc |-> "importing", pending |-> pending]
  <2>1. next \in Doing
    BY DEF OthersOK
  <2>2. caller' = [caller EXCEPT ![c] = next]
    BY <1>4 DEF Open
  <2>3. caller' \in [Callers -> Doing]
    BY <2>1, <2>2 DEF OthersOK
  <2> QED BY <1>4, <2>3 DEF Open, OthersOK, tables
<1>5. ASSUME NEW c \in Callers, Import(c)
      PROVE  OthersOK'
  <2> DEFINE todo == {x \in caller[c].pending : <<Directory[c], x>> \notin imported}
             done == ImportedOf(todo)
  <2>1. todo \subseteq Files
    BY DEF OthersOK
  <2>2. done \subseteq Files
    BY <2>1 DEF ImportedOf
  <2>3. runs' = runs \cup {<<LegacyRuns[x], x>> : x \in done \cap Executions}
    BY <1>5 DEF Import
  <2>4. runs' \subseteq Versions \X (Nat \cup Executions)
    <3>1. ASSUME NEW x \in Executions
          PROVE  <<LegacyRuns[x], x>> \in Versions \X (Nat \cup Executions)
      BY RecordAssumption
    <3>2. {<<LegacyRuns[x], x>> : x \in done \cap Executions}
            \subseteq Versions \X (Nat \cup Executions)
      BY <3>1
    <3> QED BY <2>3, <3>2 DEF OthersOK
  <2>5. imported' = imported \cup {<<Directory[c], x>> : x \in done}
    BY <1>5 DEF Import
  <2>6. imported' \subseteq {Directory[d] : d \in Callers} \X Files
    <3>1. ASSUME NEW x \in done
          PROVE  <<Directory[c], x>> \in {Directory[d] : d \in Callers} \X Files
      BY <2>2
    <3>2. {<<Directory[c], x>> : x \in done} \subseteq {Directory[d] : d \in Callers} \X Files
      BY <3>1
    <3> QED BY <2>5, <3>2 DEF OthersOK
  <2>7. [pc |-> "ready", pending |-> {}] \in Doing
    OBVIOUS
  <2>8. caller' \in [Callers -> Doing]
    BY <1>5, <2>7 DEF Import, OthersOK
  <2>9. present' \subseteq Files
    BY <1>5 DEF Import, OthersOK
  <2> QED BY <2>4, <2>6, <2>8, <2>9 DEF OthersOK
<1>6. ASSUME NEW c \in Callers, ImportFails(c) \/ Leave(c)
      PROVE  OthersOK'
  BY <1>3, <1>6 DEF ImportFails, Leave, OthersOK, tables
<1>7. ASSUME NEW c \in Callers, Operation(c)
      PROVE  OthersOK'
  <2>1. CASE \E i \in Instructions, n \in 1 .. MaxVersion, payload \in Saveable :
               Save(c, i, n, payload)
    BY <1>3, <2>1 DEF Save, OthersOK
  <2>2. CASE \E v \in Versions, role \in Roles, status \in Statuses : Decide(c, v, status, role)
    BY <1>3, <2>2 DEF Decide, OthersOK
  <2>3. CASE \E v \in Versions, role \in Roles, claim \in Claims : Validate(c, v, claim, role)
    BY <1>3, <2>3 DEF Validate, OthersOK
  <2>4. ASSUME NEW v \in Versions, Execute(c, v)
        PROVE  OthersOK'
    <3>1. Len(trail[v]) + 1 \in Nat
      BY DEF TablesOK
    <3>2. <<v, Len(trail[v]) + 1>> \in Versions \X (Nat \cup Executions)
      BY <3>1
    <3>3. runs' = runs \cup {<<v, Len(trail[v]) + 1>>}
      BY <2>4 DEF Execute
    <3> QED BY <1>3, <2>4, <3>2, <3>3 DEF Execute, OthersOK
  <2> QED BY <1>7, <2>1, <2>2, <2>3, <2>4 DEF Operation
<1>8. ASSUME NEW x \in Files, Appear(x)
      PROVE  OthersOK'
  BY <1>8 DEF Appear, OthersOK, tables
<1> QED BY <1>1, <1>4, <1>5, <1>6, <1>7, <1>8 DEF Next

\* Type correctness.
THEOREM HistoryTypeTheorem == Spec => []TypeOK
<1>1. Init => OthersOK
  BY DEF Init, OthersOK, Idle
<1>2. HistoryInv /\ OthersOK /\ [Next]_vars => OthersOK'
  BY OthersStep DEF HistoryInv
<1>3. HistoryInv /\ OthersOK => TypeOK
  BY DEF HistoryInv, TablesOK, OthersOK, TypeOK
<1> QED BY <1>1, <1>2, <1>3, HistoryInvariant, PTL DEF Spec

-----------------------------------------------------------------------------
(* A trail explains the status.                                            *)

\* A set of natural numbers has a least one.
LEMMA LeastExists ==
  ASSUME NEW T, T \subseteq Nat, T # {}
  PROVE  \E x \in T : \A y \in T : x <= y
<1> DEFINE R == OpToRel(<, Nat)
<1>1. \A x, y \in Nat : <<y, x>> \in R <=> y < x
  BY DEF OpToRel
<1>2. IsWellFoundedOn(R, Nat)
  BY NatLessThanWellFounded
<1> HIDE DEF R
<1>3. PICK x \in T : \A y \in T : ~ (<<y, x>> \in R)
  BY <1>2, WFMin, Zenon
<1>4. \A y \in T : ~ (y < x)
  BY <1>1, <1>3, Zenon
<1> QED BY <1>4

LEMMA GreatestExists ==
  ASSUME NEW n \in Nat, NEW T \in SUBSET (1 .. n), T # {}
  PROVE  \E x \in T : \A y \in T : y <= x
<1> DEFINE D == {d \in Nat : \E x \in T : d = n - x}
<1>1. D \subseteq Nat /\ D # {}
  <2>1. PICK x \in T : TRUE
    OBVIOUS
  <2>2. n - x \in D
    BY <2>1
  <2> QED BY <2>2
<1>2. PICK d \in D : \A e \in D : d <= e
  BY <1>1, LeastExists
<1>3. PICK x \in T : d = n - x
  OBVIOUS
<1>4. ASSUME NEW y \in T
      PROVE  y <= x
  <2>1. n - x <= n - y
    <3>1. n - y \in D
      OBVIOUS
    <3> QED BY <1>2, <1>3, <3>1
  <2> QED BY <2>1
<1> QED BY <1>4

\* What a trail tells up to an event depends on the entries up to it.
LEMMA ToldByPrefix ==
  ASSUME NEW s, NEW t, NEW k \in Nat, \A l \in 1 .. k : s[l].entry = t[l].entry
  PROVE  ToldBy(s, k) = ToldBy(t, k)
<1> DEFINE Told(u) == {l \in 1 .. k : u[l].entry.to # NoStatus}
           Last(T) == CHOOSE l \in T : \A m \in T : m <= l
<1>1. Told(s) = Told(t)
  OBVIOUS
<1>2. ToldBy(s, k) = IF Told(s) = {} THEN NoStatus ELSE s[Last(Told(s))].entry.to
  BY DEF ToldBy
<1>3. ToldBy(t, k) = IF Told(t) = {} THEN NoStatus ELSE t[Last(Told(t))].entry.to
  BY DEF ToldBy
<1>4. Told(s) # {} => Last(Told(s)) \in 1 .. k
  <2>1. SUFFICES ASSUME Told(s) # {} PROVE Last(Told(s)) \in Told(s)
    OBVIOUS
  <2>2. PICK T \in SUBSET (1 .. k) : T = Told(s)
    OBVIOUS
  <2>3. \E x \in T : \A y \in T : y <= x
    BY <2>1, <2>2, GreatestExists
  <2>4. Last(T) \in T
    BY <2>3
  <2> QED BY <2>2, <2>4, SMTT(30)

<1>5. PICK l : l = Last(Told(s))
  OBVIOUS
<1>6. PICK T : T = Told(s)
  OBVIOUS
<1>7. ToldBy(s, k) = IF T = {} THEN NoStatus ELSE s[l].entry.to
  BY <1>2, <1>5, <1>6
<1>8. ToldBy(t, k) = IF T = {} THEN NoStatus ELSE t[l].entry.to
  BY <1>1, <1>3, <1>5, <1>6
<1>9. T # {} => l \in 1 .. k
  BY <1>4, <1>5, <1>6
<1> QED BY <1>7, <1>8, <1>9

LEMMA ToldByNone ==
  ASSUME NEW t
  PROVE  ToldBy(t, 0) = NoStatus
<1>1. {l \in 1 .. 0 : t[l].entry.to # NoStatus} = {}
  OBVIOUS
<1> QED BY <1>1 DEF ToldBy

\* The last event tells a status, or what is told before it.
LEMMA ToldByLast ==
  ASSUME NEW t, NEW n \in Nat
  PROVE  ToldBy(t, n + 1) = IF t[n + 1].entry.to # NoStatus THEN t[n + 1].entry.to ELSE ToldBy(t, n)
<1> DEFINE Told(k) == {l \in 1 .. k : t[l].entry.to # NoStatus}
<1>1. CASE t[n + 1].entry.to # NoStatus
  <2>1. n + 1 \in Told(n + 1) /\ \A m \in Told(n + 1) : m <= n + 1
    BY <1>1
  <2>2. \A l \in Told(n + 1) : (\A m \in Told(n + 1) : m <= l) => l = n + 1
    BY <2>1
  <2>3. (CHOOSE l \in Told(n + 1) : \A m \in Told(n + 1) : m <= l) = n + 1
    BY <2>1, <2>2
  <2>4. Told(n + 1) # {}
    BY <2>1
  <2> HIDE DEF Told
  <2>5. ToldBy(t, n + 1) = t[n + 1].entry.to
    BY <2>3, <2>4, Zenon DEF ToldBy, Told
  <2> QED BY <1>1, <2>5
<1>2. CASE t[n + 1].entry.to = NoStatus
  <2>1. Told(n + 1) = Told(n)
    BY <1>2
  <2>2. \A k : ToldBy(t, k) = IF Told(k) = {} THEN NoStatus
                              ELSE t[CHOOSE l \in Told(k) : \A m \in Told(k) : m <= l].entry.to
    BY DEF ToldBy
  <2> HIDE DEF Told
  <2>3. ToldBy(t, n + 1) = ToldBy(t, n)
    BY <2>1, <2>2, Zenon
  <2> QED BY <1>2, <2>3
<1> QED BY <1>1, <1>2

\* One event of a trail goes with what is told before it.
Fits(t, k) ==
  LET e == t[k].entry
  IN  /\ e.type = "workflow_updated" =>
           /\ e.from = ToldBy(t, k - 1)
           /\ e.to \in Allowed(e.from)
           /\ e.to = "approved" => e.role \in Approvers
      /\ e.type = "execution_saved" => e.to = ToldBy(t, k - 1)

LEMMA ExplainsForm ==
  ASSUME NEW t, NEW status
  PROVE  Explains(t, status) <=> ToldBy(t, Len(t)) = status /\ \A k \in DOMAIN t : Fits(t, k)
BY Zenon DEF Explains, Fits

LEMMA FitsPrefix ==
  ASSUME NEW s, NEW t, NEW k \in Nat \ {0}, \A l \in 1 .. k : s[l].entry = t[l].entry, Fits(t, k)
  PROVE  Fits(s, k)
<1>1. s[k].entry = t[k].entry /\ k - 1 \in Nat /\ \A l \in 1 .. (k - 1) : s[l].entry = t[l].entry
  OBVIOUS
<1>2. ToldBy(s, k - 1) = ToldBy(t, k - 1)
  BY <1>1, ToldByPrefix
<1> QED BY <1>1, <1>2, Zenon DEF Fits

\* An event that goes with what is told before it tells a status, or leaves the one told.
LEMMA ExplainsAppend ==
  ASSUME NEW t \in Seq(Event), NEW status, Explains(t, status), NEW event \in Event,
         event.entry.type = "workflow_updated" =>
           /\ event.entry.from = status
           /\ event.entry.to \in Allowed(status)
           /\ event.entry.to = "approved" => event.entry.role \in Approvers,
         event.entry.type = "execution_saved" => event.entry.to = status,
         NEW next, next = IF event.entry.to # NoStatus THEN event.entry.to ELSE status
  PROVE  Explains(Append(t, event), next)
<1>1. PICK n \in Nat : n = Len(t)
  OBVIOUS
<1>2. PICK s : s = Append(t, event)
  OBVIOUS
<1>3. /\ Len(s) = n + 1 /\ DOMAIN s = 1 .. (n + 1) /\ s[n + 1] = event
      /\ \A l \in 1 .. n : s[l] = t[l]
  BY <1>1, <1>2
<1>4. ToldBy(t, n) = status /\ \A k \in 1 .. n : Fits(t, k)
  BY <1>1, ExplainsForm
<1>5. ToldBy(s, n) = status
  BY <1>3, <1>4, ToldByPrefix
<1>6. ToldBy(s, n + 1) = next
  BY <1>3, <1>5, ToldByLast
<1>7. ASSUME NEW k \in 1 .. n
      PROVE  Fits(s, k)
  <2>1. k \in Nat \ {0} /\ \A l \in 1 .. k : s[l].entry = t[l].entry
    BY <1>3
  <2> QED BY <1>4, <2>1, FitsPrefix
<1>8. Fits(s, n + 1)
  <2>1. (n + 1) - 1 = n
    OBVIOUS
  <2> QED BY <1>3, <1>5, <2>1 DEF Fits
<1>9. \A k \in DOMAIN s : Fits(s, k)
  BY <1>3, <1>7, <1>8
<1> QED BY <1>2, <1>3, <1>6, <1>9, ExplainsForm

\* The import of a record takes its trail over.
LEMMA ExplainsLegacy ==
  ASSUME LegacyTrailsTell, NEW v \in Records, NEW t \in Seq(Event), Len(t) = Len(LegacyTrail[v]),
         \A k \in DOMAIN t : t[k].entry = LegacyTrail[v][k]
  PROVE  Explains(t, LegacyStatus[v])
<1>1. PICK s : s = [k \in DOMAIN LegacyTrail[v] |-> [entry |-> LegacyTrail[v][k]]]
  OBVIOUS
<1>2. LegacyTrail[v] \in Seq(Entry)
  BY RecordAssumption
<1>3. PICK n \in Nat : n = Len(t)
  OBVIOUS
<1>4. Explains(s, LegacyStatus[v])
  BY <1>1 DEF LegacyTrailsTell
<1>5. DOMAIN s = 1 .. n /\ \A l \in 1 .. n : s[l].entry = LegacyTrail[v][l]
  BY <1>1, <1>2, <1>3
<1>6. Len(s) = n
  <2>1. DOMAIN s = 1 .. n /\ s = [k \in 1 .. n |-> s[k]]
    BY <1>1, <1>5
  <2> QED BY <2>1, <1>3
<1>7. \A l \in 1 .. n : t[l].entry = s[l].entry
  BY <1>3, <1>5
<1>8. ToldBy(s, n) = LegacyStatus[v] /\ \A k \in 1 .. n : Fits(s, k)
  BY <1>4, <1>5, <1>6, ExplainsForm
<1>9. ToldBy(t, n) = LegacyStatus[v]
  BY <1>7, <1>8, ToldByPrefix
<1>10. ASSUME NEW k \in 1 .. n
       PROVE  Fits(t, k)
  <2>1. k \in Nat \ {0} /\ \A l \in 1 .. k : t[l].entry = s[l].entry
    BY <1>7
  <2> QED BY <1>8, <2>1, FitsPrefix
<1>11. DOMAIN t = 1 .. n
  BY <1>3
<1> QED BY <1>3, <1>9, <1>10, <1>11, ExplainsForm

\* A stored version has a trail, which explains its status.
StatusInv ==
  \A v \in Versions : Stored(v) =>
    /\ trail[v] # <<>>
    /\ ~Collided(v) => rows[v].listed = rows[v].payload.status /\ Explains(trail[v], rows[v].listed)

LEMMA EmptyExplains == Explains(<<>>, NoStatus)
BY ToldByNone DEF Explains

\* What has collided stays so.
LEMMA CollidedStays ==
  ASSUME NEW v \in Versions, trail[v] \in Seq(Event), NEW new \in Seq(Event),
         trail'[v] = trail[v] \o new, Collided(v)
  PROVE  Collided(v)'
<1>1. PICK k \in DOMAIN trail[v] \ {1} : trail[v][k].entry.legacy /\ ~trail[v][k - 1].entry.legacy
  BY DEF Collided
<1>2. /\ k \in DOMAIN trail'[v] \ {1} /\ k - 1 \in DOMAIN trail[v]
      /\ trail'[v][k] = trail[v][k] /\ trail'[v][k - 1] = trail[v][k - 1]
  BY <1>1
<1> QED BY <1>1, <1>2 DEF Collided

\* The import of one record.
ImportsRecord(v) ==
  /\ rows'[v] = WithRecord(v)
  /\ trail'[v] = trail[v] \o [k \in DOMAIN MissingEvents(v) |->
                   [entry |-> MissingEvents(v)[k], digest |-> rows'[v].payload]]

LEMMA RecordRow ==
  ASSUME TablesOK, NEW v \in Records, ImportsRecord(v)
  PROVE  /\ rows'[v] \in Row
         /\ Stored(v) => rows'[v] = rows[v]
         /\ ~Stored(v) => rows'[v] = Fresh(LegacyStatus[v])
<1>1. LegacyStatus[v] \in Statuses /\ v \in Versions
  BY RecordAssumption
<1>2. Fresh(LegacyStatus[v]) \in Row
  BY <1>1 DEF Fresh, Row, Payload
<1> QED BY <1>1, <1>2, StoredRows DEF ImportsRecord, WithRecord

\* Its events are there, or come together.
LEMMA RecordTrail ==
  ASSUME TablesOK, NEW v \in Records, ImportsRecord(v)
  PROVE  \/ LegacyEvents(v) # {} /\ trail'[v] = trail[v]
         \/ /\ LegacyEvents(v) = {}
            /\ \E new \in Seq(Event) :
                 /\ trail'[v] = trail[v] \o new /\ Len(new) = Len(LegacyTrail[v])
                 /\ \A k \in DOMAIN new : new[k].entry = LegacyTrail[v][k] /\ new[k].entry.legacy
<1>0. trail[v] \in Seq(Event)
  BY RecordAssumption DEF TablesOK
<1>1. CASE LegacyEvents(v) # {}
  <2>1. MissingEvents(v) = <<>>
    BY <1>1 DEF MissingEvents, LegacyEvents
  <2>2. trail'[v] = trail[v] \o [k \in DOMAIN <<>> |-> [entry |-> <<>>[k], digest |-> rows'[v].payload]]
    BY <2>1 DEF ImportsRecord
  <2>3. [k \in DOMAIN <<>> |-> [entry |-> <<>>[k], digest |-> rows'[v].payload]] = <<>>
    OBVIOUS
  <2>4. trail'[v] = trail[v]
    BY <1>0, <2>2, <2>3
  <2> QED BY <1>1, <2>4
<1>2. CASE LegacyEvents(v) = {}
  <2>1. MissingEvents(v) = LegacyTrail[v]
    BY <1>2 DEF MissingEvents, LegacyEvents
  <2>2. PICK t \in Seq(Entry) : t = LegacyTrail[v]
    BY RecordAssumption
  <2>3. PICK digest \in Payload : digest = rows'[v].payload
    BY RecordRow DEF Row
  <2>4. PICK new : new = [k \in DOMAIN t |-> [entry |-> t[k], digest |-> digest]]
    OBVIOUS
  <2>5. trail'[v] = trail[v] \o new
    BY <2>1, <2>2, <2>3, <2>4 DEF ImportsRecord
  <2>6. new \in [1 .. Len(t) -> Event]
    BY <2>2, <2>4 DEF Event
  <2>7. new \in Seq(Event) /\ Len(new) = Len(t)
    BY <2>2, <2>6
  <2>8. \A k \in DOMAIN new : new[k].entry = t[k] /\ t[k].legacy
    BY <2>2, <2>4, LegacyAssumption
  <2> QED BY <1>2, <2>2, <2>5, <2>7, <2>8
<1> QED BY <1>1, <1>2

LEMMA StatusImport ==
  ASSUME LegacyTrailsTell, TablesOK, TrailFitsContent, StatusInv, NEW v \in Records, ImportsRecord(v)
  PROVE  /\ trail'[v] # <<>>
         /\ ~Collided(v)' =>
               rows'[v].listed = rows'[v].payload.status /\ Explains(trail'[v], rows'[v].listed)
<1>0. v \in Versions /\ trail[v] \in Seq(Event) /\ LegacyTrail[v] \in Seq(Entry)
  BY RecordAssumption DEF TablesOK
<1>1. CASE LegacyEvents(v) # {} /\ trail'[v] = trail[v]
  <2>1. trail[v] # <<>>
    BY <1>1 DEF LegacyEvents
  <2>2. Stored(v) /\ rows'[v] = rows[v]
    BY <1>0, <2>1, RecordRow DEF TrailFitsContent
  <2>3. Collided(v)' <=> Collided(v)
    BY <1>1 DEF Collided
  <2> QED BY <1>0, <1>1, <2>1, <2>2, <2>3 DEF StatusInv
<1>2. ASSUME NEW new \in Seq(Event), LegacyEvents(v) = {}, trail'[v] = trail[v] \o new,
             Len(new) = Len(LegacyTrail[v]),
             \A k \in DOMAIN new : new[k].entry = LegacyTrail[v][k] /\ new[k].entry.legacy
      PROVE  /\ trail'[v] # <<>>
             /\ ~Collided(v)' => rows'[v].listed = rows'[v].payload.status
                                 /\ Explains(trail'[v], rows'[v].listed)
  <2>1. Len(new) # 0
    BY <1>0, <1>2 DEF LegacyTrailsTell
  <2>2. PICK n \in Nat : n = Len(trail[v])
    BY <1>0
  <2>3. /\ DOMAIN trail'[v] = 1 .. (n + Len(new)) /\ trail'[v][n + 1] = new[1]
        /\ \A k \in 1 .. n : trail'[v][k] = trail[v][k]
    <3>1. PICK t \in Seq(Event) : t = trail[v]
      BY <1>0
    <3>2. PICK s : s = t \o new
      OBVIOUS
    <3>3. n = Len(t) /\ trail'[v] = s
      BY <1>2, <2>2, <3>1, <3>2
    <3>4. DOMAIN s = 1 .. (n + Len(new)) /\ \A k \in 1 .. n : s[k] = t[k]
      BY <3>2, <3>3
    <3>5. s[n + 1] = new[1]
      BY <2>1, <3>2, <3>3
    <3> QED BY <3>1, <3>3, <3>4, <3>5
  <2>4. trail'[v] # <<>>
    BY <2>1, <2>3
  <2>5. CASE trail[v] # <<>>
    <3>1. n # 0 /\ n \in DOMAIN trail[v]
      BY <1>0, <2>2, <2>5
    <3>2. ~trail[v][n].entry.legacy
      BY <1>2, <3>1 DEF LegacyEvents
    <3>3. trail'[v][n + 1].entry.legacy /\ trail'[v][n] = trail[v][n]
      BY <1>2, <2>1, <2>2, <2>3, <3>1
    <3>4. n + 1 \in DOMAIN trail'[v] \ {1} /\ (n + 1) - 1 = n
      BY <2>1, <2>3, <3>1
    <3>5. Collided(v)'
      BY <3>2, <3>3, <3>4 DEF Collided
    <3> QED BY <2>4, <3>5
  <2>6. CASE trail[v] = <<>>
    <3>1. ~Stored(v)
      BY <1>0, <2>6 DEF StatusInv
    <3>2. rows'[v] = Fresh(LegacyStatus[v])
      BY <3>1, RecordRow
    <3>3. rows'[v].listed = LegacyStatus[v] /\ rows'[v].payload.status = LegacyStatus[v]
      BY <3>2 DEF Fresh
    <3>4. trail'[v] = new
      BY <1>2, <2>6
    <3>5. Explains(new, LegacyStatus[v])
      BY <1>2, ExplainsLegacy
    <3> QED BY <2>4, <3>3, <3>4, <3>5
  <2> QED BY <2>5, <2>6
<1> QED BY <1>1, <1>2, RecordTrail

\* What one event of an operation does.
LEMMA StatusWrite ==
  ASSUME TablesOK, StatusInv, TrailFitsContent, NEW v \in Versions, NEW row \in Row, NEW entry \in Entry,
         Writes(v, row, entry), entry.legacy = FALSE,
         NEW status, status = IF Stored(v) THEN rows[v].payload.status ELSE NoStatus,
         entry.type = "workflow_updated" =>
           /\ entry.from = status
           /\ entry.to \in Allowed(status)
           /\ entry.to = "approved" => entry.role \in Approvers,
         entry.type = "execution_saved" => entry.to = status,
         row.payload.status = IF entry.to # NoStatus THEN entry.to ELSE status,
         \/ row.listed = row.payload.status
         \/ Stored(v) /\ entry.to = NoStatus /\ row.listed = rows[v].listed
         \/ Stored(v) /\ row = rows[v]
  PROVE  /\ trail'[v] # <<>>
         /\ ~Collided(v)' =>
               rows'[v].listed = rows'[v].payload.status /\ Explains(trail'[v], rows'[v].listed)
<1>1. PICK event \in Event : event.entry = entry /\ trail'[v] = Append(trail[v], event) /\ rows'[v] = row
  <2>1. [entry |-> entry, digest |-> row.payload] \in Event
    BY DEF Event, Row
  <2> QED BY <2>1, WriteEffect
<1>2. trail[v] \in Seq(Event)
  BY DEF TablesOK
<1>3. trail'[v] # <<>>
  BY <1>1, <1>2
<1>4. SUFFICES ASSUME ~Collided(v)'
               PROVE  row.listed = row.payload.status /\ Explains(trail'[v], row.listed)
  BY <1>1, <1>3
<1>5. ~Collided(v)
  <2> DEFINE new == <<event>>
  <2>1. new \in Seq(Event) /\ trail'[v] = trail[v] \o new
    BY <1>1, <1>2
  <2> HIDE DEF new
  <2> QED BY <1>2, <1>4, <2>1, CollidedStays
<1>6. Explains(trail[v], status)
  <2>1. CASE Stored(v)
    BY <1>5, <2>1 DEF StatusInv
  <2>2. CASE ~Stored(v)
    <3>1. trail[v] = <<>>
      BY <2>2 DEF TrailFitsContent
    <3> QED BY <2>2, <3>1, EmptyExplains
  <2> QED BY <2>1, <2>2
<1>7. row.listed = row.payload.status
  BY <1>5 DEF StatusInv
<1>8. Explains(Append(trail[v], event), row.payload.status)
  BY <1>1, <1>2, <1>6, ExplainsAppend
<1> QED BY <1>1, <1>7, <1>8

LEMMA StatusKinds ==
  ASSUME TablesOK, StatusInv, TrailFitsContent, NEW v \in Versions,
         Saved(v) \/ Decided(v) \/ Validated(v) \/ Executed(v)
  PROVE  /\ trail'[v] # <<>>
         /\ ~Collided(v)' =>
               rows'[v].listed = rows'[v].payload.status /\ Explains(trail'[v], rows'[v].listed)
<1>1. CASE Saved(v)
  <2>1. PICK status \in Statuses, entry \in Entry :
          /\ ~Stored(v) /\ entry.legacy = FALSE /\ entry.type = "version_saved" /\ entry.to = status
          /\ Writes(v, Fresh(status), entry)
    BY <1>1 DEF Saved
  <2>2. PICK row \in Row : row = Fresh(status)
    BY DEF Fresh, Row, Payload
  <2>3. row.listed = status /\ row.payload.status = status /\ status # NoStatus
    BY <2>2 DEF Fresh
  <2> QED BY <2>1, <2>2, <2>3, StatusWrite
<1>2. Stored(v) => /\ rows[v] \in Row
                   /\ rows[v].payload.status \in Statuses
                   /\ rows[v].payload.validated \in SUBSET Claims
                   /\ rows[v].listed \in Statuses
  BY StoredRows DEF Row, Payload
<1>3. CASE Decided(v)
  <2>1. PICK status \in Statuses, entry \in Entry :
          /\ Stored(v) /\ entry.legacy = FALSE /\ entry.type = "workflow_updated"
          /\ entry.from = rows[v].payload.status /\ entry.to = status
          /\ status = "approved" => entry.role \in Approvers
          /\ status \in Allowed(rows[v].payload.status)
          /\ Writes(v, [payload |-> [status |-> status, validated |-> rows[v].payload.validated],
                        listed |-> status], entry)
    BY <1>3 DEF Decided
  <2>2. PICK row \in Row :
          row = [payload |-> [status |-> status, validated |-> rows[v].payload.validated],
                 listed |-> status]
    BY <1>2, <2>1 DEF Row, Payload
  <2>3. row.listed = status /\ row.payload.status = status /\ status # NoStatus
    BY <2>2
  <2> QED BY <2>1, <2>2, <2>3, StatusWrite
<1>4. CASE Validated(v)
  <2>1. PICK entry \in Entry :
          /\ Stored(v) /\ entry.type = "claim_validated"
          /\ entry.legacy = FALSE /\ entry.to = NoStatus /\ entry.claim \in Claims
          /\ Writes(v, [payload |-> [status |-> rows[v].payload.status,
                                     validated |-> rows[v].payload.validated \cup {entry.claim}],
                        listed |-> rows[v].listed], entry)
    BY <1>4 DEF Validated
  <2>2. PICK row \in Row :
          row = [payload |-> [status |-> rows[v].payload.status,
                              validated |-> rows[v].payload.validated \cup {entry.claim}],
                 listed |-> rows[v].listed]
    BY <1>2, <2>1 DEF Row, Payload
  <2>3. row.listed = rows[v].listed /\ row.payload.status = rows[v].payload.status
    BY <2>2
  <2> QED BY <2>1, <2>2, <2>3, StatusWrite
<1>5. CASE Executed(v)
  <2>1. PICK entry \in Entry :
          /\ Stored(v) /\ entry.legacy = FALSE /\ entry.type = "execution_saved"
          /\ entry.to = rows[v].payload.status /\ Writes(v, rows[v], entry)
    BY <1>5 DEF Executed
  <2>2. rows[v] \in Row /\ rows[v].payload.status # NoStatus
    BY <1>2, <2>1
  <2> QED BY <2>1, <2>2, StatusWrite
<1> QED BY <1>1, <1>3, <1>4, <1>5

LEMMA StatusStep ==
  ASSUME LegacyTrailsTell, HistoryInv, StatusInv, [Next]_vars
  PROVE  StatusInv'
<1> SUFFICES ASSUME NEW v \in Versions, Stored(v)'
             PROVE  /\ trail'[v] # <<>>
                    /\ ~Collided(v)' => /\ rows'[v].listed = rows'[v].payload.status
                                        /\ Explains(trail'[v], rows'[v].listed)
  BY DEF StatusInv
<1>0. TablesOK /\ TrailFitsContent
  BY DEF HistoryInv
<1>1. ASSUME trail'[v] = trail[v], rows'[v] = rows[v]
      PROVE  /\ trail'[v] # <<>>
             /\ ~Collided(v)' => /\ rows'[v].listed = rows'[v].payload.status
                                 /\ Explains(trail'[v], rows'[v].listed)
  BY <1>1 DEF StatusInv, Stored, Collided
<1>2. CASE Quiet
  BY <1>1, <1>2 DEF Quiet
<1>3. CASE Imports
  <2>1. PICK records \in SUBSET Records :
          /\ rows' = [w \in Versions |-> IF w \in records THEN WithRecord(w) ELSE rows[w]]
          /\ trail' = [w \in Versions |->
               IF w \in records
                 THEN trail[w] \o [k \in DOMAIN MissingEvents(w) |->
                        [entry |-> MissingEvents(w)[k], digest |-> rows'[w].payload]]
                 ELSE trail[w]]
    BY <1>3 DEF Imports
  <2>2. CASE v \in records
    <3>1. ImportsRecord(v)
      BY <2>1, <2>2 DEF ImportsRecord
    <3> QED BY <1>0, <2>2, <3>1, StatusImport
  <2>3. CASE v \notin records
    BY <1>1, <2>1, <2>3
  <2> QED BY <2>2, <2>3
<1>4. ASSUME NEW w \in Versions, w # v, Saved(w) \/ Decided(w) \/ Validated(w) \/ Executed(w)
      PROVE  trail'[v] = trail[v] /\ rows'[v] = rows[v]
  BY <1>0, <1>4, KindWrites, WriteEffect
<1>5. CASE Saved(v) \/ Decided(v) \/ Validated(v) \/ Executed(v)
  BY <1>0, <1>5, StatusKinds
<1> QED BY <1>0, <1>1, <1>2, <1>3, <1>4, <1>5, StepKinds

\* The trail of every version explains its status, whatever is decided, validated, executed
\* and imported at once, when the legacy records have trails that do.
THEOREM StatusTheorem ==
  ASSUME LegacyTrailsTell
  PROVE  Spec => []TrailTellsStatus
<1>1. Init => StatusInv
  BY DEF Init, StatusInv, Stored, NoRow
<1>2. HistoryInv /\ StatusInv /\ [Next]_vars => StatusInv'
  BY StatusStep
<1>3. StatusInv => TrailTellsStatus
  BY DEF StatusInv, TrailTellsStatus
<1> QED BY <1>1, <1>2, <1>3, HistoryInvariant, PTL DEF Spec

-----------------------------------------------------------------------------
(* Imports are whole.                                                      *)
(*                                                                         *)
(* The legacy events of a version are those of an interval of its trail,   *)
(* of the length of the legacy trail, or there are none; and they are      *)
(* there when the file is marked as imported, under any path.              *)

Whole(v) == \E b \in Nat : LegacyEvents(v) = (b + 1) .. (b + Len(LegacyTrail[v]))

Directories == {Directory[c] : c \in Callers}

ImportsInv ==
  /\ \A v \in Records : LegacyEvents(v) = {} \/ Whole(v)
  /\ \A d \in Directories :
       /\ \A v \in Records : <<d, v>> \in imported => Stored(v) /\ Whole(v)
       /\ \A x \in Executions : <<d, x>> \in imported =>
            Stored(LegacyRuns[x]) /\ <<LegacyRuns[x], x>> \in runs

\* An operation appends no legacy event.
LEMMA LegacyKept ==
  ASSUME TablesOK, NEW v \in Versions, NEW event \in Event, trail'[v] = Append(trail[v], event),
         event.entry.legacy = FALSE
  PROVE  LegacyEvents(v)' = LegacyEvents(v)
<1>1. PICK t \in Seq(Event) : t = trail[v]
  BY DEF TablesOK
<1>2. PICK s : s = Append(t, event)
  OBVIOUS
<1>3. /\ DOMAIN t = 1 .. Len(t) /\ DOMAIN s = 1 .. (Len(t) + 1) /\ s[Len(t) + 1] = event
      /\ \A k \in 1 .. Len(t) : s[k] = t[k]
  BY <1>2
<1>4. {k \in DOMAIN s : s[k].entry.legacy} = {k \in DOMAIN t : t[k].entry.legacy}
  BY <1>3
<1> QED BY <1>1, <1>2, <1>4 DEF LegacyEvents

\* An import of a record completes the legacy events.
LEMMA RecordIsWhole ==
  ASSUME TablesOK, ImportsInv, NEW v \in Records, ImportsRecord(v)
  PROVE  Whole(v)' /\ Stored(v)'
<1>0. v \in Versions
  BY RecordAssumption
<1>1. Stored(v)'
  BY RecordRow DEF Stored, Row
<1>2. CASE LegacyEvents(v) # {} /\ trail'[v] = trail[v]
  BY <1>1, <1>2 DEF ImportsInv, Whole, LegacyEvents
<1>3. ASSUME NEW new \in Seq(Event), LegacyEvents(v) = {}, trail'[v] = trail[v] \o new,
             Len(new) = Len(LegacyTrail[v]), \A k \in DOMAIN new : new[k].entry.legacy
      PROVE  Whole(v)'
  <2>1. PICK t \in Seq(Event) : t = trail[v]
    BY <1>0 DEF TablesOK
  <2>2. PICK s : s = t \o new
    OBVIOUS
  <2>3. PICK b \in Nat : b = Len(t)
    OBVIOUS
  <2>4. PICK l \in Nat : l = Len(new)
    OBVIOUS
  <2>5. /\ DOMAIN s = 1 .. (b + l) /\ \A k \in 1 .. b : s[k] = t[k]
        /\ \A k \in (b + 1) .. (b + l) : s[k] = new[k - b] /\ k - b \in DOMAIN new
    BY <2>2, <2>3, <2>4
  <2>6. \A k \in 1 .. b : ~t[k].entry.legacy
    BY <1>3, <2>1, <2>3 DEF LegacyEvents
  <2>7. {k \in DOMAIN s : s[k].entry.legacy} = (b + 1) .. (b + l)
    <3>1. ASSUME NEW k \in (b + 1) .. (b + l)
          PROVE  k \in DOMAIN s /\ s[k].entry.legacy
      <4>1. k \in 1 .. (b + l) /\ s[k] = new[k - b] /\ k - b \in DOMAIN new
        BY <2>5
      <4>2. new[k - b].entry.legacy
        BY <1>3, <4>1
      <4> QED BY <2>5, <4>1, <4>2
    <3>2. ASSUME NEW k \in DOMAIN s, k \notin (b + 1) .. (b + l)
          PROVE  ~s[k].entry.legacy
      <4>1. k \in 1 .. b
        BY <2>5, <3>2
      <4> QED BY <2>5, <2>6, <4>1
    <3> QED BY <3>1, <3>2
  <2>8. LegacyEvents(v)' = (b + 1) .. (b + Len(LegacyTrail[v]))
    BY <1>3, <2>1, <2>2, <2>4, <2>7 DEF LegacyEvents
  <2> QED BY <2>8 DEF Whole
<1> QED BY <1>1, <1>2, <1>3, RecordTrail

LEMMA ImportsStep ==
  ASSUME TablesOK, OthersOK, ImportsInv, [Next]_vars
  PROVE  ImportsInv'
<1> USE DEF Directories
<1>0. \A v \in Records : v \in Versions
  BY RecordAssumption
<1>1. ASSUME imported' = imported, runs \subseteq runs',
             \A v \in Versions : LegacyEvents(v)' = LegacyEvents(v),
             \A v \in Versions : Stored(v) => Stored(v)'
      PROVE  ImportsInv'
  <2>1. ASSUME NEW v \in Records
        PROVE  (Whole(v)' <=> Whole(v)) /\ LegacyEvents(v)' = LegacyEvents(v)
    BY <1>0, <1>1 DEF Whole
  <2>2. \A x \in Executions : LegacyRuns[x] \in Versions
    BY RecordAssumption
  <2> QED BY <1>0, <1>1, <2>1, <2>2 DEF ImportsInv
<1>2. ASSUME Quiet, imported' = imported, runs \subseteq runs'
      PROVE  ImportsInv'
  BY <1>1, <1>2 DEF Quiet, LegacyEvents, Stored
<1>3. ASSUME NEW v \in Versions, Saved(v) \/ Decided(v) \/ Validated(v) \/ Executed(v),
             imported' = imported, runs \subseteq runs'
      PROVE  ImportsInv'
  <2>1. PICK row \in Row, entry \in Entry : Writes(v, row, entry)
    BY <1>3, KindWrites
  <2>2. PICK event \in Event : trail'[v] = Append(trail[v], event) /\ event.entry.legacy = FALSE
    <3>1. PICK entry2 \in Entry : entry2.legacy = FALSE /\ \E row2 : Writes(v, row2, entry2)
      BY <1>3 DEF Saved, Decided, Validated, Executed
    <3>2. PICK row2 : Writes(v, row2, entry2)
      BY <3>1
    <3>3. trail'[v] = Append(trail[v], [entry |-> entry2, digest |-> row2.payload])
      BY <3>2 DEF Writes, TablesOK
    <3>4. row2 = row
      BY <2>1, <3>2 DEF Writes, TablesOK
    <3>5. [entry |-> entry2, digest |-> row2.payload] \in Event
      BY <3>4 DEF Event, Row
    <3> QED BY <3>1, <3>3, <3>5
  <2>3. LegacyEvents(v)' = LegacyEvents(v)
    BY <2>2, LegacyKept
  <2>4. \A w \in Versions \ {v} : trail'[w] = trail[w] /\ rows'[w] = rows[w]
    BY <2>1, WriteEffect
  <2>5. rows'[v] = row
    BY <2>1, WriteEffect
  <2>6. \A w \in Versions : LegacyEvents(w)' = LegacyEvents(w)
    BY <2>3, <2>4 DEF LegacyEvents
  <2>7. \A w \in Versions : Stored(w) => Stored(w)'
    BY <2>4, <2>5 DEF Stored, Row
  <2> QED BY <1>1, <1>3, <2>6, <2>7
<1>4. ASSUME NEW c \in Callers, Import(c)
      PROVE  ImportsInv'
  <2>1. PICK todo : todo = {x \in caller[c].pending : <<Directory[c], x>> \notin imported}
    OBVIOUS
  <2>2. PICK done : done = ImportedOf(todo)
    OBVIOUS
  <2>3. PICK records : records = todo \cap Records
    OBVIOUS
  <2>4. /\ rows' = [v \in Versions |-> IF v \in records THEN WithRecord(v) ELSE rows[v]]
        /\ trail' = [v \in Versions |->
             IF v \in records
               THEN trail[v] \o [k \in DOMAIN MissingEvents(v) |->
                      [entry |-> MissingEvents(v)[k], digest |-> rows'[v].payload]]
               ELSE trail[v]]
        /\ runs' = runs \cup {<<LegacyRuns[x], x>> : x \in done \cap Executions}
        /\ imported' = imported \cup {<<Directory[c], x>> : x \in done}
    BY <1>4, <2>1, <2>2, <2>3, Zenon DEF Import
  <2>5. done \subseteq todo /\ todo \subseteq Files
    BY <2>1, <2>2 DEF ImportedOf, OthersOK
  <2>6. ASSUME NEW v \in Records, v \in records
        PROVE  Whole(v)' /\ Stored(v)'
    <3>1. ImportsRecord(v)
      BY <1>0, <2>4, <2>6 DEF ImportsRecord
    <3> QED BY <3>1, RecordIsWhole
  <2>7. ASSUME NEW v \in Versions, v \notin records
        PROVE  rows'[v] = rows[v] /\ trail'[v] = trail[v]
    BY <2>4, <2>7
  <2>8. \A v \in Versions : Stored(v) => Stored(v)'
    <3>1. SUFFICES ASSUME NEW v \in Versions, Stored(v) PROVE Stored(v)'
      OBVIOUS
    <3>2. CASE v \in records
      BY <2>3, <2>6, <3>2
    <3>3. CASE v \notin records
      BY <2>7, <3>1, <3>3 DEF Stored
    <3> QED BY <3>2, <3>3
  <2>9. ASSUME NEW v \in Records
        PROVE  /\ LegacyEvents(v)' = {} \/ Whole(v)'
               /\ Whole(v) => Whole(v)'
    <3>1. CASE v \in records
      BY <2>6, <3>1
    <3>2. CASE v \notin records
      <4>1. trail'[v] = trail[v]
        BY <1>0, <2>7, <3>2
      <4>2. LegacyEvents(v)' = LegacyEvents(v) /\ (Whole(v)' <=> Whole(v))
        BY <4>1 DEF LegacyEvents, Whole
      <4> QED BY <4>2 DEF ImportsInv
    <3> QED BY <3>1, <3>2
  <2>10. ASSUME NEW d \in Directories, NEW v \in Records, <<d, v>> \in imported'
         PROVE  Stored(v)' /\ Whole(v)'
    <3>1. CASE <<d, v>> \in imported
      BY <1>0, <2>8, <2>9, <3>1 DEF ImportsInv
    <3>2. CASE <<d, v>> \notin imported
      <4>1. v \in done
        BY <2>4, <2>10, <3>2
      <4> QED BY <2>3, <2>5, <2>6, <4>1
    <3> QED BY <3>1, <3>2
  <2>11. ASSUME NEW d \in Directories, NEW x \in Executions, <<d, x>> \in imported'
         PROVE  Stored(LegacyRuns[x])' /\ <<LegacyRuns[x], x>> \in runs'
    <3>0. LegacyRuns[x] \in Versions
      BY RecordAssumption
    <3>1. CASE <<d, x>> \in imported
      BY <2>4, <2>8, <3>0, <3>1 DEF ImportsInv
    <3>2. CASE <<d, x>> \notin imported
      <4>1. x \in done
        BY <2>4, <2>11, <3>2
      <4>2. <<LegacyRuns[x], x>> \in runs'
        BY <2>4, <4>1
      <4>3. Stored(LegacyRuns[x]) \/ LegacyRuns[x] \in todo
        BY <2>2, <4>1 DEF ImportedOf
      <4>4. CASE Stored(LegacyRuns[x])
        BY <2>8, <3>0, <4>2, <4>4
      <4>5. CASE LegacyRuns[x] \in todo
        <5>1. LegacyRuns[x] \in Records
          BY <2>5, <3>0, <4>5, RecordAssumption DEF Files
        <5>2. LegacyRuns[x] \in records
          BY <2>3, <4>5, <5>1
        <5> QED BY <2>6, <4>2, <5>1, <5>2
      <4> QED BY <4>3, <4>4, <4>5
    <3> QED BY <3>1, <3>2
  <2> QED BY <2>9, <2>10, <2>11 DEF ImportsInv
<1>5. CASE UNCHANGED vars
  BY <1>2, <1>5 DEF vars, Quiet
<1>6. ASSUME NEW c \in Callers, Open(c) \/ ImportFails(c) \/ Leave(c)
      PROVE  ImportsInv'
  BY <1>2, <1>6 DEF Open, ImportFails, Leave, Quiet, tables
<1>7. ASSUME NEW x \in Files, Appear(x)
      PROVE  ImportsInv'
  BY <1>2, <1>7 DEF Appear, Quiet, tables
<1>8. ASSUME NEW c \in Callers, Operation(c)
      PROVE  ImportsInv'
  <2>1. ASSUME NEW i \in Instructions, NEW n \in 1 .. MaxVersion, NEW payload \in Saveable,
               Save(c, i, n, payload)
        PROVE  ImportsInv'
    <3>1. <<i, n>> \in Versions
      BY DEF Versions
    <3>2. imported' = imported /\ runs' = runs
      BY <2>1 DEF Save
    <3> QED BY <1>3, <2>1, <3>1, <3>2, SaveIsSaved
  <2>2. ASSUME NEW v \in Versions, NEW role \in Roles, NEW status \in Statuses,
               Decide(c, v, status, role)
        PROVE  ImportsInv'
    <3>1. imported' = imported /\ runs' = runs
      BY <2>2 DEF Decide
    <3> QED BY <1>3, <2>2, <3>1, DecideIsDecided
  <2>3. ASSUME NEW v \in Versions, NEW role \in Roles, NEW claim \in Claims,
               Validate(c, v, claim, role)
        PROVE  ImportsInv'
    <3>1. imported' = imported /\ runs' = runs
      BY <2>3 DEF Validate
    <3> QED BY <1>3, <2>3, <3>1, ValidateIsValidated
  <2>4. ASSUME NEW v \in Versions, Execute(c, v)
        PROVE  ImportsInv'
    <3>1. imported' = imported /\ runs \subseteq runs'
      BY <2>4 DEF Execute
    <3> QED BY <1>3, <2>4, <3>1, ExecuteIsExecuted
  <2> QED BY <1>8, <2>1, <2>2, <2>3, <2>4 DEF Operation
<1> QED BY <1>4, <1>5, <1>6, <1>7, <1>8 DEF Next

\* The legacy events of a version are all there, or none is, and a file that is marked as
\* imported, under whatever path, is there.
THEOREM ImportsTheorem == Spec => []ImportsAreWhole
<1>1. Init => ImportsInv
  <2> SUFFICES ASSUME Init PROVE ImportsInv
    OBVIOUS
  <2>1. imported = {} /\ \A v \in Records : LegacyEvents(v) = {}
    BY RecordAssumption DEF Init, LegacyEvents
  <2> QED BY <2>1 DEF ImportsInv
<1>2. Init => OthersOK
  BY DEF Init, OthersOK, Idle
<1>3. HistoryInv /\ OthersOK /\ [Next]_vars => OthersOK'
  BY OthersStep DEF HistoryInv
<1>4. HistoryInv /\ OthersOK /\ ImportsInv /\ [Next]_vars => ImportsInv'
  BY ImportsStep DEF HistoryInv
<1>5. ImportsInv => ImportsAreWhole
  <2> SUFFICES ASSUME ImportsInv PROVE ImportsAreWhole
    OBVIOUS
  <2>1. ASSUME NEW v \in Records, Whole(v)
        PROVE  Cardinality(LegacyEvents(v)) = Len(LegacyTrail[v])
    <3>1. PICK b \in Nat : LegacyEvents(v) = (b + 1) .. (b + Len(LegacyTrail[v]))
      BY <2>1 DEF Whole
    <3>2. PICK l \in Nat : l = Len(LegacyTrail[v])
      BY RecordAssumption
    <3>3. Cardinality((b + 1) .. (b + l)) = l
      <4>1. PICK x \in Int, y \in Int : x = b + 1 /\ y = b + l
        OBVIOUS
      <4>2. Cardinality(x .. y) = IF x > y THEN 0 ELSE y - x + 1
        BY FS_Interval
      <4> QED BY <4>1, <4>2
    <3> QED BY <3>1, <3>2, <3>3
  <2>2. Cardinality({}) = 0
    BY FS_EmptySet
  <2> QED BY <2>1, <2>2 DEF ImportsInv, ImportsAreWhole, Directories
<1> QED BY <1>1, <1>2, <1>3, <1>4, <1>5, HistoryInvariant, PTL DEF Spec

=============================================================================
