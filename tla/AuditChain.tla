------------------------------ MODULE AuditChain ------------------------------
(***************************************************************************)
(* What the verification of a database (app/storage/database.py), which    *)
(* every backup, restore and readiness probe runs, says of the audit       *)
(* trails when rows were lost, mixed up or changed by something else than  *)
(* the application.  InstructionHistory has how they are written, and      *)
(* AdminStore those of organizations, which are chained in the same way.   *)
(***************************************************************************)
EXTENDS Integers, Sequences, FiniteSets

CONSTANTS
  Versions,    \* of instructions: each has a trail
  Entries,     \* what an event says beside its digest
  Payloads,    \* what the text of a version may be
  NoPayload,   \* the row of the version is not there
  MaxEvents,   \* bound of each trail
  MaxDamages   \* bound

ASSUME ChainAssumption ==
  /\ NoPayload \notin Payloads
  /\ MaxEvents \in Nat /\ MaxDamages \in Nat

VARIABLES
  event,     \* instruction_audit_events: the row of each version and sequence
  payload,   \* payload_json of each version
  wrote,     \* no part of the code: the events that the application has appended
  damages    \* how many changes were made by something else

chainVars == <<event, payload, wrote, damages>>

\* A digest is of one text only, and a hash of one row only.  An event that was written by
\* an old version of the program has no digest.
NoDigest == NoPayload
Digests == Payloads \cup {NoDigest}

NoHash == <<>>

\* Fault: the version is not part of what is hashed.
HashOfEvent(v, sequence, row) == <<sequence, row.previous, row.entry, row.digest>>

\* audit_event_hash
EventHash(v, sequence, row) == <<v, sequence, row.previous, row.entry, row.digest>>

NoEvent == [previous |-> NoHash, entry |-> "none", digest |-> NoDigest, hash |-> NoHash]

Sequences == 1 .. MaxEvents

Rows(v) == {n \in Sequences : event[v][n] # NoEvent}

\* Of the row with the highest sequence, or 0.
Last(v) == IF Rows(v) = {} THEN 0 ELSE CHOOSE n \in Rows(v) : \A m \in Rows(v) : m <= n

-----------------------------------------------------------------------------
(* The application.                                                        *)

NewRow(v, entry, text) ==
  [previous |-> IF Last(v) = 0 THEN NoHash ELSE event[v][Last(v)].hash,
   entry |-> entry, digest |-> text, hash |-> NoHash]

\* _append_audit_event, in the transaction that stores text, or leaves it as it is.  When
\* there is no text yet, the event carries no digest.
AppendEvent(v, entry, text) ==
  LET row == NewRow(v, entry, text)
      n == Last(v) + 1
  IN  /\ damages = 0 /\ n <= MaxEvents
      /\ event' = [event EXCEPT ![v][n] = [row EXCEPT !.hash = EventHash(v, n, row)]]
      /\ payload' = [payload EXCEPT ![v] = text]
      /\ wrote' = [wrote EXCEPT ![v] = Append(@, [entry |-> entry, digest |-> text])]
      /\ UNCHANGED damages

-----------------------------------------------------------------------------
(* Something else.                                                         *)

StoredRows == {event[v][n] : v \in Versions, n \in Sequences}

\* A row is lost, comes from elsewhere, or has a column with another value.
Changes(row) ==
  {NoEvent} \cup StoredRows
    \cup {[row EXCEPT !.entry = e] : e \in Entries}
    \cup {[row EXCEPT !.digest = d] : d \in Digests}
    \cup {[row EXCEPT !.previous = r.previous] : r \in StoredRows}
    \cup {[row EXCEPT !.hash = r.hash] : r \in StoredRows}

DamageRow(v, n) ==
  /\ damages < MaxDamages
  /\ \E row \in Changes(event[v][n]) : row # event[v][n] /\ event' = [event EXCEPT ![v][n] = row]
  /\ damages' = damages + 1
  /\ UNCHANGED <<payload, wrote>>

\* A text is changed, or the row of a version is lost.
DamagePayload(v) ==
  /\ damages < MaxDamages
  /\ \E text \in Payloads \cup {NoPayload} : text # payload[v] /\ payload' = [payload EXCEPT ![v] = text]
  /\ damages' = damages + 1
  /\ UNCHANGED <<event, wrote>>

-----------------------------------------------------------------------------
(* verify_database.                                                        *)

\* _verify_audit_event_chains
ChainHolds(v) ==
  /\ Rows(v) = 1 .. Last(v)
  /\ \A n \in Rows(v) :
       /\ event[v][n].previous = IF n = 1 THEN NoHash ELSE event[v][n - 1].hash
       /\ event[v][n].hash = EventHash(v, n, event[v][n])

\* _verify_audit_content_hashes: a digest or a version that is not there is passed over.
ContentHolds(v) ==
  Last(v) # 0 =>
    \/ event[v][Last(v)].digest = NoDigest \/ payload[v] = NoPayload
    \/ event[v][Last(v)].digest = payload[v]

Verified == \A v \in Versions : ChainHolds(v) /\ ContentHolds(v)

ChainInit ==
  /\ event = [v \in Versions |-> [n \in Sequences |-> NoEvent]]
  /\ payload = [v \in Versions |-> NoPayload]
  /\ wrote = [v \in Versions |-> <<>>]
  /\ damages = 0

ChainNext ==
  \E v \in Versions :
    \/ \E entry \in Entries, text \in Payloads : AppendEvent(v, entry, text)
    \/ \E entry \in Entries : AppendEvent(v, entry, payload[v])
    \/ \E n \in Sequences : DamageRow(v, n)
    \/ DamagePayload(v)

ChainSpec == ChainInit /\ [][ChainNext]_chainVars

-----------------------------------------------------------------------------
ChainTypeOK ==
  /\ \A v \in Versions : \A n \in Sequences :
       event[v][n].entry \in Entries \cup {"none"} /\ event[v][n].digest \in Digests
  /\ payload \in [Versions -> Payloads \cup {NoPayload}]
  /\ damages \in 0 .. MaxDamages

Prefix(v) == [n \in 1 .. Last(v) |-> [entry |-> event[v][n].entry, digest |-> event[v][n].digest]]

\* What the application has written always verifies.  Of anything else, what verifies are
\* trails that were cut off at their end, and nothing else: no event is changed, left out,
\* moved to another version, or in another order; and a text that is there is the one of the
\* last event that is left, unless that is of an old version of the program.
VerifiedIsWritten ==
  /\ damages = 0 => Verified
  /\ Verified => \A v \in Versions :
       /\ Last(v) <= Len(wrote[v]) /\ Prefix(v) = SubSeq(wrote[v], 1, Last(v))
       /\ Last(v) # 0 => payload[v] \in {NoPayload, wrote[v][Last(v)].digest}
                          \/ wrote[v][Last(v)].digest = NoDigest
=============================================================================
