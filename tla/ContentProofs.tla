----------------------------- MODULE ContentProofs -----------------------------
(***************************************************************************)
(* What TLAPS proves of the components that hold or judge content, and of  *)
(* all of them side by side.                                               *)
(***************************************************************************)
EXTENDS Content, FiniteSetTheorems, SequenceTheorems, WellFoundedInduction, TLAPS

-----------------------------------------------------------------------------
(* Documents and their ownership.                                          *)
(*                                                                         *)
(* A file goes away only through an undo, so that whoever registers a      *)
(* document has its file or can name the undo (UploadInv).  No row is      *)
(* written while a reconciliation holds the lock: what it has found of the *)
(* rows still holds when it commits (PlanInv).                             *)

\* An upload that found no file has failed to register the document, and removed it.
Undone(d) ==
  \E y \in Uploads : upload[y].pc = "failed" /\ upload[y].created /\ upload[y].document = d

UploadInv ==
  \A x \in Uploads :
    /\ upload[x].pc \in {"registering", "done"} =>
         upload[x].document \in Stored \/ Undone(upload[x].document)
    /\ upload[x].pc = "done" => upload[x].document \in Registered
    /\ upload[x].pc = "undoing" => upload[x].created

\* Of what was inspected, everything is registered, planned, or an issue, and nothing that
\* is planned is registered.
PlanInv ==
  /\ ~ plan.on => plan = NoPlan
  /\ \A d \in plan.seen \ plan.todo :
       plan.issues \/ d \in Registered \/ \E u \in Users \cup {Nobody} : <<d, u>> \in plan.adds
  /\ \A d \in Documents, u \in Users \cup {Nobody} :
       <<d, u>> \in plan.adds => d \in plan.seen /\ d \notin Registered

DocumentsInv == DocumentsTypeOK /\ UploadInv /\ PlanInv

LEMMA ConstantsDiffer ==
  /\ NoRow \notin Users \cup {Nobody} /\ NoFile \notin Users \cup {Nobody}
  /\ Foreign \notin Users \cup {Nobody}
BY DocumentsAssumption DEF DocumentsAssumption

\* What a request that goes on changes.
LEMMA UploadStep ==
  ASSUME upload \in [Uploads -> Upload], NEW x \in Uploads, NEW pc, UploadTo(x, pc),
         pc \in {"new", "writing", "registering", "undoing", "done", "refused", "failed", "lost"}
  PROVE  /\ upload' \in [Uploads -> Upload]
         /\ \A y \in Uploads \ {x} : upload'[y] = upload[y]
         /\ upload'[x].pc = pc /\ upload'[x].document = upload[x].document
         /\ upload'[x].created = upload[x].created
<1>1. PICK r : r = [upload[x] EXCEPT !.pc = pc]
  OBVIOUS
<1>2. upload' = [upload EXCEPT ![x] = r]
  BY <1>1 DEF UploadTo
<1>3. upload[x] \in Upload
  OBVIOUS
<1>4. /\ r \in Upload /\ r.pc = pc /\ r.document = upload[x].document
      /\ r.created = upload[x].created
  BY <1>1, <1>3, Zenon DEF Upload
<1> QED
  BY <1>2, <1>4

\* UploadInv survives a step of one upload that takes no file and no row away.
LEMMA UploadInvStep ==
  ASSUME DocumentsInv, NEW x \in Uploads, upload[x].pc # "failed",
         \A y \in Uploads \ {x} : upload'[y] = upload[y],
         Stored \subseteq Stored', Registered \subseteq Registered',
         upload'[x].pc \in {"registering", "done"} =>
           upload'[x].document \in Stored' \/ Undone(upload'[x].document),
         upload'[x].pc = "done" => upload'[x].document \in Registered',
         upload'[x].pc = "undoing" => upload'[x].created
  PROVE  UploadInv'
<1>1. \A d : Undone(d) =>
        \E y \in Uploads :
          upload'[y].pc = "failed" /\ upload'[y].created /\ upload'[y].document = d
  BY DEF Undone
<1>2. UploadInv
  BY DEF DocumentsInv
<1>3. ASSUME NEW y \in Uploads
      PROVE  /\ upload'[y].pc \in {"registering", "done"} =>
                  upload'[y].document \in Stored' \/ Undone(upload'[y].document)
             /\ upload'[y].pc = "done" => upload'[y].document \in Registered'
             /\ upload'[y].pc = "undoing" => upload'[y].created
  <2>1. CASE y = x
    BY <2>1
  <2>2. CASE y # x
    BY <1>2, <2>2 DEF UploadInv
  <2> QED
    BY <2>1, <2>2
<1> QED
  BY <1>1, <1>3 DEF UploadInv, Undone

\* PlanInv depends on the plan and the rows only.
LEMMA PlanInvFrame ==
  ASSUME DocumentsInv, plan' = plan, row' = row
  PROVE  PlanInv'
BY DEF DocumentsInv, PlanInv, Registered

\* What an upload does to its file, and what it leaves alone.
LEMMA UploadActionInv ==
  ASSUME DocumentsInv, NEW x \in Uploads,
         \/ Reject(x) \/ StoreFile(x) \/ StoreFails(x) \/ RegisterOwner(x) \/ RegisterFails(x)
         \/ LoseUpload(x) \/ \E d \in Documents, u \in Users : Look(x, d, u)
  PROVE  DocumentsInv'
<1>1. /\ upload \in [Uploads -> Upload] /\ upload[x] \in Upload /\ upload[x].document \in Documents
      /\ file \in [Documents -> Users \cup {Nobody, Foreign, NoFile}]
      /\ row \in [Documents -> Users \cup {Nobody, NoRow}]
  BY DEF DocumentsInv, DocumentsTypeOK, Upload
<1>2. CASE Reject(x) \/ StoreFails(x) \/ LoseUpload(x)
  <2>1. PICK pc \in {"refused", "lost"} : UploadTo(x, pc)
    BY <1>2 DEF Reject, StoreFails, LoseUpload
  <2>2. /\ upload' \in [Uploads -> Upload] /\ upload'[x].pc = pc
        /\ \A y \in Uploads \ {x} : upload'[y] = upload[y]
    BY <1>1, <2>1, UploadStep
  <2>3. file' = file /\ row' = row /\ plan' = plan /\ upload[x].pc # "failed"
    BY <1>2 DEF Reject, StoreFails, LoseUpload
  <2>4. UploadInv'
    BY <2>2, <2>3, UploadInvStep DEF Stored, Registered
  <2> QED
    BY <2>2, <2>3, <2>4, PlanInvFrame DEF DocumentsInv, DocumentsTypeOK
<1>3. CASE StoreFile(x)
  <2>1. /\ upload' \in [Uploads -> Upload] /\ upload'[x].pc = "registering"
        /\ upload'[x].document = upload[x].document
        /\ \A y \in Uploads \ {x} : upload'[y] = upload[y]
    BY <1>1, <1>3, UploadStep DEF StoreFile
  <2>2. /\ file' = [file EXCEPT ![upload[x].document] = upload[x].user]
        /\ row' = row /\ plan' = plan /\ upload[x].pc # "failed"
    BY <1>3 DEF StoreFile
  <2>3. upload[x].user \in Users \cup {Nobody}
    BY <1>1 DEF Upload
  <2>4. file' \in [Documents -> Users \cup {Nobody, Foreign, NoFile}]
    BY <1>1, <2>2, <2>3
  <2>5. Stored \subseteq Stored' /\ upload[x].document \in Stored'
    BY <1>1, <2>2, <2>3, ConstantsDiffer DEF Stored
  <2>6. UploadInv'
    BY <2>1, <2>2, <2>5, UploadInvStep DEF Registered
  <2> QED
    BY <2>1, <2>2, <2>4, <2>6, PlanInvFrame DEF DocumentsInv, DocumentsTypeOK
<1>4. CASE RegisterOwner(x)
  <2>1. /\ upload' \in [Uploads -> Upload] /\ upload'[x].pc = "done"
        /\ upload'[x].document = upload[x].document
        /\ \A y \in Uploads \ {x} : upload'[y] = upload[y]
    BY <1>1, <1>4, UploadStep DEF RegisterOwner
  <2>2. /\ row' = [row EXCEPT ![upload[x].document] =
                      IF upload[x].document \in Registered THEN @ ELSE upload[x].user]
        /\ file' = file /\ plan' = plan /\ upload[x].pc = "registering" /\ ~ plan.on
    BY <1>4 DEF RegisterOwner
  <2>3. upload[x].user \in Users \cup {Nobody}
    BY <1>1 DEF Upload
  <2>4. row' \in [Documents -> Users \cup {Nobody, NoRow}]
    BY <1>1, <2>2, <2>3
  <2>5. Registered \subseteq Registered' /\ upload[x].document \in Registered'
    BY <1>1, <2>2, <2>3, ConstantsDiffer DEF Registered
  <2>6. UploadInv'
    <3>1. upload[x].document \in Stored \/ Undone(upload[x].document)
      BY <2>2 DEF DocumentsInv, UploadInv
    <3> QED
      BY <2>1, <2>2, <2>5, <3>1, UploadInvStep DEF Stored
  <2>7. PlanInv'
    BY <2>2 DEF DocumentsInv, PlanInv, NoPlan
  <2> QED
    BY <2>1, <2>2, <2>4, <2>6, <2>7 DEF DocumentsInv, DocumentsTypeOK
<1>5. CASE RegisterFails(x)
  <2>1. PICK pc \in {"undoing", "failed"} : UploadTo(x, pc) /\ (pc = "undoing" => upload[x].created)
    BY <1>5, Zenon DEF RegisterFails
  <2>2. /\ upload' \in [Uploads -> Upload] /\ upload'[x].pc = pc
        /\ upload'[x].created = upload[x].created
        /\ \A y \in Uploads \ {x} : upload'[y] = upload[y]
    BY <1>1, <2>1, UploadStep
  <2>3. file' = file /\ row' = row /\ plan' = plan /\ upload[x].pc # "failed"
    BY <1>5 DEF RegisterFails
  <2>4. UploadInv'
    BY <2>1, <2>2, <2>3, UploadInvStep DEF Stored, Registered
  <2> QED
    BY <2>2, <2>3, <2>4, PlanInvFrame DEF DocumentsInv, DocumentsTypeOK
<1>6. ASSUME NEW d \in Documents, NEW u \in Users, Look(x, d, u)
      PROVE  DocumentsInv'
  <2>1. PICK c \in BOOLEAN : c = (d \notin Stored)
    OBVIOUS
  <2>2. PICK pc : pc = IF d \in Stored THEN "registering" ELSE "writing"
    OBVIOUS
  <2>3. PICK r : r = [pc |-> pc, document |-> d, user |-> u, created |-> c]
    OBVIOUS
  <2>4. r \in Upload /\ r.pc = pc /\ r.document = d
    BY <2>1, <2>2, <2>3 DEF Upload
  <2>5. upload' = [upload EXCEPT ![x] = r]
    BY <1>6, <2>1, <2>2, <2>3, Zenon DEF Look
  <2>6. /\ upload' \in [Uploads -> Upload] /\ upload'[x] = r
        /\ \A y \in Uploads \ {x} : upload'[y] = upload[y]
    BY <1>1, <2>4, <2>5
  <2>7. file' = file /\ row' = row /\ plan' = plan /\ upload[x].pc # "failed"
    BY <1>6 DEF Look
  <2>8. pc = "writing" \/ (pc = "registering" /\ d \in Stored)
    BY <2>2
  <2>9. UploadInv'
    BY <2>4, <2>6, <2>7, <2>8, UploadInvStep DEF Stored, Registered
  <2> QED
    BY <2>6, <2>7, <2>9, PlanInvFrame DEF DocumentsInv, DocumentsTypeOK
<1> QED
  BY <1>2, <1>3, <1>4, <1>5, <1>6

\* An undo takes the file away, and says so.
LEMMA UndoInv == ASSUME DocumentsInv, NEW x \in Uploads, Undo(x) PROVE DocumentsInv'
<1>1. /\ upload \in [Uploads -> Upload] /\ upload[x].document \in Documents
      /\ file \in [Documents -> Users \cup {Nobody, Foreign, NoFile}]
  BY DEF DocumentsInv, DocumentsTypeOK, Upload
<1>2. /\ upload' \in [Uploads -> Upload] /\ upload'[x].pc = "failed"
      /\ upload'[x].document = upload[x].document
      /\ upload'[x].created = upload[x].created
      /\ \A y \in Uploads \ {x} : upload'[y] = upload[y]
  BY <1>1, UploadStep DEF Undo
<1>3. /\ file' = [file EXCEPT ![upload[x].document] = NoFile]
      /\ row' = row /\ plan' = plan /\ upload[x].pc = "undoing"
  BY DEF Undo
<1>4. upload[x].created /\ UploadInv
  BY <1>3 DEF DocumentsInv, UploadInv
<1>5. Undone(upload[x].document)' /\ \A d : Undone(d) => Undone(d)'
  BY <1>2, <1>3, <1>4 DEF Undone
<1>6. \A d \in Stored : d \in Stored' \/ d = upload[x].document
  BY <1>1, <1>3 DEF Stored
<1>7. UploadInv'
  BY <1>2, <1>3, <1>4, <1>5, <1>6 DEF UploadInv, Undone, Registered
<1>8. file' \in [Documents -> Users \cup {Nobody, Foreign, NoFile}]
  BY <1>1, <1>3
<1> QED
  BY <1>2, <1>3, <1>7, <1>8, PlanInvFrame DEF DocumentsInv, DocumentsTypeOK

-----------------------------------------------------------------------------
(* The reconciliation.                                                     *)

\* The rows that a commit leaves.
LEMMA CommitRows ==
  ASSUME DocumentsInv, CommitReconciliation
  PROVE  /\ row' \in [Documents -> Users \cup {Nobody, NoRow}]
         /\ \A d \in Registered : row'[d] = row[d]
         /\ Registered \subseteq Registered'
         /\ row' # row => Registered' = plan.seen
<1> DEFINE Planned(d) == \E u \in Users \cup {Nobody} : <<d, u>> \in plan.adds
<1> DEFINE Owner(d) == CHOOSE u \in Users \cup {Nobody} : <<d, u>> \in plan.adds
<1> DEFINE blocked == plan.issues \/ ~ Registered \subseteq plan.seen
<1>1. /\ row \in [Documents -> Users \cup {Nobody, NoRow}]
      /\ row' = [d \in Documents |-> IF ~ blocked /\ Planned(d) THEN Owner(d) ELSE row[d]]
      /\ plan.on /\ plan.todo = {} /\ PlanInv /\ plan.seen \subseteq Documents
  BY DEF DocumentsInv, DocumentsTypeOK, CommitReconciliation, Plan
<1>2. \A d \in Documents : Planned(d) => Owner(d) \in Users \cup {Nobody}
  OBVIOUS
<1>3. \A d \in Documents : Planned(d) => d \in plan.seen /\ d \notin Registered
  BY <1>1 DEF PlanInv
<1>4. \A d \in plan.seen : plan.issues \/ d \in Registered \/ Planned(d)
  BY <1>1 DEF PlanInv
<1> HIDE DEF Planned, Owner
<1>5. row' \in [Documents -> Users \cup {Nobody, NoRow}]
  BY <1>1, <1>2
<1>6. \A d \in Documents : row'[d] = IF ~ blocked /\ Planned(d) THEN Owner(d) ELSE row[d]
  BY <1>1
<1>7. \A d \in Registered : d \in Documents /\ row'[d] = row[d] /\ row[d] # NoRow
  BY <1>3, <1>6 DEF Registered
<1>8. Registered \subseteq Registered'
  BY <1>7 DEF Registered
<1>9. ASSUME row' # row PROVE Registered' = plan.seen
  <2>1. ~ blocked
    <3>1. SUFFICES ASSUME blocked PROVE row' = row
      BY <1>9
    <3>2. \A d \in Documents : row'[d] = row[d]
      BY <1>6, <3>1
    <3> QED
      BY <1>1, <1>5, <3>2
  <2>2. \A d \in Documents : Planned(d) => row'[d] # NoRow
    BY <1>2, <1>6, <2>1, ConstantsDiffer
  <2>3. \A d \in plan.seen : d \in Documents /\ row'[d] # NoRow
    BY <1>1, <1>4, <1>7, <2>1, <2>2
  <2>4. \A d \in Documents : row'[d] # NoRow => d \in plan.seen
    BY <1>3, <1>6, <2>1 DEF Registered
  <2> QED
    BY <1>1, <2>3, <2>4 DEF Registered
<1> QED
  BY <1>5, <1>7, <1>8, <1>9

\* UploadInv depends on the uploads and on what is stored, and rows only add to it.
LEMMA UploadInvFrame ==
  ASSUME DocumentsInv, upload' = upload, file' = file, Registered \subseteq Registered'
  PROVE  UploadInv'
BY DEF DocumentsInv, UploadInv, Stored, Undone

LEMMA InspectInv ==
  ASSUME DocumentsInv, NEW d \in Documents, InspectDocument(d)
  PROVE  DocumentsInv'
<1>1. PICK refused \in BOOLEAN :
        refused = (file[d] \in {NoFile, Foreign} \/ (d \in Registered /\ row[d] # file[d]))
  OBVIOUS
<1>2. PICK new : new = IF refused \/ d \in Registered THEN {} ELSE {<<d, file[d]>>}
  OBVIOUS
<1>3. PICK issues \in BOOLEAN : issues = (plan.issues \/ refused)
  OBVIOUS
<1>4. /\ plan' = [on |-> plan.on, seen |-> plan.seen, todo |-> plan.todo \ {d},
                  issues |-> issues, adds |-> plan.adds \cup new]
      /\ d \in plan.todo /\ file' = file /\ row' = row /\ upload' = upload
  BY <1>1, <1>2, <1>3, Zenon DEF InspectDocument
<1>5. /\ plan \in Plan /\ plan.todo \subseteq plan.seen /\ PlanInv
      /\ file \in [Documents -> Users \cup {Nobody, Foreign, NoFile}]
  BY DEF DocumentsInv, DocumentsTypeOK
<1>6. refused \/ file[d] \in Users \cup {Nobody}
  BY <1>1, <1>5
<1>7. new \in SUBSET (Documents \X (Users \cup {Nobody}))
  BY <1>2, <1>6
<1>8. plan.on /\ plan' \in Plan /\ plan'.todo \subseteq plan'.seen
  <2>1. plan.on
    BY <1>4, <1>5 DEF PlanInv, NoPlan
  <2>2. /\ plan.on \in BOOLEAN /\ plan.seen \in SUBSET Documents
        /\ plan.todo \in SUBSET Documents
        /\ plan.adds \in SUBSET (Documents \X (Users \cup {Nobody}))
    BY <1>5, Zenon DEF Plan
  <2>3. /\ plan.todo \ {d} \in SUBSET Documents
        /\ plan.adds \cup new \in SUBSET (Documents \X (Users \cup {Nobody}))
    BY <1>7, <2>2
  <2>4. plan' \in Plan
    BY <1>4, <2>2, <2>3, Zenon DEF Plan
  <2>5. plan'.todo = plan.todo \ {d} /\ plan'.seen = plan.seen
    BY <1>4
  <2> QED
    BY <1>5, <2>1, <2>4, <2>5
<1>9. PlanInv'
  <2>1. /\ plan'.on = plan.on /\ plan'.seen = plan.seen /\ plan'.todo = plan.todo \ {d}
        /\ plan'.adds = plan.adds \cup new
    BY <1>4
  <2>2. plan'.issues = issues
    BY <1>4, Zenon
  <2>3. Registered' = Registered
    BY <1>4 DEF Registered
  <2>4. plan.issues \/ refused => plan'.issues
    BY <1>3, <2>2, Zenon
  <2>5. refused \/ d \in Registered \/ \E u \in Users \cup {Nobody} : <<d, u>> \in plan'.adds
    BY <1>2, <1>6, <2>1
  <2>6. \A e \in plan'.seen \ plan'.todo :
          plan'.issues \/ e \in Registered \/ \E u \in Users \cup {Nobody} : <<e, u>> \in plan'.adds
    <3> TAKE e \in plan'.seen \ plan'.todo
    <3>1. CASE e = d
      BY <2>4, <2>5, <3>1
    <3>2. CASE e # d
      BY <1>5, <2>1, <2>4, <3>2 DEF PlanInv
    <3> QED
      BY <3>1, <3>2
  <2>7. \A e \in Documents, u \in Users \cup {Nobody} :
          <<e, u>> \in plan'.adds => e \in plan'.seen /\ e \notin Registered
    BY <1>2, <1>4, <1>5, <2>1 DEF PlanInv
  <2> QED
    BY <1>8, <2>1, <2>3, <2>6, <2>7 DEF PlanInv
<1> QED
  BY <1>4, <1>8, <1>9, UploadInvFrame DEF DocumentsInv, DocumentsTypeOK, Registered

\* When no reconciliation runs, there is nothing to know of its plan.
LEMMA NoPlanInv ==
  ASSUME plan' = NoPlan
  PROVE  PlanInv' /\ plan' \in Plan /\ plan'.todo \subseteq plan'.seen
BY DEF PlanInv, NoPlan, Plan

LEMMA ReconciliationInv ==
  ASSUME DocumentsInv, BeginReconciliation \/ CommitReconciliation \/ LoseReconciliation
  PROVE  DocumentsInv'
<1>1. CASE BeginReconciliation
  <2>1. /\ plan' = [on |-> TRUE, seen |-> Stored, todo |-> Stored, adds |-> {}, issues |-> FALSE]
        /\ file' = file /\ row' = row /\ upload' = upload
    BY <1>1 DEF BeginReconciliation
  <2>2. Stored \subseteq Documents
    BY DEF Stored
  <2>3. plan' \in Plan /\ plan'.todo \subseteq plan'.seen /\ PlanInv'
    BY <2>1, <2>2 DEF Plan, PlanInv
  <2> QED
    BY <2>1, <2>3, UploadInvFrame DEF DocumentsInv, DocumentsTypeOK, Registered
<1>2. CASE CommitReconciliation
  <2>1. plan' = NoPlan /\ file' = file /\ upload' = upload
    BY <1>2 DEF CommitReconciliation
  <2> QED
    BY <1>2, <2>1, CommitRows, NoPlanInv, UploadInvFrame DEF DocumentsInv, DocumentsTypeOK
<1>3. CASE LoseReconciliation
  <2>1. plan' = NoPlan /\ file' = file /\ upload' = upload /\ row' = row
    BY <1>3 DEF LoseReconciliation
  <2> QED
    BY <2>1, NoPlanInv, UploadInvFrame DEF DocumentsInv, DocumentsTypeOK, Registered
<1> QED
  BY <1>1, <1>2, <1>3

-----------------------------------------------------------------------------
LEMMA DocumentsInitInv == DocumentsInit => DocumentsInv
<1> SUFFICES ASSUME DocumentsInit PROVE DocumentsInv
  OBVIOUS
<1>1. PICK e : e = CHOOSE d \in Documents : TRUE
  OBVIOUS
<1>2. e \in Documents
  BY <1>1, DocumentsAssumption DEF DocumentsAssumption
<1>3. upload \in [Uploads -> [pc : {"new"}, document : {e}, user : {Nobody}, created : {FALSE}]]
  BY <1>1 DEF DocumentsInit
<1>4. \A x \in Uploads : upload[x] \in Upload /\ upload[x].pc = "new"
  BY <1>2, <1>3 DEF Upload
<1>5. upload \in [Uploads -> Upload] /\ UploadInv
  BY <1>3, <1>4 DEF UploadInv
<1>6. DocumentsTypeOK
  BY <1>5 DEF DocumentsInit, DocumentsTypeOK, Plan, NoPlan
<1>7. PlanInv
  BY DEF DocumentsInit, PlanInv, NoPlan
<1> QED
  BY <1>5, <1>6, <1>7 DEF DocumentsInv

LEMMA DocumentsNextInv == DocumentsInv /\ [DocumentsNext]_documentsVars => DocumentsInv'
<1> SUFFICES ASSUME DocumentsInv, [DocumentsNext]_documentsVars PROVE DocumentsInv'
  OBVIOUS
<1>1. ASSUME NEW x \in Uploads, Undo(x) PROVE DocumentsInv'
  BY <1>1, UndoInv
<1>2. ASSUME NEW d \in Documents, InspectDocument(d) PROVE DocumentsInv'
  BY <1>2, InspectInv
<1>3. CASE UNCHANGED documentsVars
  <2>1. plan' = plan /\ row' = row /\ file' = file /\ upload' = upload
    BY <1>3 DEF documentsVars
  <2> QED
    BY <2>1, PlanInvFrame, UploadInvFrame DEF DocumentsInv, DocumentsTypeOK, Registered
<1> QED
  BY <1>1, <1>2, <1>3, UploadActionInv, ReconciliationInv DEF DocumentsNext

\* DocumentsInv holds at any time.
LEMMA DocumentsInvariant == DocumentsSpec => []DocumentsInv
BY DocumentsInitInv, DocumentsNextInv, PTL DEF DocumentsSpec

\* Files, rows, requests and the plan of a reconciliation keep their types.
THEOREM DocumentsTypeTheorem == DocumentsSpec => []DocumentsTypeOK
<1>1. DocumentsInv => DocumentsTypeOK
  BY DEF DocumentsInv
<1> QED
  BY <1>1, DocumentsInvariant, PTL

\* However many requests upload a document, what one of them has answered with success is
\* stored and registered, unless another one which created the file has undone it.
THEOREM UploadedTheorem == DocumentsSpec => []UploadedIsStored
<1>1. DocumentsInv => UploadedIsStored
  BY DEF DocumentsInv, UploadInv, UploadedIsStored, Listed, Undone
<1> QED
  BY <1>1, DocumentsInvariant, PTL

\* A reconciliation registers all it has seen or nothing, whatever runs beside it.
THEOREM ReconcilesTheorem == DocumentsSpec => ReconcilesAllOrNothing
<1>1. DocumentsInv /\ [DocumentsNext]_documentsVars =>
        [plan.on /\ row' # row =>
           /\ {d \in Documents : row'[d] # NoRow} = plan.seen
           /\ \A d \in Registered : row'[d] = row[d]]_documentsVars
  <2> SUFFICES ASSUME DocumentsInv, DocumentsNext, plan.on, row' # row
               PROVE  /\ {d \in Documents : row'[d] # NoRow} = plan.seen
                      /\ \A d \in Registered : row'[d] = row[d]
    BY DEF documentsVars
  <2>1. CommitReconciliation
    BY DEF DocumentsNext, Reject, Look, StoreFile, StoreFails, RegisterOwner, RegisterFails, Undo,
           LoseUpload, BeginReconciliation, InspectDocument, LoseReconciliation
  <2> QED
    BY <2>1, CommitRows DEF Registered
<1> QED
  BY <1>1, DocumentsInvariant, PTL DEF DocumentsSpec, ReconcilesAllOrNothing

-----------------------------------------------------------------------------
(* Outbound requests and downloads.                                        *)
(*                                                                         *)
(* What ConnectsWhereChecked says of a connection is decided earlier:      *)
(* EgressInv says it of the addresses that a request has been given, and   *)
(* of its headers from the start, so that no change of the names matters.  *)
(* DownloadIsWhole needs to know that nothing is written before the        *)
(* streams were checked.                                                   *)

\* The addresses a request may connect to, once it has any, and its headers.
RequestInv ==
  /\ fetch.pc \in {"connecting", "connected"} =>
       fetch.targets \subseteq Public /\ Host(fetch.url) \in AllowedHosts
  /\ fetch.pc = "connected" => fetch.address \subseteq fetch.targets
  /\ fetch.secrets \in {NoOrigin, fetch.url}

\* Only a download whose streams were checked has a file.
FileInv ==
  /\ download.pc \in {"given", "metadata", "info", "refused"} => download.file = "none"
  /\ download.pc = "finished" => download.file = "video"

EgressInv == EgressTypeOK /\ RequestInv /\ FileInv

\* A request that is over has no addresses and no headers.
LEMMA NoFetchInv ==
  /\ NoFetch \in Fetch /\ NoFetch.pc = "none" /\ NoFetch.secrets = NoOrigin
  /\ NoFetch = [pc |-> "none", url |-> NoFetch.url, targets |-> {}, address |-> {},
                secrets |-> NoOrigin, hops |-> 0]
<1>1. Urls # {}
  <2>1. PICK h \in Hosts : TRUE
    BY EgressAssumption DEF EgressAssumption
  <2>2. <<h, "http">> \in Urls
    BY <2>1 DEF Urls
  <2> QED
    BY <2>2
<1>2. PICK u : u = CHOOSE v \in Urls : TRUE
  OBVIOUS
<1>3. u \in Urls
  BY <1>1, <1>2
<1>4. NoFetch = [pc |-> "none", url |-> u, targets |-> {}, address |-> {},
                 secrets |-> NoOrigin, hops |-> 0]
  BY <1>2 DEF NoFetch
<1>5. 0 \in 0 .. MaxHops
  BY EgressAssumption DEF EgressAssumption
<1> QED
  BY <1>3, <1>4, <1>5 DEF Fetch

LEMMA EgressInitInv == EgressInit => EgressInv
<1> SUFFICES ASSUME EgressInit PROVE EgressInv
  OBVIOUS
<1>1. EgressTypeOK
  BY NoFetchInv DEF EgressInit, EgressTypeOK, Download
<1>2. RequestInv
  BY NoFetchInv DEF EgressInit, RequestInv
<1>3. FileInv
  BY DEF EgressInit, FileInv
<1> QED
  BY <1>1, <1>2, <1>3 DEF EgressInv

\* A download that takes a step of its own leaves the request alone.
LEMMA DownloadStep ==
  ASSUME EgressInv, CheckUrl \/ EndMetadata \/ CheckStreams \/ Save \/ Finish
  PROVE  EgressInv'
<1>1. fetch' = fetch /\ dns' = dns
  BY DEF CheckUrl, EndMetadata, CheckStreams, Save, Finish
<1>2. RequestInv'
  BY <1>1 DEF EgressInv, RequestInv
<1>3. download \in Download /\ FileInv
  BY DEF EgressInv, EgressTypeOK
<1>4. download' \in Download /\ FileInv'
  <2>1. CASE CheckUrl
    BY <1>3, <2>1 DEF CheckUrl, Goes, Download, FileInv
  <2>2. CASE EndMetadata
    BY <1>3, <2>2 DEF EndMetadata, Goes, Download, FileInv
  <2>3. CASE CheckStreams
    BY <1>3, <2>3 DEF CheckStreams, Goes, Download, FileInv
  <2>4. CASE Save
    BY <1>3, <2>4 DEF Save, Download, FileInv
  <2>5. CASE Finish
    BY <1>3, <2>5 DEF Finish, Download, FileInv
  <2> QED
    BY <2>1, <2>2, <2>3, <2>4, <2>5
<1> QED
  BY <1>1, <1>2, <1>4 DEF EgressInv, EgressTypeOK

\* What a request that fails leaves behind.
LEMMA FailInv ==
  ASSUME EgressInv, Fail, dns' = dns
  PROVE  EgressInv'
<1>1. fetch' = NoFetch
  BY DEF Fail
<1>2. download' \in Download /\ FileInv'
  BY DEF Fail, EgressInv, EgressTypeOK, Download, FileInv
<1>3. RequestInv'
  BY <1>1, NoFetchInv DEF RequestInv
<1> QED
  BY <1>1, <1>2, <1>3, NoFetchInv DEF EgressInv, EgressTypeOK

\* A request that takes a step, and does not fail, leaves the download alone.
LEMMA RequestStep ==
  ASSUME EgressInv, dns' = dns, download' = download, fetch' \in Fetch, RequestInv'
  PROVE  EgressInv'
BY DEF EgressInv, EgressTypeOK, FileInv

\* The names that were looked up are those of the addresses which are connected later.
LEMMA PinInv == ASSUME EgressInv, Pin PROVE EgressInv'
<1>1. fetch \in Fetch /\ dns \in [Hosts -> SUBSET Addresses] /\ dns' = dns
  BY DEF EgressInv, EgressTypeOK, Pin
<1>2. CASE Resolves(fetch.url)
  <2>1. /\ fetch' = [fetch EXCEPT !.pc = "connecting", !.targets = dns[Host(fetch.url)]]
        /\ download' = download
    BY <1>2 DEF Pin
  <2>2. fetch.url \in Urls /\ Host(fetch.url) \in Hosts
    BY <1>1 DEF Fetch, Urls, Host
  <2>3. dns[Host(fetch.url)] \in SUBSET Addresses
    BY <1>1, <2>2
  <2>4. fetch' \in Fetch
    BY <1>1, <2>1, <2>3 DEF Fetch
  <2>5. /\ fetch'.pc = "connecting" /\ fetch'.targets = dns[Host(fetch.url)]
        /\ fetch'.url = fetch.url /\ fetch'.secrets = fetch.secrets
    BY <1>1, <2>1 DEF Fetch
  <2>6. RequestInv'
    BY <1>2, <2>5 DEF EgressInv, RequestInv, Resolves
  <2> QED
    BY <1>1, <2>1, <2>4, <2>6, RequestStep
<1>3. CASE ~ Resolves(fetch.url)
  BY <1>1, <1>3, FailInv DEF Pin
<1> QED
  BY <1>2, <1>3

LEMMA ConnectInv == ASSUME EgressInv, Connect PROVE EgressInv'
<1>1. PICK a \in fetch.targets : fetch' = [fetch EXCEPT !.pc = "connected", !.address = {a}]
  BY DEF Connect
<1>2. fetch \in Fetch /\ fetch.targets \subseteq Addresses
  BY DEF EgressInv, EgressTypeOK, Fetch
<1>3. fetch' \in Fetch
  BY <1>1, <1>2 DEF Fetch
<1>4. /\ fetch'.targets = fetch.targets /\ fetch'.address = {a}
      /\ fetch'.url = fetch.url /\ fetch'.secrets = fetch.secrets
  BY <1>1, <1>2 DEF Fetch
<1>5. RequestInv'
  BY <1>1, <1>4 DEF Connect, EgressInv, RequestInv
<1> QED
  BY <1>3, <1>5, RequestStep DEF Connect

\* A redirect starts the request anew, and another origin does not get the headers.
LEMMA RedirectInv == ASSUME EgressInv, NEW url \in Urls, Redirect(url) PROVE EgressInv'
<1>1. fetch \in Fetch /\ dns' = dns
  BY DEF EgressInv, EgressTypeOK, Redirect
<1>2. CASE Resolves(url)
  <2>1. PICK s : s = IF url = fetch.url THEN fetch.secrets ELSE NoOrigin
    OBVIOUS
  <2>2. /\ fetch' = [fetch EXCEPT !.pc = "asked", !.url = url, !.hops = @ + 1,
                                  !.targets = {}, !.address = {}, !.secrets = s]
        /\ download' = download
    BY <1>2, <2>1 DEF Redirect
  <2>3. s \in Urls \cup {NoOrigin} /\ s \in {NoOrigin, url}
    BY <1>1, <2>1 DEF EgressInv, RequestInv, Fetch
  <2>4. fetch.hops + 1 \in 0 .. MaxHops
    BY <1>1, EgressAssumption DEF EgressAssumption, Redirect, Fetch
  <2>5. fetch' \in Fetch
    BY <1>1, <2>2, <2>3, <2>4 DEF Fetch
  <2>6. fetch'.pc = "asked" /\ fetch'.url = url /\ fetch'.secrets = s
    BY <1>1, <2>2 DEF Fetch
  <2>7. RequestInv'
    BY <2>3, <2>6 DEF RequestInv
  <2> QED
    BY <1>1, <2>2, <2>5, <2>7, RequestStep
<1>3. CASE ~ Resolves(url)
  BY <1>1, <1>3, FailInv DEF Redirect
<1> QED
  BY <1>2, <1>3

LEMMA AskInv ==
  ASSUME EgressInv, NEW url \in Urls, NEW secrets \in BOOLEAN, Ask(url, secrets)
  PROVE  EgressInv'
<1>1. PICK s : s = IF secrets THEN url ELSE NoOrigin
  OBVIOUS
<1>2. fetch' = [NoFetch EXCEPT !.pc = "asked", !.url = url, !.secrets = s]
  BY <1>1 DEF Ask
<1>3. fetch' \in Fetch /\ fetch'.pc = "asked" /\ fetch'.url = url /\ fetch'.secrets = s
  BY <1>1, <1>2, NoFetchInv DEF Fetch
<1>4. RequestInv'
  BY <1>1, <1>3 DEF RequestInv
<1> QED
  BY <1>3, <1>4, RequestStep DEF Ask

LEMMA EgressNextInv == EgressInv /\ [EgressNext]_egressVars => EgressInv'
<1> SUFFICES ASSUME EgressInv, [EgressNext]_egressVars PROVE EgressInv'
  OBVIOUS
<1>1. CASE CheckUrl \/ EndMetadata \/ CheckStreams \/ Save \/ Finish
  BY <1>1, DownloadStep
<1>2. ASSUME NEW url \in Urls, Redirect(url) PROVE EgressInv'
  BY <1>2, RedirectInv
<1>3. ASSUME NEW url \in Urls, NEW secrets \in BOOLEAN, Ask(url, secrets) PROVE EgressInv'
  BY <1>3, AskInv
<1>4. CASE Pin
  BY <1>4, PinInv
<1>5. CASE Connect
  BY <1>5, ConnectInv
<1>6. CASE Answered
  <2>1. fetch' \in Fetch /\ RequestInv'
    BY <1>6, NoFetchInv DEF Answered, RequestInv
  <2> QED
    BY <1>6, <2>1, RequestStep DEF Answered
<1>7. CASE FetchFails
  BY <1>7, FailInv DEF FetchFails
<1>8. ASSUME NEW host \in Hosts, NEW addresses \in SUBSET Addresses, DnsChanges(host, addresses)
      PROVE  EgressInv'
  <2>1. dns' \in [Hosts -> SUBSET Addresses] /\ fetch' = fetch /\ download' = download
    BY <1>8 DEF DnsChanges, EgressInv, EgressTypeOK
  <2> QED
    BY <2>1 DEF EgressInv, EgressTypeOK, RequestInv, FileInv
<1>9. CASE UNCHANGED egressVars
  BY <1>9 DEF egressVars, EgressInv, EgressTypeOK, RequestInv, FileInv
<1> QED
  BY <1>1, <1>2, <1>3, <1>4, <1>5, <1>6, <1>7, <1>8, <1>9 DEF EgressNext

\* EgressInv holds of every download.
LEMMA EgressInvariant == EgressSpec => []EgressInv
BY EgressInitInv, EgressNextInv, PTL DEF EgressSpec

\* The names, the request and the download keep their types.
THEOREM EgressTypeTheorem == EgressSpec => []EgressTypeOK
<1>1. EgressInv => EgressTypeOK
  BY DEF EgressInv
<1> QED
  BY <1>1, EgressInvariant, PTL

\* Whatever a host resolves to by then, and wherever redirects lead, a connection is made
\* to an address that was checked, and its request carries no headers of another origin.
THEOREM ConnectTheorem == EgressSpec => []ConnectsWhereChecked
<1>1. EgressInv => ConnectsWhereChecked
  BY DEF EgressInv, RequestInv, ConnectsWhereChecked
<1> QED
  BY <1>1, EgressInvariant, PTL

\* No part of a refused download is left, and a finished one has a video within the limit.
THEOREM DownloadTheorem == EgressSpec => []DownloadIsWhole
<1>1. EgressInv => DownloadIsWhole
  BY DEF EgressInv, FileInv, DownloadIsWhole
<1> QED
  BY <1>1, EgressInvariant, PTL

-----------------------------------------------------------------------------
(* The retention sweep.                                                    *)
(*                                                                         *)
(* A job that was not active when the sweep began, and is now, was queued  *)
(* since: its upload is younger than the cutoff (FilesPart), since storing *)
(* one takes less time than files are kept.  An upload that was found to   *)
(* be old is of work that is over, or never had a job.  A row is there     *)
(* when the work is registered, and nothing stores the artifacts of such   *)
(* work again unless its job is active, whose upload is there (RowsPart).  *)

Active(q) == q.job \in {"queued", "running"}

WorkInv(q) ==
  /\ q.pc \in {"storing", "opened", "made", "extracted", "registered"} =>
       q.began <= time /\ time - q.began <= MaxWork
  /\ q.pc \in {"none", "storing"} => q.job = "none" /\ q.row = FALSE
  /\ q.pc = "none" => q.upload = Absent
  /\ q.pc = "storing" => q.upload = q.began
  /\ q.pc = "queued" => q.job = "queued"
  /\ q.pc = "ended" => ~ Active(q)
  /\ Active(q) => q.upload # Absent
  /\ q.row = TRUE /\ ~ Active(q) => q.pc \in {"registered", "ended"}

FilesPart(v, q) ==
  sweep.pc = "files" =>
    /\ v \notin sweep.active /\ (Active(q) \/ q.pc = "storing") => q.upload > sweep.cutoff
    /\ <<v, "upload">> \in sweep.found => ~ Active(q) /\ q.pc \notin {"none", "storing"}

RowsPart(v, q) ==
  sweep.pc = "rows" =>
    /\ v \in sweep.todo => Active(q) \/ q.pc \in {"registered", "ended"}
    /\ v \in sweep.found => /\ ~ Active(q) /\ q.pc \in {"registered", "ended"}
                            /\ q.upload = Absent /\ q.frames = Absent

Targets == Videos \cup (Videos \X Kinds)

SweepRecord == [pc : {"idle", "files", "directories", "rows", "jobs"}, cutoff : Int,
                active : SUBSET Videos, todo : SUBSET Targets, found : SUBSET Targets]

SweepInv ==
  /\ SweepTypeOK /\ sweep \in SweepRecord
  /\ sweep.pc = "files" => sweep.cutoff + MaxAge <= time
  /\ \A v \in Videos : WorkInv(video[v]) /\ FilesPart(v, video[v]) /\ RowsPart(v, video[v])

LEMMA SweepNumbers ==
  /\ MaxAge \in Nat /\ MaxWork \in Nat /\ MaxWork < MaxAge /\ MaxTime \in Nat
  /\ Absent = 0 - 1 /\ Absent \in Times /\ 0 \in 0 .. MaxTime /\ 0 .. MaxTime \subseteq Times
BY SweepAssumption DEF SweepAssumption, Absent, Times

LEMMA VideoRow ==
  ASSUME SweepInv, NEW v \in Videos
  PROVE  video[v] \in Video /\ WorkInv(video[v]) /\ FilesPart(v, video[v]) /\ RowsPart(v, video[v])
BY DEF SweepInv, SweepTypeOK

\* The work on one video goes on.
LEMMA WorkStep ==
  ASSUME SweepInv, NEW v \in Videos, NEW q \in Video, Becomes(v, q),
         WorkInv(q), FilesPart(v, q), RowsPart(v, q)
  PROVE  SweepInv'
<1>1. video' = [video EXCEPT ![v] = q] /\ time' = time /\ sweep' = sweep
  BY DEF Becomes
<1>2. video \in [Videos -> Video]
  BY DEF SweepInv, SweepTypeOK
<1>3. SweepTypeOK'
  BY <1>1, <1>2 DEF SweepTypeOK, SweepInv
<1>4. ASSUME NEW w \in Videos
      PROVE  (WorkInv(video[w]) /\ FilesPart(w, video[w]) /\ RowsPart(w, video[w]))'
  <2>1. CASE w = v
    <3>1. video'[w] = q
      BY <1>1, <1>2, <2>1
    <3> QED BY <1>1, <2>1, <3>1 DEF WorkInv, FilesPart, RowsPart
  <2>2. CASE w # v
    <3>1. video'[w] = video[w]
      BY <1>1, <1>2, <2>2
    <3>2. WorkInv(video[w]) /\ FilesPart(w, video[w]) /\ RowsPart(w, video[w])
      BY VideoRow
    <3> QED BY <1>1, <3>1, <3>2 DEF WorkInv, FilesPart, RowsPart
  <2> QED BY <2>1, <2>2
<1> QED BY <1>1, <1>3, <1>4 DEF SweepInv

LEMMA StoreVideoStep ==
  ASSUME SweepInv, NEW v \in Videos, StoreVideo(v)
  PROVE  SweepInv'
<1>1. PICK q : q = [NoVideo EXCEPT !.pc = "storing", !.upload = time, !.dir = FALSE, !.began = time]
  OBVIOUS
<1>2. video[v].pc = "none" /\ Becomes(v, q)
  BY <1>1 DEF StoreVideo
<1>3. q = [pc |-> "storing", job |-> "none", upload |-> time, frames |-> Absent, dir |-> FALSE,
           row |-> FALSE, complete |-> FALSE, began |-> time, ended |-> 0]
  <2>1. PICK m1 : m1 = [NoVideo EXCEPT !.pc = "storing"]
    OBVIOUS
  <2>2. PICK m2 : m2 = [m1 EXCEPT !.upload = time]
    OBVIOUS
  <2>3. PICK m3 : m3 = [m2 EXCEPT !.dir = FALSE]
    OBVIOUS
  <2>4. q = [m3 EXCEPT !.began = time]
    BY <1>1, <2>1, <2>2, <2>3, Zenon
  <2>5. m1 = [pc |-> "storing", job |-> "none", upload |-> Absent, frames |-> Absent, dir |-> FALSE,
              row |-> FALSE, complete |-> FALSE, began |-> 0, ended |-> 0]
    BY <2>1 DEF NoVideo
  <2>6. m2 = [pc |-> "storing", job |-> "none", upload |-> time, frames |-> Absent, dir |-> FALSE,
              row |-> FALSE, complete |-> FALSE, began |-> 0, ended |-> 0]
    BY <2>2, <2>5
  <2>7. m3 = [pc |-> "storing", job |-> "none", upload |-> time, frames |-> Absent, dir |-> FALSE,
              row |-> FALSE, complete |-> FALSE, began |-> 0, ended |-> 0]
    BY <2>3, <2>6
  <2> QED BY <2>4, <2>7
<1>4. time \in 0 .. MaxTime /\ time \in Nat
  BY SweepNumbers DEF SweepInv, SweepTypeOK
<1>5. q \in Video
  BY <1>3, <1>4, SweepNumbers DEF Video
<1>6. WorkInv(q) /\ ~ Active(q)
  BY <1>3, <1>4, SweepNumbers DEF WorkInv, Active
<1>7. FilesPart(v, q)
  <2>1. <<v, "upload">> \notin sweep.found \/ sweep.pc # "files"
    BY <1>2, VideoRow DEF FilesPart
  <2>2. sweep.pc = "files" => time > sweep.cutoff
    BY <1>4, SweepNumbers DEF SweepInv, SweepRecord
  <2>3. q.upload = time
    BY <1>3
  <2> QED BY <2>1, <2>2, <2>3 DEF FilesPart
<1>8. RowsPart(v, q)
  BY <1>2, VideoRow DEF RowsPart, WorkInv, Active
<1> QED BY <1>2, <1>5, <1>6, <1>7, <1>8, WorkStep

LEMMA EnqueueStep ==
  ASSUME SweepInv, NEW v \in Videos, Enqueue(v)
  PROVE  SweepInv'
<1>1. PICK m \in Video : m = video[v]
  BY VideoRow
<1>2. m.pc = "storing" /\ WorkInv(m) /\ FilesPart(v, m) /\ RowsPart(v, m)
  BY <1>1, VideoRow DEF Enqueue
<1>3. m.upload # Absent
  <2>1. m.began \in 0 .. MaxTime /\ m.upload = m.began
    BY <1>2 DEF WorkInv, Video
  <2> QED BY <2>1, SweepNumbers
<1>4. PICK q : q = [m EXCEPT !.pc = "queued", !.job = "queued"]
  OBVIOUS
<1>5. PICK r : r = [m EXCEPT !.pc = "opened"]
  OBVIOUS
<1>6. Becomes(v, q) \/ Becomes(v, r)
  BY <1>1, <1>4, <1>5 DEF Enqueue
<1>7. /\ q \in Video /\ q.pc = "queued" /\ q.job = "queued" /\ q.upload = m.upload
      /\ q.frames = m.frames /\ q.row = m.row
  BY <1>4 DEF Video
<1>8. /\ r \in Video /\ r.pc = "opened" /\ r.job = m.job /\ r.upload = m.upload
      /\ r.frames = m.frames /\ r.row = m.row /\ r.began = m.began
  BY <1>5 DEF Video
<1>9. WorkInv(q) /\ FilesPart(v, q) /\ RowsPart(v, q)
  BY <1>2, <1>3, <1>7 DEF WorkInv, FilesPart, RowsPart, Active
<1>10. WorkInv(r) /\ FilesPart(v, r) /\ RowsPart(v, r)
  BY <1>2, <1>8 DEF WorkInv, FilesPart, RowsPart, Active
<1> QED BY <1>6, <1>7, <1>8, <1>9, <1>10, WorkStep

LEMMA ClaimJobStep ==
  ASSUME SweepInv, NEW v \in Videos, ClaimJob(v)
  PROVE  SweepInv'
<1>1. PICK m \in Video : m = video[v]
  BY VideoRow
<1>2. m.pc = "queued" /\ WorkInv(m) /\ FilesPart(v, m) /\ RowsPart(v, m)
  BY <1>1, VideoRow DEF ClaimJob
<1>3. PICK n : n = [m EXCEPT !.pc = "opened", !.job = "running"]
  OBVIOUS
<1>4. PICK q : q = [n EXCEPT !.began = time]
  OBVIOUS
<1>5. Becomes(v, q)
  BY <1>1, <1>3, <1>4, Zenon DEF ClaimJob
<1>6. time \in 0 .. MaxTime /\ time \in Nat
  BY SweepNumbers DEF SweepInv, SweepTypeOK
<1>7. /\ n \in Video /\ n.pc = "opened" /\ n.job = "running" /\ n.upload = m.upload
      /\ n.frames = m.frames /\ n.row = m.row
  BY <1>3 DEF Video
<1>8. /\ q \in Video /\ q.pc = "opened" /\ q.job = "running" /\ q.upload = m.upload
      /\ q.frames = m.frames /\ q.row = m.row /\ q.began = time
  BY <1>4, <1>6, <1>7 DEF Video
<1>9. WorkInv(q) /\ FilesPart(v, q) /\ RowsPart(v, q)
  BY <1>2, <1>6, <1>8, SweepNumbers DEF WorkInv, FilesPart, RowsPart, Active
<1> QED BY <1>5, <1>8, <1>9, WorkStep

\* The work goes on and neither its job nor its upload changes.
LEMMA WorkingOn ==
  ASSUME SweepInv, NEW v \in Videos, NEW q \in Video, Becomes(v, q),
         video[v].pc \in {"opened", "made", "extracted"},
         q.pc \in {"made", "extracted", "registered"}, q.job = video[v].job,
         q.upload = video[v].upload, q.began = video[v].began,
         q.row = video[v].row \/ q.pc = "registered"
  PROVE  SweepInv'
<1>1. PICK m \in Video : m = video[v]
  BY VideoRow
<1>2. WorkInv(m) /\ FilesPart(v, m) /\ RowsPart(v, m)
  BY <1>1, VideoRow
<1>3. WorkInv(q) /\ FilesPart(v, q) /\ RowsPart(v, q)
  BY <1>1, <1>2 DEF WorkInv, FilesPart, RowsPart, Active
<1> QED BY <1>3, WorkStep

LEMMA DecodingSteps ==
  ASSUME SweepInv, NEW v \in Videos, MakeDirectory(v) \/ WriteFrames(v) \/ RegisterVideo(v)
  PROVE  SweepInv'
<1>1. PICK m \in Video : m = video[v]
  BY VideoRow
<1>2. time \in 0 .. MaxTime
  BY DEF SweepInv, SweepTypeOK
<1>3. CASE MakeDirectory(v)
  <2>1. PICK q : q = [m EXCEPT !.pc = "made", !.dir = TRUE]
    OBVIOUS
  <2>2. m.pc = "opened" /\ Becomes(v, q)
    BY <1>1, <1>3, <2>1 DEF MakeDirectory
  <2>3. /\ q \in Video /\ q.pc = "made" /\ q.job = m.job /\ q.upload = m.upload
        /\ q.began = m.began /\ q.row = m.row
    BY <2>1 DEF Video
  <2> QED BY <1>1, <2>2, <2>3, WorkingOn
<1>4. CASE WriteFrames(v)
  <2>1. PICK n : n = [m EXCEPT !.pc = "extracted", !.complete = m.dir]
    OBVIOUS
  <2>2. PICK q : q = [n EXCEPT !.frames = IF m.dir THEN time ELSE @]
    OBVIOUS
  <2>3. m.pc = "made" /\ Becomes(v, q)
    BY <1>1, <1>4, <2>1, <2>2, Zenon DEF WriteFrames
  <2>4. /\ n \in Video /\ n.pc = "extracted" /\ n.job = m.job /\ n.upload = m.upload
        /\ n.began = m.began /\ n.row = m.row
    BY <2>1 DEF Video
  <2>5. /\ q \in Video /\ q.pc = "extracted" /\ q.job = m.job /\ q.upload = m.upload
        /\ q.began = m.began /\ q.row = m.row
    BY <1>2, <2>2, <2>4, SweepNumbers DEF Video
  <2> QED BY <1>1, <2>3, <2>5, WorkingOn
<1>5. CASE RegisterVideo(v)
  <2>1. PICK q : q = [m EXCEPT !.pc = "registered", !.row = TRUE]
    OBVIOUS
  <2>2. m.pc = "extracted" /\ Becomes(v, q)
    BY <1>1, <1>5, <2>1 DEF RegisterVideo
  <2>3. /\ q \in Video /\ q.pc = "registered" /\ q.job = m.job /\ q.upload = m.upload
        /\ q.began = m.began
    BY <2>1 DEF Video
  <2> QED BY <1>1, <2>2, <2>3, WorkingOn
<1> QED BY <1>3, <1>4, <1>5

\* The work ends, with or without what it stored.
LEMMA WorkEnds ==
  ASSUME SweepInv, NEW v \in Videos, NEW q \in Video, Becomes(v, q), q.pc = "ended",
         q.job \in {"none", "terminal"},
         q.upload = video[v].upload \/ q.upload = Absent,
         q.frames = video[v].frames \/ q.frames = Absent
  PROVE  SweepInv'
<1>1. PICK m \in Video : m = video[v]
  BY VideoRow
<1>2. WorkInv(m) /\ FilesPart(v, m) /\ RowsPart(v, m)
  BY <1>1, VideoRow
<1>3. ~ Active(q)
  BY DEF Active
<1>4. WorkInv(q)
  BY <1>3 DEF WorkInv
<1>5. FilesPart(v, q)
  BY <1>2, <1>3 DEF FilesPart
<1>6. RowsPart(v, q)
  BY <1>1, <1>2, <1>3 DEF RowsPart
<1> QED BY <1>4, <1>5, <1>6, WorkStep

LEMMA OverRecord ==
  ASSUME SweepInv, NEW v \in Videos
  PROVE  /\ Over(v) \in Video /\ Over(v).pc = "ended" /\ Over(v).job \in {"none", "terminal"}
         /\ Over(v).upload = video[v].upload /\ Over(v).frames = video[v].frames
<1>1. PICK m \in Video : m = video[v]
  BY VideoRow
<1>2. time \in 0 .. MaxTime
  BY DEF SweepInv, SweepTypeOK
<1>3. PICK n1 : n1 = [m EXCEPT !.pc = "ended"]
  OBVIOUS
<1>4. PICK n2 : n2 = [n1 EXCEPT !.ended = time]
  OBVIOUS
<1>5. PICK q : q = [n2 EXCEPT !.job = IF @ = "none" THEN "none" ELSE "terminal"]
  OBVIOUS
<1>6. Over(v) = q
  BY <1>1, <1>3, <1>4, <1>5, Zenon DEF Over
<1>7. n1 \in Video /\ n1.pc = "ended" /\ n1.upload = m.upload /\ n1.frames = m.frames
  BY <1>3 DEF Video
<1>8. n2 \in Video /\ n2.pc = "ended" /\ n2.upload = m.upload /\ n2.frames = m.frames
  BY <1>2, <1>4, <1>7 DEF Video
<1>9. /\ q \in Video /\ q.pc = "ended" /\ q.upload = m.upload /\ q.frames = m.frames
      /\ q.job \in {"none", "terminal"}
  BY <1>5, <1>8 DEF Video
<1> QED BY <1>1, <1>6, <1>9

LEMMA EndingSteps ==
  ASSUME SweepInv, NEW v \in Videos, Succeed(v) \/ GiveUp(v)
  PROVE  SweepInv'
<1>1. PICK m : m = Over(v)
  OBVIOUS
<1>2. /\ m \in Video /\ m.pc = "ended" /\ m.job \in {"none", "terminal"}
      /\ m.upload = video[v].upload /\ m.frames = video[v].frames
  BY <1>1, OverRecord
<1>3. PICK n1 : n1 = [m EXCEPT !.upload = Absent]
  OBVIOUS
<1>4. PICK n2 : n2 = [n1 EXCEPT !.frames = Absent]
  OBVIOUS
<1>5. PICK q : q = [n2 EXCEPT !.dir = FALSE]
  OBVIOUS
<1>6. PICK r : r = [q EXCEPT !.row = FALSE]
  OBVIOUS
<1>7. q = CleanedUp(m)
  BY <1>3, <1>4, <1>5, Zenon DEF CleanedUp
<1>8. n1 \in Video /\ n1.pc = "ended" /\ n1.job \in {"none", "terminal"} /\ n1.upload = Absent
  BY <1>2, <1>3, SweepNumbers DEF Video
<1>9. /\ n2 \in Video /\ n2.pc = "ended" /\ n2.job \in {"none", "terminal"}
      /\ n2.upload = Absent /\ n2.frames = Absent
  BY <1>4, <1>8, SweepNumbers DEF Video
<1>10. /\ q \in Video /\ q.pc = "ended" /\ q.job \in {"none", "terminal"}
       /\ q.upload = Absent /\ q.frames = Absent
  BY <1>5, <1>9 DEF Video
<1>11. /\ r \in Video /\ r.pc = "ended" /\ r.job \in {"none", "terminal"}
       /\ r.upload = Absent /\ r.frames = Absent
  BY <1>6, <1>10 DEF Video
<1>12. Becomes(v, m) \/ Becomes(v, q) \/ Becomes(v, r)
  BY <1>1, <1>6, <1>7, Zenon DEF Succeed, GiveUp
<1> QED BY <1>2, <1>10, <1>11, <1>12, WorkEnds

LEMMA InterruptStep ==
  ASSUME SweepInv, NEW v \in Videos, Interrupt(v)
  PROVE  SweepInv'
<1>1. PICK m \in Video : m = video[v]
  BY VideoRow
<1>2. WorkInv(m) /\ FilesPart(v, m) /\ RowsPart(v, m)
  BY <1>1, VideoRow
<1>3. CASE m.job = "running"
  <2>1. PICK q : q = [m EXCEPT !.pc = "queued", !.job = "queued"]
    OBVIOUS
  <2>2. Becomes(v, q)
    BY <1>1, <1>3, <2>1 DEF Interrupt
  <2>3. /\ q \in Video /\ q.pc = "queued" /\ q.job = "queued" /\ q.upload = m.upload
        /\ q.frames = m.frames
    BY <2>1 DEF Video
  <2>4. WorkInv(q) /\ FilesPart(v, q) /\ RowsPart(v, q)
    BY <1>2, <1>3, <2>3 DEF WorkInv, FilesPart, RowsPart, Active
  <2> QED BY <2>2, <2>3, <2>4, WorkStep
<1>4. CASE m.job # "running"
  <2>1. PICK q : q = Over(v)
    OBVIOUS
  <2>2. Becomes(v, q)
    BY <1>1, <1>4, <2>1 DEF Interrupt
  <2>3. /\ q \in Video /\ q.pc = "ended" /\ q.job \in {"none", "terminal"}
        /\ q.upload = video[v].upload /\ q.frames = video[v].frames
    BY <2>1, OverRecord
  <2> QED BY <2>2, <2>3, WorkEnds
<1> QED BY <1>3, <1>4

LEMMA SweepTickStep ==
  ASSUME SweepInv, SweepTick
  PROVE  SweepInv'
<1>1. video' = video /\ sweep' = sweep /\ time' = time + 1 /\ time \in 0 .. MaxTime /\ time < MaxTime
  BY DEF SweepTick, SweepInv, SweepTypeOK
<1>2. time' \in 0 .. MaxTime /\ time \in Nat
  BY <1>1, SweepNumbers
<1>3. SweepTypeOK'
  BY <1>1, <1>2 DEF SweepInv, SweepTypeOK
<1>4. sweep.cutoff \in Int
  BY DEF SweepInv, SweepRecord
<1>5. sweep'.pc = "files" => sweep'.cutoff + MaxAge <= time'
  <2>1. sweep.pc = "files" => sweep.cutoff + MaxAge <= time
    BY DEF SweepInv
  <2> QED BY <1>1, <1>2, <1>4, <2>1, SweepNumbers
<1>6. ASSUME NEW v \in Videos
      PROVE  (WorkInv(video[v]) /\ FilesPart(v, video[v]) /\ RowsPart(v, video[v]))'
  <2>1. PICK m \in Video : m = video[v]
    BY VideoRow
  <2>2. WorkInv(m) /\ FilesPart(v, m) /\ RowsPart(v, m) /\ m.began \in Nat
    BY <2>1, VideoRow, SweepNumbers DEF Video
  <2>3. m.pc \in {"storing", "opened", "made", "extracted", "registered"} => time - m.began < MaxWork
    BY <2>1 DEF SweepTick, Working
  <2>4. m.pc \in {"storing", "opened", "made", "extracted", "registered"} =>
          m.began <= time' /\ time' - m.began <= MaxWork
    BY <1>1, <1>2, <2>2, <2>3, SweepNumbers DEF WorkInv
  <2> QED BY <1>1, <2>1, <2>2, <2>4 DEF WorkInv, FilesPart, RowsPart
<1> QED BY <1>1, <1>3, <1>5, <1>6 DEF SweepInv

\* What the command finds of each video.
VideosInv == \A v \in Videos : WorkInv(video[v]) /\ FilesPart(v, video[v]) /\ RowsPart(v, video[v])

LEMMA CommandStep ==
  ASSUME SweepInv, time' = time, video' \in [Videos -> Video], sweep' \in SweepRecord,
         sweep'.pc = "files" => sweep'.cutoff + MaxAge <= time, VideosInv'
  PROVE  SweepInv'
BY DEF SweepInv, SweepTypeOK, SweepRecord, VideosInv

LEMMA SweepFacts ==
  ASSUME SweepInv
  PROVE  /\ time \in 0 .. MaxTime /\ time \in Nat /\ video \in [Videos -> Video]
         /\ sweep \in SweepRecord /\ NoSweep \in SweepRecord /\ NoSweep.pc = "idle"
         /\ sweep.pc = "files" => sweep.cutoff + MaxAge <= time
BY SweepNumbers DEF SweepInv, SweepTypeOK, SweepRecord, NoSweep

\* The command goes on to where nothing is known of the videos.
LEMMA QuietStep ==
  ASSUME SweepInv, time' = time, video' \in [Videos -> Video], sweep' \in SweepRecord,
         sweep'.pc \in {"idle", "directories", "jobs"},
         \A v \in Videos : /\ video'[v].pc = video[v].pc /\ video'[v].upload = video[v].upload
                           /\ video'[v].began = video[v].began
                           /\ video'[v].row = video[v].row \/ video'[v].row = FALSE
                           /\ \/ video'[v].job = video[v].job
                              \/ video[v].job = "terminal" /\ video'[v].job = "removed"
  PROVE  SweepInv'
<1>1. ASSUME NEW v \in Videos
      PROVE  (WorkInv(video[v]) /\ FilesPart(v, video[v]) /\ RowsPart(v, video[v]))'
  <2>1. PICK m \in Video : m = video[v]
    BY VideoRow
  <2>2. PICK q \in Video : q = video'[v]
    BY DEF SweepRecord
  <2>3. WorkInv(m)
    BY <2>1, VideoRow
  <2>4. /\ q.pc = m.pc /\ q.upload = m.upload /\ q.began = m.began
        /\ q.row = m.row \/ q.row = FALSE
        /\ q.job = m.job \/ (m.job = "terminal" /\ q.job = "removed")
    BY <2>1, <2>2
  <2>5. WorkInv(q)
    <3>1. Active(q) <=> Active(m)
      BY <2>4 DEF Active
    <3> QED BY <2>3, <2>4, <3>1 DEF WorkInv
  <2>6. WorkInv(video[v])'
    BY <2>2, <2>5 DEF WorkInv
  <2>7. sweep'.pc \notin {"files", "rows"}
    OBVIOUS
  <2> QED BY <2>6, <2>7 DEF FilesPart, RowsPart
<1>2. VideosInv'
  BY <1>1 DEF VideosInv
<1> QED BY <1>2, CommandStep

LEMMA BeginSweepStep ==
  ASSUME SweepInv, BeginSweep
  PROVE  SweepInv'
<1>1. time' = time /\ video' = video /\ sweep' =
        [pc |-> "files", cutoff |-> time - MaxAge, found |-> {},
         active |-> {v \in Videos : ActiveJob(v)}, todo |-> Videos \X Kinds]
  BY DEF BeginSweep, Sweeps
<1>2. PICK active \in SUBSET Videos : active = {v \in Videos : ActiveJob(v)}
  OBVIOUS
<1>3. PICK todo \in SUBSET Targets : todo = Videos \X Kinds
  BY DEF Targets
<1>4. PICK none \in SUBSET Targets : none = {}
  OBVIOUS
<1>5. sweep' = [pc |-> "files", cutoff |-> time - MaxAge, found |-> none, active |-> active, todo |-> todo]
  BY <1>1, <1>2, <1>3, <1>4
<1>6. sweep' \in SweepRecord /\ sweep'.cutoff + MaxAge <= time
  BY <1>5, SweepFacts, SweepNumbers DEF SweepRecord
<1>7. ASSUME NEW v \in Videos
      PROVE  (WorkInv(video[v]) /\ FilesPart(v, video[v]) /\ RowsPart(v, video[v]))'
  <2>1. PICK m \in Video : m = video[v]
    BY VideoRow
  <2>2. WorkInv(m) /\ m.upload \in Int /\ m.began \in Nat
    BY <2>1, VideoRow, SweepNumbers DEF Video, Times
  <2>3. v \notin active => ~ Active(m)
    BY <1>2, <2>1 DEF ActiveJob, Active
  <2>4. m.pc = "storing" => m.upload > time - MaxAge
    BY <2>2, SweepFacts, SweepNumbers DEF WorkInv
  <2>5. <<v, "upload">> \notin sweep'.found /\ sweep'.pc = "files" /\ sweep'.cutoff = time - MaxAge
        /\ sweep'.active = active
    BY <1>4, <1>5
  <2>6. FilesPart(v, video[v])'
    BY <1>1, <2>1, <2>3, <2>4, <2>5 DEF FilesPart
  <2>7. WorkInv(video[v])'
    BY <1>1, <2>1, <2>2 DEF WorkInv
  <2> QED BY <2>5, <2>6, <2>7 DEF RowsPart
<1>8. VideosInv'
  BY <1>7 DEF VideosInv
<1> QED BY <1>1, <1>6, <1>8, SweepFacts, CommandStep

LEMMA InspectFileStep ==
  ASSUME SweepInv, NEW v \in Videos, NEW kind \in Kinds, InspectFile(v, kind)
  PROVE  SweepInv'
<1>1. PICK m \in Video : m = video[v]
  BY VideoRow
<1>2. PICK s \in SweepRecord : s = sweep
  BY SweepFacts
<1>3. PICK found \in SUBSET Targets :
        /\ found = {} \/ found = {<<v, kind>>}
        /\ kind = "upload" /\ found # {} => m.upload # Absent /\ m.upload <= s.cutoff /\ v \notin s.active
        /\ sweep' = [s EXCEPT !.todo = @ \ {<<v, kind>>}, !.found = found]
  <2>1. CASE sweep' = [s EXCEPT !.todo = @ \ {<<v, kind>>}, !.found = {}]
    <3>1. PICK none \in SUBSET Targets : none = {}
      OBVIOUS
    <3> QED BY <2>1, <3>1
  <2>2. CASE /\ sweep' = [s EXCEPT !.todo = @ \ {<<v, kind>>}, !.found = {<<v, kind>>}]
             /\ kind = "upload" => m.upload # Absent /\ m.upload <= s.cutoff /\ v \notin s.active
    <3>1. <<v, kind>> \in Targets
      BY DEF Targets
    <3>2. {<<v, kind>>} \in SUBSET Targets
      BY <3>1
    <3>3. PICK one \in SUBSET Targets : one = {<<v, kind>>}
      BY <3>2
    <3> QED BY <2>2, <3>3
  <2> QED BY <1>1, <1>2, <2>1, <2>2 DEF InspectFile, Sweeps
<1>4. s.pc = "files" /\ video' = video /\ time' = time
  BY <1>2 DEF InspectFile, Sweeps
<1>5. /\ sweep' \in SweepRecord /\ sweep'.pc = "files" /\ sweep'.cutoff = s.cutoff
      /\ sweep'.active = s.active /\ sweep'.found = found
  <2>1. PICK n : n = [s EXCEPT !.todo = @ \ {<<v, kind>>}]
    OBVIOUS
  <2>2. sweep' = [n EXCEPT !.found = found]
    BY <1>3, <2>1, Zenon
  <2>3. n \in SweepRecord /\ n.pc = "files" /\ n.cutoff = s.cutoff /\ n.active = s.active
    BY <1>4, <2>1 DEF SweepRecord
  <2> QED BY <2>2, <2>3 DEF SweepRecord
<1>6. ASSUME NEW w \in Videos
      PROVE  (WorkInv(video[w]) /\ FilesPart(w, video[w]) /\ RowsPart(w, video[w]))'
  <2>1. PICK q \in Video : q = video[w]
    BY VideoRow
  <2>2. WorkInv(q) /\ FilesPart(w, q) /\ q.upload \in Int /\ s.cutoff \in Int
    BY <2>1, VideoRow, SweepNumbers DEF Video, Times, SweepRecord
  <2>3. <<w, "upload">> \in found => w = v /\ kind = "upload" /\ found # {}
    BY <1>3
  <2>4. <<w, "upload">> \in found => ~ Active(q) /\ q.pc \notin {"none", "storing"}
    <3>1. SUFFICES ASSUME <<w, "upload">> \in found
                   PROVE  ~ Active(q) /\ q.pc \notin {"none", "storing"}
      OBVIOUS
    <3>2. q.upload # Absent /\ q.upload <= s.cutoff /\ w \notin s.active
      BY <1>1, <1>3, <2>1, <2>3, <3>1
    <3>3. ~ (q.upload > s.cutoff)
      BY <2>2, <3>2
    <3>4. ~ Active(q) /\ q.pc # "storing"
      BY <1>2, <1>4, <2>2, <3>2, <3>3 DEF FilesPart
    <3> QED BY <2>2, <3>2, <3>4 DEF WorkInv
  <2>5. FilesPart(w, video[w])'
    BY <1>2, <1>4, <1>5, <2>1, <2>2, <2>4 DEF FilesPart
  <2>6. WorkInv(video[w])'
    BY <1>4, <2>1, <2>2 DEF WorkInv
  <2> QED BY <1>5, <2>5, <2>6 DEF RowsPart
<1>7. VideosInv'
  BY <1>6 DEF VideosInv
<1> QED BY <1>2, <1>4, <1>5, <1>7, SweepFacts, CommandStep

LEMMA DirectorySteps ==
  ASSUME SweepInv, ListDirectories \/ SweepStops \/ \E v \in Videos : LookInto(v)
  PROVE  SweepInv'
<1>1. PICK s \in SweepRecord : s = sweep
  BY SweepFacts
<1>2. video' = video /\ time' = time /\ video' \in [Videos -> Video]
  BY SweepFacts DEF ListDirectories, LookInto, SweepStops, Sweeps
<1>3. sweep' \in SweepRecord /\ sweep'.pc \in {"idle", "directories"}
  <2>1. CASE ListDirectories
    <3>1. PICK todo \in SUBSET Targets : todo = {w \in Videos : video[w].dir}
      BY DEF Targets
    <3>2. PICK n : n = [s EXCEPT !.pc = "directories"]
      OBVIOUS
    <3>3. sweep' = [n EXCEPT !.todo = todo]
      BY <1>1, <2>1, <3>1, <3>2, Zenon DEF ListDirectories, Sweeps
    <3>4. n \in SweepRecord /\ n.pc = "directories"
      BY <3>2 DEF SweepRecord
    <3> QED BY <3>3, <3>4 DEF SweepRecord
  <2>2. ASSUME NEW v \in Videos, LookInto(v)
        PROVE  sweep' \in SweepRecord /\ sweep'.pc \in {"idle", "directories"}
    <3>1. PICK found \in SUBSET Targets : found = IF video[v].frames = Absent THEN {v} ELSE {}
      BY DEF Targets
    <3>2. PICK n : n = [s EXCEPT !.todo = @ \ {v}]
      OBVIOUS
    <3>3. s.pc = "directories" /\ (sweep' = [n EXCEPT !.found = found] \/ sweep' = NoSweep)
      BY <1>1, <2>2, <3>1, <3>2, Zenon DEF LookInto, Sweeps
    <3>4. n \in SweepRecord /\ n.pc = "directories"
      BY <3>2, <3>3 DEF SweepRecord
    <3>5. CASE sweep' = [n EXCEPT !.found = found]
      BY <3>4, <3>5 DEF SweepRecord
    <3>6. CASE sweep' = NoSweep
      BY <3>6, SweepFacts
    <3> QED BY <3>3, <3>5, <3>6
  <2>3. CASE SweepStops
    BY <2>3, SweepFacts DEF SweepStops, Sweeps
  <2> QED BY <2>1, <2>2, <2>3
<1> QED BY <1>2, <1>3, QuietStep

LEMMA ReadRowsStep ==
  ASSUME SweepInv, ReadRows
  PROVE  SweepInv'
<1>1. PICK s \in SweepRecord : s = sweep
  BY SweepFacts
<1>2. video' = video /\ time' = time /\ s.found = {}
  BY <1>1 DEF ReadRows, Sweeps
<1>3. PICK todo \in SUBSET Targets : todo = {w \in Videos : video[w].row}
  BY DEF Targets
<1>4. PICK n : n = [s EXCEPT !.pc = "rows"]
  OBVIOUS
<1>5. sweep' = [n EXCEPT !.todo = todo]
  BY <1>1, <1>3, <1>4, Zenon DEF ReadRows, Sweeps
<1>6. n \in SweepRecord /\ n.pc = "rows" /\ n.found = {}
  BY <1>2, <1>4 DEF SweepRecord
<1>7. sweep' \in SweepRecord /\ sweep'.pc = "rows" /\ sweep'.found = {} /\ sweep'.todo = todo
  BY <1>5, <1>6 DEF SweepRecord
<1>8. ASSUME NEW v \in Videos
      PROVE  (WorkInv(video[v]) /\ FilesPart(v, video[v]) /\ RowsPart(v, video[v]))'
  <2>1. PICK m \in Video : m = video[v]
    BY VideoRow
  <2>2. WorkInv(m)
    BY <2>1, VideoRow
  <2>3. v \in todo => m.row = TRUE
    BY <1>3, <2>1 DEF Video
  <2>4. v \in todo => Active(m) \/ m.pc \in {"registered", "ended"}
    BY <2>2, <2>3 DEF WorkInv
  <2>5. WorkInv(video[v])'
    BY <1>2, <2>1, <2>2 DEF WorkInv
  <2>6. RowsPart(v, video[v])'
    BY <1>2, <1>7, <2>1, <2>4 DEF RowsPart
  <2> QED BY <1>7, <2>5, <2>6 DEF FilesPart
<1>9. VideosInv'
  BY <1>8 DEF VideosInv
<1> QED BY <1>2, <1>7, <1>9, SweepFacts, CommandStep

LEMMA LookForArtifactsStep ==
  ASSUME SweepInv, NEW v \in Videos, LookForArtifacts(v)
  PROVE  SweepInv'
<1>1. PICK s \in SweepRecord : s = sweep
  BY SweepFacts
<1>2. PICK m \in Video : m = video[v]
  BY VideoRow
<1>3. video' = video /\ time' = time /\ s.pc = "rows" /\ v \in s.todo
  BY <1>1 DEF LookForArtifacts, Sweeps
<1>4. PICK found \in SUBSET Targets :
        found = IF m.upload = Absent /\ m.frames = Absent THEN s.found \cup {v} ELSE s.found
  <2>1. s.found \in SUBSET Targets /\ s.found \cup {v} \in SUBSET Targets
    BY DEF SweepRecord, Targets
  <2> QED BY <2>1
<1>5. PICK n : n = [s EXCEPT !.todo = @ \ {v}]
  OBVIOUS
<1>6. n \in SweepRecord /\ n.pc = "rows" /\ n.found = s.found /\ n.todo = s.todo \ {v}
  BY <1>3, <1>5 DEF SweepRecord
<1>7. sweep' = [n EXCEPT !.found = found]
  <2>1. sweep' = [n EXCEPT !.found = IF m.upload = Absent /\ m.frames = Absent THEN @ \cup {v} ELSE @]
    BY <1>1, <1>2, <1>5, Zenon DEF LookForArtifacts, Sweeps
  <2> QED BY <1>4, <1>6, <2>1 DEF SweepRecord
<1>8. /\ sweep' \in SweepRecord /\ sweep'.pc = "rows" /\ sweep'.found = found
      /\ sweep'.todo = s.todo \ {v}
  BY <1>6, <1>7 DEF SweepRecord
<1>9. ASSUME NEW w \in Videos
      PROVE  (WorkInv(video[w]) /\ FilesPart(w, video[w]) /\ RowsPart(w, video[w]))'
  <2>1. PICK q \in Video : q = video[w]
    BY VideoRow
  <2>2. WorkInv(q) /\ RowsPart(w, q)
    BY <2>1, VideoRow
  <2>3. w \in found => \/ w \in s.found
                       \/ w = v /\ m.upload = Absent /\ m.frames = Absent
    BY <1>4
  <2>4. w \in found => /\ ~ Active(q) /\ q.pc \in {"registered", "ended"}
                       /\ q.upload = Absent /\ q.frames = Absent
    <3>1. CASE w \in s.found
      BY <1>1, <1>3, <2>2, <3>1 DEF RowsPart
    <3>2. CASE w = v /\ m.upload = Absent /\ m.frames = Absent
      <4>1. q = m
        BY <1>2, <2>1, <3>2
      <4>2. Active(q) \/ q.pc \in {"registered", "ended"}
        BY <1>1, <1>3, <2>2, <3>2 DEF RowsPart
      <4> QED BY <2>2, <3>2, <4>1, <4>2 DEF WorkInv
    <3> QED BY <2>3, <3>1, <3>2
  <2>5. w \in s.todo \ {v} => Active(q) \/ q.pc \in {"registered", "ended"}
    BY <1>1, <1>3, <2>2 DEF RowsPart
  <2>6. WorkInv(video[w])'
    BY <1>3, <2>1, <2>2 DEF WorkInv
  <2>7. RowsPart(w, video[w])'
    BY <1>3, <1>8, <2>1, <2>4, <2>5 DEF RowsPart
  <2> QED BY <1>8, <2>6, <2>7 DEF FilesPart
<1>10. VideosInv'
  BY <1>9 DEF VideosInv
<1> QED BY <1>3, <1>8, <1>10, SweepFacts, CommandStep

LEMMA UnlinkStep ==
  ASSUME SweepInv, NEW v \in Videos, NEW kind \in Kinds, Unlink(v, kind)
  PROVE  SweepInv'
<1>1. PICK s \in SweepRecord : s = sweep
  BY SweepFacts
<1>2. PICK m \in Video : m = video[v]
  BY VideoRow
<1>3. time' = time /\ s.pc = "files" /\ <<v, kind>> \in s.found
  BY <1>1 DEF Unlink
<1>4. sweep' \in SweepRecord
      /\ \/ sweep'.pc = "idle"
         \/ /\ sweep'.pc = "files" /\ sweep'.cutoff = s.cutoff /\ sweep'.active = s.active
            /\ sweep'.found = {}
  <2>1. PICK none \in SUBSET Targets : none = {}
    OBVIOUS
  <2>2. sweep' = [s EXCEPT !.found = none] \/ sweep' = NoSweep
    BY <1>1, <2>1 DEF Unlink
  <2>3. CASE sweep' = [s EXCEPT !.found = none]
    BY <1>3, <2>1, <2>3 DEF SweepRecord
  <2> QED BY <2>2, <2>3, SweepFacts
<1>5. PICK q \in Video :
        /\ video' = [video EXCEPT ![v] = q]
        /\ q.pc = m.pc /\ q.job = m.job /\ q.began = m.began /\ q.row = m.row
        /\ q.upload = m.upload \/ (q.upload = Absent /\ kind = "upload")
  <2>1. CASE kind = "upload"
    <3>1. PICK q : q = [m EXCEPT !.upload = Absent]
      OBVIOUS
    <3>2. video' = [video EXCEPT ![v] = q]
      BY <1>2, <2>1, <3>1 DEF Unlink
    <3>3. /\ q \in Video /\ q.pc = m.pc /\ q.job = m.job /\ q.began = m.began /\ q.row = m.row
          /\ q.upload = Absent
      BY <3>1, SweepNumbers DEF Video
    <3> QED BY <2>1, <3>2, <3>3
  <2>2. CASE kind = "frames"
    <3>1. PICK q : q = [m EXCEPT !.frames = Absent]
      OBVIOUS
    <3>2. video' = [video EXCEPT ![v] = q]
      BY <1>2, <2>2, <3>1 DEF Unlink
    <3>3. /\ q \in Video /\ q.pc = m.pc /\ q.job = m.job /\ q.began = m.began /\ q.row = m.row
          /\ q.upload = m.upload
      BY <3>1, SweepNumbers DEF Video
    <3> QED BY <3>2, <3>3
  <2> QED BY <2>1, <2>2 DEF Kinds
<1>6. video' \in [Videos -> Video]
  BY <1>5, SweepFacts
<1>7. kind = "upload" => ~ Active(m) /\ m.pc \notin {"none", "storing"}
  BY <1>1, <1>2, <1>3, VideoRow DEF FilesPart
<1>8. ASSUME NEW w \in Videos
      PROVE  (WorkInv(video[w]) /\ FilesPart(w, video[w]) /\ RowsPart(w, video[w]))'
  <2>1. PICK p \in Video : p = video[w]
    BY VideoRow
  <2>2. PICK r \in Video : r = video'[w]
    BY <1>6
  <2>3. WorkInv(p) /\ FilesPart(w, p)
    BY <2>1, VideoRow
  <2>4. /\ r.pc = p.pc /\ r.job = p.job /\ r.began = p.began /\ r.row = p.row
        /\ r.upload = p.upload \/ (~ Active(p) /\ p.pc \notin {"none", "storing"})
    <3>1. CASE w = v
      <4>1. p = m /\ r = q
        BY <1>2, <1>5, <2>1, <2>2, <3>1, SweepFacts
      <4> QED BY <1>5, <1>7, <4>1
    <3>2. CASE w # v
      BY <1>5, <2>1, <2>2, <3>2, SweepFacts
    <3> QED BY <3>1, <3>2
  <2>5. Active(r) <=> Active(p)
    BY <2>4 DEF Active
  <2>6. WorkInv(r)
    BY <2>3, <2>4, <2>5 DEF WorkInv
  <2>7. WorkInv(video[w])'
    BY <1>3, <2>2, <2>6 DEF WorkInv
  <2>8. FilesPart(w, video[w])'
    <3>1. CASE sweep'.pc = "idle"
      BY <3>1 DEF FilesPart
    <3>2. CASE /\ sweep'.pc = "files" /\ sweep'.cutoff = s.cutoff /\ sweep'.active = s.active
               /\ sweep'.found = {}
      <4>1. w \notin s.active /\ (Active(r) \/ r.pc = "storing") => r.upload > s.cutoff
        BY <1>1, <1>3, <2>3, <2>4, <2>5 DEF FilesPart
      <4> QED BY <2>2, <3>2, <4>1 DEF FilesPart
    <3> QED BY <1>4, <3>1, <3>2
  <2> QED BY <1>4, <2>7, <2>8 DEF RowsPart
<1>9. VideosInv'
  BY <1>8 DEF VideosInv
<1>10. sweep'.pc = "files" => sweep'.cutoff + MaxAge <= time
  BY <1>1, <1>3, <1>4, SweepFacts
<1> QED BY <1>3, <1>4, <1>6, <1>9, <1>10, CommandStep

LEMMA RemovalSteps ==
  ASSUME SweepInv, DeleteRows \/ DeleteJobs \/ \E v \in Videos : RemoveDirectory(v)
  PROVE  SweepInv'
<1>1. PICK s \in SweepRecord : s = sweep
  BY SweepFacts
<1>2. PICK none \in SUBSET Targets : none = {}
  OBVIOUS
<1>3. ASSUME NEW v \in Videos, RemoveDirectory(v)
      PROVE  SweepInv'
  <2>1. PICK m \in Video : m = video[v]
    BY VideoRow
  <2>2. PICK q : q = [m EXCEPT !.dir = FALSE]
    OBVIOUS
  <2>3. /\ q \in Video /\ q.pc = m.pc /\ q.job = m.job /\ q.began = m.began /\ q.row = m.row
        /\ q.upload = m.upload
    BY <2>2 DEF Video
  <2>4. s.pc = "directories" /\ time' = time
    BY <1>1, <1>3 DEF RemoveDirectory
  <2>5. video' = [video EXCEPT ![v] = q] \/ video' = video
    BY <1>3, <2>1, <2>2 DEF RemoveDirectory
  <2>6. video' \in [Videos -> Video]
    BY <2>3, <2>5, SweepFacts
  <2>7. sweep' \in SweepRecord /\ sweep'.pc \in {"idle", "directories"}
    <3>1. sweep' = [s EXCEPT !.found = none] \/ sweep' = NoSweep
      BY <1>1, <1>2, <1>3 DEF RemoveDirectory
    <3>2. CASE sweep' = [s EXCEPT !.found = none]
      BY <2>4, <3>2 DEF SweepRecord
    <3> QED BY <3>1, <3>2, SweepFacts
  <2>8. ASSUME NEW w \in Videos
        PROVE  /\ video'[w].pc = video[w].pc /\ video'[w].upload = video[w].upload
               /\ video'[w].began = video[w].began
               /\ video'[w].row = video[w].row /\ video'[w].job = video[w].job
    <3>1. video'[w] = video[w] \/ (w = v /\ video'[w] = q)
      BY <2>5, SweepFacts
    <3> QED BY <2>1, <2>3, <3>1
  <2> QED BY <2>4, <2>6, <2>7, <2>8, QuietStep
<1>4. CASE DeleteRows
  <2>1. PICK n : n = [s EXCEPT !.pc = "jobs"]
    OBVIOUS
  <2>2. sweep' = [n EXCEPT !.found = none] /\ time' = time
    BY <1>1, <1>2, <1>4, <2>1, Zenon DEF DeleteRows
  <2>3. n \in SweepRecord /\ n.pc = "jobs"
    BY <2>1 DEF SweepRecord
  <2>4. sweep' \in SweepRecord /\ sweep'.pc = "jobs"
    BY <2>2, <2>3 DEF SweepRecord
  <2>5. ASSUME NEW w \in Videos
        PROVE  /\ video'[w] \in Video
               /\ video'[w].pc = video[w].pc /\ video'[w].upload = video[w].upload
               /\ video'[w].began = video[w].began
               /\ video'[w].row = video[w].row \/ video'[w].row = FALSE
               /\ video'[w].job = video[w].job
    <3>1. PICK m \in Video : m = video[w]
      BY VideoRow
    <3>2. PICK q : q = [m EXCEPT !.row = FALSE]
      OBVIOUS
    <3>3. video'[w] = m \/ video'[w] = q
      BY <1>4, <3>1, <3>2 DEF DeleteRows
    <3>4. /\ q \in Video /\ q.pc = m.pc /\ q.job = m.job /\ q.began = m.began /\ q.row = FALSE
          /\ q.upload = m.upload
      BY <3>2 DEF Video
    <3> QED BY <3>1, <3>3, <3>4
  <2>6. video' \in [Videos -> Video]
    BY <1>4, <2>5 DEF DeleteRows
  <2> QED BY <2>2, <2>4, <2>5, <2>6, QuietStep
<1>5. CASE DeleteJobs
  <2>1. sweep' = NoSweep /\ time' = time
    BY <1>5 DEF DeleteJobs
  <2>2. ASSUME NEW w \in Videos
        PROVE  /\ video'[w] \in Video
               /\ video'[w].pc = video[w].pc /\ video'[w].upload = video[w].upload
               /\ video'[w].began = video[w].began /\ video'[w].row = video[w].row
               /\ \/ video'[w].job = video[w].job
                  \/ video[w].job = "terminal" /\ video'[w].job = "removed"
    <3>1. PICK m \in Video : m = video[w]
      BY VideoRow
    <3>2. PICK q : q = [m EXCEPT !.job = "removed"]
      OBVIOUS
    <3>3. video'[w] = m \/ (m.job = "terminal" /\ video'[w] = q)
      BY <1>5, <3>1, <3>2 DEF DeleteJobs
    <3>4. /\ q \in Video /\ q.pc = m.pc /\ q.job = "removed" /\ q.began = m.began /\ q.row = m.row
          /\ q.upload = m.upload
      BY <3>2 DEF Video
    <3> QED BY <3>1, <3>3, <3>4
  <2>3. video' \in [Videos -> Video]
    BY <1>5, <2>2 DEF DeleteJobs
  <2> QED BY <2>1, <2>2, <2>3, SweepFacts, QuietStep
<1> QED BY <1>3, <1>4, <1>5

LEMMA SweepInitially == SweepInit => SweepInv
<1> SUFFICES ASSUME SweepInit PROVE SweepInv
  OBVIOUS
<1>1. time = 0 /\ video = [v \in Videos |-> NoVideo] /\ sweep = NoSweep
  BY DEF SweepInit
<1>2. NoVideo \in Video
  BY SweepNumbers DEF NoVideo, Video
<1>3. SweepTypeOK /\ sweep \in SweepRecord /\ sweep.pc = "idle"
  BY <1>1, <1>2, SweepNumbers DEF SweepTypeOK, SweepRecord, NoSweep
<1>4. WorkInv(NoVideo)
  BY DEF WorkInv, NoVideo, Active
<1> QED BY <1>1, <1>3, <1>4 DEF SweepInv, FilesPart, RowsPart

LEMMA SweepStep ==
  ASSUME SweepInv, [SweepNext]_sweepVars
  PROVE  SweepInv'
<1>1. CASE UNCHANGED sweepVars
  BY <1>1 DEF sweepVars, SweepInv, SweepTypeOK, WorkInv, FilesPart, RowsPart
<1>2. CASE BeginSweep
  BY <1>2, BeginSweepStep
<1>3. CASE ReadRows
  BY <1>3, ReadRowsStep
<1>4. CASE SweepTick
  BY <1>4, SweepTickStep
<1>5. CASE ListDirectories \/ SweepStops
  BY <1>5, DirectorySteps
<1>6. CASE DeleteRows \/ DeleteJobs
  BY <1>6, RemovalSteps
<1>7. ASSUME NEW v \in Videos,
             \/ StoreVideo(v) \/ Enqueue(v) \/ ClaimJob(v) \/ MakeDirectory(v) \/ WriteFrames(v)
             \/ RegisterVideo(v) \/ Succeed(v) \/ GiveUp(v) \/ Interrupt(v)
      PROVE  SweepInv'
  BY <1>7, StoreVideoStep, EnqueueStep, ClaimJobStep, DecodingSteps, EndingSteps, InterruptStep
<1>8. ASSUME NEW v \in Videos, NEW kind \in Kinds, InspectFile(v, kind) \/ Unlink(v, kind)
      PROVE  SweepInv'
  BY <1>8, InspectFileStep, UnlinkStep
<1>9. ASSUME NEW v \in Videos, LookInto(v) \/ RemoveDirectory(v) \/ LookForArtifacts(v)
      PROVE  SweepInv'
  BY <1>9, DirectorySteps, RemovalSteps, LookForArtifactsStep
<1> QED BY <1>1, <1>2, <1>3, <1>4, <1>5, <1>6, <1>7, <1>8, <1>9 DEF SweepNext

\* A row that is removed by the command is that of a video of which nothing is stored.
LEMMA RowsSpared ==
  ASSUME SweepInv, [SweepNext]_sweepVars, NEW v \in Videos,
         sweep.pc = "rows", video[v].row, ~ video'[v].row, sweep' # sweep
  PROVE  video[v].upload = Absent /\ video[v].frames = Absent
<1>1. video' # video /\ sweep' # sweep
  OBVIOUS
<1>2. ~ UNCHANGED sweepVars /\ ~ SweepTick
  BY <1>1 DEF sweepVars, SweepTick
<1>3. ASSUME NEW w \in Videos
      PROVE  ~ (\/ StoreVideo(w) \/ Enqueue(w) \/ ClaimJob(w) \/ MakeDirectory(w) \/ WriteFrames(w)
                \/ RegisterVideo(w) \/ Succeed(w) \/ GiveUp(w) \/ Interrupt(w))
  BY <1>1 DEF Becomes, StoreVideo, Enqueue, ClaimJob, MakeDirectory, WriteFrames,
              RegisterVideo, Succeed, GiveUp, Interrupt
<1>4. ASSUME NEW w \in Videos, NEW kind \in Kinds
      PROVE  ~ InspectFile(w, kind) /\ ~ Unlink(w, kind)
  BY DEF InspectFile, Unlink
<1>5. ASSUME NEW w \in Videos
      PROVE  ~ LookInto(w) /\ ~ RemoveDirectory(w) /\ ~ LookForArtifacts(w)
  BY <1>1 DEF LookInto, RemoveDirectory, LookForArtifacts, Sweeps
<1>6. ~ BeginSweep /\ ~ ListDirectories /\ ~ ReadRows /\ ~ DeleteJobs /\ ~ SweepStops
  BY <1>1 DEF BeginSweep, ListDirectories, ReadRows, DeleteJobs, SweepStops, Sweeps
<1>7. DeleteRows
  BY <1>2, <1>3, <1>4, <1>5, <1>6 DEF SweepNext
<1>8. v \in sweep.found
  BY <1>7 DEF DeleteRows
<1> QED BY <1>8, VideoRow DEF RowsPart

\* Videos, jobs, the worker's request and the sweep keep their types.
THEOREM SweepTypes == SweepSpec => []SweepTypeOK
<1>1. SweepInv => SweepTypeOK
  BY DEF SweepInv
<1> QED BY <1>1, SweepInitially, SweepStep, PTL DEF SweepSpec

\* However long a job has waited, its upload is there until it ends, and the command removes
\* an ownership row only when neither the upload nor a frame is there (_reconcile_video_ownership).
THEOREM SweepTheorem == SweepSpec => SweepSparesUsed
<1> DEFINE Spares == /\ ActiveUploadIsKept'
                     /\ \A v \in Videos :
                           sweep.pc = "rows" /\ video[v].row /\ ~ video'[v].row /\ sweep' # sweep =>
                          video[v].upload = Absent /\ video[v].frames = Absent
<1>1. SweepInv => ActiveUploadIsKept
  BY DEF SweepInv, WorkInv, Active, ActiveUploadIsKept, ActiveJob
<1>2. SweepInv /\ [SweepNext]_sweepVars => SweepInv'
  BY SweepStep
<1>3. SweepInv /\ [SweepNext]_sweepVars => [Spares]_sweepVars
  <2>1. SUFFICES ASSUME SweepInv, [SweepNext]_sweepVars PROVE Spares
    OBVIOUS
  <2>2. SweepInv'
    BY <2>1, <1>2
  <2>3. ActiveUploadIsKept'
    BY <2>2 DEF SweepInv, WorkInv, Active, ActiveUploadIsKept, ActiveJob
  <2> QED BY <2>1, <2>3, RowsSpared
<1>4. SweepSpec => [][Spares]_sweepVars
  BY SweepInitially, <1>2, <1>3, PTL DEF SweepSpec
<1> QED BY <1>4 DEF SweepSparesUsed

-----------------------------------------------------------------------------
(* Drafts.                                                                 *)

LEMMA GuardedIs ==
  ASSUME NEW given \in SUBSET Signals, NEW reply
  PROVE  /\ Guarded(given, reply) \in Draft
         /\ Guarded(given, reply) = [signals |-> given, resolved |-> {}, blockers |-> given,
              granted |-> FALSE, validated |-> FALSE, seen |-> given, trusted |-> FALSE]
BY DEF Guarded, Draft

LEMMA DraftingStep ==
  ASSUME DraftingTypeOK, SignalsStayBlockers, [DraftingNext]_draftingVars
  PROVE  DraftingTypeOK' /\ SignalsStayBlockers'
<1>1. PICK d \in Draft : d = draft
  BY DEF DraftingTypeOK
<1>2. d.signals \subseteq d.blockers \cup d.resolved
  BY <1>1 DEF SignalsStayBlockers
<1>3. /\ d.signals \in SUBSET Signals /\ d.resolved \in SUBSET Signals
      /\ d.blockers \in SUBSET Signals /\ d.seen \in SUBSET Signals
  BY DEF Draft
<1>4. SUFFICES ASSUME \/ UNCHANGED draftingVars
                      \/ /\ draft' \in Draft /\ place' \in Places
                         /\ draft'.signals \subseteq draft'.blockers \cup draft'.resolved
                         /\ place' = "generated" =>
                              /\ ~ draft'.granted /\ ~ draft'.validated /\ ~ draft'.trusted
                              /\ draft'.seen = draft'.signals
                  PROVE  DraftingTypeOK' /\ SignalsStayBlockers'
  <2>1. CASE Generate
    <3>1. PICK context \in SUBSET Signals : \E given \in SUBSET context :
            \E reply : Produce(given, reply)
      BY <2>1, Zenon DEF Generate
    <3> PICK given \in SUBSET context : \E reply : Produce(given, reply)
      BY <3>1
    <3> PICK reply : Produce(given, reply)
      OBVIOUS
    <3> given \in SUBSET Signals
      OBVIOUS
    <3>2. draft' = [signals |-> given, resolved |-> {}, blockers |-> given,
              granted |-> FALSE, validated |-> FALSE, seen |-> given, trusted |-> FALSE]
      BY GuardedIs DEF Produce
    <3> QED BY <3>2 DEF Produce, Draft, Places
  <2>2. CASE GenerateBreaks
    BY <2>2 DEF GenerateBreaks
  <2>3. CASE Show
    BY <1>1, <1>2, <2>3 DEF Show, Places
  <2>4. CASE Rebuild
    <3>1. PICK found \in SUBSET Signals :
            draft' = [d EXCEPT !.seen = found, !.trusted = d.validated]
      BY <1>1, <2>4 DEF Rebuild, EvaluatesAnew
    <3> QED BY <1>2, <2>4, <3>1 DEF Rebuild, Draft, Places
  <2>5. CASE SaveDraft
    BY <1>1, <1>2, <2>5 DEF SaveDraft, Draft, Places
  <2>6. CASE Load
    BY <1>1, <1>2, <2>6 DEF Load, Places
  <2>7. CASE Validate
    BY <1>1, <1>2, <2>7 DEF Validate, Draft, Places
  <2>8. CASE Decide
    <3>1. PICK granted \in BOOLEAN, closed \in SUBSET Signals :
            draft' = [d EXCEPT !.granted = granted, !.blockers = @ \ closed,
                               !.resolved = @ \cup (closed \cap d.signals)]
      BY <1>1, <2>8 DEF Decide
    <3>2. PICK a : a = [d EXCEPT !.granted = granted]
      OBVIOUS
    <3>3. PICK b : b = [a EXCEPT !.blockers = @ \ closed]
      OBVIOUS
    <3>4. draft' = [b EXCEPT !.resolved = @ \cup (closed \cap d.signals)]
      BY <3>1, <3>2, <3>3, Zenon
    <3>5. /\ a \in Draft /\ a.signals = d.signals /\ a.blockers = d.blockers
          /\ a.resolved = d.resolved
      BY <3>2 DEF Draft
    <3>6. /\ b \in Draft /\ b.signals = d.signals /\ b.blockers = d.blockers \ closed
          /\ b.resolved = d.resolved
      BY <3>3, <3>5 DEF Draft
    <3>7. /\ draft' \in Draft /\ draft'.signals = d.signals
          /\ draft'.blockers = d.blockers \ closed
          /\ draft'.resolved = d.resolved \cup (closed \cap d.signals)
      BY <1>3, <3>4, <3>6 DEF Draft
    <3> QED BY <1>2, <2>8, <3>7 DEF Decide, Places
  <2> QED BY <2>1, <2>2, <2>3, <2>4, <2>5, <2>6, <2>7, <2>8 DEF DraftingNext
<1>5. CASE UNCHANGED draftingVars
  BY <1>5 DEF draftingVars, DraftingTypeOK, SignalsStayBlockers
<1> QED BY <1>4, <1>5 DEF DraftingTypeOK, SignalsStayBlockers

LEMMA DraftingInvariant == DraftingSpec => [](DraftingTypeOK /\ SignalsStayBlockers)
<1>1. DraftingInit => DraftingTypeOK /\ SignalsStayBlockers
  <2> SUFFICES ASSUME DraftingInit PROVE DraftingTypeOK /\ SignalsStayBlockers
    OBVIOUS
  <2>1. PICK reply : reply = Fallback
    OBVIOUS
  <2>2. PICK none \in SUBSET Signals : none = {}
    OBVIOUS
  <2>3. draft = [signals |-> none, resolved |-> {}, blockers |-> none,
              granted |-> FALSE, validated |-> FALSE, seen |-> none, trusted |-> FALSE]
    BY <2>1, <2>2, GuardedIs DEF DraftingInit
  <2>4. place = "nowhere"
    BY DEF DraftingInit
  <2>5. draft \in Draft /\ draft.signals = {}
    BY <2>2, <2>3 DEF Draft
  <2> QED BY <2>4, <2>5 DEF DraftingTypeOK, SignalsStayBlockers, Places
<1>2. (DraftingTypeOK /\ SignalsStayBlockers) /\ [DraftingNext]_draftingVars
        => (DraftingTypeOK /\ SignalsStayBlockers)'
  BY DraftingStep
<1> QED BY <1>1, <1>2, PTL DEF DraftingSpec

\* What the generation returns is a draft that nobody has validated, with an evaluation that
\* tells every signal; and a signal blocks it until a decision has dealt with it.
THEOREM SignalsTheorem == DraftingSpec => []SignalsStayBlockers
<1> QED BY DraftingInvariant, PTL

-----------------------------------------------------------------------------
(* Searches.                                                               *)
(*                                                                         *)
(* No stamp is given twice: when a file that a signature names has still   *)
(* the stamp it has there, it has not gone since the signature was taken,  *)
(* and so was there when the files were listed for it (CacheInv).          *)

\* A file that is there, as the signature has it.
Names(key, f) == f \in Present /\ <<f, stamp[f]>> \in key

Given(key) == \A p \in key : p[2] <= clock

CacheInv ==
  \A entry \in cached :
    /\ Given(entry[1])
    /\ \A f \in Files \ Large : Names(entry[1], f) => f \in entry[2]

SearchInv(q) ==
  /\ Given(q.key)
  /\ q.steady \subseteq q.allowed /\ q.steady \subseteq Present
  /\ q.pc \in {"signed", "listed"} => \A f \in q.steady : Names(q.key, f)
  /\ q.pc = "listed" =>
       \A f \in Files \ Large : Names(q.key, f) => f \in q.todo \cup q.loaded
  /\ q.pc = "found" => q.found \subseteq q.allowed /\ q.steady \ Large \subseteq q.found

FullMerge(q) ==
  LET own == q.offered.uploaded + q.offered.local
  IN  /\ q.kept.public + q.kept.uploaded + q.kept.local = Smaller(q.limit, q.offered.public + own)
      /\ \A kind \in DOMAIN q.kept : q.kept[kind] <= q.offered[kind]
      /\ q.kept.uploaded + q.kept.local >= Smaller(own, Larger(1, q.limit \div 5))
      /\ q.kept.local > 0 => q.kept.uploaded = q.offered.uploaded

RetrievalInv ==
  /\ RetrievalTypeOK
  /\ \A f \in Files : stamp[f] <= clock
  /\ CacheInv
  /\ \A s \in Searches : SearchInv(search[s])
  /\ MergeIsFull

LEMMA NoStamp == MaxStamp \in Nat
BY RetrievalAssumption DEF RetrievalAssumption

LEMMA NewSearchIs ==
  ASSUME RetrievalTypeOK
  PROVE  NewSearch \in Search /\ NewSearch.pc = "new" /\ SearchInv(NewSearch)
<1>1. NewSearch \in Search
  BY DEF NewSearch, Search, Signatures, Sources, NoSources
<1> QED BY <1>1 DEF NewSearch, SearchInv, Given

\* One search moves on.
LEMMA SearchStep ==
  ASSUME RetrievalInv, NEW s \in Searches, NEW q \in Search, Searching(s, q), SearchInv(q),
         q.pc = "merged" => FullMerge(q),
         cached' \subseteq Signatures \X SUBSET Files,
         \A entry \in cached' : \/ entry \in cached
                                \/ /\ Given(entry[1])
                                   /\ \A f \in Files \ Large : Names(entry[1], f) => f \in entry[2]
  PROVE  RetrievalInv'
<1>1. RetrievalTypeOK /\ CacheInv /\ \A r \in Searches : SearchInv(search[r])
  BY DEF RetrievalInv
<1>2. /\ search' = [search EXCEPT ![s] = q] /\ UNCHANGED <<stamp, clock, owned>>
  BY DEF Searching
<1>3. search'[s] = q /\ \A r \in Searches \ {s} : search'[r] = search[r]
  BY <1>1, <1>2 DEF RetrievalTypeOK
<1>4. RetrievalTypeOK'
  BY <1>1, <1>2 DEF RetrievalTypeOK
<1>5. Present' = Present
  BY <1>2 DEF Present
<1>6. CacheInv'
  BY <1>1, <1>2, <1>5 DEF CacheInv, Given, Names
<1>7. ASSUME NEW r \in Searches
      PROVE  SearchInv(search[r])'
  <2>1. SearchInv(search'[r])
    BY <1>1, <1>3
  <2> QED BY <1>2, <1>5, <2>1 DEF SearchInv, Given, Names
<1>8. MergeIsFull'
  <2>1. ASSUME NEW r \in Searches, search'[r].pc = "merged"
        PROVE  FullMerge(search'[r])
    <3>1. CASE r = s
      BY <1>3, <2>1, <3>1
    <3>2. CASE r # s
      BY <1>3, <2>1, <3>2, Zenon DEF RetrievalInv, MergeIsFull, FullMerge
    <3> QED BY <3>1, <3>2
  <2> QED BY <2>1, Zenon DEF MergeIsFull, FullMerge
<1>9. \A f \in Files : stamp'[f] <= clock'
  BY <1>2 DEF RetrievalInv
<1> QED BY <1>4, <1>6, <1>7, <1>8, <1>9 DEF RetrievalInv

\* The search reads the rows, and the signature.
LEMMA ScopeStep ==
  ASSUME RetrievalInv, NEW s \in Searches, Scope(s)
  PROVE  RetrievalInv'
<1>1. RetrievalTypeOK
  BY DEF RetrievalInv
<1>2. PICK m1 : m1 = [NewSearch EXCEPT !.pc = "scoped"]
  OBVIOUS
<1>3. PICK m2 : m2 = [m1 EXCEPT !.allowed = owned]
  OBVIOUS
<1>4. PICK q : q = [m2 EXCEPT !.steady = owned \cap Present]
  OBVIOUS
<1>5. Searching(s, q) /\ cached' = cached
  BY <1>2, <1>3, <1>4, Zenon DEF Scope
<1>6. m1 \in Search /\ m1.pc = "scoped" /\ m1.key = {}
  BY <1>1, <1>2, NewSearchIs DEF Search, NewSearch
<1>7. m2 \in Search /\ m2.pc = "scoped" /\ m2.key = {} /\ m2.allowed = owned
  BY <1>1, <1>3, <1>6 DEF Search, RetrievalTypeOK
<1>8. /\ q \in Search /\ q.pc = "scoped" /\ q.key = {} /\ q.allowed = owned
      /\ q.steady = owned \cap Present
  BY <1>1, <1>4, <1>7 DEF Search, RetrievalTypeOK
<1>9. SearchInv(q)
  BY <1>8 DEF SearchInv, Given
<1> QED BY <1>1, <1>5, <1>8, <1>9, SearchStep DEF RetrievalTypeOK

LEMMA SignStep ==
  ASSUME RetrievalInv, NEW s \in Searches, Sign(s)
  PROVE  RetrievalInv'
<1>1. RetrievalTypeOK /\ SearchInv(search[s])
  BY DEF RetrievalInv
<1>2. PICK m \in Search : m = search[s]
  BY <1>1 DEF RetrievalTypeOK
<1>3. PICK q : q = [m EXCEPT !.pc = "signed", !.key = Signature]
  OBVIOUS
<1>4. PICK m1 : m1 = [m EXCEPT !.pc = "signed"]
  OBVIOUS
<1>5. q = [m1 EXCEPT !.key = Signature]
  BY <1>3, <1>4, Zenon
<1>6. Searching(s, q) /\ cached' = cached
  BY <1>2, <1>3 DEF Sign
<1>7. Signature \in Signatures /\ Given(Signature) /\ \A f \in Present : Names(Signature, f)
  <2>1. \A f \in Present : f \in Files /\ stamp[f] \in 1 .. MaxStamp /\ stamp[f] <= clock
    BY <1>1, NoStamp DEF Present, RetrievalTypeOK, RetrievalInv
  <2>2. Signature = {<<f, stamp[f]>> : f \in Present}
    BY DEF Signature, Stamped
  <2>3. \A p \in Signature : p \in Files \X (1 .. MaxStamp) /\ p[2] <= clock
    BY <2>1, <2>2
  <2>4. \A f \in Present : <<f, stamp[f]>> \in Signature
    BY <2>2
  <2> QED BY <2>3, <2>4 DEF Signatures, Given, Names
<1>8. m1 \in Search /\ m1.pc = "signed" /\ m1.allowed = m.allowed /\ m1.steady = m.steady
  BY <1>4 DEF Search
<1>9. /\ q \in Search /\ q.pc = "signed" /\ q.allowed = m.allowed /\ q.steady = m.steady
      /\ q.key = Signature
  BY <1>5, <1>7, <1>8 DEF Search
<1>10. SearchInv(q)
  BY <1>1, <1>2, <1>7, <1>9 DEF SearchInv
<1> QED BY <1>1, <1>6, <1>9, <1>10, SearchStep DEF RetrievalTypeOK

\* Whatever was loaded, it holds what the search may count on.
LEMMA FindsIs ==
  ASSUME RetrievalInv, NEW s \in Searches, search[s].pc \in {"signed", "listed"},
         NEW loaded \in SUBSET Files,
         \A f \in Files \ Large : Names(search[s].key, f) => f \in loaded
  PROVE  Finds(s, loaded) \in Search /\ SearchInv(Finds(s, loaded)) /\ Finds(s, loaded).pc = "found"
<1>1. RetrievalTypeOK /\ SearchInv(search[s])
  BY DEF RetrievalInv
<1>2. PICK m \in Search : m = search[s]
  BY <1>1 DEF RetrievalTypeOK
<1>3. PICK m1 : m1 = [m EXCEPT !.pc = "found"]
  OBVIOUS
<1>4. PICK m2 : m2 = [m1 EXCEPT !.key = {}]
  OBVIOUS
<1>5. PICK m3 : m3 = [m2 EXCEPT !.todo = {}]
  OBVIOUS
<1>6. PICK m4 : m4 = [m3 EXCEPT !.loaded = {}]
  OBVIOUS
<1>7. PICK q : q = [m4 EXCEPT !.found = loaded \cap m.allowed]
  OBVIOUS
<1>8. Finds(s, loaded) = q
  BY <1>2, <1>3, <1>4, <1>5, <1>6, <1>7, Zenon DEF Finds, Found
<1>9. m1 \in Search /\ m1.pc = "found" /\ m1.allowed = m.allowed /\ m1.steady = m.steady
  BY <1>3 DEF Search
<1>10. /\ m2 \in Search /\ m2.pc = "found" /\ m2.allowed = m.allowed /\ m2.steady = m.steady
       /\ m2.key = {}
  BY <1>4, <1>9 DEF Search, Signatures
<1>11. /\ m3 \in Search /\ m3.pc = "found" /\ m3.allowed = m.allowed /\ m3.steady = m.steady
       /\ m3.key = {}
  BY <1>5, <1>10 DEF Search
<1>12. /\ m4 \in Search /\ m4.pc = "found" /\ m4.allowed = m.allowed /\ m4.steady = m.steady
       /\ m4.key = {}
  BY <1>6, <1>11 DEF Search
<1>13. /\ q \in Search /\ q.pc = "found" /\ q.allowed = m.allowed /\ q.steady = m.steady
       /\ q.key = {} /\ q.found = loaded \cap m.allowed
  BY <1>7, <1>12 DEF Search
<1>14. m.steady \subseteq m.allowed /\ m.steady \subseteq Present
       /\ \A f \in m.steady : Names(m.key, f)
  BY <1>1, <1>2 DEF SearchInv
<1>15. m.steady \ Large \subseteq loaded
  BY <1>2, <1>14 DEF Present
<1>16. SearchInv(q)
  BY <1>13, <1>14, <1>15 DEF SearchInv, Given
<1> QED BY <1>8, <1>13, <1>16

LEMMA HitStep ==
  ASSUME RetrievalInv, NEW s \in Searches, Hit(s)
  PROVE  RetrievalInv'
<1>1. RetrievalTypeOK /\ CacheInv
  BY DEF RetrievalInv
<1>2. PICK entry \in cached : entry[1] = search[s].key /\ Searching(s, Finds(s, entry[2]))
  BY DEF Hit
<1>3. entry[2] \in SUBSET Files
  BY <1>1 DEF RetrievalTypeOK
<1>4. \A f \in Files \ Large : Names(search[s].key, f) => f \in entry[2]
  BY <1>1, <1>2 DEF CacheInv
<1>5. PICK q : q = Finds(s, entry[2])
  OBVIOUS
<1>6. q \in Search /\ SearchInv(q) /\ q.pc = "found"
  BY <1>3, <1>4, <1>5, FindsIs DEF Hit
<1>7. cached' = cached
  BY DEF Hit
<1> QED BY <1>1, <1>2, <1>5, <1>6, <1>7, SearchStep DEF RetrievalTypeOK

LEMMA MissStep ==
  ASSUME RetrievalInv, NEW s \in Searches, Miss(s)
  PROVE  RetrievalInv'
<1>1. RetrievalTypeOK /\ SearchInv(search[s])
  BY DEF RetrievalInv
<1>2. PICK m \in Search : m = search[s]
  BY <1>1 DEF RetrievalTypeOK
<1>3. PICK m1 : m1 = [m EXCEPT !.pc = "listed"]
  OBVIOUS
<1>4. PICK q : q = [m1 EXCEPT !.todo = Present]
  OBVIOUS
<1>5. m.pc = "signed" /\ Searching(s, q) /\ cached' = cached
  BY <1>2, <1>3, <1>4, Zenon DEF Miss
<1>6. /\ m1 \in Search /\ m1.pc = "listed" /\ m1.allowed = m.allowed /\ m1.steady = m.steady
      /\ m1.key = m.key
  BY <1>3 DEF Search
<1>7. /\ q \in Search /\ q.pc = "listed" /\ q.allowed = m.allowed /\ q.steady = m.steady
      /\ q.key = m.key /\ q.todo = Present
  BY <1>4, <1>6 DEF Search, Present
<1>8. SearchInv(q)
  BY <1>1, <1>2, <1>5, <1>7 DEF SearchInv, Names
<1> QED BY <1>1, <1>5, <1>7, <1>8, SearchStep DEF RetrievalTypeOK

LEMMA LoadFileStep ==
  ASSUME RetrievalInv, NEW s \in Searches, NEW f \in Files, LoadFile(s, f)
  PROVE  RetrievalInv'
<1>1. RetrievalTypeOK /\ SearchInv(search[s])
  BY DEF RetrievalInv
<1>2. PICK m \in Search : m = search[s]
  BY <1>1 DEF RetrievalTypeOK
<1>3. m.pc = "listed" /\ cached' = cached
  BY <1>2 DEF LoadFile
<1>4. CASE f \in Present
  <2>1. PICK m1 : m1 = [m EXCEPT !.todo = @ \ {f}]
    OBVIOUS
  <2>2. PICK q : q = [m1 EXCEPT !.loaded = IF f \in Large THEN @ ELSE @ \cup {f}]
    OBVIOUS
  <2>3. Searching(s, q)
    BY <1>2, <1>4, <2>1, <2>2, Zenon DEF LoadFile
  <2>4. /\ m1 \in Search /\ m1.pc = "listed" /\ m1.allowed = m.allowed /\ m1.steady = m.steady
        /\ m1.key = m.key /\ m1.todo = m.todo \ {f} /\ m1.loaded = m.loaded
    BY <1>3, <2>1 DEF Search
  <2>5. /\ q \in Search /\ q.pc = "listed" /\ q.allowed = m.allowed /\ q.steady = m.steady
        /\ q.key = m.key /\ q.todo = m.todo \ {f}
        /\ q.loaded = IF f \in Large THEN m.loaded ELSE m.loaded \cup {f}
    BY <2>2, <2>4 DEF Search
  <2>6. SearchInv(q)
    BY <1>1, <1>2, <1>3, <2>5 DEF SearchInv
  <2> QED BY <1>1, <1>3, <2>3, <2>5, <2>6, SearchStep DEF RetrievalTypeOK
<1>5. CASE f \notin Present
  <2>1. PICK q : q = [NewSearch EXCEPT !.pc = "failed"]
    OBVIOUS
  <2>2. Searching(s, q)
    BY <1>5, <2>1, Zenon DEF LoadFile
  <2>3. q \in Search /\ q.pc = "failed" /\ q.steady = {} /\ q.key = {}
    BY <1>1, <2>1, NewSearchIs DEF Search, NewSearch
  <2>4. SearchInv(q)
    BY <2>3 DEF SearchInv, Given
  <2> QED BY <1>1, <1>3, <2>2, <2>3, <2>4, SearchStep DEF RetrievalTypeOK
<1> QED BY <1>4, <1>5

LEMMA LoadedStep ==
  ASSUME RetrievalInv, NEW s \in Searches, Loaded(s)
  PROVE  RetrievalInv'
<1>1. RetrievalTypeOK /\ SearchInv(search[s])
  BY DEF RetrievalInv
<1>2. PICK m \in Search : m = search[s]
  BY <1>1 DEF RetrievalTypeOK
<1>3. PICK new : new = <<m.key, m.loaded>>
  OBVIOUS
<1>4. PICK q : q = Finds(s, m.loaded)
  OBVIOUS
<1>5. m.pc = "listed" /\ m.todo = {} /\ Searching(s, q)
  BY <1>2, <1>4 DEF Loaded
<1>6. m.key \in Signatures /\ m.loaded \in SUBSET Files
  BY DEF Search
<1>7. \A f \in Files \ Large : Names(m.key, f) => f \in m.loaded
  BY <1>1, <1>2, <1>5 DEF SearchInv
<1>8. q \in Search /\ SearchInv(q) /\ q.pc = "found"
  BY <1>2, <1>4, <1>5, <1>6, <1>7, FindsIs
<1>9. cached' \subseteq cached \cup {new}
  BY <1>2, <1>3 DEF Loaded
<1>10. /\ new \in Signatures \X SUBSET Files /\ Given(new[1])
       /\ \A f \in Files \ Large : Names(new[1], f) => f \in new[2]
  BY <1>1, <1>2, <1>3, <1>6, <1>7 DEF SearchInv
<1>11. \A entry \in cached' : \/ entry \in cached
                              \/ /\ Given(entry[1])
                                 /\ \A f \in Files \ Large : Names(entry[1], f) => f \in entry[2]
  BY <1>9, <1>10
<1>12. cached' \subseteq Signatures \X SUBSET Files
  BY <1>1, <1>9, <1>10 DEF RetrievalTypeOK
<1> QED BY <1>5, <1>8, <1>11, <1>12, SearchStep

\* The numbers of sources.
LEMMA MergedIs ==
  ASSUME NEW limit \in Nat \ {0}, NEW offered \in Sources
  PROVE  LET merged == Merged(limit, offered)
             own  == offered.uploaded + offered.local
         IN  /\ merged \in Sources
             /\ merged.public + merged.uploaded + merged.local = Smaller(limit, offered.public + own)
             /\ \A kind \in DOMAIN merged : merged[kind] <= offered[kind]
             /\ merged.uploaded + merged.local >= Smaller(own, Larger(1, limit \div 5))
             /\ merged.local > 0 => merged.uploaded = offered.uploaded
<1>1. PICK a \in Nat : a = offered.public
  BY DEF Sources
<1>2. PICK b \in Nat : b = offered.uploaded
  BY DEF Sources
<1>3. PICK c \in Nat : c = offered.local
  BY DEF Sources
<1>4. PICK preferred : preferred = b + c
  OBVIOUS
<1>5. PICK reserve : reserve = Smaller(preferred, Larger(1, limit \div 5))
  OBVIOUS
<1>6. PICK taken : taken = IF preferred = 0 THEN Smaller(a, limit)
                           ELSE Smaller(a, limit - reserve)
  OBVIOUS
<1>7. PICK own : own = Smaller(preferred, limit - taken)
  OBVIOUS
<1>8. PICK first : first = Smaller(b, own)
  OBVIOUS
<1>9. PICK rest : rest = own - first
  OBVIOUS
<1>10. PICK merged : merged = [public |-> taken, uploaded |-> first, local |-> rest]
  OBVIOUS
<1>11. Merged(limit, offered) = merged
  BY <1>1, <1>2, <1>3, <1>4, <1>5, <1>6, <1>7, <1>8, <1>9, <1>10, Zenon DEF Merged
<1>12. /\ taken \in Nat /\ first \in Nat /\ rest \in Nat
       /\ taken + first + rest = Smaller(limit, a + preferred)
       /\ taken <= a /\ first <= b /\ rest <= c
       /\ first + rest >= reserve
       /\ rest > 0 => first = b
  <2>1. PICK fifth \in Nat : fifth = limit \div 5 /\ fifth <= limit
    OBVIOUS
  <2>2. preferred \in Nat
    BY <1>4
  <2>3. reserve \in Nat /\ reserve <= limit /\ reserve <= preferred
    BY <1>5, <2>1, <2>2 DEF Smaller, Larger
  <2>4. taken \in Nat /\ taken <= limit /\ taken <= a
    BY <1>6, <2>2, <2>3 DEF Smaller
  <2>5. own \in Nat /\ own <= preferred /\ own <= limit - taken
    BY <1>7, <2>2, <2>4 DEF Smaller
  <2>6. first \in Nat /\ first <= own /\ first <= b
    BY <1>8, <2>5 DEF Smaller
  <2>7. own - first <= c /\ (own - first > 0 => first = b)
    BY <1>4, <1>8, <2>5, <2>6 DEF Smaller
  <2>8. taken + own = Smaller(limit, a + preferred)
    BY <1>6, <1>7, <2>2, <2>3, <2>4, <2>5 DEF Smaller
  <2>9. own >= reserve
    BY <1>6, <1>7, <2>2, <2>3, <2>4, <2>5 DEF Smaller
  <2> QED BY <1>9, <2>3, <2>4, <2>5, <2>6, <2>7, <2>8, <2>9
<1>13. /\ merged \in Sources /\ DOMAIN merged = {"public", "uploaded", "local"}
       /\ merged.public = taken /\ merged.uploaded = first /\ merged.local = rest
       /\ merged["public"] = taken /\ merged["uploaded"] = first /\ merged["local"] = rest
  BY <1>10, <1>12 DEF Sources
<1>14. \A kind \in DOMAIN merged : merged[kind] <= offered[kind]
  BY <1>1, <1>2, <1>3, <1>12, <1>13
<1> QED BY <1>1, <1>2, <1>3, <1>4, <1>5, <1>11, <1>12, <1>13, <1>14

LEMMA MergeStep ==
  ASSUME RetrievalInv, NEW s \in Searches, MergeSources(s)
  PROVE  RetrievalInv'
<1>1. RetrievalTypeOK
  BY DEF RetrievalInv
<1>2. PICK limit \in Limits : \E public, uploaded, local \in {n \in Offers : n <= limit} :
        LET offered == [public |-> public, uploaded |-> uploaded, local |-> local]
        IN  Searching(s, [NewSearch EXCEPT !.pc = "merged", !.limit = limit,
                             !.offered = offered, !.kept = Merged(limit, offered)])
  BY Zenon DEF MergeSources
<1>3. PICK public, uploaded, local \in {n \in Offers : n <= limit} :
        LET offered == [public |-> public, uploaded |-> uploaded, local |-> local]
        IN  Searching(s, [NewSearch EXCEPT !.pc = "merged", !.limit = limit,
                             !.offered = offered, !.kept = Merged(limit, offered)])
  BY <1>2, Zenon
<1>4. PICK offered : offered = [public |-> public, uploaded |-> uploaded, local |-> local]
  OBVIOUS
<1>5. offered \in Sources /\ limit \in Nat \ {0}
  BY <1>4, RetrievalAssumption DEF RetrievalAssumption, Sources
<1>6. PICK merged : merged = Merged(limit, offered)
  OBVIOUS
<1>7. PICK m1 : m1 = [NewSearch EXCEPT !.pc = "merged"]
  OBVIOUS
<1>8. PICK m2 : m2 = [m1 EXCEPT !.limit = limit]
  OBVIOUS
<1>9. PICK m3 : m3 = [m2 EXCEPT !.offered = offered]
  OBVIOUS
<1>10. PICK q : q = [m3 EXCEPT !.kept = merged]
  OBVIOUS
<1>11. Searching(s, q)
  BY <1>3, <1>4, <1>6, <1>7, <1>8, <1>9, <1>10, Zenon
<1>12. merged \in Sources
  BY <1>5, <1>6, MergedIs
<1>13. m1 \in Search /\ m1.pc = "merged" /\ m1.steady = {} /\ m1.key = {}
  BY <1>1, <1>7, NewSearchIs DEF Search, NewSearch
<1>14. m2 \in Search /\ m2.pc = "merged" /\ m2.steady = {} /\ m2.key = {} /\ m2.limit = limit
  BY <1>8, <1>13 DEF Search
<1>15. /\ m3 \in Search /\ m3.pc = "merged" /\ m3.steady = {} /\ m3.key = {}
       /\ m3.limit = limit /\ m3.offered = offered
  BY <1>5, <1>9, <1>14 DEF Search
<1>16. /\ q \in Search /\ q.pc = "merged" /\ q.steady = {} /\ q.key = {}
       /\ q.limit = limit /\ q.offered = offered /\ q.kept = merged
  BY <1>10, <1>12, <1>15 DEF Search
<1>17. SearchInv(q)
  BY <1>16 DEF SearchInv, Given
<1>18. FullMerge(q)
  <2>1. /\ merged.public + merged.uploaded + merged.local
             = Smaller(limit, offered.public + (offered.uploaded + offered.local))
        /\ \A kind \in DOMAIN merged : merged[kind] <= offered[kind]
        /\ merged.uploaded + merged.local
             >= Smaller(offered.uploaded + offered.local, Larger(1, limit \div 5))
        /\ merged.local > 0 => merged.uploaded = offered.uploaded
    BY <1>5, <1>6, MergedIs, Zenon
  <2> QED BY <1>16, <2>1, Zenon DEF FullMerge
<1>19. cached' = cached
  BY DEF MergeSources
<1> QED BY <1>1, <1>11, <1>16, <1>17, <1>18, <1>19, SearchStep DEF RetrievalTypeOK

\* What is stored has a stamp that no signature names.
LEMMA StoreDocumentStep ==
  ASSUME RetrievalInv, NEW f \in Files, StoreDocument(f)
  PROVE  RetrievalInv'
<1>1. RetrievalTypeOK /\ CacheInv /\ \A s \in Searches : SearchInv(search[s])
  BY DEF RetrievalInv
<1>2. /\ f \notin Present /\ clock < MaxStamp /\ clock' = clock + 1
      /\ stamp' = [stamp EXCEPT ![f] = clock + 1] /\ UNCHANGED <<owned, cached, search>>
  BY DEF StoreDocument
<1>3. clock \in Nat /\ MaxStamp \in Nat /\ \A g \in Files : stamp[g] \in Nat /\ stamp[g] <= clock
  BY <1>1, NoStamp DEF RetrievalTypeOK, RetrievalInv
<1>4. RetrievalTypeOK'
  BY <1>1, <1>2, <1>3 DEF RetrievalTypeOK
<1>5. Present' = Present \cup {f} /\ stamp'[f] = clock + 1
      /\ \A g \in Files \ {f} : stamp'[g] = stamp[g]
  BY <1>1, <1>2, <1>3 DEF Present, RetrievalTypeOK
<1>6. ASSUME NEW key \in Signatures, Given(key)
      PROVE  Given(key)' /\ \A g \in Files : Names(key, g)' <=> Names(key, g)
  <2>1. <<f, clock + 1>> \notin key
    BY <1>3, <1>6 DEF Given
  <2>2. \A p \in key : p[2] \in Nat /\ p[2] <= clock
    BY <1>3, <1>6 DEF Given, Signatures
  <2>3. \A p \in key : p[2] <= clock'
    BY <1>2, <1>3, <2>2
  <2>4. ASSUME NEW g \in Files
        PROVE  Names(key, g)' <=> Names(key, g)
    BY <1>2, <1>5, <2>1 DEF Names
  <2> QED BY <2>3, <2>4 DEF Given
<1>7. CacheInv'
  <2>1. ASSUME NEW entry \in cached
        PROVE  /\ Given(entry[1])'
               /\ \A g \in Files \ Large : Names(entry[1], g)' => g \in entry[2]
    BY <1>1, <1>6 DEF CacheInv, RetrievalTypeOK
  <2> QED BY <1>2, <2>1 DEF CacheInv
<1>8. ASSUME NEW s \in Searches
      PROVE  SearchInv(search[s])'
  <2>1. PICK q \in Search : q = search[s]
    BY <1>1 DEF RetrievalTypeOK
  <2>2. q.key \in Signatures /\ q.steady \in SUBSET Files
    BY DEF Search
  <2>3. SearchInv(q)
    BY <1>1, <2>1
  <2>4. Given(q.key)' /\ \A g \in Files : Names(q.key, g)' <=> Names(q.key, g)
    BY <1>6, <2>2, <2>3 DEF SearchInv
  <2>5. SearchInv(q)'
    BY <1>5, <2>2, <2>3, <2>4 DEF SearchInv
  <2> QED BY <1>2, <2>1, <2>5
<1>9. MergeIsFull'
  BY <1>2, Zenon DEF MergeIsFull, RetrievalInv
<1>10. \A g \in Files : stamp'[g] <= clock'
  BY <1>2, <1>3, <1>5
<1> QED BY <1>4, <1>7, <1>8, <1>9, <1>10 DEF RetrievalInv

LEMMA RemoveDocumentStep ==
  ASSUME RetrievalInv, NEW f \in Files, RemoveDocument(f)
  PROVE  RetrievalInv'
<1>1. RetrievalTypeOK /\ CacheInv /\ \A s \in Searches : SearchInv(search[s])
  BY DEF RetrievalInv
<1>2. /\ stamp' = [stamp EXCEPT ![f] = 0] /\ UNCHANGED <<clock, owned, cached>>
      /\ search' = [s \in Searches |-> [search[s] EXCEPT !.steady = @ \ {f}]]
  BY DEF RemoveDocument
<1>3. clock \in Nat /\ MaxStamp \in Nat
  BY <1>1, NoStamp DEF RetrievalTypeOK
<1>4. Present' = Present \ {f} /\ \A g \in Files \ {f} : stamp'[g] = stamp[g]
  BY <1>1, <1>2 DEF Present, RetrievalTypeOK
<1>5. \A key : \A g \in Files : (g \in Present' /\ <<g, stamp'[g]>> \in key)
                             <=> g # f /\ g \in Present /\ <<g, stamp[g]>> \in key
  BY <1>4
<1>6. ASSUME NEW s \in Searches
      PROVE  /\ search'[s] \in Search /\ search'[s].pc = search[s].pc
             /\ search'[s].steady = search[s].steady \ {f}
             /\ search'[s].key = search[s].key /\ search'[s].todo = search[s].todo
             /\ search'[s].loaded = search[s].loaded /\ search'[s].found = search[s].found
             /\ search'[s].allowed = search[s].allowed
             /\ search'[s].limit = search[s].limit /\ search'[s].offered = search[s].offered
             /\ search'[s].kept = search[s].kept
  <2>1. PICK q \in Search : q = search[s]
    BY <1>1 DEF RetrievalTypeOK
  <2>2. search'[s] = [q EXCEPT !.steady = @ \ {f}]
    BY <1>2, <2>1
  <2> QED BY <2>1, <2>2 DEF Search
<1>7. RetrievalTypeOK'
  <2>1. search' \in [Searches -> Search]
    BY <1>2, <1>6
  <2> QED BY <1>1, <1>2, <1>3, <2>1 DEF RetrievalTypeOK
<1>8. CacheInv'
  BY <1>1, <1>2, <1>5 DEF CacheInv, Given, Names
<1>9. ASSUME NEW s \in Searches
      PROVE  SearchInv(search[s])'
  <2>1. PICK q \in Search : q = search[s]
    BY <1>1 DEF RetrievalTypeOK
  <2>2. PICK r \in Search : r = search'[s]
    BY <1>6
  <2>3. /\ r.pc = q.pc /\ r.steady = q.steady \ {f} /\ r.key = q.key /\ r.todo = q.todo
        /\ r.loaded = q.loaded /\ r.found = q.found /\ r.allowed = q.allowed
    BY <1>6, <2>1, <2>2
  <2>4. SearchInv(q) /\ q.steady \in SUBSET Files
    BY <1>1, <2>1 DEF Search
  <2>5. SearchInv(r)'
    BY <1>2, <1>4, <1>5, <2>3, <2>4 DEF SearchInv, Given, Names
  <2> QED BY <2>2, <2>5
<1>10. MergeIsFull'
  <2>1. ASSUME NEW s \in Searches, search'[s].pc = "merged"
        PROVE  FullMerge(search'[s])
    <3>1. FullMerge(search[s])
      BY <1>6, <2>1, Zenon DEF RetrievalInv, MergeIsFull, FullMerge
    <3> QED BY <1>6, <3>1, Zenon DEF FullMerge
  <2> QED BY <2>1, Zenon DEF MergeIsFull, FullMerge
<1>11. \A g \in Files : stamp'[g] <= clock'
  BY <1>1, <1>2, <1>3 DEF RetrievalInv, RetrievalTypeOK
<1> QED BY <1>7, <1>8, <1>9, <1>10, <1>11 DEF RetrievalInv

LEMMA RegisterDocumentStep ==
  ASSUME RetrievalInv, NEW f \in Files, RegisterDocument(f)
  PROVE  RetrievalInv'
<1>1. owned' = owned \cup {f} /\ UNCHANGED <<stamp, clock, cached, search>>
  BY DEF RegisterDocument
<1>2. RetrievalTypeOK'
  BY <1>1 DEF RetrievalTypeOK, RetrievalInv
<1>3. Present' = Present
  BY <1>1 DEF Present
<1>4. CacheInv' /\ \A s \in Searches : SearchInv(search[s])'
  BY <1>1, <1>3 DEF RetrievalInv, CacheInv, SearchInv, Given, Names
<1>5. MergeIsFull'
  BY <1>1, Zenon DEF MergeIsFull, RetrievalInv
<1> QED BY <1>1, <1>2, <1>4, <1>5 DEF RetrievalInv

LEMMA RestartIndexStep ==
  ASSUME RetrievalInv, RestartIndex
  PROVE  RetrievalInv'
<1>1. /\ cached' = {} /\ search' = [s \in Searches |-> NewSearch]
      /\ UNCHANGED <<stamp, clock, owned>>
  BY DEF RestartIndex
<1>2. NewSearch \in Search /\ NewSearch.pc = "new" /\ SearchInv(NewSearch)
  BY NewSearchIs DEF RetrievalInv
<1>3. RetrievalTypeOK'
  BY <1>1, <1>2 DEF RetrievalTypeOK, RetrievalInv
<1>4. Present' = Present
  BY <1>1 DEF Present
<1>5. CacheInv'
  BY <1>1 DEF CacheInv
<1>6. ASSUME NEW s \in Searches
      PROVE  SearchInv(search[s])'
  <2>1. search'[s] = NewSearch
    BY <1>1
  <2>2. SearchInv(search'[s])
    BY <1>2, <2>1
  <2> QED BY <1>1, <1>4, <2>2 DEF SearchInv, Given, Names
<1>7. MergeIsFull'
  BY <1>1, <1>2 DEF MergeIsFull
<1> QED BY <1>1, <1>3, <1>5, <1>6, <1>7 DEF RetrievalInv

LEMMA RetrievalInitially ==
  ASSUME RetrievalInit
  PROVE  RetrievalInv
<1>1. /\ stamp = [f \in Files |-> 0] /\ clock = 0 /\ owned = {} /\ cached = {}
      /\ search = [s \in Searches |-> NewSearch]
  BY DEF RetrievalInit
<1>2. NewSearch \in Search /\ NewSearch.pc = "new"
  BY DEF NewSearch, Search, Signatures, Sources, NoSources
<1>3. SearchInv(NewSearch)
  BY DEF NewSearch, SearchInv, Given
<1>4. RetrievalTypeOK
  BY <1>1, <1>2, NoStamp DEF RetrievalTypeOK
<1>5. CacheInv
  BY <1>1 DEF CacheInv
<1>6. MergeIsFull
  BY <1>1, <1>2 DEF MergeIsFull
<1> QED BY <1>1, <1>3, <1>4, <1>5, <1>6 DEF RetrievalInv

LEMMA RetrievalStep ==
  ASSUME RetrievalInv, [RetrievalNext]_retrievalVars
  PROVE  RetrievalInv'
<1>1. CASE UNCHANGED retrievalVars
  <2>1. UNCHANGED <<stamp, clock, owned, cached, search>>
    BY <1>1 DEF retrievalVars
  <2>2. Present' = Present
    BY <2>1 DEF Present
  <2>3. RetrievalTypeOK'
    BY <2>1 DEF RetrievalTypeOK, RetrievalInv
  <2>4. CacheInv' /\ \A s \in Searches : SearchInv(search[s])'
    BY <2>1, <2>2 DEF RetrievalInv, CacheInv, SearchInv, Given, Names
  <2>5. MergeIsFull'
    BY <2>1, Zenon DEF MergeIsFull, RetrievalInv
  <2> QED BY <2>1, <2>3, <2>4, <2>5 DEF RetrievalInv
<1>2. ASSUME NEW f \in Files, StoreDocument(f) \/ RegisterDocument(f) \/ RemoveDocument(f)
      PROVE  RetrievalInv'
  BY <1>2, StoreDocumentStep, RegisterDocumentStep, RemoveDocumentStep
<1>3. ASSUME NEW s \in Searches,
             Scope(s) \/ Sign(s) \/ Hit(s) \/ Miss(s) \/ Loaded(s) \/ MergeSources(s)
      PROVE  RetrievalInv'
  BY <1>3, ScopeStep, SignStep, HitStep, MissStep, LoadedStep, MergeStep
<1>4. ASSUME NEW s \in Searches, NEW f \in Files, LoadFile(s, f)
      PROVE  RetrievalInv'
  BY <1>4, LoadFileStep
<1>5. CASE RestartIndex
  BY <1>5, RestartIndexStep
<1> QED BY <1>1, <1>2, <1>3, <1>4, <1>5 DEF RetrievalNext

LEMMA RetrievalInvariant == RetrievalSpec => []RetrievalInv
<1> QED BY RetrievalInitially, RetrievalStep, PTL DEF RetrievalSpec

\* A search ranks registered documents only, and all of those that were there throughout,
\* although they may have been loaded by another search; and it leaves no place empty.
THEOREM SearchTheorem == RetrievalSpec => []SearchIsComplete
<1>1. RetrievalInv => SearchIsComplete
  BY DEF RetrievalInv, SearchInv, SearchIsComplete, SearchSeesRegistered
<1> QED BY <1>1, RetrievalInvariant, PTL

-----------------------------------------------------------------------------
(* Audit trails.                                                           *)
(*                                                                         *)
(* A row of the table has no hash, or one that the application has made:   *)
(* h has those, and each is made of the one before it (Genuine).  As       *)
(* something else can copy a hash but makes none, and a hash tells the     *)
(* version and the sequence it was made for, a row whose hash is right is  *)
(* the one that was written there.                                         *)

\* A set of natural numbers has a least one.
LEMMA LeastExists ==
  ASSUME NEW T, T \subseteq Nat, T # {}
  PROVE  \E x \in T : \A y \in T : x <= y
<1> DEFINE R == OpToRel(<, Nat)
<1>1. \A x, y \in Nat : <<y, x>> \in R <=> y < x
  BY DEF OpToRel
<1>2. IsWellFoundedOn(R, Nat)
  BY NatLessThanWellFounded
<1> HIDE DEF R
<1>3. PICK x \in T : \A y \in T : ~ (<<y, x>> \in R)
  BY <1>2, WFMin, Zenon
<1>4. \A y \in T : ~ (y < x)
  BY <1>1, <1>3, Zenon
<1> QED BY <1>4


GenuineHash(h, v, n) ==
  <<v, n, IF n = 1 THEN NoHash ELSE h[v][n - 1], wrote[v][n].entry, wrote[v][n].digest>>

Genuine(h) ==
  /\ h = [v \in Versions |-> [n \in Sequences |-> h[v][n]]]
  /\ \A v \in Versions : \A n \in 1 .. Len(wrote[v]) : h[v][n] = GenuineHash(h, v, n)

HashesOf(h) ==
  {NoHash} \cup UNION {{h[v][n] : n \in 1 .. Len(wrote[v])} : v \in Versions}

ChainRows(h) ==
  [previous : HashesOf(h), entry : Entries \cup {"none"}, digest : Digests, hash : HashesOf(h)]

GenuineRow(h, v, n) ==
  [previous |-> IF n = 1 THEN NoHash ELSE h[v][n - 1],
   entry |-> wrote[v][n].entry, digest |-> wrote[v][n].digest, hash |-> h[v][n]]

\* Nothing but the application has changed anything.
Undamaged(h) ==
  \A v \in Versions :
    /\ \A n \in 1 .. Len(wrote[v]) : event[v][n] = GenuineRow(h, v, n)
    /\ \A n \in Sequences : n > Len(wrote[v]) => event[v][n] = NoEvent
    /\ wrote[v] # <<>> => payload[v] = wrote[v][Len(wrote[v])].digest

Wrote == [entry : Entries, digest : Digests]

WroteOK ==
  /\ wrote \in [Versions -> Seq(Wrote)]
  /\ \A v \in Versions : Len(wrote[v]) <= MaxEvents
  /\ payload \in [Versions -> Digests]
  /\ damages \in 0 .. MaxDamages

HashInv(h) ==
  /\ Genuine(h)
  /\ event \in [Versions -> [Sequences -> ChainRows(h)]]
  /\ damages = 0 => Undamaged(h)

ChainInv == WroteOK /\ \E h : HashInv(h)

LEMMA HashIsThere ==
  ASSUME NEW a, NEW b, NEW c, NEW d, NEW e
  PROVE  <<a, b, c, d, e>> # NoHash
<1>1. Len(<<a, b, c, d, e>>) = 5 /\ Len(NoHash) = 0
  BY DEF NoHash
<1> QED BY <1>1

LEMMA HashesAre ==
  ASSUME NEW h, NEW x
  PROVE  x \in HashesOf(h) <=>
           x = NoHash \/ \E v \in Versions : \E n \in 1 .. Len(wrote[v]) : x = h[v][n]
<1>1. x \in HashesOf(h) <=>
        x = NoHash \/ \E v \in Versions : x \in {h[v][n] : n \in 1 .. Len(wrote[v])}
  BY DEF HashesOf
<1> QED BY <1>1

\* A hash that was made for a row, and can be found, is the one that the application made.
LEMMA HashTells ==
  ASSUME WroteOK, NEW h, Genuine(h), NEW v \in Versions, NEW n \in Nat, NEW r,
         EventHash(v, n, r) \in HashesOf(h)
  PROVE  /\ n \in 1 .. Len(wrote[v])
         /\ r.entry = wrote[v][n].entry /\ r.digest = wrote[v][n].digest
<1>1. EventHash(v, n, r) # NoHash
  BY HashIsThere, Zenon DEF EventHash
<1>2. PICK w \in Versions : \E m \in 1 .. Len(wrote[w]) : EventHash(v, n, r) = h[w][m]
  <2>1. PICK x : x = EventHash(v, n, r)
    OBVIOUS
  <2>2. x \in HashesOf(h) /\ x # NoHash
    BY <1>1, <2>1
  <2>3. \E w \in Versions : \E m \in 1 .. Len(wrote[w]) : x = h[w][m]
    BY <2>2, HashesAre
  <2> QED BY <2>1, <2>3
<1> PICK m \in 1 .. Len(wrote[w]) : EventHash(v, n, r) = h[w][m]
  BY <1>2
<1>3. EventHash(v, n, r) = GenuineHash(h, w, m)
  BY DEF Genuine
<1>4. PICK p : p = IF m = 1 THEN NoHash ELSE h[w][m - 1]
  OBVIOUS
<1>5. <<v, n, r.previous, r.entry, r.digest>>
        = <<w, m, p, wrote[w][m].entry, wrote[w][m].digest>>
  BY <1>3, <1>4, Zenon DEF EventHash, GenuineHash
<1>6. v = w /\ n = m /\ r.entry = wrote[w][m].entry /\ r.digest = wrote[w][m].digest
  BY <1>5
<1> QED BY <1>2, <1>6

\* The last of the rows that are there.
LEMMA LastIs ==
  ASSUME ChainAssumption, NEW v \in Versions
  PROVE  /\ Rows(v) \subseteq Sequences
         /\ Rows(v) = {} => Last(v) = 0
         /\ Rows(v) # {} => Last(v) \in Rows(v) /\ \A m \in Rows(v) : m <= Last(v)
         /\ Last(v) \in 0 .. MaxEvents
<1>1. Rows(v) \subseteq Sequences /\ MaxEvents \in Nat
  BY DEF Rows, ChainAssumption
<1>2. ASSUME Rows(v) # {}
      PROVE  \E n \in Rows(v) : \A m \in Rows(v) : m <= n
  <2>1. PICK T : T = {MaxEvents - n : n \in Rows(v)}
    OBVIOUS
  <2>2. T \subseteq Nat /\ T # {}
    BY <1>1, <1>2, <2>1 DEF Sequences
  <2>3. PICK x \in T : \A y \in T : x <= y
    BY <2>2, LeastExists
  <2>4. PICK n \in Rows(v) : x = MaxEvents - n
    BY <2>1
  <2>5. \A m \in Rows(v) : m <= n
    BY <1>1, <2>1, <2>3, <2>4 DEF Sequences
  <2> QED BY <2>5
<1>3. Rows(v) = {} => Last(v) = 0
  BY DEF Last
<1>4. Rows(v) # {} => Last(v) \in Rows(v) /\ \A m \in Rows(v) : m <= Last(v)
  BY <1>2 DEF Last
<1> QED BY <1>1, <1>3, <1>4 DEF Sequences

\* What verifies is what was written, cut off at its end.
LEMMA VerifiedTells ==
  ASSUME ChainInv, Verified, NEW v \in Versions
  PROVE  /\ Last(v) <= Len(wrote[v]) /\ Prefix(v) = SubSeq(wrote[v], 1, Last(v))
         /\ Last(v) # 0 => payload[v] \in {NoPayload, wrote[v][Last(v)].digest}
                           \/ wrote[v][Last(v)].digest = NoDigest
<1>1. PICK h : WroteOK /\ HashInv(h)
  BY DEF ChainInv
<1>2. wrote[v] \in Seq(Wrote) /\ Len(wrote[v]) \in Nat
  BY <1>1 DEF WroteOK
<1>3. Last(v) \in 0 .. MaxEvents /\ Rows(v) = 1 .. Last(v) /\ Rows(v) \subseteq Sequences
  BY ChainAssumption, LastIs DEF Verified, ChainHolds
<1>4. ASSUME NEW n \in 1 .. Last(v)
      PROVE  /\ n \in 1 .. Len(wrote[v])
             /\ event[v][n].entry = wrote[v][n].entry /\ event[v][n].digest = wrote[v][n].digest
  <2>1. event[v][n].hash = EventHash(v, n, event[v][n])
    BY <1>3 DEF Verified, ChainHolds
  <2>2. event[v][n].hash \in HashesOf(h)
    BY <1>1, <1>3 DEF HashInv, ChainRows
  <2> QED BY <1>1, <2>1, <2>2, HashTells DEF HashInv
<1>5. Last(v) <= Len(wrote[v])
  BY <1>2, <1>3, <1>4 DEF ChainAssumption
<1>6. Prefix(v) = SubSeq(wrote[v], 1, Last(v))
  <2>1. SubSeq(wrote[v], 1, Last(v)) = [n \in 1 .. Last(v) |-> wrote[v][n]]
    BY <1>2, <1>3, <1>5
  <2>2. \A n \in 1 .. Last(v) :
          wrote[v][n] = [entry |-> event[v][n].entry, digest |-> event[v][n].digest]
    <3> TAKE n \in 1 .. Last(v)
    <3>1. wrote[v][n] \in Wrote
      BY <1>2, <1>4
    <3>2. wrote[v][n] = [entry |-> wrote[v][n].entry, digest |-> wrote[v][n].digest]
      BY <3>1 DEF Wrote
    <3> QED BY <1>4, <3>2, Zenon
  <2> QED BY <2>1, <2>2, Zenon DEF Prefix
<1>7. Last(v) # 0 => payload[v] \in {NoPayload, wrote[v][Last(v)].digest}
                     \/ wrote[v][Last(v)].digest = NoDigest
  <2>1. ASSUME Last(v) # 0
        PROVE  event[v][Last(v)].digest = wrote[v][Last(v)].digest
    BY <1>3, <1>4, <2>1
  <2> QED BY <2>1 DEF Verified, ContentHolds
<1> QED BY <1>5, <1>6, <1>7

LEMMA UndamagedLast ==
  ASSUME WroteOK, NEW h, HashInv(h), damages = 0, NEW v \in Versions
  PROVE  Rows(v) = 1 .. Len(wrote[v]) /\ Last(v) = Len(wrote[v])
<1>1. Len(wrote[v]) \in Nat /\ Len(wrote[v]) <= MaxEvents /\ MaxEvents \in Nat
  BY ChainAssumption DEF WroteOK, ChainAssumption
<1>2. ASSUME NEW n \in 1 .. Len(wrote[v])
      PROVE  event[v][n] # NoEvent
  <2>1. event[v][n] = GenuineRow(h, v, n)
    BY DEF HashInv, Undamaged
  <2>2. event[v][n].hash = h[v][n]
    BY <2>1 DEF GenuineRow
  <2>3. h[v][n] = GenuineHash(h, v, n)
    BY DEF HashInv, Genuine
  <2>4. GenuineHash(h, v, n) # NoHash
    BY HashIsThere, Zenon DEF GenuineHash
  <2> QED BY <2>2, <2>3, <2>4 DEF NoEvent
<1>3. Rows(v) = 1 .. Len(wrote[v])
  BY <1>1, <1>2 DEF Rows, Sequences, HashInv, Undamaged
<1>4. CASE Len(wrote[v]) = 0
  BY <1>3, <1>4, LastIs, ChainAssumption
<1>5. CASE Len(wrote[v]) # 0
  <2>1. Len(wrote[v]) \in Rows(v)
    BY <1>1, <1>3, <1>5
  <2>2. Last(v) \in 1 .. Len(wrote[v]) /\ Len(wrote[v]) <= Last(v)
    BY <1>3, <2>1, LastIs, ChainAssumption
  <2> QED BY <1>1, <1>3, <2>2
<1> QED BY <1>3, <1>4, <1>5

LEMMA UndamagedVerifies ==
  ASSUME ChainInv, damages = 0
  PROVE  Verified
<1>1. PICK h : WroteOK /\ HashInv(h)
  BY DEF ChainInv
<1>2. SUFFICES ASSUME NEW v \in Versions
               PROVE  ChainHolds(v) /\ ContentHolds(v)
  BY DEF Verified
<1>3. Rows(v) = 1 .. Len(wrote[v]) /\ Last(v) = Len(wrote[v]) /\ Len(wrote[v]) \in Nat
  BY <1>1, UndamagedLast DEF WroteOK
<1>4. ASSUME NEW n \in 1 .. Len(wrote[v])
      PROVE  /\ event[v][n].previous = IF n = 1 THEN NoHash ELSE event[v][n - 1].hash
             /\ event[v][n].hash = EventHash(v, n, event[v][n])
  <2>1. event[v][n] = GenuineRow(h, v, n) /\ h[v][n] = GenuineHash(h, v, n)
    BY <1>1 DEF HashInv, Undamaged, Genuine
  <2>2. n # 1 => event[v][n - 1] = GenuineRow(h, v, n - 1)
    BY <1>1, <1>3 DEF HashInv, Undamaged
  <2>3. event[v][n].previous = IF n = 1 THEN NoHash ELSE h[v][n - 1]
    BY <2>1 DEF GenuineRow
  <2>4. n # 1 => event[v][n - 1].hash = h[v][n - 1]
    BY <2>2 DEF GenuineRow
  <2>5. event[v][n].hash = EventHash(v, n, event[v][n])
    BY <2>1 DEF GenuineRow, GenuineHash, EventHash
  <2> QED BY <2>3, <2>4, <2>5
<1>5. ChainHolds(v)
  BY <1>3, <1>4 DEF ChainHolds
<1>6. ContentHolds(v)
  <2> SUFFICES ASSUME Last(v) # 0
               PROVE  event[v][Last(v)].digest = payload[v]
    BY DEF ContentHolds
  <2>1. event[v][Last(v)] = GenuineRow(h, v, Last(v))
    BY <1>1, <1>3 DEF HashInv, Undamaged
  <2>2. wrote[v] # <<>>
    BY <1>3
  <2>3. payload[v] = wrote[v][Last(v)].digest
    BY <1>1, <1>3, <2>2 DEF HashInv, Undamaged
  <2> QED BY <2>1, <2>3 DEF GenuineRow
<1> QED BY <1>5, <1>6

LEMMA ChainInitially ==
  ASSUME ChainInit
  PROVE  ChainInv
<1>1. PICK h : h = [v \in Versions |-> [n \in Sequences |-> NoHash]]
  OBVIOUS
<1>2. /\ wrote = [v \in Versions |-> <<>>] /\ payload = [v \in Versions |-> NoPayload]
      /\ damages = 0 /\ event = [v \in Versions |-> [n \in Sequences |-> NoEvent]]
  BY DEF ChainInit
<1>3. WroteOK
  BY <1>2, ChainAssumption DEF WroteOK, Digests, NoDigest, ChainAssumption
<1>4. Genuine(h)
  BY <1>1, <1>2 DEF Genuine
<1>5. NoEvent \in ChainRows(h)
  BY HashesAre DEF NoEvent, ChainRows, Digests
<1>6. Undamaged(h)
  BY <1>2 DEF Undamaged
<1> QED BY <1>2, <1>3, <1>4, <1>5, <1>6 DEF ChainInv, HashInv

LEMMA SameHashes ==
  ASSUME NEW h, Genuine(h), wrote' = wrote
  PROVE  ChainRows(h)' = ChainRows(h) /\ Genuine(h)'
<1>1. ChainRows(h)' = ChainRows(h)
  BY DEF ChainRows, HashesOf
<1>2. ASSUME NEW v \in Versions, NEW n \in 1 .. Len(wrote[v])
      PROVE  h[v][n] = GenuineHash(h, v, n)'
  BY DEF Genuine, GenuineHash
<1>3. \A v \in Versions : \A n \in 1 .. Len(wrote'[v]) : h[v][n] = GenuineHash(h, v, n)'
  BY <1>2
<1>4. h = [v \in Versions |-> [n \in Sequences |-> h[v][n]]]
  BY Zenon DEF Genuine
<1>5. Genuine(h)'
  BY <1>3, <1>4, Zenon DEF Genuine
<1> QED BY <1>1, <1>5

\* Something else changes a row: it has no hash that the application has not made.
LEMMA DamageRowStep ==
  ASSUME ChainInv, NEW v \in Versions, NEW n \in Sequences, DamageRow(v, n)
  PROVE  ChainInv'
<1>1. PICK h : WroteOK /\ HashInv(h)
  BY DEF ChainInv
<1>2. PICK r \in Changes(event[v][n]) : event' = [event EXCEPT ![v][n] = r]
  BY DEF DamageRow
<1>3. damages < MaxDamages /\ damages' = damages + 1 /\ UNCHANGED <<payload, wrote>>
  BY DEF DamageRow
<1>4. PICK old \in ChainRows(h) : old = event[v][n]
  BY <1>1 DEF HashInv
<1>5. StoredRows \subseteq ChainRows(h) /\ NoEvent \in ChainRows(h)
  BY <1>1, HashesAre DEF StoredRows, HashInv, NoEvent, ChainRows, Digests
<1>6. r \in ChainRows(h)
  BY <1>2, <1>4, <1>5 DEF Changes, ChainRows
<1>7. event' \in [Versions -> [Sequences -> ChainRows(h)]]
  BY <1>1, <1>2, <1>6 DEF HashInv
<1>8. WroteOK'
  BY <1>1, <1>3, ChainAssumption DEF WroteOK, ChainAssumption
<1>9. ChainRows(h)' = ChainRows(h) /\ Genuine(h)'
  BY <1>1, <1>3, SameHashes DEF HashInv
<1>10. damages' # 0
  BY <1>1, <1>3 DEF WroteOK
<1>11. HashInv(h)'
  BY <1>7, <1>9, <1>10 DEF HashInv
<1> QED BY <1>8, <1>11 DEF ChainInv

LEMMA DamagePayloadStep ==
  ASSUME ChainInv, NEW v \in Versions, DamagePayload(v)
  PROVE  ChainInv'
<1>1. PICK h : WroteOK /\ HashInv(h)
  BY DEF ChainInv
<1>2. /\ damages < MaxDamages /\ damages' = damages + 1 /\ UNCHANGED <<event, wrote>>
      /\ \E t \in Payloads \cup {NoPayload} : payload' = [payload EXCEPT ![v] = t]
  BY DEF DamagePayload
<1>3. WroteOK'
  BY <1>1, <1>2, ChainAssumption DEF WroteOK, ChainAssumption, Digests, NoDigest
<1>4. ChainRows(h)' = ChainRows(h) /\ Genuine(h)'
  BY <1>1, <1>2, SameHashes DEF HashInv
<1>5. damages' # 0
  BY <1>1, <1>2 DEF WroteOK
<1>6. HashInv(h)'
  BY <1>1, <1>2, <1>4, <1>5 DEF HashInv
<1> QED BY <1>3, <1>6 DEF ChainInv

LEMMA AppendEventStep ==
  ASSUME ChainInv, NEW v \in Versions, NEW entry \in Entries, NEW digest \in Digests,
         AppendEvent(v, entry, digest)
  PROVE  ChainInv'
<1>1. PICK h : WroteOK /\ HashInv(h)
  BY DEF ChainInv
<1>2. PICK m \in Nat : m = Len(wrote[v])
  BY <1>1 DEF WroteOK
<1>3. PICK n \in Nat : n = m + 1
  OBVIOUS
<1>4. PICK p : p = IF m = 0 THEN NoHash ELSE event[v][m].hash
  OBVIOUS
<1>5. PICK x : x = <<v, n, p, entry, digest>>
  OBVIOUS
<1>6. PICK new : new = [previous |-> p, entry |-> entry, digest |-> digest, hash |-> x]
  OBVIOUS
<1>7. PICK told : told = [entry |-> entry, digest |-> digest]
  OBVIOUS
<1>8. PICK h1 : h1 = [w \in Versions |-> [k \in Sequences |->
                        IF w = v /\ k = n THEN x ELSE h[w][k]]]
  OBVIOUS
<1>9. /\ damages = 0 /\ damages' = damages /\ n <= MaxEvents /\ n \in Sequences
      /\ event' = [event EXCEPT ![v][n] = new]
      /\ payload' = [payload EXCEPT ![v] = digest]
      /\ wrote' = [wrote EXCEPT ![v] = Append(@, told)]
  <2>1. damages = 0
    BY DEF AppendEvent
  <2>2. Last(v) = m
    BY <1>1, <1>2, <2>1, UndamagedLast
  <2>3. PICK r : r = [previous |-> p, entry |-> entry, digest |-> digest, hash |-> NoHash]
    OBVIOUS
  <2>4. NewRow(v, entry, digest) = r
    BY <1>4, <2>2, <2>3 DEF NewRow
  <2>5. EventHash(v, n, r) = x
    BY <1>5, <2>3 DEF EventHash
  <2>6. /\ n <= MaxEvents
        /\ event' = [event EXCEPT ![v][n] = [r EXCEPT !.hash = EventHash(v, n, r)]]
        /\ payload' = [payload EXCEPT ![v] = digest]
        /\ wrote' = [wrote EXCEPT ![v] = Append(@, told)]
        /\ damages' = damages
    BY <1>3, <1>7, <2>2, <2>4, Zenon DEF AppendEvent
  <2>7. [r EXCEPT !.hash = x] = new
    BY <1>6, <2>3
  <2>8. n \in Sequences
    BY <1>3, <2>6, ChainAssumption DEF Sequences, ChainAssumption
  <2> QED BY <2>1, <2>5, <2>6, <2>7, <2>8
<1>10. told \in Wrote /\ told.entry = entry /\ told.digest = digest
  BY <1>7 DEF Wrote
<1>11. /\ wrote' \in [Versions -> Seq(Wrote)]
       /\ wrote'[v] = Append(wrote[v], told) /\ Len(wrote'[v]) = n /\ wrote'[v][n] = told
       /\ \A w \in Versions \ {v} : wrote'[w] = wrote[w]
       /\ \A k \in 1 .. m : wrote'[v][k] = wrote[v][k]
  BY <1>1, <1>2, <1>3, <1>9, <1>10 DEF WroteOK
<1>12. /\ \A w \in Versions : \A k \in 1 .. Len(wrote[w]) :
            /\ k \in 1 .. Len(wrote'[w]) /\ k \in Sequences
            /\ wrote'[w][k] = wrote[w][k] /\ h1[w][k] = h[w][k]
            /\ ~ (w = v /\ k = n)
       /\ \A w \in Versions : \A k \in 1 .. Len(wrote'[w]) :
            k \in 1 .. Len(wrote[w]) \/ (w = v /\ k = n)
  <2>1. \A w \in Versions : Len(wrote[w]) \in Nat /\ Len(wrote[w]) <= MaxEvents
    BY <1>1 DEF WroteOK
  <2>2. ASSUME NEW w \in Versions, NEW k \in 1 .. Len(wrote[w])
        PROVE  /\ k \in 1 .. Len(wrote'[w]) /\ k \in Sequences
               /\ wrote'[w][k] = wrote[w][k] /\ h1[w][k] = h[w][k]
               /\ ~ (w = v /\ k = n)
    <3>1. k \in Sequences
      BY <2>1, ChainAssumption DEF Sequences, ChainAssumption
    <3>2. ~ (w = v /\ k = n)
      BY <1>2, <1>3
    <3>3. k \in 1 .. Len(wrote'[w]) /\ wrote'[w][k] = wrote[w][k]
      BY <1>2, <1>3, <1>11, <2>1
    <3> QED BY <1>8, <3>1, <3>2, <3>3
  <2>3. ASSUME NEW w \in Versions, NEW k \in 1 .. Len(wrote'[w])
        PROVE  k \in 1 .. Len(wrote[w]) \/ (w = v /\ k = n)
    BY <1>2, <1>3, <1>11
  <2> QED BY <2>2, <2>3
<1>13. WroteOK'
  <2>1. \A w \in Versions : Len(wrote'[w]) <= MaxEvents
    BY <1>1, <1>9, <1>11 DEF WroteOK
  <2> QED BY <1>1, <1>9, <1>11, <2>1 DEF WroteOK
<1>14. p = (IF n = 1 THEN NoHash ELSE h[v][n - 1]) /\ h1[v][n] = x
       /\ (n # 1 => n - 1 \in 1 .. Len(wrote[v]))
  <2>1. n # 1 => n - 1 = m /\ m # 0 /\ m \in 1 .. Len(wrote[v])
    BY <1>2, <1>3
  <2>2. m # 0 => event[v][m] = GenuineRow(h, v, m)
    BY <1>1, <1>2, <1>9 DEF HashInv, Undamaged
  <2>3. m # 0 => event[v][m].hash = h[v][m]
    BY <2>2 DEF GenuineRow
  <2>4. n = 1 => m = 0
    BY <1>3
  <2> QED BY <1>4, <1>8, <1>9, <2>1, <2>3, <2>4
<1>15. ASSUME NEW w \in Versions, NEW k \in 1 .. Len(wrote[w])
       PROVE  /\ h1[w][k] = GenuineHash(h1, w, k)'
              /\ GenuineRow(h1, w, k)' = GenuineRow(h, w, k)
  <2>1. k # 1 => k - 1 \in 1 .. Len(wrote[w])
    BY <1>1 DEF WroteOK
  <2>2. k # 1 => h1[w][k - 1] = h[w][k - 1]
    BY <1>12, <2>1
  <2>3. wrote'[w][k] = wrote[w][k] /\ h1[w][k] = h[w][k]
    BY <1>12
  <2>4. h[w][k] = GenuineHash(h, w, k)
    BY <1>1 DEF HashInv, Genuine
  <2> QED BY <2>2, <2>3, <2>4 DEF GenuineHash, GenuineRow
<1>16. h1[v][n] = GenuineHash(h1, v, n)' /\ new = GenuineRow(h1, v, n)'
  <2>1. n # 1 => h1[v][n - 1] = h[v][n - 1]
    BY <1>12, <1>14
  <2> QED BY <1>5, <1>6, <1>10, <1>11, <1>14, <2>1 DEF GenuineHash, GenuineRow
<1>17. Genuine(h1)'
  <2>1. h1 = [w \in Versions |-> [k \in Sequences |-> h1[w][k]]]
    BY <1>8
  <2>2. ASSUME NEW w \in Versions, NEW k \in 1 .. Len(wrote'[w])
        PROVE  h1[w][k] = GenuineHash(h1, w, k)'
    BY <1>12, <1>15, <1>16
  <2> QED BY <2>1, <2>2, Zenon DEF Genuine
<1>18. HashesOf(h) \subseteq HashesOf(h1)' /\ x \in HashesOf(h1)' /\ p \in HashesOf(h1)'
  <2>1. ASSUME NEW w \in Versions, NEW k \in 1 .. Len(wrote[w])
        PROVE  h[w][k] \in HashesOf(h1)'
    <3>1. k \in 1 .. Len(wrote'[w]) /\ h[w][k] = h1[w][k]
      BY <1>12
    <3> QED BY <3>1 DEF HashesOf
  <2>2. NoHash \in HashesOf(h1)'
    BY DEF HashesOf
  <2>3. \A y \in HashesOf(h) : y \in HashesOf(h1)'
    BY <2>1, <2>2, HashesAre
  <2>4. n \in 1 .. Len(wrote'[v])
    BY <1>3, <1>11
  <2>5. x \in HashesOf(h1)'
    BY <1>14, <2>4 DEF HashesOf
  <2> QED BY <1>14, <2>1, <2>2, <2>3, <2>5
<1>19. event' \in [Versions -> [Sequences -> ChainRows(h1)']]
  <2>1. event \in [Versions -> [Sequences -> ChainRows(h)]]
    BY <1>1 DEF HashInv
  <2>2. ChainRows(h) \subseteq ChainRows(h1)'
    BY <1>18 DEF ChainRows
  <2>3. new \in ChainRows(h1)'
    BY <1>6, <1>18 DEF ChainRows
  <2> QED BY <1>9, <2>1, <2>2, <2>3
<1>20. Undamaged(h1)'
  <2>1. ASSUME NEW w \in Versions
        PROVE  /\ \A k \in 1 .. Len(wrote'[w]) : event'[w][k] = GenuineRow(h1, w, k)'
               /\ \A k \in Sequences : k > Len(wrote'[w]) => event'[w][k] = NoEvent
               /\ wrote'[w] # <<>> => payload'[w] = wrote'[w][Len(wrote'[w])].digest
    <3>1. /\ \A k \in Sequences : ~ (w = v /\ k = n) => event'[w][k] = event[w][k]
          /\ event'[v][n] = new
      BY <1>1, <1>9 DEF HashInv
    <3>2. /\ \A k \in 1 .. Len(wrote[w]) : event[w][k] = GenuineRow(h, w, k)
          /\ \A k \in Sequences : k > Len(wrote[w]) => event[w][k] = NoEvent
          /\ wrote[w] # <<>> => payload[w] = wrote[w][Len(wrote[w])].digest
      BY <1>1, <1>9 DEF HashInv, Undamaged
    <3>3. \A k \in 1 .. Len(wrote'[w]) : event'[w][k] = GenuineRow(h1, w, k)'
      <4>1. ASSUME NEW k \in 1 .. Len(wrote'[w]), k \in 1 .. Len(wrote[w])
            PROVE  event'[w][k] = GenuineRow(h1, w, k)'
        <5>1. event'[w][k] = event[w][k]
          BY <1>12, <3>1, <4>1
        <5>2. event[w][k] = GenuineRow(h, w, k)
          BY <3>2, <4>1
        <5>3. GenuineRow(h1, w, k)' = GenuineRow(h, w, k)
          BY <1>15, <4>1
        <5> QED BY <5>1, <5>2, <5>3
      <4>2. event'[v][n] = GenuineRow(h1, v, n)'
        BY <1>16, <3>1
      <4>3. \A k \in 1 .. Len(wrote'[w]) : k \in 1 .. Len(wrote[w]) \/ (w = v /\ k = n)
        BY <1>12
      <4> QED BY <4>1, <4>2, <4>3
    <3>4. \A k \in Sequences : k > Len(wrote'[w]) => event'[w][k] = NoEvent
      <4>1. CASE w = v
        BY <1>2, <1>3, <1>11, <3>1, <3>2, <4>1, ChainAssumption DEF Sequences, ChainAssumption
      <4>2. CASE w # v
        BY <1>11, <3>1, <3>2, <4>2
      <4> QED BY <4>1, <4>2
    <3>5. wrote'[w] # <<>> => payload'[w] = wrote'[w][Len(wrote'[w])].digest
      <4>1. CASE w = v
        BY <1>1, <1>9, <1>10, <1>11, <4>1 DEF WroteOK
      <4>2. CASE w # v
        BY <1>1, <1>9, <1>11, <3>2, <4>2 DEF WroteOK
      <4> QED BY <4>1, <4>2
    <3> QED BY <3>3, <3>4, <3>5
  <2> QED BY <2>1, Zenon DEF Undamaged
<1>21. HashInv(h1)'
  BY <1>17, <1>19, <1>20 DEF HashInv
<1> QED BY <1>13, <1>21 DEF ChainInv

LEMMA ChainStep ==
  ASSUME ChainInv, [ChainNext]_chainVars
  PROVE  ChainInv'
<1>1. CASE UNCHANGED chainVars
  <2>1. PICK h : WroteOK /\ HashInv(h)
    BY DEF ChainInv
  <2>2. event' = event /\ payload' = payload /\ wrote' = wrote /\ damages' = damages
    BY <1>1 DEF chainVars
  <2>3. WroteOK'
    BY <2>1, <2>2 DEF WroteOK
  <2>4. ChainRows(h)' = ChainRows(h) /\ Genuine(h)'
    BY <2>1, <2>2, SameHashes DEF HashInv
  <2>5. Undamaged(h)' <=> Undamaged(h)
    BY <2>2, ZenonT(40) DEF Undamaged, GenuineRow
  <2>6. HashInv(h)'
    BY <2>1, <2>2, <2>4, <2>5 DEF HashInv
  <2> QED BY <2>3, <2>6 DEF ChainInv
<1>2. ASSUME NEW v \in Versions, NEW entry \in Entries, NEW digest \in Payloads,
             AppendEvent(v, entry, digest)
      PROVE  ChainInv'
  BY <1>2, AppendEventStep DEF Digests
<1>3. ASSUME NEW v \in Versions, NEW entry \in Entries, AppendEvent(v, entry, payload[v])
      PROVE  ChainInv'
  BY <1>3, AppendEventStep DEF ChainInv, WroteOK
<1>4. ASSUME NEW v \in Versions, NEW n \in Sequences, DamageRow(v, n)
      PROVE  ChainInv'
  BY <1>4, DamageRowStep
<1>5. ASSUME NEW v \in Versions, DamagePayload(v)
      PROVE  ChainInv'
  BY <1>5, DamagePayloadStep
<1> QED BY <1>1, <1>2, <1>3, <1>4, <1>5 DEF ChainNext

LEMMA ChainInvariant == ChainSpec => []ChainInv
<1>1. ChainInit => ChainInv
  BY ChainInitially
<1>2. ChainInv /\ [ChainNext]_chainVars => ChainInv'
  BY ChainStep
<1> QED BY <1>1, <1>2, PTL DEF ChainSpec

\* What the application has written always verifies; and of what something else has changed,
\* only trails that were cut off at their end do, with the text of their last event.
THEOREM VerifiedTheorem == ChainSpec => []VerifiedIsWritten
<1>1. ChainInv => VerifiedIsWritten
  BY VerifiedTells, UndamagedVerifies DEF VerifiedIsWritten
<1> QED BY <1>1, ChainInvariant, PTL

LEMMA ChainTypeFromInv ==
  ASSUME ChainInv
  PROVE  ChainTypeOK
<1>1. PICK h : HashInv(h)
  BY DEF ChainInv
<1>2. ASSUME NEW v \in Versions, NEW n \in Sequences
      PROVE  event[v][n].entry \in Entries \cup {"none"} /\ event[v][n].digest \in Digests
  BY <1>1 DEF HashInv, ChainRows
<1> QED BY <1>2 DEF ChainInv, WroteOK, ChainTypeOK, Digests, NoDigest

-----------------------------------------------------------------------------
(* Scores.                                                                 *)
(*                                                                         *)
(* A rounded quotient is the nearest number (Nearest), so that rounding    *)
(* keeps the order.  The score is not above the worst of the safety        *)
(* criteria below the floor, and grows with it and with the average, also  *)
(* where it stops to be held down (OverallMonotone).                       *)

Divisors == {5, 6, 8, 36, 100}

LEMMA Nearest ==
  ASSUME NEW b \in Divisors, NEW a \in Int
  PROVE  /\ Rounded(a, b) \in Int
         /\ 2 * a - b <= (2 * b) * Rounded(a, b) /\ (2 * b) * Rounded(a, b) <= 2 * a + b
<1>1. PICK q \in Int, r \in 0 .. (b - 1) : q = a \div b /\ r = a % b /\ a = b * q + r
  BY DEF Divisors
<1>2. Rounded(a, b) = q \/ (Rounded(a, b) = q + 1 /\ 2 * r >= b)
  BY <1>1 DEF Rounded, Divisors
<1>3. Rounded(a, b) = q => 2 * r <= b
  BY <1>1 DEF Rounded, Divisors
<1> QED BY <1>1, <1>2, <1>3 DEF Divisors

LEMMA RoundedMonotone ==
  ASSUME NEW b \in Divisors, NEW a \in Int, NEW c \in Int, a <= c
  PROVE  Rounded(a, b) <= Rounded(c, b)
<1>1. CASE a = c
  BY <1>1, Nearest
<1>2. CASE a < c
  <2>1. PICK x \in Int : x = Rounded(a, b) /\ (2 * b) * x <= 2 * a + b
    BY Nearest
  <2>2. PICK y \in Int : y = Rounded(c, b) /\ 2 * c - b <= (2 * b) * y
    BY Nearest
  <2>3. x <= y
    BY <1>2, <2>1, <2>2 DEF Divisors
  <2> QED BY <2>1, <2>2, <2>3
<1> QED BY <1>1, <1>2

LEMMA PassedIs ==
  ASSUME NEW check
  PROVE  Passed(check) \in {0, 100}
BY DEF Passed

\* What the scores need to know of a text.
DocumentOK(doc) == doc \in Document /\ doc.noted + doc.silent <= 100

LEMMA SafetyIs ==
  ASSUME NEW doc, DocumentOK(doc)
  PROVE  /\ SafetyScore(doc) \in Percent
         /\ ~ doc.ppe => SafetyScore(doc) <= 83
         /\ doc.zones = 0 => SafetyScore(doc) <= 67
         /\ ~ Substantive(doc.requirements, 3) \/ ~ Substantive(doc.emergency, 3) =>
              SafetyScore(doc) <= 83
<1>1. PICK p1 \in {0, 100}, p2 \in {0, 100}, p3 \in {0, 100}, p4 \in {0, 100} :
        /\ p1 = Passed(doc.ppe) /\ p2 = Passed(doc.zones > 0)
        /\ p3 = Passed(Substantive(doc.requirements, 3)) /\ p4 = Passed(Substantive(doc.emergency, 3))
  BY PassedIs
<1>2. PICK m \in Percent, z \in Percent : m = doc.noted /\ z = doc.zones
  BY DEF DocumentOK, Document
<1>3. PICK a \in Int : a = p1 + p2 + p3 + m + p4 + z
  BY <1>2 DEF Percent
<1>4. SafetyScore(doc) = Rounded(a, 6)
  BY <1>1, <1>2, <1>3 DEF SafetyScore
<1>5. /\ 0 <= a /\ a <= 600
      /\ ~ doc.ppe => a <= 500
      /\ doc.zones = 0 => a <= 400
      /\ ~ Substantive(doc.requirements, 3) \/ ~ Substantive(doc.emergency, 3) => a <= 500
  <2>1. ~ doc.ppe => p1 = 0
    BY <1>1 DEF Passed
  <2>2. doc.zones = 0 => p2 = 0 /\ z = 0
    BY <1>1, <1>2 DEF Passed
  <2>3. /\ ~ Substantive(doc.requirements, 3) => p3 = 0
        /\ ~ Substantive(doc.emergency, 3) => p4 = 0
    BY <1>1 DEF Passed
  <2> QED BY <1>3, <2>1, <2>2, <2>3 DEF Percent
<1>6. PICK x \in Int : x = Rounded(a, 6) /\ 12 * x <= 2 * a + 6 /\ 2 * a - 6 <= 12 * x
  BY DEF Rounded
<1> QED BY <1>4, <1>5, <1>6 DEF Percent

LEMMA OthersAre ==
  ASSUME NEW doc, DocumentOK(doc), NEW found \in SUBSET Codes
  PROVE  /\ CompletenessScore(doc) \in Percent
         /\ DomainScore(doc, found) \in Percent
         /\ found \cap Critical # {} => DomainScore(doc, found) <= 80
         /\ GroundingScore(doc, found) \in Percent
         /\ doc.rest \in Percent
<1>1. CompletenessScore(doc) \in Percent
  <2>1. PICK p1 \in {0, 100}, p2 \in {0, 100}, p3 \in {0, 100}, p4 \in {0, 100}, p5 \in {0, 100} :
          /\ p1 = Passed(doc.ppe) /\ p2 = Passed(doc.zones > 0)
          /\ p3 = Passed(Substantive(doc.requirements, 1)) /\ p4 = Passed(Substantive(doc.emergency, 1))
          /\ p5 = Passed(~ doc.short)
    BY PassedIs
  <2>2. PICK o \in Percent : o = doc.rest
    BY DEF DocumentOK, Document
  <2>3. PICK a \in Int : a = p1 + p2 + p3 + p4 + p5 + 3 * o
    BY <2>2 DEF Percent
  <2>4. CompletenessScore(doc) = Rounded(a, 8)
    BY <2>1, <2>2, <2>3 DEF CompletenessScore
  <2>5. 0 <= a /\ a <= 800
    BY <2>3 DEF Percent
  <2>6. PICK x \in Int : x = Rounded(a, 8) /\ 16 * x <= 2 * a + 8 /\ 2 * a - 8 <= 16 * x
    BY DEF Rounded
  <2> QED BY <2>4, <2>5, <2>6 DEF Percent
<1>2. DomainScore(doc, found) \in Percent /\ (found \cap Critical # {} => DomainScore(doc, found) <= 80)
  <2>1. PICK p \in {0, 100} : p = Passed(found \cap Critical = {})
    BY PassedIs
  <2>2. PICK d \in 0 .. 4 : d = doc.domain
    BY DEF DocumentOK, Document
  <2>3. PICK a \in Int : a = 100 * (4 - d) + p
    OBVIOUS
  <2>4. DomainScore(doc, found) = Rounded(a, 5)
    BY <2>1, <2>2, <2>3 DEF DomainScore
  <2>5. found \cap Critical # {} => p = 0
    BY <2>1 DEF Passed
  <2>6. PICK x \in Int : x = Rounded(a, 5) /\ 10 * x <= 2 * a + 5 /\ 2 * a - 5 <= 10 * x
    BY DEF Rounded
  <2> QED BY <2>3, <2>4, <2>5, <2>6 DEF Percent
<1>3. GroundingScore(doc, found) \in Percent
  <2>1. PICK p \in {0, 100} : p = Passed(found = {})
    BY PassedIs
  <2>2. PICK g \in 0 .. 7 : g = doc.grounding
    BY DEF DocumentOK, Document
  <2>3. PICK a \in Int : a = 100 * (7 - g) + p
    OBVIOUS
  <2>4. GroundingScore(doc, found) = Rounded(a, 8)
    BY <2>1, <2>2, <2>3 DEF GroundingScore
  <2>5. PICK x \in Int : x = Rounded(a, 8) /\ 16 * x <= 2 * a + 8 /\ 2 * a - 8 <= 16 * x
    BY DEF Rounded
  <2> QED BY <2>3, <2>4, <2>5 DEF Percent
<1> QED BY <1>1, <1>2, <1>3 DEF DocumentOK, Document

LEMMA OverallIs ==
  ASSUME NEW doc, DocumentOK(doc), NEW found \in SUBSET Codes
  PROVE  /\ WorstSafety(doc, found) \in Percent
         /\ WorstSafety(doc, found) <= SafetyScore(doc)
         /\ WorstSafety(doc, found) <= DomainScore(doc, found)
         /\ Weighted(doc, found) \in 0 .. 3600
         /\ OverallScore(doc, found) \in Percent
         /\ WorstSafety(doc, found) < 90 => OverallScore(doc, found) <= WorstSafety(doc, found)
<1>1. PICK s \in Percent : s = SafetyScore(doc)
  BY SafetyIs
<1>2. PICK d \in Percent : d = DomainScore(doc, found)
  BY OthersAre
<1>3. PICK g \in Percent : g = GroundingScore(doc, found)
  BY OthersAre
<1>4. PICK c \in Percent : c = CompletenessScore(doc)
  BY OthersAre
<1>5. PICK o \in Percent : o = doc.rest
  BY OthersAre
<1>6. PICK w \in Percent : w = WorstSafety(doc, found) /\ w <= s /\ w <= d
  BY <1>1, <1>2 DEF WorstSafety, Least, Percent
<1>7. PICK a \in 0 .. 3600 : a = Weighted(doc, found)
  <2>1. PICK a \in Int : a = 6 * s + 4 * d + 4 * g + 3 * c + 19 * o
    BY DEF Percent
  <2>2. a = Weighted(doc, found)
    BY <1>1, <1>2, <1>3, <1>4, <1>5, <2>1 DEF Weighted
  <2>3. a \in 0 .. 3600
    BY <2>1, SMTT(30) DEF Percent
  <2> QED BY <2>2, <2>3, SMTT(30)

<1>8. PICK x \in Int : x = Rounded(a, 36) /\ 72 * x <= 2 * a + 36 /\ 2 * a - 36 <= 72 * x
  BY DEF Rounded
<1>9. OverallScore(doc, found) = IF w < 90 /\ 36 * w < a THEN w ELSE x
  BY <1>6, <1>7, <1>8 DEF OverallScore, SafetyFloor
<1>10. x \in Percent
  <2>1. a \in Int /\ 0 <= a /\ a <= 3600
    OBVIOUS
  <2>2. x <= 100
    BY <1>8, <2>1
  <2>3. 0 <= x
    BY <1>8, <2>1
  <2> QED BY <2>2, <2>3 DEF Percent
<1>11. 36 * w < a \/ x <= w
  <2>1. w \in Int /\ a \in Int
    BY DEF Percent
  <2> QED BY <1>8, <2>1
<1> QED BY <1>1, <1>2, <1>6, <1>7, <1>9, <1>10, <1>11, SMTT(30) DEF Percent

LEMMA CeilingIs ==
  ASSUME NEW score \in Percent, NEW claim
  PROVE  /\ Ceiling(score, claim) \in Percent /\ Ceiling(score, claim) <= score
         /\ ~ claim => Ceiling(score, claim) <= 95
<1>1. PICK a \in Int : a = score * 95
  BY DEF Percent
<1>2. PICK x \in Int : x = Rounded(a, 100) /\ 200 * x <= 2 * a + 100 /\ 2 * a - 100 <= 200 * x
  BY DEF Rounded
<1>3. Ceiling(score, claim) = IF claim THEN score ELSE x
  BY <1>1, <1>2 DEF Ceiling
<1>4. x \in Percent /\ x <= score /\ x <= 95
  BY <1>1, <1>2 DEF Percent
<1> QED BY <1>3, <1>4

LEMMA CeilingMonotone ==
  ASSUME NEW low \in Percent, NEW high \in Percent, low <= high, NEW claim
  PROVE  Ceiling(low, claim) <= Ceiling(high, claim)
<1>1. PICK a \in Int, c \in Int : a = low * 95 /\ c = high * 95 /\ a <= c
  BY DEF Percent
<1>2. Rounded(a, 100) <= Rounded(c, 100)
  BY <1>1, RoundedMonotone DEF Divisors
<1> QED BY <1>1, <1>2 DEF Ceiling

LEMMA OverallMonotone ==
  ASSUME NEW doc, DocumentOK(doc), NEW next, DocumentOK(next),
         NEW found \in SUBSET Codes, NEW left \in SUBSET Codes,
         WorstSafety(doc, found) <= WorstSafety(next, left),
         Weighted(doc, found) <= Weighted(next, left)
  PROVE  OverallScore(doc, found) <= OverallScore(next, left)
<1>1. PICK w \in Percent : w = WorstSafety(doc, found)
  BY OverallIs
<1>2. PICK v \in Percent : v = WorstSafety(next, left)
  BY OverallIs
<1>3. PICK a \in 0 .. 3600 : a = Weighted(doc, found)
  BY OverallIs, SMTT(30)

<1>4. PICK c \in 0 .. 3600 : c = Weighted(next, left)
  BY OverallIs, SMTT(30)

<1>5. w <= v /\ a <= c /\ w \in Int /\ v \in Int /\ a \in Int /\ c \in Int
  BY <1>1, <1>2, <1>3, <1>4, SMTT(30) DEF Percent
<1>6. PICK x \in Int : x = Rounded(a, 36) /\ 72 * x <= 2 * a + 36 /\ 2 * a - 36 <= 72 * x
  BY DEF Rounded
<1>7. PICK y \in Int : y = Rounded(c, 36) /\ 72 * y <= 2 * c + 36 /\ 2 * c - 36 <= 72 * y
  BY DEF Rounded
<1>8. x <= y
  BY <1>5, <1>6, <1>7, RoundedMonotone DEF Divisors
<1>9. OverallScore(doc, found) = IF w < 90 /\ 36 * w < a THEN w ELSE x
  BY <1>1, <1>3, <1>6 DEF OverallScore, SafetyFloor
<1>10. OverallScore(next, left) = IF v < 90 /\ 36 * v < c THEN v ELSE y
  BY <1>2, <1>4, <1>7 DEF OverallScore, SafetyFloor
<1>11. 36 * w < a => w <= y
  BY <1>5, <1>7
<1>12. v < 90 /\ ~ (w < 90 /\ 36 * w < a) => x <= v
  <2>1. SUFFICES ASSUME v < 90, ~ (w < 90 /\ 36 * w < a) PROVE x <= v
    OBVIOUS
  <2>2. w < 90 /\ a <= 36 * w
    BY <1>5, <2>1
  <2> QED BY <1>5, <1>6, <2>2
<1> QED BY <1>5, <1>8, <1>9, <1>10, <1>11, <1>12

LEMMA SubstantiveLess ==
  ASSUME NEW list, Substantive(list, 3), list.own \in Nat, list.house \in Nat
  PROVE  Substantive(list, 1)
BY DEF Substantive

\* A text that is at least as good in every respect scores at least as much.
LEMMA AtLeast ==
  ASSUME NEW doc, DocumentOK(doc), NEW next, DocumentOK(next),
         NEW found \in SUBSET Codes, NEW left \in SUBSET found, NEW claim,
         doc.ppe => next.ppe, doc.zones <= next.zones, doc.noted <= next.noted,
         next.domain <= doc.domain, next.grounding <= doc.grounding,
         doc.rest <= next.rest, next.short => doc.short,
         \A n \in {1, 3} :
           /\ Substantive(doc.requirements, n) => Substantive(next.requirements, n)
           /\ Substantive(doc.emergency, n) => Substantive(next.emergency, n)
  PROVE  Score(doc, found, claim) <= Score(next, left, claim)
<1>1. PICK m \in 0 .. 100, z \in 0 .. 100, d \in 0 .. 4, g \in 0 .. 7, o \in 0 .. 100 :
        m = doc.noted /\ z = doc.zones /\ d = doc.domain /\ g = doc.grounding /\ o = doc.rest
  BY DEF DocumentOK, Document, Percent
<1>0. PICK mm \in 0 .. 100, zz \in 0 .. 100, dd \in 0 .. 4, gg \in 0 .. 7, oo \in 0 .. 100 :
        /\ mm = next.noted /\ zz = next.zones /\ dd = next.domain
        /\ gg = next.grounding /\ oo = next.rest
  BY DEF DocumentOK, Document, Percent
<1>12. m <= mm /\ z <= zz /\ dd <= d /\ gg <= g /\ o <= oo
  BY <1>1, <1>0
<1>2. ASSUME NEW a, NEW c, a => c
      PROVE  Passed(a) <= Passed(c)
  BY <1>2 DEF Passed
<1>3. SafetyScore(doc) <= SafetyScore(next)
  <2>1. PICK p1 \in {0, 100}, p2 \in {0, 100}, p3 \in {0, 100}, p4 \in {0, 100} :
          /\ p1 = Passed(doc.ppe) /\ p2 = Passed(doc.zones > 0)
          /\ p3 = Passed(Substantive(doc.requirements, 3)) /\ p4 = Passed(Substantive(doc.emergency, 3))
    BY PassedIs
  <2>2. PICK q1 \in {0, 100}, q2 \in {0, 100}, q3 \in {0, 100}, q4 \in {0, 100} :
          /\ q1 = Passed(next.ppe) /\ q2 = Passed(next.zones > 0)
          /\ q3 = Passed(Substantive(next.requirements, 3)) /\ q4 = Passed(Substantive(next.emergency, 3))
    BY PassedIs
  <2>3. p1 <= q1 /\ p2 <= q2 /\ p3 <= q3 /\ p4 <= q4
    <3>1. p1 <= q1
      BY <1>2, <2>1, <2>2
    <3>2. p2 <= q2
      <4>1. z > 0 => zz > 0
        BY <1>12
      <4> QED BY <1>0, <1>1, <1>2, <2>1, <2>2, <4>1
    <3>3. p3 <= q3
      BY <1>2, <2>1, <2>2
    <3>4. p4 <= q4
      BY <1>2, <2>1, <2>2
    <3> QED BY <3>1, <3>2, <3>3, <3>4
  <2>4. PICK a \in Int : a = p1 + p2 + p3 + m + p4 + z
    OBVIOUS
  <2>5. PICK c \in Int : c = q1 + q2 + q3 + mm + q4 + zz
    OBVIOUS
  <2>6. a <= c
    BY <1>12, <2>3, <2>4, <2>5
  <2>7. SafetyScore(doc) = Rounded(a, 6) /\ SafetyScore(next) = Rounded(c, 6)
    BY <1>0, <1>1, <2>1, <2>2, <2>4, <2>5 DEF SafetyScore
  <2> QED BY <2>6, <2>7, RoundedMonotone DEF Divisors
<1>4. CompletenessScore(doc) <= CompletenessScore(next)
  <2>1. PICK p1 \in {0, 100}, p2 \in {0, 100}, p3 \in {0, 100}, p4 \in {0, 100}, p5 \in {0, 100} :
          /\ p1 = Passed(doc.ppe) /\ p2 = Passed(doc.zones > 0)
          /\ p3 = Passed(Substantive(doc.requirements, 1)) /\ p4 = Passed(Substantive(doc.emergency, 1))
          /\ p5 = Passed(~ doc.short)
    BY PassedIs
  <2>2. PICK q1 \in {0, 100}, q2 \in {0, 100}, q3 \in {0, 100}, q4 \in {0, 100}, q5 \in {0, 100} :
          /\ q1 = Passed(next.ppe) /\ q2 = Passed(next.zones > 0)
          /\ q3 = Passed(Substantive(next.requirements, 1)) /\ q4 = Passed(Substantive(next.emergency, 1))
          /\ q5 = Passed(~ next.short)
    BY PassedIs
  <2>3. p1 <= q1 /\ p2 <= q2 /\ p3 <= q3 /\ p4 <= q4 /\ p5 <= q5
    <3>1. p1 <= q1
      BY <1>2, <2>1, <2>2
    <3>2. p2 <= q2
      <4>1. z > 0 => zz > 0
        BY <1>12
      <4> QED BY <1>0, <1>1, <1>2, <2>1, <2>2, <4>1
    <3>3. p3 <= q3
      BY <1>2, <2>1, <2>2
    <3>4. p4 <= q4
      BY <1>2, <2>1, <2>2
    <3>5. p5 <= q5
      BY <1>2, <2>1, <2>2
    <3> QED BY <3>1, <3>2, <3>3, <3>4, <3>5
  <2>4. PICK a \in Int : a = p1 + p2 + p3 + p4 + p5 + 3 * o
    OBVIOUS
  <2>5. PICK c \in Int : c = q1 + q2 + q3 + q4 + q5 + 3 * oo
    OBVIOUS
  <2>6. a <= c
    BY <1>12, <2>3, <2>4, <2>5
  <2>7. CompletenessScore(doc) = Rounded(a, 8) /\ CompletenessScore(next) = Rounded(c, 8)
    BY <1>0, <1>1, <2>1, <2>2, <2>4, <2>5 DEF CompletenessScore
  <2> QED BY <2>6, <2>7, RoundedMonotone DEF Divisors
<1>5. DomainScore(doc, found) <= DomainScore(next, left)
  <2>1. PICK p \in {0, 100}, q \in {0, 100} :
          p = Passed(found \cap Critical = {}) /\ q = Passed(left \cap Critical = {})
    BY PassedIs
  <2>2. p <= q
    <3>1. found \cap Critical = {} => left \cap Critical = {}
      OBVIOUS
    <3> QED BY <1>2, <2>1, <3>1
  <2>3. PICK a \in Int : a = 100 * (4 - d) + p
    OBVIOUS
  <2>4. PICK c \in Int : c = 100 * (4 - dd) + q
    OBVIOUS
  <2>5. a <= c
    BY <1>12, <2>2, <2>3, <2>4
  <2>6. DomainScore(doc, found) = Rounded(a, 5) /\ DomainScore(next, left) = Rounded(c, 5)
    BY <1>0, <1>1, <2>1, <2>3, <2>4 DEF DomainScore
  <2> QED BY <2>5, <2>6, RoundedMonotone DEF Divisors
<1>6. GroundingScore(doc, found) <= GroundingScore(next, left)
  <2>1. PICK p \in {0, 100}, q \in {0, 100} : p = Passed(found = {}) /\ q = Passed(left = {})
    BY PassedIs
  <2>2. p <= q
    <3>1. found = {} => left = {}
      OBVIOUS
    <3> QED BY <1>2, <2>1, <3>1
  <2>3. PICK a \in Int : a = 100 * (7 - g) + p
    OBVIOUS
  <2>4. PICK c \in Int : c = 100 * (7 - gg) + q
    OBVIOUS
  <2>5. a <= c
    BY <1>12, <2>2, <2>3, <2>4
  <2>6. GroundingScore(doc, found) = Rounded(a, 8) /\ GroundingScore(next, left) = Rounded(c, 8)
    BY <1>0, <1>1, <2>1, <2>3, <2>4 DEF GroundingScore
  <2> QED BY <2>5, <2>6, RoundedMonotone DEF Divisors
<1>7. left \in SUBSET Codes
  OBVIOUS
<1>8. /\ SafetyScore(doc) \in Int /\ SafetyScore(next) \in Int
      /\ DomainScore(doc, found) \in Int /\ DomainScore(next, left) \in Int
      /\ GroundingScore(doc, found) \in Int /\ GroundingScore(next, left) \in Int
      /\ CompletenessScore(doc) \in Int /\ CompletenessScore(next) \in Int
  <2>1. \A n \in Percent : n \in Int
    BY DEF Percent
  <2> QED BY <1>7, <2>1, SafetyIs, OthersAre
<1>9. WorstSafety(doc, found) <= WorstSafety(next, left)
  BY <1>3, <1>5, <1>8 DEF WorstSafety, Least
<1>10. Weighted(doc, found) <= Weighted(next, left)
  <2>1. PICK s1 \in Int, d1 \in Int, g1 \in Int, c1 \in Int :
          /\ s1 = SafetyScore(doc) /\ d1 = DomainScore(doc, found)
          /\ g1 = GroundingScore(doc, found) /\ c1 = CompletenessScore(doc)
    BY <1>8
  <2>2. PICK s2 \in Int, d2 \in Int, g2 \in Int, c2 \in Int :
          /\ s2 = SafetyScore(next) /\ d2 = DomainScore(next, left)
          /\ g2 = GroundingScore(next, left) /\ c2 = CompletenessScore(next)
    BY <1>8
  <2>3. s1 <= s2 /\ d1 <= d2 /\ g1 <= g2 /\ c1 <= c2
    BY <1>3, <1>4, <1>5, <1>6, <2>1, <2>2
  <2>4. 6 * s1 + 4 * d1 + 4 * g1 + 3 * c1 + 19 * o <= 6 * s2 + 4 * d2 + 4 * g2 + 3 * c2 + 19 * oo
    BY <1>12, <2>3
  <2> QED BY <1>0, <1>1, <2>1, <2>2, <2>4 DEF Weighted
<1>11. OverallScore(doc, found) <= OverallScore(next, left)
  BY <1>7, <1>9, <1>10, OverallMonotone
<1> QED BY <1>7, <1>11, OverallIs, CeilingMonotone DEF Score

\* A list of substance only: what the lists of a better text are.
LEMMA SubstantiveList ==
  ASSUME NEW list \in List, list.own = 3, list.filler = 0, NEW n \in {1, 3}
  PROVE  Substantive(list, n)
<1>1. PICK h \in Nat : h = list.house
  BY DEF List
<1>2. 3 + h >= n /\ 5 * (3 + h) >= 4 * (3 + 0 + h)
  OBVIOUS
<1> QED BY <1>1, <1>2 DEF Substantive, Size

\* What is better in one respect is at least as good in every respect.
LEMMA BetterIsAtLeast ==
  ASSUME NEW doc, DocumentOK(doc), NEW next \in Better(doc)
  PROVE  /\ DocumentOK(next)
         /\ doc.ppe => next.ppe
         /\ doc.zones <= next.zones /\ doc.noted <= next.noted
         /\ next.domain <= doc.domain /\ next.grounding <= doc.grounding
         /\ doc.rest <= next.rest
         /\ next.short => doc.short
         /\ \A n \in {1, 3} :
              /\ Substantive(doc.requirements, n) => Substantive(next.requirements, n)
              /\ Substantive(doc.emergency, n) => Substantive(next.emergency, n)
<1> USE DEF DocumentOK, Document, Percent
<1>1. CASE next = [doc EXCEPT !.ppe = TRUE]
  <2>1. next \in Document
    BY <1>1, ZenonT(40)

  <2>2. next.ppe = TRUE
    BY <1>1
  <2>3. /\ next.requirements = doc.requirements /\ next.emergency = doc.emergency
        /\ next.noted = doc.noted /\ next.silent = doc.silent /\ next.zones = doc.zones
        /\ next.domain = doc.domain /\ next.grounding = doc.grounding /\ next.rest = doc.rest
        /\ next.short = doc.short
    BY <1>1
  <2> QED BY <2>1, <2>2, <2>3
<1>2. CASE next = [doc EXCEPT !.zones = 100]
  BY <1>2
<1>3. CASE next = [doc EXCEPT !.requirements.filler = 0, !.requirements.own = 3]
  <2>1. PICK list \in List : list = doc.requirements
    OBVIOUS
  <2>2. PICK real \in List :
          /\ real = [[list EXCEPT !.filler = 0] EXCEPT !.own = 3]
          /\ real.own = 3 /\ real.filler = 0
    <3>1. PICK first : first = [list EXCEPT !.filler = 0]
      OBVIOUS
    <3>2. first \in List /\ first.filler = 0
      BY <3>1 DEF List
    <3>3. PICK second : second = [first EXCEPT !.own = 3]
      OBVIOUS
    <3>4. second \in List /\ second.own = 3 /\ second.filler = 0
      BY <3>2, <3>3 DEF List
    <3> QED BY <3>1, <3>3, <3>4
  <2>3. next = [doc EXCEPT !.requirements = real]
    BY <1>3, <2>1, <2>2
  <2>4. \A n \in {1, 3} : Substantive(real, n)
    BY <2>2, SubstantiveList
  <2> QED BY <2>3, <2>4
<1>4. CASE next = [doc EXCEPT !.emergency.filler = 0, !.emergency.own = 3]
  <2>1. PICK list \in List : list = doc.emergency
    OBVIOUS
  <2>2. PICK real \in List :
          /\ real = [[list EXCEPT !.filler = 0] EXCEPT !.own = 3]
          /\ real.own = 3 /\ real.filler = 0
    <3>1. PICK first : first = [list EXCEPT !.filler = 0]
      OBVIOUS
    <3>2. first \in List /\ first.filler = 0
      BY <3>1 DEF List
    <3>3. PICK second : second = [first EXCEPT !.own = 3]
      OBVIOUS
    <3>4. second \in List /\ second.own = 3 /\ second.filler = 0
      BY <3>2, <3>3 DEF List
    <3> QED BY <3>1, <3>3, <3>4
  <2>3. next = [doc EXCEPT !.emergency = real]
    BY <1>4, <2>1, <2>2
  <2>4. \A n \in {1, 3} : Substantive(real, n)
    BY <2>2, SubstantiveList
  <2> QED BY <2>3, <2>4
<1>5. CASE next = [doc EXCEPT !.noted = 100 - doc.silent]
  BY <1>5
<1>6. CASE next = [doc EXCEPT !.domain = 0]
  BY <1>6
<1>7. CASE next = [doc EXCEPT !.grounding = 0]
  BY <1>7
<1>8. CASE next = [doc EXCEPT !.rest = 100]
  BY <1>8
<1>9. CASE next = [doc EXCEPT !.short = FALSE]
  <2>1. next \in Document
    BY <1>9, ZenonT(40)

  <2>2. next.short = FALSE
    BY <1>9
  <2>3. /\ next.requirements = doc.requirements /\ next.emergency = doc.emergency
        /\ next.noted = doc.noted /\ next.silent = doc.silent /\ next.zones = doc.zones
        /\ next.domain = doc.domain /\ next.grounding = doc.grounding /\ next.rest = doc.rest
        /\ next.ppe = doc.ppe
    BY <1>9
  <2> QED BY <2>1, <2>2, <2>3
<1> QED BY <1>1, <1>2, <1>3, <1>4, <1>5, <1>6, <1>7, <1>8, <1>9 DEF Better

-----------------------------------------------------------------------------
(* Texts, improved any number of times.                                    *)

\* The first pass adds at most as many items as are missing: a list of fillers then has less
\* than three of substance, or too many fillers beside them.
AddedOnce(list) == Formal(list) => list.house <= Most(1, 4 - list.filler)

QualityInv ==
  /\ text = NoText \/ DocumentOK(text)
  /\ findings \in SUBSET Codes /\ validated \in BOOLEAN /\ passes \in 0 .. MaxPasses
  /\ text = NoText => passes = 0
  /\ text # NoText /\ passes = 0 => text.requirements.house = 0 /\ text.emergency.house = 0
  /\ text # NoText /\ passes = 1 => AddedOnce(text.requirements) /\ AddedOnce(text.emergency)

LEMMA ExtendedIs ==
  ASSUME NEW list \in List, NEW candidates \in Nat \ {0}
  PROVE  /\ Extended(list, candidates, 4) \in List
         /\ list.house = 0 => AddedOnce(Extended(list, candidates, 4))
<1>1. PICK o \in Nat, f \in Nat, h \in Nat : o = list.own /\ f = list.filler /\ h = list.house
  BY DEF List
<1>2. PICK k \in Nat : k = Least(candidates, h + Most(1, 4 - (o + f + h))) /\
                        k <= h + Most(1, 4 - (o + f + h))
  BY DEF Least, Most
<1>3. PICK next : next = [list EXCEPT !.house = k]
  OBVIOUS
<1>4. next = Extended(list, candidates, 4)
  BY <1>1, <1>2, <1>3 DEF Extended, Size
<1>5. next \in List /\ next.own = o /\ next.filler = f /\ next.house = k
  BY <1>1, <1>3 DEF List
<1>6. h = 0 /\ o = 0 /\ f > 0 => k <= Most(1, 4 - f)
  BY <1>2 DEF Most
<1>7. list.house = 0 => AddedOnce(next)
  BY <1>1, <1>5, <1>6 DEF AddedOnce, Formal
<1> QED BY <1>4, <1>5, <1>7

LEMMA AddedOnceIsNotEnough ==
  ASSUME NEW list \in List, AddedOnce(list), Formal(list)
  PROVE  ~ Substantive(list, 3)
<1>1. PICK f \in Nat, h \in Nat : f = list.filler /\ h = list.house
  BY DEF List
<1>2. list.own = 0 /\ f > 0 /\ h <= Most(1, 4 - f)
  BY <1>1 DEF AddedOnce, Formal
<1>3. ~ (0 + h >= 3 /\ 5 * (0 + h) >= 4 * (0 + f + h))
  BY <1>2 DEF Most
<1> QED BY <1>1, <1>2, <1>3 DEF Substantive, Size

LEMMA ImprovedIs ==
  ASSUME NEW doc, DocumentOK(doc)
  PROVE  /\ DocumentOK(Improved(doc))
         /\ Improved(doc).requirements = Extended(doc.requirements, 5, 4)
         /\ Improved(doc).emergency = Extended(doc.emergency, 4, 4)
<1>1. PICK r \in List, e \in List :
        r = Extended(doc.requirements, 5, 4) /\ e = Extended(doc.emergency, 4, 4)
  BY ExtendedIs DEF DocumentOK, Document
<1>2. PICK m \in Percent : m = doc.noted + doc.silent
  BY DEF DocumentOK, Document, Percent
<1>3. PICK next :
        next = [doc EXCEPT !.requirements = r, !.emergency = e, !.noted = m, !.silent = 0]
  OBVIOUS
<1>4. next = Improved(doc)
  BY <1>1, <1>2, <1>3 DEF Improved, DocumentOK, Document
<1>5. next \in Document
  <2>1. PICK first \in Document : first = [doc EXCEPT !.requirements = r]
    BY DEF DocumentOK, Document
  <2>2. PICK second \in Document : second = [first EXCEPT !.emergency = e]
    BY DEF Document
  <2>3. PICK third \in Document : third = [second EXCEPT !.noted = m]
    BY DEF Document
  <2>4. PICK none \in Percent : none = 0
    BY DEF Percent
  <2>6. PICK fourth \in Document : fourth = [third EXCEPT !.silent = none]
    BY DEF Document
  <2>5. next = fourth
    BY <1>3, <2>1, <2>2, <2>3, <2>4, <2>6
  <2> QED BY <2>5
<1>6. next.noted = m /\ next.silent = 0
  BY <1>3 DEF DocumentOK, Document, Percent
<1>7. next.requirements = r
  BY <1>3 DEF DocumentOK, Document, Percent
<1>8. next.emergency = e
  BY <1>3 DEF DocumentOK, Document, Percent
<1> QED BY <1>1, <1>2, <1>4, <1>5, <1>6, <1>7, <1>8 DEF DocumentOK, Percent

LEMMA WrittenIs ==
  ASSUME NEW doc \in Texts
  PROVE  DocumentOK(doc) /\ doc.requirements.house = 0 /\ doc.emergency.house = 0
<1>1. PICK p \in BOOLEAN, z \in {0, 50, 100}, r \in Shapes, e \in Shapes, n \in Notes,
           d \in {0, 1}, o \in Others :
        doc = [ppe |-> p, zones |-> z, requirements |-> ListOf(r), emergency |-> ListOf(e),
               noted |-> n[1], silent |-> n[2], domain |-> d, grounding |-> d, rest |-> o,
               short |-> o < 75]
  BY DEF Texts
<1>2. n[1] \in Percent /\ n[2] \in Percent /\ n[1] + n[2] <= 100
  BY QualityAssumption
<1>3. ListOf(r) \in List /\ ListOf(e) \in List
  BY QualityAssumption DEF ListOf, List
<1>4. ListOf(r).house = 0 /\ ListOf(e).house = 0
  BY DEF ListOf
<1>5. o \in Percent
  BY QualityAssumption
<1>6. (o < 75) \in BOOLEAN
  OBVIOUS
<1>7. doc \in Document
  BY <1>1, <1>2, <1>3, <1>5, <1>6 DEF Document, Percent
<1> QED BY <1>1, <1>2, <1>4, <1>7 DEF DocumentOK

LEMMA QualityInit_Inv ==
  QualityInit => QualityInv
<1> SUFFICES ASSUME QualityInit PROVE QualityInv
  OBVIOUS
<1>1. text = NoText /\ passes = 0 /\ findings = {} /\ validated = FALSE
  BY DEF QualityInit
<1>2. 0 \in 0 .. MaxPasses
  BY QualityAssumption
<1> QED BY <1>1, <1>2 DEF QualityInv

LEMMA QualityNext_Inv ==
  ASSUME QualityInv, [QualityNext]_qualityVars
  PROVE  QualityInv'
<1>1. CASE WriteText
  <2>1. /\ text' \in Texts /\ findings' \in SUBSET Codes /\ validated' \in BOOLEAN
        /\ passes' = 0 /\ 0 \in 0 .. MaxPasses
    BY <1>1 DEF WriteText, QualityInv
  <2>2. PICK doc \in Texts : doc = text'
    BY <2>1
  <2>3. DocumentOK(doc) /\ doc.requirements.house = 0 /\ doc.emergency.house = 0
    BY WrittenIs
  <2> QED BY <2>1, <2>2, <2>3 DEF QualityInv
<1>2. CASE Improve
  <2>1. PICK doc : doc = text /\ DocumentOK(doc)
    BY <1>2 DEF Improve, QualityInv
  <2>2. PICK next : next = Improved(doc)
    OBVIOUS
  <2>3. DocumentOK(next)
    BY <2>1, <2>2, ImprovedIs
  <2>4. /\ text' = next /\ passes' = passes + 1 /\ passes < MaxPasses
        /\ UNCHANGED <<findings, validated>>
    BY <1>2, <2>1, <2>2 DEF Improve
  <2>5. passes = 0 => AddedOnce(next.requirements) /\ AddedOnce(next.emergency)
    <3>1. SUFFICES ASSUME passes = 0
                   PROVE  AddedOnce(next.requirements) /\ AddedOnce(next.emergency)
      OBVIOUS
    <3>2. doc.requirements.house = 0 /\ doc.emergency.house = 0
      BY <1>2, <2>1, <3>1 DEF QualityInv, Improve
    <3>3. doc.requirements \in List /\ doc.emergency \in List
      BY <2>1 DEF DocumentOK, Document
    <3>4. /\ next.requirements = Extended(doc.requirements, 5, 4)
          /\ next.emergency = Extended(doc.emergency, 4, 4)
      BY <2>1, <2>2, ImprovedIs
    <3> QED BY <3>2, <3>3, <3>4, ExtendedIs
  <2>6. passes \in 0 .. MaxPasses /\ MaxPasses \in Nat
    BY QualityAssumption DEF QualityInv
  <2>7. passes' \in 0 .. MaxPasses /\ passes' # 0 /\ (passes' = 1 => passes = 0)
    BY <2>4, <2>6
  <2>8. text' # NoText
    <3>1. next \in Document
      BY <2>3 DEF DocumentOK
    <3> QED BY <2>4, <3>1 DEF NoText, Document
  <2> QED BY <2>3, <2>4, <2>5, <2>7, <2>8 DEF QualityInv
<1>3. CASE UNCHANGED qualityVars
  BY <1>3 DEF qualityVars, QualityInv, DocumentOK
<1> QED BY <1>1, <1>2, <1>3 DEF QualityNext

LEMMA CappedFromInv ==
  ASSUME QualityInv
  PROVE  ScoreIsCapped
<1>1. SUFFICES ASSUME text # NoText PROVE ScoreIsCapped
  BY DEF ScoreIsCapped
<1>2. DocumentOK(text) /\ findings \in SUBSET Codes
  BY <1>1 DEF QualityInv
<1>3. PICK safe \in Percent : safe = SafetyScore(text)
  BY <1>2, SafetyIs
<1>4. PICK trade \in Percent : trade = DomainScore(text, findings)
  BY <1>2, OthersAre
<1>5. PICK weakest \in Percent : weakest = WorstSafety(text, findings)
  BY <1>2, OverallIs
<1>6. PICK whole \in Percent : whole = OverallScore(text, findings)
  BY <1>2, OverallIs
<1>7. PICK score \in Percent : score = Score(text, findings, validated)
  BY <1>6, CeilingIs DEF Score
<1>8. score <= whole /\ (~ validated => score <= 95)
  BY <1>6, <1>7, CeilingIs DEF Score
<1>9. weakest <= safe /\ weakest <= trade /\ (weakest < 90 => whole <= weakest)
  BY <1>2, <1>3, <1>4, <1>5, <1>6, OverallIs
<1>10. weakest < 90 => score <= weakest
  BY <1>8, <1>9 DEF Percent
<1>11. /\ ~ text.ppe => safe <= 83
       /\ text.zones = 0 => safe <= 67
       /\ ~ Substantive(text.requirements, 3) \/ ~ Substantive(text.emergency, 3) => safe <= 83
  BY <1>2, <1>3, SafetyIs
<1>12. /\ safe <= 83 => score <= 83
       /\ safe <= 67 => score <= 67
       /\ trade <= 80 => score <= 80
  BY <1>9, <1>10 DEF Percent
<1>13. ~ text.ppe => score <= 83
  BY <1>11, <1>12
<1>14. text.zones = 0 => score <= 67
  BY <1>11, <1>12
<1>15. passes = 1 /\ (Formal(text.requirements) \/ Formal(text.emergency)) => score <= 83
  <2>1. SUFFICES ASSUME passes = 1, Formal(text.requirements) \/ Formal(text.emergency)
                 PROVE  score <= 83
    OBVIOUS
  <2>2. text.requirements \in List /\ text.emergency \in List
    BY <1>2 DEF DocumentOK, Document
  <2>3. AddedOnce(text.requirements) /\ AddedOnce(text.emergency)
    BY <1>1, <2>1 DEF QualityInv
  <2>4. ~ Substantive(text.requirements, 3) \/ ~ Substantive(text.emergency, 3)
    BY <2>1, <2>2, <2>3, AddedOnceIsNotEnough
  <2> QED BY <1>11, <1>12, <2>4
<1>16. findings \cap Critical # {} =>
         score <= 80 /\ Risk(score, text, findings) = "critical"
  <2>1. findings \cap Critical # {} => trade <= 80
    BY <1>2, <1>4, OthersAre
  <2> QED BY <1>12, <2>1 DEF Risk
<1>17. findings # {} => Risk(score, text, findings) \in {"high", "critical"}
  BY DEF Risk
<1>18. Complete(score, findings) \/ Risk(score, text, findings) = "low" =>
         findings = {} /\ WorstSafety(text, findings) >= SafetyFloor
  <2>1. SUFFICES ASSUME Complete(score, findings) \/ Risk(score, text, findings) = "low"
                 PROVE  findings = {} /\ weakest >= 90
    BY <1>5 DEF SafetyFloor
  <2>2. findings = {} /\ ~ (score < 90)
    <3>1. CASE Complete(score, findings)
      BY <3>1 DEF Complete, Percent
    <3>2. CASE Risk(score, text, findings) = "low"
      BY <3>2 DEF Risk
    <3> QED BY <2>1, <3>1, <3>2
  <2> QED BY <1>10, <2>2 DEF Percent
<1> QED BY <1>7, <1>8, <1>13, <1>14, <1>15, <1>16, <1>17, <1>18 DEF ScoreIsCapped

LEMMA MonotoneFromInv ==
  ASSUME QualityInv
  PROVE  ScoreIsMonotone
<1>1. SUFFICES ASSUME text # NoText PROVE ScoreIsMonotone
  BY DEF ScoreIsMonotone
<1>2. DocumentOK(text) /\ findings \in SUBSET Codes
  BY <1>1 DEF QualityInv
<1>3. PICK score \in Percent : score = Score(text, findings, validated)
  BY <1>2, OverallIs, CeilingIs DEF Score
<1>4. ASSUME NEW doc \in Better(text)
      PROVE  Score(doc, findings, validated) >= score
  <2>1. DocumentOK(doc)
    BY <1>2, BetterIsAtLeast
  <2>2. PICK better \in Percent : better = Score(doc, findings, validated)
    BY <1>2, <2>1, OverallIs, CeilingIs DEF Score
  <2>3. score <= better
    BY <1>2, <1>3, <2>1, <2>2, AtLeast, BetterIsAtLeast
  <2> QED BY <2>2, <2>3 DEF Percent
<1>5. ASSUME NEW found \in SUBSET findings
      PROVE  Score(text, found, validated) >= score
  <2>1. found \in SUBSET Codes
    BY <1>2
  <2>2. PICK better \in Percent : better = Score(text, found, validated)
    BY <1>2, <2>1, OverallIs, CeilingIs DEF Score
  <2>3. text.zones <= text.zones /\ text.noted <= text.noted /\ text.domain <= text.domain
    BY <1>2 DEF DocumentOK, Document, Percent
  <2>4. text.grounding <= text.grounding /\ text.rest <= text.rest
    BY <1>2 DEF DocumentOK, Document, Percent
  <2>5. score <= better
    BY <1>2, <1>3, <2>2, <2>3, <2>4, AtLeast
  <2> QED BY <2>2, <2>5 DEF Percent
<1>6. Score(text, findings, TRUE) >= score
  <2>1. PICK whole \in Percent : whole = OverallScore(text, findings)
    BY <1>2, OverallIs
  <2>2. score <= whole
    BY <1>3, <2>1, CeilingIs DEF Score
  <2>3. Score(text, findings, TRUE) = whole
    BY <2>1 DEF Score, Ceiling
  <2> QED BY <2>2, <2>3 DEF Percent
<1> QED BY <1>3, <1>4, <1>5, <1>6 DEF ScoreIsMonotone

\* What the properties of scores rest on holds in every state.
THEOREM QualityInvariant == QualitySpec => []QualityInv
<1> QED BY QualityInit_Inv, QualityNext_Inv, PTL DEF QualitySpec

LEMMA TypeFromInv ==
  ASSUME QualityInv
  PROVE  QualityTypeOK
<1>1. CASE text = NoText
  BY <1>1 DEF QualityInv, QualityTypeOK
<1>2. CASE text # NoText
  <2>1. DocumentOK(text) /\ findings \in SUBSET Codes
    BY <1>2 DEF QualityInv
  <2>2. Score(text, findings, validated) \in Percent
    BY <2>1, OverallIs, CeilingIs DEF Score
  <2> QED BY <2>1, <2>2 DEF QualityInv, QualityTypeOK, DocumentOK
<1> QED BY <1>1, <1>2

\* The state has its type, and every score is a percentage.
THEOREM QualityTypeTheorem == QualitySpec => []QualityTypeOK
<1> QED BY QualityInvariant, TypeFromInv, PTL

\* For texts of every shape, and however often they are improved: no text is rated above its
\* own safety (_overall_score, _risk_level and _verdict of app/evaluation/quality.py), and the
\* first pass of improve_instruction_quality does not make a list of fillers substantive.
THEOREM CappedTheorem == QualitySpec => []ScoreIsCapped
<1> QED BY QualityInvariant, CappedFromInv, PTL

\* For texts of every shape: one that gets better in one respect never scores less.
THEOREM MonotoneTheorem == QualitySpec => []ScoreIsMonotone
<1> QED BY QualityInvariant, MonotoneFromInv, PTL

-----------------------------------------------------------------------------
(* The choice of frames.                                                   *)
(*                                                                         *)
(* Ranks number an ordered set, so that sorting gives each member once     *)
(* (SortedIs), and rounding spreads the marks of a division evenly         *)
(* (MarksAreSpread).  The folds are followed step by step: a fold has a    *)
(* sequence of values, each from the one before (BucketSteps, FillSteps,   *)
(* JoinedSteps, GroupedSteps), and what is shown along it holds of the     *)
(* last.  Groups are runs of numbers between cuts (Parts): joining,        *)
(* starting and halving a group move or add a cut.                         *)

\* R orders the set strictly and totally.
Orders(R, set) ==
  /\ \A x \in set : <<x, x>> \notin R
  /\ \A x, y, z \in set : <<x, y>> \in R /\ <<y, z>> \in R => <<x, z>> \in R
  /\ \A x, y \in set : x # y => <<x, y>> \in R \/ <<y, x>> \in R

Rank(R, set, x) == Cardinality({y \in set : <<y, x>> \in R})

LEMMA RankIs ==
  ASSUME NEW set, IsFiniteSet(set), NEW R, Orders(R, set), NEW x \in set
  PROVE  /\ Rank(R, set, x) \in 0 .. Cardinality(set) - 1
         /\ \A z \in set : <<x, z>> \in R => Rank(R, set, x) < Rank(R, set, z)
<1> DEFINE Below(z) == {y \in set : <<y, z>> \in R}
<1>1. \A z \in set : /\ IsFiniteSet(Below(z)) /\ Cardinality(Below(z)) \in Nat
                     /\ Cardinality(Below(z) \cup {z}) = Cardinality(Below(z)) + 1
                     /\ IsFiniteSet(Below(z) \cup {z})
  <2> SUFFICES ASSUME NEW z \in set
               PROVE  /\ IsFiniteSet(Below(z)) /\ Cardinality(Below(z)) \in Nat
                      /\ Cardinality(Below(z) \cup {z}) = Cardinality(Below(z)) + 1
                      /\ IsFiniteSet(Below(z) \cup {z})
    OBVIOUS
  <2>1. Below(z) \in SUBSET set /\ z \notin Below(z)
    BY DEF Orders
  <2>2. IsFiniteSet(Below(z)) /\ Cardinality(Below(z)) \in Nat
    BY <2>1, FS_Subset, FS_CardinalityType
  <2> QED BY <2>1, <2>2, FS_AddElement
<1>2. Cardinality(Below(x) \cup {x}) <= Cardinality(set) /\ Cardinality(set) \in Nat
  <2>1. Below(x) \cup {x} \in SUBSET set
    OBVIOUS
  <2> HIDE DEF Below
  <2> QED BY <2>1, FS_Subset, FS_CardinalityType
<1>3. ASSUME NEW z \in set, <<x, z>> \in R
      PROVE  Cardinality(Below(x) \cup {x}) <= Cardinality(Below(z))
  <2>1. Below(x) \cup {x} \in SUBSET Below(z)
    BY <1>3 DEF Orders
  <2> HIDE DEF Below
  <2> QED BY <1>1, <2>1, FS_Subset
<1>4. \A z \in set : Rank(R, set, z) = Cardinality(Below(z))
  BY DEF Rank
<1>5. PICK b : b = Cardinality(Below(x)) /\ b \in Nat
  BY <1>1
<1>6. b + 1 <= Cardinality(set) /\ Cardinality(set) \in Nat
  BY <1>1, <1>2, <1>5
<1>7. Rank(R, set, x) = b /\ b \in 0 .. Cardinality(set) - 1
  BY <1>4, <1>5, <1>6
<1>8. ASSUME NEW z \in set, <<x, z>> \in R PROVE b < Rank(R, set, z)
  <2>1. PICK c \in Nat : c = Cardinality(Below(z))
    BY <1>1
  <2>2. Cardinality(Below(x) \cup {x}) = b + 1
    BY <1>1, <1>5
  <2>3. b + 1 <= c
    BY <1>3, <1>8, <2>1, <2>2
  <2>4. Rank(R, set, z) = c
    BY <1>4, <2>1
  <2> HIDE DEF Below
  <2> QED BY <1>5, <2>1, <2>3, <2>4
<1> HIDE DEF Below
<1> QED BY <1>7, <1>8

\* Every rank is that of one member.
LEMMA Ranked ==
  ASSUME NEW set, IsFiniteSet(set), NEW R, Orders(R, set), NEW s, s = Ordered(set, R)
  PROVE  /\ s \in [1 .. Cardinality(set) -> set]
         /\ \A x \in set : \E k \in 1 .. Cardinality(set) : s[k] = x
         /\ \A k, l \in 1 .. Cardinality(set) : k < l => <<s[k], s[l]>> \in R
<1> DEFINE n == Cardinality(set)
<1> DEFINE rank == [x \in set |-> Rank(R, set, x)]
<1>1. n \in Nat
  BY FS_CardinalityType
<1>2. rank \in [set -> 0 .. n - 1]
  BY RankIs
<1>3. \A x, y \in set : rank[x] = rank[y] => x = y
  <2> SUFFICES ASSUME NEW x \in set, NEW y \in set, rank[x] = rank[y], x # y PROVE FALSE
    OBVIOUS
  <2>1. <<x, y>> \in R \/ <<y, x>> \in R
    BY DEF Orders
  <2>2. rank[x] \in 0 .. n - 1 /\ rank[y] \in 0 .. n - 1
    BY <1>2
  <2> QED BY <1>1, <2>1, <2>2, RankIs
<1>4. rank \in Injection(set, 0 .. n - 1)
  BY <1>2, <1>3 DEF Injection, IsInjective
<1>5. IsFiniteSet(0 .. n - 1) /\ Cardinality(0 .. n - 1) = n
  BY <1>1, FS_Interval, SMTT(30)

<1>6. rank \in Surjection(set, 0 .. n - 1)
  <2> HIDE DEF rank
  <2> QED BY <1>4, <1>5, FS_Injection
<1>7. \A m \in 0 .. n - 1 : \E x \in set : rank[x] = m
  BY <1>6 DEF Surjection
<1>8. \A k \in 1 .. n : s[k] \in set /\ rank[s[k]] = k - 1
  <2> SUFFICES ASSUME NEW k \in 1 .. n PROVE s[k] \in set /\ rank[s[k]] = k - 1
    OBVIOUS
  <2>1. k - 1 \in 0 .. n - 1
    BY <1>1
  <2>2. \E x \in set : Rank(R, set, x) = k - 1
    BY <1>7, <2>1
  <2>3. s[k] = CHOOSE x \in set : Rank(R, set, x) = k - 1
    BY DEF Ordered, Rank
  <2>4. s[k] \in set /\ Rank(R, set, s[k]) = k - 1
    BY <2>2, <2>3
  <2> QED BY <2>4
<1>9. s \in [1 .. n -> set]
  BY <1>8 DEF Ordered, Rank
<1>12. \A x, z \in set : <<x, z>> \in R => rank[x] < rank[z]
  BY RankIs
<1>13. \A x \in set : rank[x] \in Int
  BY <1>2
<1> HIDE DEF rank
<1>10. ASSUME NEW x \in set PROVE \E k \in 1 .. n : s[k] = x
  <2>1. rank[x] + 1 \in 1 .. n
    BY <1>1, <1>2
  <2>2. rank[s[rank[x] + 1]] = (rank[x] + 1) - 1 /\ s[rank[x] + 1] \in set
    BY <1>8, <2>1
  <2>3. rank[x] \in Int
    BY <1>2
  <2>4. s[rank[x] + 1] = x
    BY <1>3, <2>2, <2>3
  <2> QED BY <2>1, <2>4
<1>11. ASSUME NEW k \in 1 .. n, NEW l \in 1 .. n, k < l PROVE <<s[k], s[l]>> \in R
  <2>1. /\ rank[s[k]] = k - 1 /\ rank[s[l]] = l - 1
        /\ s[k] \in set /\ s[l] \in set /\ k \in Int /\ l \in Int
    BY <1>1, <1>8
  <2>2. s[k] # s[l]
    <3>1. k - 1 # l - 1
      BY <1>11
    <3> QED BY <2>1, <3>1
  <2>3. ~ (<<s[l], s[k]>> \in R)
    <3>1. ~ (l - 1 < k - 1)
      BY <1>11
    <3> QED BY <1>12, <2>1, <3>1
  <2> QED BY <2>1, <2>2, <2>3 DEF Orders
<1> QED BY <1>9, <1>10, <1>11

\* Sorted numbers.
LEMMA SortedIs ==
  ASSUME NEW set \in SUBSET Int, IsFiniteSet(set)
  PROVE  /\ Sorted(set) \in [1 .. Cardinality(set) -> set]
         /\ \A x \in set : \E k \in 1 .. Cardinality(set) : Sorted(set)[k] = x
         /\ \A k, l \in 1 .. Cardinality(set) : k < l => Sorted(set)[k] < Sorted(set)[l]
<1> DEFINE R == {p \in set \X set : p[1] < p[2]}
<1>1. \A x, y \in set : <<x, y>> \in R <=> x < y
  OBVIOUS
<1>2. Orders(R, set)
  BY <1>1 DEF Orders
<1>3. Sorted(set) = Ordered(set, R)
  BY DEF Sorted
<1> HIDE DEF R
<1>4. PICK s : s = Sorted(set)
  OBVIOUS
<1>5. /\ s \in [1 .. Cardinality(set) -> set]
      /\ \A x \in set : \E k \in 1 .. Cardinality(set) : s[k] = x
      /\ \A k, l \in 1 .. Cardinality(set) : k < l => <<s[k], s[l]>> \in R
  BY <1>2, <1>3, <1>4, Ranked
<1> QED BY <1>1, <1>4, <1>5

LEMMA Division ==
  ASSUME NEW a \in Int, NEW b \in Nat \ {0}
  PROVE  /\ a \div b \in Int /\ a % b \in 0 .. b - 1
         /\ a = b * (a \div b) + (a % b)
OBVIOUS

LEMMA Multiples ==
  ASSUME NEW b \in Nat \ {0}, NEW e \in Int, - b < b * e, b * e < 2 * b
  PROVE  e \in {0, 1}
<1>1. ~ (e <= -1)
  OBVIOUS
<1>2. ~ (e >= 2)
  OBVIOUS
<1> QED BY <1>1, <1>2

\* round gives the nearest number.
LEMMA RoundedIsNear ==
  ASSUME NEW a \in Int, NEW b \in Nat \ {0}
  PROVE  /\ Rounded(a, b) \in Int
         /\ 2 * a - b <= 2 * (b * Rounded(a, b)) /\ 2 * (b * Rounded(a, b)) <= 2 * a + b
<1>1. PICK q \in Int, r \in 0 .. (b - 1) : q = a \div b /\ r = a % b /\ a = b * q + r
  BY Division
<1>2. PICK p \in Int : p = b * q /\ b * (q + 1) = p + b
  OBVIOUS
<1>3. CASE Rounded(a, b) = q + 1 /\ 2 * r >= b
  BY <1>1, <1>2, <1>3
<1>4. CASE Rounded(a, b) = q /\ 2 * r <= b
  BY <1>1, <1>2, <1>4
<1>5. \/ Rounded(a, b) = q + 1 /\ 2 * r >= b
      \/ Rounded(a, b) = q /\ 2 * r <= b
  BY <1>1 DEF Rounded
<1> QED BY <1>3, <1>4, <1>5

\* The i-th of the numbers that divide 0 .. n into m parts.
Mark(i, n, m) == Rounded(i * n, m)

LEMMA MarksAreSpread ==
  ASSUME NEW n \in Nat, NEW m \in Nat \ {0}, m <= n, NEW i \in Nat
  PROVE  /\ Mark(0, n, m) = 0 /\ Mark(m, n, m) = n
         /\ Mark(i, n, m) \in Int /\ Mark(i + 1, n, m) \in Int
         /\ Mark(i + 1, n, m) - Mark(i, n, m) \in {n \div m, (n \div m) + 1}
         /\ Mark(i, n, m) < Mark(i + 1, n, m)
<1>1. PICK s \in Int, f \in 0 .. (m - 1) : s = n \div m /\ n = m * s + f
  BY Division
<1>2. s >= 1
  <2>1. ~ (s <= 0)
    BY <1>1
  <2> QED BY <2>1
<1>3. ASSUME NEW k \in Nat
      PROVE  /\ Mark(k, n, m) \in Int
             /\ 2 * (k * n) - m <= 2 * (m * Mark(k, n, m)) /\ 2 * (m * Mark(k, n, m)) <= 2 * (k * n) + m
  BY RoundedIsNear DEF Mark
<1>4. Mark(0, n, m) = 0
  <2>1. PICK x \in Int : x = Mark(0, n, m) /\ - m <= 2 * (m * x) /\ 2 * (m * x) <= m
    BY <1>3
  <2>2. - m < m * x /\ m * x < 2 * m /\ x # 1
    BY <2>1
  <2> QED BY <2>1, <2>2, Multiples
<1>5. Mark(m, n, m) = n
  <2>1. PICK x \in Int : x = Mark(m, n, m) /\ 2 * (m * n) - m <= 2 * (m * x)
                         /\ 2 * (m * x) <= 2 * (m * n) + m
    BY <1>3
  <2>2. PICK e \in Int : e = x - n
    OBVIOUS
  <2>3. m * e = m * x - m * n
    BY <2>2
  <2>4. - m < m * e /\ m * e < 2 * m /\ e # 1
    BY <2>1, <2>3
  <2>5. e = 0
    BY <2>4, Multiples
  <2> QED BY <2>1, <2>2, <2>5
<1>6. PICK x \in Int, y \in Int : x = Mark(i, n, m) /\ y = Mark(i + 1, n, m)
  BY <1>3
<1>7. PICK a \in Int : a = i * n
  OBVIOUS
<1>8. /\ 2 * a - m <= 2 * (m * x) /\ 2 * (m * x) <= 2 * a + m
      /\ 2 * (a + n) - m <= 2 * (m * y) /\ 2 * (m * y) <= 2 * (a + n) + m
  <2>1. (i + 1) * n = a + n
    BY <1>7
  <2> QED BY <1>3, <1>6, <1>7, <2>1
<1>9. PICK e \in Int : e = y - x - s
  OBVIOUS
<1>10. m * e = m * y - m * x - m * s
  BY <1>9
<1>11. f - m <= m * e /\ m * e <= f + m
  <2>1. PICK p \in Int, q \in Int, t \in Int : p = m * x /\ q = m * y /\ t = m * s
    OBVIOUS
  <2>2. m * e = q - p - t /\ n = t + f
    BY <1>1, <1>10, <2>1
  <2> QED BY <1>8, <2>1, <2>2
<1>12. e \in {0, 1}
  <2>1. CASE f > 0
    <3>1. - m < m * e /\ m * e < 2 * m
      BY <1>11, <2>1
    <3> QED BY <3>1, Multiples
  <2>2. CASE f = 0
    <3>1. ASSUME NEW k \in Nat PROVE Mark(k, n, m) = k * s
      <4>1. PICK z \in Int : z = Mark(k, n, m) /\ 2 * (k * n) - m <= 2 * (m * z)
                             /\ 2 * (m * z) <= 2 * (k * n) + m
        BY <1>3
      <4>2. PICK d \in Int : d = z - k * s
        OBVIOUS
      <4>3. m * d = m * z - k * n
        BY <1>1, <2>2, <4>2
      <4>4. - m < m * d /\ m * d < 2 * m /\ d # 1
        BY <4>1, <4>3
      <4>5. d = 0
        BY <4>4, Multiples
      <4> QED BY <4>1, <4>2, <4>5
    <3>2. x = i * s /\ y = (i + 1) * s
      BY <1>6, <3>1
    <3>3. (i + 1) * s = i * s + s
      OBVIOUS
    <3> QED BY <1>9, <3>2, <3>3
  <2> QED BY <2>1, <2>2
<1>13. y - x \in {s, s + 1} /\ x < y
  BY <1>2, <1>9, <1>12
<1> QED BY <1>1, <1>4, <1>5, <1>6, <1>13

Increasing(g, n) == \A k, l \in 1 .. n : k < l => g[k] < g[l]

LEMMA Increases ==
  ASSUME NEW n \in Nat, NEW g \in [1 .. n -> Int], \A k \in 1 .. n - 1 : g[k] < g[k + 1]
  PROVE  Increasing(g, n)
<1> SUFFICES ASSUME NEW k \in 1 .. n, NEW l0 \in 1 .. n, k < l0, ~ (g[k] < g[l0]) PROVE FALSE
  BY DEF Increasing
<1> DEFINE Bad == {l \in 1 .. n : k < l /\ ~ (g[k] < g[l])}
<1>1. PICK l \in Bad : \A m \in Bad : l <= m
  <2>1. Bad \subseteq Nat /\ Bad # {}
    <3>1. l0 \in Bad
      OBVIOUS
    <3>2. Bad \subseteq 1 .. n
      OBVIOUS
    <3>3. 1 .. n \subseteq Nat
      OBVIOUS
    <3>4. Bad # {}
      BY <3>1
    <3> HIDE DEF Bad
    <3> QED BY <3>2, <3>3, <3>4
  <2> HIDE DEF Bad
  <2> QED BY <2>1, LeastExists
<1>2. l - 1 \in 1 .. n - 1 /\ l - 1 \in 1 .. n /\ l \in 1 .. n /\ (l - 1) + 1 = l
  BY <1>1
<1>3. g[l - 1] < g[l]
  BY <1>2
<1>4. g[k] \in Int /\ g[l - 1] \in Int /\ g[l] \in Int
  BY <1>2
<1>5. CASE l - 1 = k
  BY <1>1, <1>3, <1>5
<1>6. CASE l - 1 # k
  <2>1. k < l - 1 /\ ~ (l <= l - 1)
    BY <1>1, <1>2, <1>6
  <2>2. g[k] < g[l - 1]
    BY <1>1, <1>2, <2>1
  <2> QED BY <1>1, <1>3, <1>4, <2>2
<1> QED BY <1>5, <1>6

\* There is one way to sort.
LEMMA SortedOnce ==
  ASSUME NEW n \in Nat, NEW g \in [1 .. n -> Int], NEW h \in [1 .. n -> Int],
         Increasing(g, n), Increasing(h, n),
         \A k \in 1 .. n : \E l \in 1 .. n : g[k] = h[l],
         \A k \in 1 .. n : \E l \in 1 .. n : h[k] = g[l]
  PROVE  g = h
<1> SUFFICES ASSUME g # h PROVE FALSE
  OBVIOUS
<1> DEFINE Bad == {k \in 1 .. n : g[k] # h[k]}
<1>1. PICK k \in Bad : \A m \in Bad : k <= m
  <2>1. Bad \subseteq Nat /\ Bad # {}
    <3>1. \E k \in 1 .. n : g[k] # h[k]
      OBVIOUS
    <3>2. Bad \subseteq 1 .. n
      OBVIOUS
    <3>3. 1 .. n \subseteq Nat
      OBVIOUS
    <3>4. Bad # {}
      BY <3>1
    <3> HIDE DEF Bad
    <3> QED BY <3>2, <3>3, <3>4
  <2> HIDE DEF Bad
  <2> QED BY <2>1, LeastExists
<1>2. k \in 1 .. n /\ g[k] # h[k] /\ \A m \in 1 .. n : m < k => g[m] = h[m]
  <2>1. ASSUME NEW m \in 1 .. n, m < k PROVE g[m] = h[m]
    <3>1. ~ (k <= m)
      BY <1>1, <2>1
    <3> QED BY <1>1, <3>1
  <2> QED BY <1>1, <2>1
<1>3. PICK l \in 1 .. n : g[k] = h[l]
  BY <1>2
<1>4. PICK m \in 1 .. n : h[k] = g[m]
  BY <1>2
<1>5. \A x \in 1 .. n : g[x] \in Int /\ h[x] \in Int
  OBVIOUS
<1>6. ~ (l < k)
  <2>1. SUFFICES ASSUME l < k PROVE FALSE
    OBVIOUS
  <2>2. g[l] = h[l] /\ g[l] < g[k]
    BY <1>2, <2>1 DEF Increasing
  <2> QED BY <1>2, <1>3, <1>5, <2>2
<1>7. ~ (m < k)
  <2>1. SUFFICES ASSUME m < k PROVE FALSE
    OBVIOUS
  <2>2. g[m] = h[m] /\ h[m] < h[k]
    BY <1>2, <2>1 DEF Increasing
  <2> QED BY <1>2, <1>4, <1>5, <2>2, SMTT(30)

<1>8. k # l /\ k # m
  BY <1>2, <1>3, <1>4
<1>9. k < l /\ k < m
  BY <1>2, <1>6, <1>7, <1>8
<1>10. h[k] < h[l] /\ g[k] < g[m]
  BY <1>2, <1>9 DEF Increasing
<1>11. PICK a \in Int, b \in Int : a = g[k] /\ b = h[k]
  BY <1>2, <1>5
<1>12. b < a /\ a < b
  BY <1>3, <1>4, <1>10, <1>11
<1> QED BY <1>11, <1>12

LEMMA SortedAs ==
  ASSUME NEW n \in Nat, NEW g \in [1 .. n -> Int], Increasing(g, n),
         NEW set, set = {g[k] : k \in 1 .. n}
  PROVE  /\ Sorted(set) = g /\ IsFiniteSet(set) /\ Cardinality(set) = n
<1>1. IsFiniteSet(1 .. n) /\ Cardinality(1 .. n) = n
  BY FS_Interval
<1>2. \A k, l \in 1 .. n : g[k] = g[l] => k = l
  <2> SUFFICES ASSUME NEW k \in 1 .. n, NEW l \in 1 .. n, g[k] = g[l], k # l PROVE FALSE
    OBVIOUS
  <2>1. g[k] < g[l] \/ g[l] < g[k]
    BY DEF Increasing
  <2>2. g[k] \in Int /\ g[l] \in Int
    OBVIOUS
  <2> QED BY <2>1, <2>2
<1>3. g \in Bijection(1 .. n, set)
  BY <1>2 DEF Bijection, Injection, Surjection, IsInjective
<1>4. IsFiniteSet(set) /\ Cardinality(set) = n
  BY <1>1, <1>3, FS_Bijection DEF ExistsBijection
<1>5. PICK h : h = Sorted(set)
  OBVIOUS
<1>6. set \in SUBSET Int
  OBVIOUS
<1>7. /\ h \in [1 .. n -> set]
      /\ \A x \in set : \E k \in 1 .. n : h[k] = x
      /\ \A k, l \in 1 .. n : k < l => h[k] < h[l]
  BY <1>4, <1>5, <1>6, SortedIs, ZenonT(40)

<1>8. h = g
  <2>1. h \in [1 .. n -> Int] /\ Increasing(h, n)
    BY <1>6, <1>7 DEF Increasing
  <2>2. \A k \in 1 .. n : \E l \in 1 .. n : h[k] = g[l]
    <3>1. ASSUME NEW k \in 1 .. n PROVE \E l \in 1 .. n : h[k] = g[l]
      <4>1. h[k] \in set
        BY <1>7
      <4> QED BY <4>1
    <3> QED BY <3>1
  <2>3. \A k \in 1 .. n : \E l \in 1 .. n : g[k] = h[l]
    BY <1>7
  <2> QED BY <2>1, <2>2, <2>3, SortedOnce
<1> QED BY <1>4, <1>5, <1>8

\* The candidates of a video of total frames.
LEMMA IndicesAre ==
  ASSUME NEW total \in Nat \ {0}, NEW count \in Nat \ {0, 1}, NEW list,
         list = Sorted(Indices(total, count))
  PROVE  /\ list \in [1 .. Lower(count, total) -> 0 .. total - 1]
         /\ Increasing(list, Lower(count, total))
         /\ list[1] = 0 /\ list[Lower(count, total)] = total - 1
         /\ \E s \in Int : \A k \in 1 .. Lower(count, total) - 1 :
              list[k + 1] - list[k] \in {s, s + 1}
<1>1. PICK n \in Nat \ {0} : n = Lower(count, total) /\ n <= total /\ (n = 1 => total = 1)
  BY DEF Lower
<1>2. CASE n = 1
  <2>1. Indices(total, count) = {0}
    BY <1>1, <1>2 DEF Indices
  <2>2. PICK g : g = [k \in 1 .. 1 |-> 0]
    OBVIOUS
  <2>3. g \in [1 .. 1 -> Int] /\ Increasing(g, 1) /\ {0} = {g[k] : k \in 1 .. 1}
    BY <2>2 DEF Increasing
  <2>4. list = g
    BY <2>1, <2>3, SortedAs
  <2> QED BY <1>1, <1>2, <2>2, <2>3, <2>4
<1>3. CASE n # 1
  <2>1. PICK m \in Nat \ {0}, d \in Nat : m = n - 1 /\ d = total - 1 /\ m <= d
    BY <1>1, <1>3
  <2>2. Indices(total, count) = {Mark(i, d, m) : i \in 0 .. m}
    BY <1>1, <1>3, <2>1 DEF Indices, Mark
  <2>3. PICK g : g = [k \in 1 .. n |-> Mark(k - 1, d, m)]
    OBVIOUS
  <2>4. PICK s \in Int : s = d \div m
    <3>1. d \div m \in Int
      BY <2>1, Division
    <3> QED BY <3>1
  <2>5. ASSUME NEW k \in 1 .. n - 1
        PROVE  /\ g[k] \in Int /\ g[k + 1] \in Int
               /\ g[k] < g[k + 1] /\ g[k + 1] - g[k] \in {s, s + 1}
    <3>1. k - 1 \in Nat /\ (k - 1) + 1 = k /\ (k + 1) - 1 = k /\ k \in 1 .. n /\ k + 1 \in 1 .. n
      BY <1>1
    <3>2. g[k] = Mark(k - 1, d, m) /\ g[k + 1] = Mark(k, d, m)
      BY <2>3, <3>1
    <3> QED BY <2>1, <2>4, <3>1, <3>2, MarksAreSpread
  <2>6. g[1] = 0 /\ g[n] = d
    <3>1. 1 \in 1 .. n /\ n \in 1 .. n /\ 1 - 1 = 0 /\ n - 1 = m
      BY <1>1, <2>1
    <3> QED BY <2>1, <2>3, <3>1, MarksAreSpread
  <2>7. g \in [1 .. n -> Int]
    <3>1. ASSUME NEW k \in 1 .. n PROVE Mark(k - 1, d, m) \in Int
      BY <2>1, <3>1, RoundedIsNear DEF Mark
    <3> QED BY <2>3, <3>1
  <2>8. Increasing(g, n)
    BY <1>1, <2>5, <2>7, Increases
  <2>9. Indices(total, count) = {g[k] : k \in 1 .. n}
    <3>1. ASSUME NEW i \in 0 .. m PROVE \E k \in 1 .. n : Mark(i, d, m) = g[k]
      <4>1. i + 1 \in 1 .. n /\ (i + 1) - 1 = i
        BY <2>1
      <4> QED BY <2>3, <4>1
    <3>2. ASSUME NEW k \in 1 .. n PROVE \E i \in 0 .. m : Mark(i, d, m) = g[k]
      <4>1. k - 1 \in 0 .. m
        BY <2>1
      <4> QED BY <2>3, <4>1
    <3> QED BY <2>2, <3>1, <3>2
  <2>10. list = g
    BY <2>7, <2>8, <2>9, SortedAs
  <2>11. g \in [1 .. n -> 0 .. total - 1]
    <3>1. ASSUME NEW k \in 1 .. n PROVE g[k] \in 0 .. d
      <4>1. k = 1 \/ g[1] < g[k]
        BY <2>8 DEF Increasing
      <4>2. k = n \/ g[k] < g[n]
        BY <2>8 DEF Increasing
      <4>3. g[k] \in Int
        BY <2>7
      <4> QED BY <2>1, <2>6, <4>1, <4>2, <4>3
    <3> QED BY <2>1, <2>7, <3>1
  <2> QED BY <1>1, <2>1, <2>5, <2>6, <2>8, <2>10, <2>11
<1> QED BY <1>2, <1>3

\* At least two candidates are asked for.
LEMMA CountIs ==
  ASSUME wanted \in Nat
  PROVE  Higher(wanted * PerKeyframe, Fewest) \in Nat \ {0, 1}
<1>1. PICK p \in Nat : p = wanted * PerKeyframe
  BY KeyframesAssumption
<1>2. Fewest \in Nat \ {0, 1}
  BY KeyframesAssumption
<1>3. Higher(p, Fewest) \in Nat \ {0, 1}
  BY <1>1, <1>2 DEF Higher
<1> QED BY <1>1, <1>3

LEMMA SpreadIs ==
  ASSUME frames \in Nat \ {0}, wanted \in Nat \ {0}
  PROVE  IndicesAreSpread
<1>1. PICK count \in Nat \ {0, 1} : count = Higher(wanted * PerKeyframe, Fewest)
  BY CountIs
<1>2. PICK list : list = CandidateIndices
  OBVIOUS
<1>3. PICK n \in Nat \ {0} : n = Lower(count, frames) /\ n = Lower(frames, count)
  BY <1>1 DEF Lower
<1>4. list = Sorted(Indices(frames, count))
  BY <1>1, <1>2 DEF CandidateIndices
<1>5. /\ list \in [1 .. n -> 0 .. frames - 1]
      /\ list[1] = 0 /\ list[n] = frames - 1
      /\ \E s \in Int : \A k \in 1 .. n - 1 : list[k + 1] - list[k] \in {s, s + 1}
  <2>1. PICK total \in Nat \ {0} : total = frames
    OBVIOUS
  <2>2. list = Sorted(Indices(total, count)) /\ Lower(count, total) = n
    BY <1>3, <1>4, <2>1
  <2>3. /\ list \in [1 .. n -> 0 .. total - 1]
        /\ list[1] = 0 /\ list[n] = total - 1
        /\ \E s \in Int : \A k \in 1 .. n - 1 : list[k + 1] - list[k] \in {s, s + 1}
    BY <2>2, IndicesAre
  <2> QED BY <2>1, <2>3
<1>6. PICK s \in Int : \A k \in 1 .. n - 1 : list[k + 1] - list[k] \in {s, s + 1}
  BY <1>5
<1>7. Len(list) = n
  BY <1>5
<1>8. \A a, b \in {list[k + 1] - list[k] : k \in 1 .. n - 1} : a <= b + 1
  <2> SUFFICES ASSUME NEW a \in {list[k + 1] - list[k] : k \in 1 .. n - 1},
                      NEW b \in {list[k + 1] - list[k] : k \in 1 .. n - 1}
               PROVE  a <= b + 1
    OBVIOUS
  <2>1. a \in {s, s + 1} /\ b \in {s, s + 1}
    BY <1>6
  <2> QED BY <2>1
<1> QED BY <1>1, <1>2, <1>3, <1>5, <1>7, <1>8 DEF IndicesAreSpread

\* A fold as the set fold of the library computes it, by the greatest member.
Top(set) == CHOOSE x \in set : \A y \in set : x >= y

IsFold(h, F, base, n) ==
  h = [set \in SUBSET (1 .. n) |->
         IF set = {} THEN base ELSE F[<<h[set \ {Top(set)}], Top(set)>>]]

LEMMA TopIs ==
  ASSUME NEW n \in Nat, NEW set \in SUBSET (1 .. n), set # {}
  PROVE  /\ Top(set) \in set /\ \A y \in set : Top(set) >= y
         /\ n \in set => Top(set) = n
<1> DEFINE Above == {m \in 0 .. n : \A y \in set : y <= m}
<1>1. n \in Above
  OBVIOUS
<1>2. PICK m \in Above : \A k \in Above : m <= k
  <2>1. Above \subseteq 0 .. n
    OBVIOUS
  <2>2. 0 .. n \subseteq Nat
    OBVIOUS
  <2> HIDE DEF Above
  <2> QED BY <1>1, <2>1, <2>2, LeastExists
<1>3. m \in set
  <2>1. SUFFICES ASSUME m \notin set PROVE FALSE
    OBVIOUS
  <2>2. \A y \in set : y <= m - 1
    BY <2>1
  <2>3. PICK y \in set : TRUE
    OBVIOUS
  <2>4. m - 1 \in 0 .. n
    BY <2>2, <2>3
  <2>5. m - 1 \in Above
    BY <2>2, <2>4
  <2> QED BY <1>2, <2>5
<1>4. \A y \in set : m >= y
  OBVIOUS
<1>5. Top(set) \in set /\ \A y \in set : Top(set) >= y
  BY <1>3, <1>4 DEF Top
<1>6. PICK t \in 1 .. n : t = Top(set)
  BY <1>5
<1>7. n \in set => t >= n
  BY <1>5, <1>6
<1> QED BY <1>5, <1>6, <1>7

LEMMA FoldExists ==
  ASSUME NEW N \in Nat, NEW D, NEW base \in D, NEW F,
         \A d \in D : \A k \in 1 .. N : F[<<d, k>>] \in D
  PROVE  \E h \in [SUBSET (1 .. N) -> D] : IsFold(h, F, base, N)
<1> DEFINE Good(n) == \E h \in [SUBSET (1 .. n) -> D] : IsFold(h, F, base, n)
<1> DEFINE Bad == {n \in 0 .. N : ~ Good(n)}
<1>1. SUFFICES ASSUME ~ Good(N) PROVE FALSE
  OBVIOUS
<1>2. Good(0)
  <2>1. PICK h : h = [set \in SUBSET (1 .. 0) |-> base]
    OBVIOUS
  <2>2. \A set \in SUBSET (1 .. 0) : set = {}
    OBVIOUS
  <2>3. IsFold(h, F, base, 0) /\ h \in [SUBSET (1 .. 0) -> D]
    BY <2>1, <2>2 DEF IsFold
  <2> QED BY <2>3
<1>3. PICK n \in Bad : \A m \in Bad : n <= m
  <2>1. N \in Bad
    <3> HIDE DEF Good
    <3> QED BY <1>1
  <2>2. Bad \subseteq 0 .. N
    OBVIOUS
  <2>3. 0 .. N \subseteq Nat
    OBVIOUS
  <2> HIDE DEF Bad
  <2> QED BY <2>1, <2>2, <2>3, LeastExists
<1>4. n \in 1 .. N /\ ~ Good(n)
  <2>1. n \in 0 .. N /\ ~ Good(n)
    OBVIOUS
  <2>2. n # 0
    BY <1>2, <2>1
  <2> HIDE DEF Good
  <2> QED BY <2>1, <2>2
<1>5. Good(n - 1)
  <2>1. n - 1 \in 0 .. N /\ ~ (n <= n - 1)
    BY <1>4
  <2>2. n - 1 \notin Bad
    BY <1>3, <2>1
  <2> HIDE DEF Good
  <2> QED BY <2>1, <2>2
<1>6. PICK h \in [SUBSET (1 .. n - 1) -> D] : IsFold(h, F, base, n - 1)
  BY <1>5
<1>7. PICK g : g = [set \in SUBSET (1 .. n) |->
                      IF n \in set THEN F[<<h[set \ {n}], n>>] ELSE h[set]]
  OBVIOUS
<1>8. ASSUME NEW set \in SUBSET (1 .. n)
      PROVE  /\ g[set] \in D
             /\ g[set] = IF set = {} THEN base ELSE F[<<g[set \ {Top(set)}], Top(set)>>]
  <2>1. CASE n \in set
    <3>1. set \ {n} \in SUBSET (1 .. n - 1) /\ set \ {n} \in SUBSET (1 .. n)
      <4>1. \A y \in 1 .. n : y # n => y \in 1 .. n - 1
        BY <1>4
      <4> QED BY <4>1
    <3>2. Top(set) = n /\ set # {}
      BY <1>4, <2>1, TopIs
    <3>3. g[set \ {n}] = h[set \ {n}] /\ g[set] = F[<<h[set \ {n}], n>>]
      BY <1>7, <2>1, <3>1
    <3>4. h[set \ {n}] \in D
      BY <3>1
    <3> QED BY <1>4, <3>2, <3>3, <3>4
  <2>2. CASE n \notin set /\ set # {}
    <3>1. set \in SUBSET (1 .. n - 1)
      BY <1>4, <2>2
    <3>2. PICK x : x = Top(set) /\ x \in set
      BY <1>4, <2>2, TopIs
    <3>3. set \ {x} \in SUBSET (1 .. n) /\ n \notin set \ {x}
      BY <2>2
    <3>4. g[set] = h[set] /\ g[set \ {x}] = h[set \ {x}]
      BY <1>7, <2>2, <3>3
    <3>5. h[set] = F[<<h[set \ {x}], x>>]
      BY <1>6, <2>2, <3>1, <3>2 DEF IsFold
    <3>6. h[set] \in D
      BY <3>1
    <3> QED BY <2>2, <3>2, <3>4, <3>5, <3>6
  <2>3. CASE set = {}
    <3>1. {} \in SUBSET (1 .. n - 1) /\ n \notin {}
      OBVIOUS
    <3>2. g[{}] = h[{}] /\ h[{}] = base
      BY <1>6, <1>7, <3>1 DEF IsFold
    <3> QED BY <2>3, <3>2
  <2> QED BY <2>1, <2>2, <2>3
<1>9. g \in [SUBSET (1 .. n) -> D]
  BY <1>7, <1>8
<1>10. IsFold(g, F, base, n)
  <2>1. g = [set \in SUBSET (1 .. n) |-> g[set]]
    BY <1>7
  <2> QED BY <1>8, <2>1 DEF IsFold
<1> QED BY <1>4, <1>9, <1>10

\* What the fold of the library starts with, and what it does with the first members.
LEMMA Initial ==
  ASSUME NEW n \in Nat, NEW m \in 0 .. n - 1
  PROVE  /\ 1 .. (m + 1) \in SUBSET (1 .. n) /\ 1 .. (m + 1) # {}
         /\ Top(1 .. (m + 1)) = m + 1 /\ (1 .. (m + 1)) \ {m + 1} = 1 .. m
<1>1. m + 1 \in Nat /\ m + 1 \in 1 .. (m + 1)
  OBVIOUS
<1>2. 1 .. (m + 1) \in SUBSET (1 .. n) /\ 1 .. (m + 1) # {}
  BY <1>1
<1>3. Top(1 .. (m + 1)) = m + 1
  BY <1>1, <1>2, TopIs, ZenonT(40)

<1> QED BY <1>2, <1>3

\* Steps from 0 to n keep what holds at 0.
LEMMA Along ==
  ASSUME NEW n \in Nat, NEW G, 0 \in G, \A m \in 0 .. n - 1 : m \in G => m + 1 \in G
  PROVE  \A m \in 0 .. n : m \in G
<1> DEFINE Bad == {m \in 0 .. n : m \notin G}
<1> SUFFICES ASSUME NEW m0 \in 0 .. n, m0 \notin G PROVE FALSE
  OBVIOUS
<1>1. PICK m \in Bad : \A k \in Bad : m <= k
  <2>1. m0 \in Bad
    OBVIOUS
  <2>2. Bad \subseteq 0 .. n
    OBVIOUS
  <2>3. 0 .. n \subseteq Nat
    OBVIOUS
  <2> HIDE DEF Bad
  <2> QED BY <2>1, <2>2, <2>3, LeastExists
<1>2. m \in 0 .. n /\ m \notin G /\ m # 0
  BY <1>1
<1>3. m - 1 \in 0 .. n - 1 /\ m - 1 \in 0 .. n /\ (m - 1) + 1 = m /\ ~ (m <= m - 1)
  BY <1>2
<1>4. m - 1 \in G
  BY <1>1, <1>3
<1> QED BY <1>2, <1>3, <1>4

CandidatesOK == candidate \in Seq([index : Int, level : Int, score : Int])

LEMMA CandidatesAre ==
  ASSUME CandidatesOK
  PROVE  /\ Len(candidate) \in Nat /\ DOMAIN candidate = 1 .. Len(candidate)
         /\ IsFiniteSet(DOMAIN candidate)
         /\ \A i \in DOMAIN candidate : candidate[i].level \in Int /\ candidate[i].score \in Int
<1>1. PICK c : c = candidate /\ c \in Seq([index : Int, level : Int, score : Int])
  BY DEF CandidatesOK
<1>2. Len(c) \in Nat /\ DOMAIN c = 1 .. Len(c)
  BY <1>1
<1>3. \A i \in 1 .. Len(c) : c[i] \in [index : Int, level : Int, score : Int]
  <2>1. PICK T : T = [index : Int, level : Int, score : Int]
    OBVIOUS
  <2>2. c \in Seq(T)
    BY <1>1, <2>1
  <2>3. \A i \in 1 .. Len(c) : c[i] \in T
    BY <2>2
  <2> QED BY <2>1, <2>3
<1>4. \A i \in 1 .. Len(c) : c[i].level \in Int /\ c[i].score \in Int
  BY <1>3
<1>5. IsFiniteSet(1 .. Len(c))
  BY <1>2, FS_Interval
<1> QED BY <1>1, <1>2, <1>4, <1>5

LEMMA ByScoreIs ==
  ASSUME CandidatesOK, NEW set \in SUBSET DOMAIN candidate
  PROVE  /\ IsFiniteSet(set)
         /\ ByScore(set) \in [1 .. Cardinality(set) -> set]
         /\ \A x \in set : \E k \in 1 .. Cardinality(set) : ByScore(set)[k] = x
<1> DEFINE R == {p \in set \X set : Before(p[1], p[2])}
<1>1. IsFiniteSet(set)
  BY CandidatesAre, FS_Subset
<1>2. \A i \in set : candidate[i].score \in Int /\ i \in Int
  BY CandidatesAre
<1>3. \A i, j \in set : <<i, j>> \in R <=> Before(i, j)
  OBVIOUS
<1>4. Orders(R, set)
  <2>1. \A i \in set : ~ Before(i, i)
    BY <1>2 DEF Before
  <2>2. ASSUME NEW i \in set, NEW j \in set, NEW k \in set, Before(i, j), Before(j, k)
        PROVE  Before(i, k)
    <3>1. PICK a \in Int, b \in Int, c \in Int :
            a = candidate[i].score /\ b = candidate[j].score /\ c = candidate[k].score
      BY <1>2
    <3>2. i \in Int /\ j \in Int /\ k \in Int
      BY <1>2
    <3>3. (a > b \/ (a = b /\ i < j)) /\ (b > c \/ (b = c /\ j < k))
      BY <2>2, <3>1 DEF Before
    <3>4. a > c \/ (a = c /\ i < k)
      BY <3>2, <3>3
    <3> QED BY <3>1, <3>4 DEF Before
  <2>3. ASSUME NEW i \in set, NEW j \in set, i # j PROVE Before(i, j) \/ Before(j, i)
    <3>1. PICK a \in Int, b \in Int : a = candidate[i].score /\ b = candidate[j].score
      BY <1>2
    <3>2. i \in Int /\ j \in Int
      BY <1>2
    <3>3. a > b \/ (a = b /\ i < j) \/ b > a \/ (b = a /\ j < i)
      BY <2>3, <3>1, <3>2
    <3> QED BY <3>1, <3>3 DEF Before
  <2> HIDE DEF R
  <2> QED BY <1>3, <2>1, <2>2, <2>3 DEF Orders
<1>5. ByScore(set) = Ordered(set, R)
  BY DEF ByScore
<1> HIDE DEF R
<1>6. PICK s : s = ByScore(set)
  OBVIOUS
<1>7. /\ s \in [1 .. Cardinality(set) -> set]
      /\ \A x \in set : \E k \in 1 .. Cardinality(set) : s[k] = x
  BY <1>1, <1>4, <1>5, <1>6, Ranked
<1> QED BY <1>1, <1>6, <1>7

Alike(i, picked) == ~ Distinct(i, picked)

\* The chosen are candidates, few enough, and no two alike.
Chooses(picked, limit) ==
  /\ picked \in SUBSET DOMAIN candidate
  /\ Cardinality(picked) <= limit
  /\ \A i, j \in picked : i # j => Apart(candidate[i].level, candidate[j].level)

LEMMA AddedTo ==
  ASSUME CandidatesOK, NEW limit \in Nat, NEW picked, Chooses(picked, limit),
         NEW i \in DOMAIN candidate, Distinct(i, picked)
  PROVE  Chooses(picked \cup {i}, limit + 1)
<1>1. \A a, b \in Int : Apart(a, b) => Apart(b, a)
  BY KeyframesAssumption DEF Apart
<1>2. \A j \in DOMAIN candidate : candidate[j].level \in Int
  BY CandidatesAre
<1>3. picked \cup {i} \in SUBSET DOMAIN candidate
  BY DEF Chooses
<1>4. Cardinality(picked \cup {i}) <= limit + 1
  <2>1. IsFiniteSet(picked) /\ Cardinality(picked) \in Nat
    BY CandidatesAre, FS_Subset, FS_CardinalityType DEF Chooses
  <2>2. Cardinality(picked) <= limit
    BY DEF Chooses
  <2>3. Cardinality(picked \cup {i}) \in {Cardinality(picked), Cardinality(picked) + 1}
    BY <2>1, FS_AddElement
  <2> QED BY <2>1, <2>2, <2>3
<1>5. ASSUME NEW j \in picked \cup {i}, NEW k \in picked \cup {i}, j # k
      PROVE  Apart(candidate[j].level, candidate[k].level)
  <2>1. CASE j \in picked /\ k \in picked
    BY <1>5, <2>1 DEF Chooses
  <2>2. CASE j = i /\ k \in picked
    BY <2>2 DEF Distinct
  <2>3. CASE k = i /\ j \in picked
    <3>1. Apart(candidate[i].level, candidate[j].level)
      BY <2>3 DEF Distinct
    <3>2. candidate[i].level \in Int /\ candidate[j].level \in Int
      BY <1>2, <1>3, <2>3
    <3> QED BY <1>1, <2>3, <3>1, <3>2
  <2> QED BY <1>5, <2>1, <2>2, <2>3
<1> QED BY <1>3, <1>4, <1>5 DEF Chooses

\* A bucket adds one of its candidates, or has only such as look like those that are chosen.
LEMMA AddBestIs ==
  ASSUME CandidatesOK, NEW limit \in Nat, NEW picked, Chooses(picked, limit),
         NEW positions \in SUBSET DOMAIN candidate
  PROVE  /\ Chooses(AddBest(picked, positions), limit + 1)
         /\ picked \subseteq AddBest(picked, positions)
         /\ \/ AddBest(picked, positions) \cap positions # {}
            \/ \A i \in positions : Alike(i, AddBest(picked, positions))
<1>1. PICK good : good = {i \in positions : Distinct(i, picked)}
  OBVIOUS
<1>2. CASE good = {}
  <2>1. AddBest(picked, positions) = picked
    BY <1>1, <1>2 DEF AddBest
  <2>2. Chooses(picked, limit + 1)
    <3>1. IsFiniteSet(picked) /\ Cardinality(picked) \in Nat
      BY CandidatesAre, FS_Subset, FS_CardinalityType DEF Chooses
    <3> QED BY <3>1 DEF Chooses
  <2> QED BY <1>1, <1>2, <2>1, <2>2 DEF Alike
<1>3. CASE good # {}
  <2>1. good \in SUBSET DOMAIN candidate
    BY <1>1
  <2>2. PICK i \in good : i = ByScore(good)[1]
    <3>1. PICK s : s = ByScore(good)
      OBVIOUS
    <3>2. IsFiniteSet(good) /\ s \in [1 .. Cardinality(good) -> good]
      BY <2>1, <3>1, ByScoreIs
    <3>3. Cardinality(good) \in Nat /\ Cardinality(good) # 0
      BY <1>3, <3>2, FS_CardinalityType, FS_EmptySet
    <3> QED BY <3>1, <3>2, <3>3
  <2>3. AddBest(picked, positions) = picked \cup {i}
    BY <1>1, <1>3, <2>2 DEF AddBest
  <2>4. i \in DOMAIN candidate /\ i \in positions /\ Distinct(i, picked)
    BY <1>1
  <2> QED BY <2>3, <2>4, AddedTo
<1> QED BY <1>2, <1>3

LEMMA BucketIs ==
  ASSUME CandidatesOK, NEW b \in Nat, b < Buckets, wanted \in Nat
  PROVE  Bucket(b, Buckets) \in SUBSET DOMAIN candidate
<1>1. PICK n \in Nat : n = Len(candidate) /\ DOMAIN candidate = 1 .. n
  BY CandidatesAre
<1>2. PICK m \in Nat \ {0} : m = Buckets
  BY <1>1 DEF Buckets, Lower
<1>3. PICK x \in Int : x = Rounded(b * n, m) /\ 2 * (b * n) - m <= 2 * (m * x)
  <2>1. b * n \in Int
    BY <1>1
  <2> QED BY <1>2, <2>1, RoundedIsNear
<1>4. x >= 0
  <2>1. b * n \in Nat
    BY <1>1
  <2>2. ~ (x <= -1)
    <3>1. SUFFICES ASSUME x <= -1 PROVE FALSE
      OBVIOUS
    <3>2. m * x <= - m
      BY <3>1
    <3>3. PICK p \in Int : p = m * x
      OBVIOUS
    <3> QED BY <1>3, <2>1, <3>2, <3>3
  <2> QED BY <2>2
<1>5. PICK y \in Int : y = Rounded((b + 1) * n, m)
  <2>1. (b + 1) * n \in Int
    BY <1>1
  <2> QED BY <2>1, RoundedIsNear
<1>6. PICK z \in Int : z = Lower(n, Higher(x + 1, y)) /\ z <= n
  BY <1>1 DEF Lower, Higher
<1>7. Bucket(b, Buckets) = x + 1 .. z
  BY <1>1, <1>2, <1>3, <1>5, <1>6 DEF Bucket
<1> QED BY <1>1, <1>4, <1>6, <1>7

\* The buckets one after the other.
LEMMA BucketSteps ==
  ASSUME CandidatesOK, wanted \in Nat \ {0}
  PROVE  \E st : /\ st[0] = {} /\ FromBuckets = st[Buckets]
                 /\ \A m \in 0 .. Buckets - 1 : st[m + 1] = AddBest(st[m], Bucket(m, Buckets))
<1>1. PICK n \in Nat : n = Buckets
  BY CandidatesAre DEF Buckets, Lower
<1> DEFINE D == SUBSET DOMAIN candidate
<1> DEFINE F == [p \in D \X (1 .. n) |-> AddBest(p[1], Bucket(p[2] - 1, Buckets))]
<1> DEFINE Eq(h) == h = [set \in SUBSET (1 .. n) |->
                          IF set = {} THEN {}
                          ELSE AddBest(h[set \ {Top(set)}], Bucket(Top(set) - 1, Buckets))]
<1>2. ASSUME NEW d \in D, NEW k \in 1 .. n
      PROVE  /\ F[<<d, k>>] \in D
             /\ F[<<d, k>>] = AddBest(d, Bucket(k - 1, Buckets))
  <2>1. F[<<d, k>>] = AddBest(d, Bucket(k - 1, Buckets))
    OBVIOUS
  <2>2. k - 1 \in Nat /\ k - 1 < Buckets
    BY <1>1
  <2>3. Bucket(k - 1, Buckets) \in SUBSET DOMAIN candidate
    BY <2>2, BucketIs
  <2>4. PICK good : good = {i \in Bucket(k - 1, Buckets) : Distinct(i, d)}
    OBVIOUS
  <2>5. good \in SUBSET DOMAIN candidate
    BY <2>3, <2>4
  <2>6. good # {} => ByScore(good)[1] \in good
    <3>1. PICK s : s = ByScore(good)
      OBVIOUS
    <3>2. IsFiniteSet(good) /\ s \in [1 .. Cardinality(good) -> good]
      BY <2>5, <3>1, ByScoreIs
    <3>3. good # {} => Cardinality(good) \in Nat /\ Cardinality(good) # 0
      BY <3>2, FS_CardinalityType, FS_EmptySet
    <3> QED BY <3>1, <3>2, <3>3
  <2>7. AddBest(d, Bucket(k - 1, Buckets)) = IF good = {} THEN d ELSE d \cup {ByScore(good)[1]}
    BY <2>4 DEF AddBest
  <2>8. AddBest(d, Bucket(k - 1, Buckets)) \in D
    BY <2>5, <2>6, <2>7
  <2> HIDE DEF F
  <2> QED BY <2>1, <2>8
<1>3. \E h : Eq(h)
  <2>1. {} \in D
    OBVIOUS
  <2>2. \A d \in D : \A k \in 1 .. n : F[<<d, k>>] \in D
    BY <1>2
  <2>3. PICK h \in [SUBSET (1 .. n) -> D] : IsFold(h, F, {}, n)
    <3> HIDE DEF F, D
    <3> QED BY <2>1, <2>2, FoldExists
  <2>4. ASSUME NEW set \in SUBSET (1 .. n), set # {}
        PROVE  F[<<h[set \ {Top(set)}], Top(set)>>]
                 = AddBest(h[set \ {Top(set)}], Bucket(Top(set) - 1, Buckets))
    <3>1. Top(set) \in 1 .. n
      BY <2>4, TopIs
    <3>2. h[set \ {Top(set)}] \in D
      BY <2>3
    <3> HIDE DEF F, D
    <3> QED BY <1>2, <3>1, <3>2
  <2>5. Eq(h)
    <3> HIDE DEF F, D
    <3> QED BY <2>3, <2>4 DEF IsFold
  <2> QED BY <2>5
<1> DEFINE number == [b \in 1 .. Buckets |-> b]
<1> DEFINE Folds(h) == h = [set \in SUBSET DOMAIN number |->
                             IF set = {} THEN {}
                             ELSE AddBest(h[set \ {Top(set)}], Bucket(number[Top(set)] - 1, Buckets))]
<1>4. ASSUME NEW h PROVE Folds(h) <=> Eq(h)
  <2>1. DOMAIN number = 1 .. n /\ \A k \in 1 .. n : number[k] = k
    BY <1>1
  <2>2. ASSUME NEW set \in SUBSET (1 .. n), set # {} PROVE number[Top(set)] = Top(set)
    <3>1. Top(set) \in 1 .. n
      BY <2>2, TopIs
    <3> QED BY <2>1, <3>1
  <2> HIDE DEF number
  <2> QED BY <2>1, <2>2, ZenonT(40)

<1>5. PICK c : c = (CHOOSE h : Folds(h)) /\ Eq(c)
  <2> HIDE DEF Eq, Folds
  <2> QED BY <1>3, <1>4
<1>6. FromBuckets = c[1 .. n]
  <2>1. DOMAIN number = 1 .. n
    BY <1>1
  <2>2. FromBuckets = (CHOOSE h : Folds(h))[DOMAIN number]
    BY DEF FromBuckets, S!FoldLeft, S!MapThenFoldSet, S!Max, Top
  <2> HIDE DEF number, Folds
  <2> QED BY <1>5, <2>1, <2>2
<1> HIDE DEF F, D
<1>7. PICK st : st = [m \in 0 .. n |-> c[1 .. m]]
  OBVIOUS
<1>8. st[0] = {}
  <2>1. 1 .. 0 = {} /\ {} \in SUBSET (1 .. n)
    OBVIOUS
  <2>2. c[{}] = {}
    BY <1>5, <2>1
  <2> QED BY <1>7, <2>1, <2>2
<1>9. ASSUME NEW m \in 0 .. n - 1 PROVE st[m + 1] = AddBest(st[m], Bucket(m, Buckets))
  <2>1. m \in 0 .. n /\ m + 1 \in 0 .. n /\ (m + 1) - 1 = m
    OBVIOUS
  <2>2. st[m] = c[1 .. m] /\ st[m + 1] = c[1 .. (m + 1)]
    BY <1>7, <2>1
  <2>3. PICK set : set = 1 .. (m + 1)
    OBVIOUS
  <2>4. set \in SUBSET (1 .. n) /\ set # {} /\ Top(set) = m + 1 /\ set \ {m + 1} = 1 .. m
    BY <2>3, Initial
  <2>5. c[set] = AddBest(c[set \ {Top(set)}], Bucket(Top(set) - 1, Buckets))
    BY <1>5, <2>4
  <2> QED BY <2>1, <2>2, <2>3, <2>4, <2>5
<1>10. st[n] = c[1 .. n]
  BY <1>7
<1> HIDE DEF Eq
<1> QED BY <1>1, <1>6, <1>8, <1>9, <1>10

BucketsCovered(picked) ==
  \A b \in 0 .. Buckets - 1 :
    Bucket(b, Buckets) \cap picked # {} \/ \A i \in Bucket(b, Buckets) : Alike(i, picked)

LEMMA Covers ==
  ASSUME NEW few, NEW more, few \subseteq more, NEW set,
         set \cap few # {} \/ \A i \in set : Alike(i, few)
  PROVE  set \cap more # {} \/ \A i \in set : Alike(i, more)
BY DEF Alike, Distinct

LEMMA FromBucketsIs ==
  ASSUME CandidatesOK, wanted \in Nat \ {0}
  PROVE  /\ Chooses(FromBuckets, wanted)
         /\ BucketsCovered(FromBuckets)
<1>1. PICK n \in Nat : n = Buckets /\ n <= wanted
  <2>1. PICK m \in Nat : m = Len(candidate)
    BY CandidatesAre
  <2> QED BY <2>1 DEF Buckets, Lower
<1>2. PICK st : /\ st[0] = {} /\ FromBuckets = st[n]
                /\ \A m \in 0 .. n - 1 : st[m + 1] = AddBest(st[m], Bucket(m, Buckets))
  BY <1>1, BucketSteps
<1> DEFINE Covered(m) == \A b \in 0 .. m - 1 : \/ Bucket(b, Buckets) \cap st[m] # {}
                                               \/ \A i \in Bucket(b, Buckets) : Alike(i, st[m])
<1> DEFINE G == {m \in 0 .. n : Chooses(st[m], m) /\ Covered(m)}
<1>3. 0 \in G
  <2>1. Chooses(st[0], 0)
    BY <1>2, FS_EmptySet DEF Chooses
  <2>2. Covered(0)
    OBVIOUS
  <2> HIDE DEF Covered
  <2> QED BY <2>1, <2>2
<1>4. ASSUME NEW m \in 0 .. n - 1, m \in G PROVE m + 1 \in G
  <2>1. m \in Nat /\ m < Buckets /\ m + 1 \in 0 .. n
    BY <1>1
  <2>2. PICK set \in SUBSET DOMAIN candidate : set = Bucket(m, Buckets)
    BY <2>1, BucketIs
  <2>3. st[m + 1] = AddBest(st[m], set)
    BY <1>2, <2>2
  <2>4. Chooses(st[m], m) /\ Covered(m)
    BY <1>4
  <2>5. /\ Chooses(st[m + 1], m + 1) /\ st[m] \subseteq st[m + 1]
        /\ st[m + 1] \cap set # {} \/ \A i \in set : Alike(i, st[m + 1])
    <3> HIDE DEF Covered
    <3> QED BY <2>1, <2>3, <2>4, AddBestIs
  <2>6. ASSUME NEW b \in 0 .. (m + 1) - 1
        PROVE  \/ Bucket(b, Buckets) \cap st[m + 1] # {}
               \/ \A i \in Bucket(b, Buckets) : Alike(i, st[m + 1])
    <3>1. CASE b = m
      BY <2>2, <2>5, <3>1
    <3>2. CASE b # m
      <4>1. b \in 0 .. m - 1
        BY <2>1, <3>2
      <4>2. \/ Bucket(b, Buckets) \cap st[m] # {}
            \/ \A i \in Bucket(b, Buckets) : Alike(i, st[m])
        BY <2>4, <4>1
      <4> QED BY <2>5, <4>2, Covers
    <3> QED BY <3>1, <3>2
  <2>7. Covered(m + 1)
    BY <2>6
  <2> HIDE DEF Covered
  <2> QED BY <2>1, <2>5, <2>7
<1>5. n \in G
  <2> HIDE DEF G
  <2> QED BY <1>3, <1>4, Along
<1>6. Chooses(st[n], n) /\ Covered(n)
  BY <1>5
<1>7. Chooses(FromBuckets, wanted)
  <2>1. Chooses(FromBuckets, n)
    <3> HIDE DEF Covered
    <3> QED BY <1>2, <1>6
  <2>2. Cardinality(FromBuckets) \in Nat
    BY <2>1, CandidatesAre, FS_Subset, FS_CardinalityType DEF Chooses
  <2> QED BY <1>1, <2>1, <2>2 DEF Chooses
<1>8. BucketsCovered(FromBuckets)
  BY <1>1, <1>2, <1>6 DEF BucketsCovered
<1> QED BY <1>7, <1>8

Fill(picked, i) ==
  IF Cardinality(picked) < wanted /\ Distinct(i, picked) THEN picked \cup {i} ELSE picked

FillOrder == ByScore(DOMAIN candidate \ FromBuckets)

LEMMA FillSteps ==
  ASSUME CandidatesOK, wanted \in Nat \ {0}, NEW n \in Nat,
         FillOrder \in [1 .. n -> DOMAIN candidate]
  PROVE  \E st : /\ st[0] = FromBuckets /\ Selection = st[n]
                 /\ \A m \in 0 .. n - 1 : st[m + 1] = Fill(st[m], FillOrder[m + 1])
<1>1. PICK order \in [1 .. n -> DOMAIN candidate] : order = FillOrder
  OBVIOUS
<1> DEFINE D == SUBSET DOMAIN candidate
<1> DEFINE F == [p \in D \X (1 .. n) |-> Fill(p[1], order[p[2]])]
<1> DEFINE Eq(h) == h = [set \in SUBSET (1 .. n) |->
                          IF set = {} THEN FromBuckets
                          ELSE Fill(h[set \ {Top(set)}], order[Top(set)])]
<1>2. ASSUME NEW d \in D, NEW k \in 1 .. n
      PROVE  F[<<d, k>>] \in D /\ F[<<d, k>>] = Fill(d, order[k])
  <2>1. F[<<d, k>>] = Fill(d, order[k])
    OBVIOUS
  <2>2. Fill(d, order[k]) \in D
    BY DEF Fill
  <2> HIDE DEF F
  <2> QED BY <2>1, <2>2
<1>3. \E h : Eq(h)
  <2>1. FromBuckets \in D
    BY FromBucketsIs DEF Chooses
  <2>2. \A d \in D : \A k \in 1 .. n : F[<<d, k>>] \in D
    BY <1>2
  <2>3. PICK h \in [SUBSET (1 .. n) -> D] : IsFold(h, F, FromBuckets, n)
    <3> HIDE DEF F, D
    <3> QED BY <2>1, <2>2, FoldExists
  <2>4. ASSUME NEW set \in SUBSET (1 .. n), set # {}
        PROVE  F[<<h[set \ {Top(set)}], Top(set)>>] = Fill(h[set \ {Top(set)}], order[Top(set)])
    <3>1. Top(set) \in 1 .. n
      BY <2>4, TopIs
    <3>2. h[set \ {Top(set)}] \in D
      BY <2>3
    <3> HIDE DEF F, D
    <3> QED BY <1>2, <3>1, <3>2
  <2>5. Eq(h)
    <3> HIDE DEF F, D
    <3> QED BY <2>3, <2>4 DEF IsFold
  <2> QED BY <2>5
<1> DEFINE rest == ByScore(DOMAIN candidate \ FromBuckets)
<1> DEFINE Folds(h) == h = [set \in SUBSET DOMAIN rest |->
                             IF set = {} THEN FromBuckets
                             ELSE Fill(h[set \ {Top(set)}], rest[Top(set)])]
<1>4. ASSUME NEW h PROVE Folds(h) <=> Eq(h)
  <2>1. rest = order /\ DOMAIN rest = 1 .. n
    BY <1>1 DEF FillOrder
  <2> HIDE DEF rest
  <2> QED BY <2>1
<1>5. PICK c : c = (CHOOSE h : Folds(h)) /\ Eq(c)
  <2> HIDE DEF Eq, Folds
  <2> QED BY <1>3, <1>4
<1>6. Selection = c[1 .. n]
  <2>1. DOMAIN rest = 1 .. n
    BY <1>1 DEF FillOrder
  <2>2. Selection = (CHOOSE h : Folds(h))[DOMAIN rest]
    BY DEF Selection, S!FoldLeft, S!MapThenFoldSet, S!Max, Top, Fill
  <2> HIDE DEF rest, Folds
  <2> QED BY <1>5, <2>1, <2>2
<1> HIDE DEF F, D
<1>7. PICK st : st = [m \in 0 .. n |-> c[1 .. m]]
  OBVIOUS
<1>8. st[0] = FromBuckets
  <2>1. 1 .. 0 = {} /\ {} \in SUBSET (1 .. n)
    OBVIOUS
  <2>2. c[{}] = FromBuckets
    BY <1>5, <2>1
  <2> QED BY <1>7, <2>1, <2>2
<1>9. ASSUME NEW m \in 0 .. n - 1 PROVE st[m + 1] = Fill(st[m], order[m + 1])
  <2>1. m \in 0 .. n /\ m + 1 \in 0 .. n /\ (m + 1) - 1 = m
    OBVIOUS
  <2>2. st[m] = c[1 .. m] /\ st[m + 1] = c[1 .. (m + 1)]
    BY <1>7, <2>1
  <2>3. PICK set : set = 1 .. (m + 1)
    OBVIOUS
  <2>4. set \in SUBSET (1 .. n) /\ set # {} /\ Top(set) = m + 1 /\ set \ {m + 1} = 1 .. m
    BY <2>3, Initial
  <2>5. c[set] = Fill(c[set \ {Top(set)}], order[Top(set)])
    BY <1>5, <2>4
  <2> QED BY <2>1, <2>2, <2>3, <2>4, <2>5
<1>10. st[n] = c[1 .. n]
  BY <1>7
<1> HIDE DEF Eq
<1> QED BY <1>1, <1>6, <1>8, <1>9, <1>10

LEMMA FillIs ==
  ASSUME CandidatesOK, wanted \in Nat \ {0}, NEW picked, Chooses(picked, wanted),
         NEW i \in DOMAIN candidate
  PROVE  /\ Chooses(Fill(picked, i), wanted) /\ picked \subseteq Fill(picked, i)
         /\ Cardinality(Fill(picked, i)) < wanted =>
              i \in Fill(picked, i) \/ Alike(i, Fill(picked, i))
<1>1. IsFiniteSet(picked) /\ Cardinality(picked) \in Nat
  BY CandidatesAre, FS_Subset, FS_CardinalityType DEF Chooses
<1>2. CASE Cardinality(picked) < wanted /\ Distinct(i, picked)
  <2>1. PICK limit \in Nat : limit = wanted - 1
    OBVIOUS
  <2>2. Chooses(picked, limit)
    BY <1>1, <1>2, <2>1 DEF Chooses
  <2>3. Chooses(picked \cup {i}, wanted)
    <3>1. Chooses(picked \cup {i}, limit + 1)
      BY <1>2, <2>2, AddedTo
    <3> QED BY <2>1, <3>1
  <2>4. Fill(picked, i) = picked \cup {i}
    BY <1>2 DEF Fill
  <2> QED BY <2>3, <2>4
<1>3. CASE ~ (Cardinality(picked) < wanted /\ Distinct(i, picked))
  <2>1. Fill(picked, i) = picked
    BY <1>3 DEF Fill
  <2> QED BY <1>3, <2>1 DEF Alike
<1> QED BY <1>2, <1>3

LEMMA SelectionIs ==
  ASSUME CandidatesOK, wanted \in Nat \ {0}
  PROVE  /\ Chooses(Selection, wanted) /\ BucketsCovered(Selection)
         /\ Cardinality(Selection) < wanted =>
              \A i \in DOMAIN candidate : i \in Selection \/ Alike(i, Selection)
<1>1. PICK rest \in SUBSET DOMAIN candidate : rest = DOMAIN candidate \ FromBuckets
  OBVIOUS
<1>2. PICK n \in Nat : n = Cardinality(rest)
  BY ByScoreIs, FS_CardinalityType
<1>3. PICK order : /\ order = ByScore(rest) /\ order \in [1 .. n -> rest]
                   /\ \A i \in rest : \E k \in 1 .. n : order[k] = i
  BY <1>2, ByScoreIs
<1>4. PICK st : /\ st[0] = FromBuckets /\ Selection = st[n]
                /\ \A m \in 0 .. n - 1 : st[m + 1] = Fill(st[m], order[m + 1])
  <2>1. order \in [1 .. n -> DOMAIN candidate]
    BY <1>3
  <2>2. order = FillOrder
    BY <1>1, <1>3 DEF FillOrder
  <2>3. \E st : /\ st[0] = FromBuckets /\ Selection = st[n]
                /\ \A m \in 0 .. n - 1 : st[m + 1] = Fill(st[m], order[m + 1])
    BY <1>2, <2>1, <2>2, FillSteps
  <2> QED BY <2>3
<1> DEFINE Seen(m) == \A k \in 1 .. m : order[k] \in st[m] \/ Alike(order[k], st[m])
<1> DEFINE G == {m \in 0 .. n : /\ Chooses(st[m], wanted) /\ FromBuckets \subseteq st[m]
                                /\ Cardinality(st[m]) < wanted => Seen(m)}
<1>5. 0 \in G
  <2>1. Seen(0)
    OBVIOUS
  <2> HIDE DEF Seen
  <2> QED BY <1>4, <2>1, FromBucketsIs
<1>6. ASSUME NEW m \in 0 .. n - 1, m \in G PROVE m + 1 \in G
  <2>1. m + 1 \in 0 .. n /\ m + 1 \in 1 .. n /\ m \in Nat
    OBVIOUS
  <2>2. PICK i \in DOMAIN candidate : i = order[m + 1]
    BY <1>3, <2>1
  <2>3. st[m + 1] = Fill(st[m], i)
    BY <1>4, <2>2
  <2>4. Chooses(st[m], wanted) /\ FromBuckets \subseteq st[m] /\ (Cardinality(st[m]) < wanted => Seen(m))
    BY <1>6
  <2>5. /\ Chooses(st[m + 1], wanted) /\ st[m] \subseteq st[m + 1]
        /\ Cardinality(st[m + 1]) < wanted => i \in st[m + 1] \/ Alike(i, st[m + 1])
    <3> HIDE DEF Seen
    <3> QED BY <2>3, <2>4, FillIs
  <2>6. Cardinality(st[m + 1]) < wanted => Cardinality(st[m]) < wanted
    <3>1. IsFiniteSet(st[m + 1]) /\ st[m] \in SUBSET st[m + 1]
      BY <2>5, CandidatesAre, FS_Subset DEF Chooses
    <3>2. Cardinality(st[m]) <= Cardinality(st[m + 1])
      BY <3>1, FS_Subset
    <3>3. Cardinality(st[m]) \in Nat /\ Cardinality(st[m + 1]) \in Nat
      BY <3>1, FS_Subset, FS_CardinalityType
    <3> QED BY <3>2, <3>3
  <2>7. ASSUME Cardinality(st[m + 1]) < wanted, NEW k \in 1 .. m + 1
        PROVE  order[k] \in st[m + 1] \/ Alike(order[k], st[m + 1])
    <3>1. CASE k = m + 1
      BY <2>2, <2>5, <2>7, <3>1
    <3>2. CASE k # m + 1
      <4>1. k \in 1 .. m
        BY <2>1, <3>2
      <4>2. order[k] \in st[m] \/ Alike(order[k], st[m])
        BY <2>4, <2>6, <2>7, <4>1
      <4> QED BY <2>5, <4>2 DEF Alike, Distinct
    <3> QED BY <3>1, <3>2
  <2>8. Cardinality(st[m + 1]) < wanted => Seen(m + 1)
    BY <2>7
  <2> HIDE DEF Seen
  <2> QED BY <2>1, <2>4, <2>5, <2>8
<1>7. n \in G
  <2> HIDE DEF G
  <2> QED BY <1>5, <1>6, Along
<1>8. /\ Chooses(Selection, wanted) /\ FromBuckets \subseteq Selection
      /\ Cardinality(Selection) < wanted =>
           \A k \in 1 .. n : order[k] \in Selection \/ Alike(order[k], Selection)
  BY <1>4, <1>7
<1>9. BucketsCovered(Selection)
  BY <1>8, FromBucketsIs, Covers DEF BucketsCovered
<1>10. ASSUME Cardinality(Selection) < wanted, NEW i \in DOMAIN candidate
       PROVE  i \in Selection \/ Alike(i, Selection)
  <2>1. CASE i \in FromBuckets
    BY <1>8, <2>1
  <2>2. CASE i \notin FromBuckets
    <3>1. PICK k \in 1 .. n : order[k] = i
      BY <1>1, <1>3, <2>2
    <3> QED BY <1>8, <1>10, <3>1
  <2> QED BY <2>1, <2>2
<1> QED BY <1>8, <1>9, <1>10

LEMMA SelectionIsCompleteLemma ==
  ASSUME CandidatesOK, wanted \in Nat \ {0}, chosen = Sorted(Selection)
  PROVE  SelectionIsComplete
<1>1. Selection \in SUBSET DOMAIN candidate /\ IsFiniteSet(Selection) /\ Selection \in SUBSET Int
  <2>1. Selection \in SUBSET DOMAIN candidate
    BY SelectionIs DEF Chooses
  <2>2. DOMAIN candidate \in SUBSET Int /\ IsFiniteSet(DOMAIN candidate)
    BY CandidatesAre
  <2> QED BY <2>1, <2>2, FS_Subset
<1>2. Chosen = Selection
  <2>1. PICK s : s = Sorted(Selection)
    OBVIOUS
  <2>2. /\ s \in [1 .. Cardinality(Selection) -> Selection]
        /\ \A x \in Selection : \E k \in 1 .. Cardinality(Selection) : s[k] = x
    BY <1>1, <2>1, SortedIs
  <2>3. Chosen = {s[k] : k \in DOMAIN s}
    BY <2>1 DEF Chosen, S!ToSet
  <2> QED BY <2>2, <2>3
<1>3. \A i \in Selection : Distinct(i, Selection \ {i})
  BY SelectionIs DEF Chooses, Distinct
<1>4. Cardinality(Selection) <= wanted
  BY SelectionIs DEF Chooses
<1> QED BY <1>2, <1>3, <1>4, SelectionIs DEF SelectionIsComplete, BucketsCovered, Alike

\* The numbers from a + 1 to b.
Run(a, b) == [k \in 1 .. b - a |-> a + k]

\* Groups that cut 1 .. m into runs, which end at e[1], ..., e[n].
Cuts(groups, e, n, m) ==
  /\ groups = [i \in 1 .. n |-> Run(e[i - 1], e[i])]
  /\ e \in [0 .. n -> 0 .. m] /\ e[0] = 0 /\ e[n] = m
  /\ \A i \in 1 .. n : e[i - 1] < e[i]

Parts(groups, n, m) == \E e : Cuts(groups, e, n, m)

LEMMA RunIs ==
  ASSUME NEW a \in Nat, NEW b \in Nat, a <= b
  PROVE  /\ Run(a, b) \in Seq(Nat) /\ Len(Run(a, b)) = b - a
         /\ \A k \in 1 .. b - a : Run(a, b)[k] = a + k
<1>1. b - a \in Nat /\ \A k \in 1 .. b - a : a + k \in Nat
  OBVIOUS
<1>2. Run(a, b) \in [1 .. b - a -> Nat]
  BY <1>1 DEF Run
<1> QED BY <1>1, <1>2 DEF Run

LEMMA RunsJoin ==
  ASSUME NEW a \in Nat, NEW b \in Nat, NEW c \in Nat, a <= b, b <= c
  PROVE  Run(a, b) \o Run(b, c) = Run(a, c)
<1>0. a <= c
  OBVIOUS
<1>1. PICK x \in Seq(Nat) : x = Run(a, b) /\ Len(x) = b - a /\ \A k \in 1 .. b - a : x[k] = a + k
  BY RunIs
<1>2. PICK y \in Seq(Nat) : y = Run(b, c) /\ Len(y) = c - b /\ \A k \in 1 .. c - b : y[k] = b + k
  BY RunIs
<1>3. PICK z \in Seq(Nat) : z = Run(a, c) /\ Len(z) = c - a /\ \A k \in 1 .. c - a : z[k] = a + k
  BY <1>0, RunIs
<1>4. /\ x \o y \in Seq(Nat) /\ Len(x \o y) = Len(x) + Len(y)
      /\ \A i \in 1 .. Len(x) + Len(y) : (x \o y)[i] = IF i <= Len(x) THEN x[i] ELSE y[i - Len(x)]
  BY ConcatProperties
<1>5. Len(x) + Len(y) = c - a
  BY <1>1, <1>2
<1>6. ASSUME NEW k \in 1 .. c - a PROVE (x \o y)[k] = z[k]
  <2>1. (x \o y)[k] = IF k <= b - a THEN x[k] ELSE y[k - (b - a)]
    BY <1>1, <1>4, <1>5
  <2>2. z[k] = a + k
    BY <1>3
  <2>3. CASE k <= b - a
    <3>1. k \in 1 .. b - a
      BY <2>3
    <3> QED BY <1>1, <2>1, <2>2, <2>3, <3>1
  <2>4. CASE ~ (k <= b - a)
    <3>1. k - (b - a) \in 1 .. c - b
      BY <2>4
    <3>2. y[k - (b - a)] = b + (k - (b - a))
      BY <1>2, <3>1
    <3>3. b + (k - (b - a)) = a + k
      OBVIOUS
    <3> QED BY <2>1, <2>2, <2>4, <3>2, <3>3
  <2> QED BY <2>3, <2>4
<1>7. x \o y = z
  <2>1. Len(x \o y) = Len(z) /\ \A i \in 1 .. Len(x \o y) : (x \o y)[i] = z[i]
    BY <1>3, <1>4, <1>5, <1>6
  <2> QED BY <1>3, <1>4, <2>1, SeqEqual
<1> QED BY <1>1, <1>2, <1>3, <1>7

LEMMA RunGrows ==
  ASSUME NEW a \in Nat, NEW b \in Nat, a <= b
  PROVE  Append(Run(a, b), b + 1) = Run(a, b + 1)
<1>0. a <= b + 1 /\ b + 1 \in Nat
  OBVIOUS
<1>1. PICK x \in Seq(Nat) : x = Run(a, b) /\ Len(x) = b - a /\ \A k \in 1 .. b - a : x[k] = a + k
  BY RunIs
<1>2. PICK z \in Seq(Nat) : /\ z = Run(a, b + 1) /\ Len(z) = (b + 1) - a
                            /\ \A k \in 1 .. (b + 1) - a : z[k] = a + k
  BY <1>0, RunIs
<1>3. /\ Append(x, b + 1) \in Seq(Nat) /\ Len(Append(x, b + 1)) = Len(x) + 1
      /\ \A i \in 1 .. Len(x) + 1 :
           Append(x, b + 1)[i] = IF i = Len(x) + 1 THEN b + 1 ELSE x[i]
  BY <1>0, AppendProperties
<1>4. Len(x) + 1 = (b + 1) - a
  BY <1>1
<1>5. ASSUME NEW k \in 1 .. (b + 1) - a PROVE Append(x, b + 1)[k] = z[k]
  <2>1. Append(x, b + 1)[k] = IF k = (b + 1) - a THEN b + 1 ELSE x[k]
    BY <1>3, <1>4
  <2>2. z[k] = a + k
    BY <1>2
  <2>3. CASE k = (b + 1) - a
    <3>1. a + k = b + 1
      BY <2>3
    <3> QED BY <2>1, <2>2, <2>3, <3>1
  <2>4. CASE k # (b + 1) - a
    <3>1. k \in 1 .. b - a
      BY <2>4
    <3> QED BY <1>1, <2>1, <2>2, <2>4, <3>1
  <2> QED BY <2>3, <2>4
<1>6. Append(x, b + 1) = z
  <2>1. Len(Append(x, b + 1)) = Len(z) /\ \A i \in 1 .. Len(z) : Append(x, b + 1)[i] = z[i]
    BY <1>2, <1>3, <1>4, <1>5
  <2> QED BY <1>3, <2>1, SeqEqual
<1> QED BY <1>1, <1>2, <1>6

LEMMA PartsAre ==
  ASSUME NEW n \in Nat, NEW m \in Nat, NEW groups, NEW e, Cuts(groups, e, n, m)
  PROVE  /\ groups \in Seq(Seq(Nat)) /\ Len(groups) = n /\ DOMAIN groups = 1 .. n
         /\ \A i \in 1 .. n : /\ e[i - 1] \in 0 .. m /\ e[i] \in 0 .. m /\ e[i - 1] < e[i]
                              /\ groups[i] = Run(e[i - 1], e[i])
                              /\ Len(groups[i]) = e[i] - e[i - 1] /\ groups[i] # <<>>
         /\ \A i \in 0 .. n : e[i] \in 0 .. m
<1>1. ASSUME NEW i \in 1 .. n
      PROVE  /\ e[i - 1] \in 0 .. m /\ e[i] \in 0 .. m /\ e[i - 1] < e[i]
             /\ groups[i] = Run(e[i - 1], e[i])
             /\ groups[i] \in Seq(Nat) /\ Len(groups[i]) = e[i] - e[i - 1]
  <2>1. i - 1 \in 0 .. n /\ i \in 0 .. n
    OBVIOUS
  <2>2. /\ e[i - 1] \in 0 .. m /\ e[i] \in 0 .. m /\ e[i - 1] < e[i]
        /\ groups[i] = Run(e[i - 1], e[i])
    BY <2>1 DEF Cuts
  <2>3. PICK a \in Nat, b \in Nat : a = e[i - 1] /\ b = e[i] /\ a <= b
    BY <2>2
  <2>4. Run(a, b) \in Seq(Nat) /\ Len(Run(a, b)) = b - a
    BY <2>3, RunIs
  <2> QED BY <2>2, <2>3, <2>4
<1>2. groups \in [1 .. n -> Seq(Nat)]
  BY <1>1 DEF Cuts
<1>3. groups \in Seq(Seq(Nat)) /\ Len(groups) = n /\ DOMAIN groups = 1 .. n
  BY <1>2
<1>4. ASSUME NEW i \in 1 .. n PROVE groups[i] # <<>>
  <2>1. PICK a \in Nat, b \in Nat : a = e[i - 1] /\ b = e[i] /\ a < b
    BY <1>1
  <2>2. Len(groups[i]) = b - a /\ b - a # 0
    BY <1>1, <2>1
  <2> QED BY <2>2, EmptySeq
<1>5. \A i \in 0 .. n : e[i] \in 0 .. m
  BY DEF Cuts
<1> QED BY <1>1, <1>3, <1>4, <1>5

\* One after the other they are the whole.
LEMMA Flattened ==
  ASSUME NEW n \in Nat, NEW m \in Nat, NEW groups, Parts(groups, n, m)
  PROVE  S!FlattenSeq(groups) = [k \in 1 .. m |-> k]
<1>1. PICK e : Cuts(groups, e, n, m)
  BY DEF Parts
<1>2. groups \in Seq(Seq(Nat)) /\ Len(groups) = n /\ DOMAIN groups = 1 .. n
  BY <1>1, PartsAre
<1>3. Run(0, m) = [k \in 1 .. m |-> k]
  <2>1. \A k \in 1 .. m - 0 : 0 + k = k
    OBVIOUS
  <2>2. 1 .. m - 0 = 1 .. m
    OBVIOUS
  <2> QED BY <2>1, <2>2 DEF Run
<1>4. CASE n = 0
  <2>1. m = 0
    BY <1>1, <1>4 DEF Cuts
  <2>2. S!FlattenSeq(groups) = groups
    BY <1>2, <1>4 DEF S!FlattenSeq
  <2>3. groups = <<>> /\ [k \in 1 .. m |-> k] = <<>>
    BY <1>2, <1>4, <2>1
  <2> QED BY <2>2, <2>3
<1>5. CASE n # 0
  <2> DEFINE Eq(f) == f = [i \in 1 .. Len(groups) |->
                            IF i = 1 THEN groups[i] ELSE f[i - 1] \o groups[i]]
  <2>1. S!FlattenSeq(groups) = (CHOOSE f : Eq(f))[Len(groups)]
    BY <1>2, <1>5 DEF S!FlattenSeq
  <2>2. PICK g : g = [i \in 1 .. n |-> Run(0, e[i])]
    OBVIOUS
  <2>3. ASSUME NEW i \in 1 .. n
        PROVE  g[i] = IF i = 1 THEN groups[i] ELSE g[i - 1] \o groups[i]
    <3>1. /\ e[i - 1] \in Nat /\ e[i] \in Nat /\ e[i - 1] <= e[i]
          /\ groups[i] = Run(e[i - 1], e[i])
      BY <1>1, PartsAre, SMTT(30)

    <3>2. CASE i = 1
      BY <1>1, <2>2, <3>1, <3>2 DEF Cuts
    <3>3. CASE i # 1
      <4>1. i - 1 \in 1 .. n
        BY <3>3
      <4>2. g[i - 1] = Run(0, e[i - 1]) /\ g[i] = Run(0, e[i])
        BY <2>2, <4>1
      <4>3. Run(0, e[i - 1]) \o Run(e[i - 1], e[i]) = Run(0, e[i])
        <5>1. 0 \in Nat /\ 0 <= e[i - 1]
          BY <3>1
        <5> QED BY <3>1, <5>1, RunsJoin
      <4> QED BY <3>1, <3>3, <4>2, <4>3
    <3> QED BY <3>2, <3>3
  <2>4. Eq(g)
    <3>1. g = [i \in 1 .. n |-> g[i]]
      BY <2>2
    <3> QED BY <1>2, <2>3, <3>1
  <2>5. PICK f : f = (CHOOSE h : Eq(h)) /\ Eq(f)
    <3> HIDE DEF Eq
    <3> QED BY <2>4
  <2>6. \A i \in 1 .. n : f[i] = IF i = 1 THEN groups[i] ELSE f[i - 1] \o groups[i]
    BY <1>2, <2>5
  <2> HIDE DEF Eq
  <2> DEFINE G == {i \in 0 .. n : i = 0 \/ f[i] = g[i]}
  <2>7. 0 \in G
    OBVIOUS
  <2>8. ASSUME NEW i \in 0 .. n - 1, i \in G PROVE i + 1 \in G
    <3>1. i + 1 \in 1 .. n /\ i + 1 \in 0 .. n /\ (i + 1) - 1 = i
      OBVIOUS
    <3>2. f[i + 1] = IF i + 1 = 1 THEN groups[i + 1] ELSE f[i] \o groups[i + 1]
      BY <2>6, <3>1
    <3>3. g[i + 1] = IF i + 1 = 1 THEN groups[i + 1] ELSE g[i] \o groups[i + 1]
      BY <2>3, <3>1
    <3>4. i + 1 # 1 => f[i] = g[i]
      BY <2>8
    <3> QED BY <3>1, <3>2, <3>3, <3>4
  <2>9. n \in G
    <3> HIDE DEF G
    <3> QED BY <2>7, <2>8, Along
  <2>10. f[n] = g[n]
    BY <1>5, <2>9
  <2>11. g[n] = Run(0, m)
    BY <1>1, <1>5, <2>2 DEF Cuts
  <2> QED BY <1>2, <1>3, <2>1, <2>5, <2>10, <2>11
<1> QED BY <1>4, <1>5

\* Groups with the last one longer, and with another one.
LEMMA LongerLast ==
  ASSUME NEW n \in Nat \ {0}, NEW m \in Nat, NEW groups, Parts(groups, n, m)
  PROVE  Parts([groups EXCEPT ![n] = Append(groups[n], m + 1)], n, m + 1)
<1>1. PICK e : Cuts(groups, e, n, m)
  BY DEF Parts
<1>2. PICK f : f = [i \in 0 .. n |-> IF i = n THEN m + 1 ELSE e[i]]
  OBVIOUS
<1>3. PICK new : new = [groups EXCEPT ![n] = Append(groups[n], m + 1)]
  OBVIOUS
<1>4. DOMAIN groups = 1 .. n /\ groups = [i \in 1 .. n |-> groups[i]]
  BY <1>1, PartsAre DEF Cuts
<1>5. e[n] = m /\ e[n - 1] \in Nat /\ e[n - 1] < m /\ groups[n] = Run(e[n - 1], m)
  BY <1>1, PartsAre DEF Cuts
<1>6. Append(groups[n], m + 1) = Run(e[n - 1], m + 1)
  <2>1. PICK a \in Nat : a = e[n - 1] /\ a < m
    BY <1>5
  <2>2. Append(Run(a, m), m + 1) = Run(a, m + 1)
    <3>1. a <= m
      BY <2>1
    <3> QED BY <3>1, RunGrows
  <2> QED BY <1>5, <2>1, <2>2
<1>7. ASSUME NEW i \in 1 .. n PROVE new[i] = Run(f[i - 1], f[i]) /\ f[i - 1] < f[i]
  <2>1. i - 1 \in 0 .. n /\ i \in 0 .. n /\ i - 1 # n
    OBVIOUS
  <2>2. e[i - 1] \in 0 .. m /\ e[i] \in 0 .. m /\ e[i - 1] < e[i] /\ groups[i] = Run(e[i - 1], e[i])
    BY <1>1, PartsAre
  <2>3. CASE i = n
    <3>1. f[i] = m + 1 /\ f[i - 1] = e[n - 1] /\ new[i] = Append(groups[n], m + 1)
      BY <1>2, <1>3, <1>4, <2>1, <2>3
    <3> QED BY <1>5, <1>6, <3>1
  <2>4. CASE i # n
    <3>1. f[i] = e[i] /\ f[i - 1] = e[i - 1] /\ new[i] = groups[i]
      BY <1>2, <1>3, <1>4, <2>1, <2>4
    <3> QED BY <2>2, <3>1
  <2> QED BY <2>3, <2>4
<1>8. f \in [0 .. n -> 0 .. m + 1] /\ f[0] = 0 /\ f[n] = m + 1
  <2>1. \A i \in 0 .. n : e[i] \in 0 .. m /\ e[0] = 0
    BY <1>1 DEF Cuts
  <2> QED BY <1>2, <2>1
<1>9. new = [i \in 1 .. n |-> Run(f[i - 1], f[i])]
  <2>1. new = [i \in 1 .. n |-> new[i]]
    BY <1>3, <1>4
  <2> QED BY <1>7, <2>1
<1>10. Cuts(new, f, n, m + 1)
  BY <1>7, <1>8, <1>9 DEF Cuts
<1> QED BY <1>3, <1>10 DEF Parts

LEMMA OneMore ==
  ASSUME NEW n \in Nat, NEW m \in Nat, NEW groups, Parts(groups, n, m)
  PROVE  Parts(Append(groups, <<m + 1>>), n + 1, m + 1)
<1>1. PICK e : Cuts(groups, e, n, m)
  BY DEF Parts
<1>2. PICK f : f = [i \in 0 .. n + 1 |-> IF i = n + 1 THEN m + 1 ELSE e[i]]
  OBVIOUS
<1>3. PICK new : new = Append(groups, <<m + 1>>)
  OBVIOUS
<1>4. groups \in Seq(Seq(Nat)) /\ Len(groups) = n
  BY <1>1, PartsAre
<1>5. <<m + 1>> \in Seq(Nat) /\ <<m + 1>> = Run(m, m + 1)
  <2>1. m <= m /\ m - m = 0 /\ m \in Nat
    OBVIOUS
  <2>2. Run(m, m) \in Seq(Nat) /\ Len(Run(m, m)) = 0
    BY <2>1, RunIs
  <2>3. Run(m, m) = <<>>
    BY <2>2, EmptySeq
  <2>4. Append(Run(m, m), m + 1) = Run(m, m + 1)
    BY <2>1, RunGrows
  <2>5. Append(<<>>, m + 1) = <<m + 1>> /\ <<m + 1>> \in Seq(Nat)
    OBVIOUS
  <2> QED BY <2>3, <2>4, <2>5
<1>6. new \in Seq(Seq(Nat)) /\ Len(new) = n + 1
  BY <1>3, <1>4, <1>5
<1>7. e[n] = m
  BY <1>1 DEF Cuts
<1>8. ASSUME NEW i \in 1 .. n + 1 PROVE new[i] = Run(f[i - 1], f[i]) /\ f[i - 1] < f[i]
  <2>1. i - 1 \in 0 .. n + 1 /\ i \in 0 .. n + 1 /\ i - 1 # n + 1
    OBVIOUS
  <2>2. CASE i = n + 1
    <3>1. f[i] = m + 1 /\ f[i - 1] = e[n] /\ new[i] = <<m + 1>>
      BY <1>2, <1>3, <1>4, <1>5, <2>1, <2>2
    <3> QED BY <1>5, <1>7, <3>1
  <2>3. CASE i # n + 1
    <3>1. i \in 1 .. n
      BY <2>3
    <3>2. f[i] = e[i] /\ f[i - 1] = e[i - 1] /\ new[i] = groups[i]
      BY <1>2, <1>3, <1>4, <1>5, <2>1, <2>3, <3>1
    <3>3. e[i - 1] < e[i] /\ groups[i] = Run(e[i - 1], e[i])
      BY <1>1, <3>1, PartsAre
    <3> QED BY <3>2, <3>3
  <2> QED BY <2>2, <2>3
<1>9. f \in [0 .. n + 1 -> 0 .. m + 1] /\ f[0] = 0 /\ f[n + 1] = m + 1
  <2>1. \A i \in 0 .. n : e[i] \in 0 .. m /\ e[0] = 0
    BY <1>1 DEF Cuts
  <2> QED BY <1>2, <2>1
<1>10. new = [i \in 1 .. n + 1 |-> Run(f[i - 1], f[i])]
  <2>1. new = [i \in 1 .. n + 1 |-> new[i]]
    BY <1>6
  <2> QED BY <1>8, <2>1
<1>11. Cuts(new, f, n + 1, m + 1)
  BY <1>8, <1>9, <1>10 DEF Cuts
<1> QED BY <1>3, <1>11 DEF Parts

\* The places from w to v of the numbers from a + 1 to b are those from x + 1 to y.
Within(a, b, w, v, x, y) ==
  /\ {a, b, w, v, x, y} \subseteq Nat
  /\ w >= 1 /\ w <= v + 1 /\ x - a = w - 1 /\ y - x = v - w + 1 /\ y <= b

LEMMA SubRun ==
  ASSUME NEW a, NEW b, NEW w, NEW v, NEW x, NEW y, Within(a, b, w, v, x, y)
  PROVE  SubSeq(Run(a, b), w, v) = Run(x, y)
<1>. /\ a \in Nat /\ b \in Nat /\ w \in Nat /\ v \in Nat /\ x \in Nat /\ y \in Nat
     /\ w >= 1 /\ w <= v + 1 /\ x - a = w - 1 /\ y - x = v - w + 1 /\ y <= b
  BY DEF Within
<1>0. /\ a <= b /\ x <= y /\ w \in Int /\ v \in Int /\ y - x \in Nat /\ v - w + 1 = y - x
      /\ (IF w <= v THEN v - w + 1 ELSE 0) = y - x
  OBVIOUS
<1>1. PICK s \in Seq(Nat) : s = Run(a, b) /\ Len(s) = b - a /\ \A k \in 1 .. b - a : s[k] = a + k
  BY <1>0, RunIs
<1>2. PICK z \in Seq(Nat) : /\ z = Run(x, y) /\ Len(z) = y - x
                            /\ \A k \in 1 .. y - x : z[k] = x + k
  BY <1>0, RunIs
<1>3. \A i \in w .. v : s[i] \in Nat
  <2>1. \A i \in w .. v : i \in 1 .. b - a /\ a + i \in Nat
    OBVIOUS
  <2> QED BY <1>1, <2>1
<1>4. PICK sub : sub = SubSeq(s, w, v)
  OBVIOUS
<1>5. /\ sub \in Seq(Nat) /\ Len(sub) = y - x
      /\ \A i \in 1 .. y - x : sub[i] = s[w + i - 1]
  <2>1. /\ sub \in Seq(Nat) /\ Len(sub) = IF w <= v THEN v - w + 1 ELSE 0
        /\ \A i \in 1 .. v - w + 1 : sub[i] = s[w + i - 1]
    BY <1>0, <1>3, <1>4, SubSeqProperties
  <2> QED BY <1>0, <2>1
<1>6. ASSUME NEW i \in 1 .. y - x PROVE sub[i] = z[i]
  <2>1. w + i - 1 \in 1 .. b - a /\ a + (w + i - 1) = x + i
    OBVIOUS
  <2> QED BY <1>1, <1>2, <1>5, <2>1
<1>7. sub = z
  <2>1. Len(sub) = Len(z) /\ \A i \in 1 .. Len(sub) : sub[i] = z[i]
    BY <1>2, <1>5, <1>6
  <2> QED BY <1>2, <1>5, <2>1, SeqEqual
<1> QED BY <1>1, <1>2, <1>4, <1>7

\* The first of the largest groups.
Largest(groups, g) ==
  \A h \in DOMAIN groups :
    Len(groups[g]) > Len(groups[h]) \/ (Len(groups[g]) = Len(groups[h]) /\ g <= h)

LEMMA LargestExists ==
  ASSUME NEW n \in Nat \ {0}, NEW m \in Nat, NEW groups, Parts(groups, n, m)
  PROVE  \E g \in DOMAIN groups : Largest(groups, g)
<1>1. PICK e : Cuts(groups, e, n, m)
  BY DEF Parts
<1>2. DOMAIN groups = 1 .. n
  BY <1>1, PartsAre
<1>3. PICK len : len = [i \in 1 .. n |-> Len(groups[i])]
  OBVIOUS
<1>4. \A i \in 1 .. n : len[i] = Len(groups[i]) /\ len[i] \in 0 .. m
  <2>1. ASSUME NEW i \in 1 .. n PROVE Len(groups[i]) \in 0 .. m
    <3>1. PICK a \in 0 .. m, b \in 0 .. m : a = e[i - 1] /\ b = e[i] /\ a < b /\ Len(groups[i]) = b - a
      <4>1. n \in Nat
        OBVIOUS
      <4>2. /\ e[i - 1] \in 0 .. m /\ e[i] \in 0 .. m /\ e[i - 1] < e[i]
            /\ Len(groups[i]) = e[i] - e[i - 1]
        BY <1>1, <4>1, PartsAre
      <4> QED BY <4>2
    <3> QED BY <3>1
  <2> QED BY <1>3, <2>1
<1> DEFINE Short == {m - len[i] : i \in 1 .. n}
<1>5. PICK s \in Short : \A t \in Short : s <= t
  <2>1. m - len[1] \in Short
    OBVIOUS
  <2>2. Short \subseteq 0 .. m
    BY <1>4
  <2>3. 0 .. m \subseteq Nat
    OBVIOUS
  <2> HIDE DEF Short
  <2> QED BY <2>1, <2>2, <2>3, LeastExists
<1>6. PICK j \in 1 .. n : s = m - len[j]
  OBVIOUS
<1>7. \A i \in 1 .. n : len[j] >= len[i]
  <2>1. ASSUME NEW i \in 1 .. n PROVE len[j] >= len[i]
    <3>1. m - len[i] \in Short
      OBVIOUS
    <3>2. m - len[j] <= m - len[i]
      BY <1>5, <1>6, <3>1
    <3>3. PICK x \in 0 .. m, y \in 0 .. m : x = len[j] /\ y = len[i]
      BY <1>4
    <3> QED BY <3>2, <3>3
  <2> QED BY <2>1
<1> DEFINE Longest == {i \in 1 .. n : len[i] = len[j]}
<1>8. PICK g \in Longest : \A h \in Longest : g <= h
  <2>1. j \in Longest
    OBVIOUS
  <2>2. Longest \subseteq 1 .. n
    OBVIOUS
  <2>3. 1 .. n \subseteq Nat
    OBVIOUS
  <2> HIDE DEF Longest
  <2> QED BY <2>1, <2>2, <2>3, LeastExists
<1>9. g \in 1 .. n /\ len[g] = len[j]
  OBVIOUS
<1>10. ASSUME NEW h \in 1 .. n
       PROVE  len[g] > len[h] \/ (len[g] = len[h] /\ g <= h)
  <2>1. PICK x \in 0 .. m, y \in 0 .. m : x = len[g] /\ y = len[h] /\ x >= y
    BY <1>4, <1>7, <1>9
  <2>2. x = y => h \in Longest
    BY <1>9, <2>1
  <2> QED BY <1>8, <2>1, <2>2
<1> QED BY <1>2, <1>4, <1>9, <1>10 DEF Largest

\* Fewer groups than numbers: one has two.
LEMMA LargestIsLong ==
  ASSUME NEW n \in Nat \ {0}, NEW m \in Nat, n < m, NEW groups, NEW e, Cuts(groups, e, n, m),
         NEW g \in 1 .. n, Largest(groups, g)
  PROVE  e[g] - e[g - 1] >= 2
<1>0. /\ DOMAIN groups = 1 .. n
      /\ \A i \in 1 .. n : /\ e[i - 1] \in 0 .. m /\ e[i] \in 0 .. m /\ e[i - 1] < e[i]
                           /\ Len(groups[i]) = e[i] - e[i - 1]
  <2>1. n \in Nat
    OBVIOUS
  <2> QED BY <2>1, PartsAre
<1>1. PICK a \in 0 .. m, b \in 0 .. m : a = e[g - 1] /\ b = e[g] /\ a < b /\ Len(groups[g]) = b - a
  BY <1>0
<1>2. SUFFICES ASSUME b - a <= 1 PROVE FALSE
  BY <1>1
<1> DEFINE G == {i \in 0 .. n : e[i] <= i}
<1>3. 0 \in G
  BY DEF Cuts
<1>4. ASSUME NEW i \in 0 .. n - 1, i \in G PROVE i + 1 \in G
  <2>1. i + 1 \in 1 .. n /\ i + 1 \in 0 .. n /\ (i + 1) - 1 = i
    OBVIOUS
  <2>2. PICK x \in 0 .. m, y \in 0 .. m : /\ x = e[(i + 1) - 1] /\ y = e[i + 1]
                                          /\ Len(groups[i + 1]) = y - x
    BY <1>0, <2>1
  <2>3. b - a > y - x \/ b - a = y - x
    BY <1>0, <1>1, <2>1, <2>2 DEF Largest
  <2>4. x = e[i] /\ x <= i
    BY <1>4, <2>1, <2>2
  <2>5. y <= i + 1
    BY <1>2, <2>3, <2>4
  <2> QED BY <2>1, <2>2, <2>5
<1>5. n \in G
  <2> HIDE DEF G
  <2> QED BY <1>3, <1>4, Along
<1>6. e[n] = m
  BY DEF Cuts
<1> QED BY <1>5, <1>6

\* The largest group is cut in its middle.
LEMMA HalvedIs ==
  ASSUME NEW n \in Nat \ {0}, NEW m \in Nat, n < m, NEW groups, Parts(groups, n, m)
  PROVE  Parts(Halved(groups), n + 1, m)
<1>0. n \in Nat
  OBVIOUS
<1>1. PICK e : Cuts(groups, e, n, m)
  BY DEF Parts
<1>2. /\ groups \in Seq(Seq(Nat)) /\ Len(groups) = n /\ DOMAIN groups = 1 .. n
      /\ \A i \in 1 .. n : /\ e[i - 1] \in 0 .. m /\ e[i] \in 0 .. m /\ e[i - 1] < e[i]
                           /\ groups[i] = Run(e[i - 1], e[i])
                           /\ Len(groups[i]) = e[i] - e[i - 1]
      /\ \A i \in 0 .. n : e[i] \in 0 .. m
  BY <1>0, <1>1, PartsAre
<1>3. PICK g : g = (CHOOSE x \in DOMAIN groups : Largest(groups, x))
  OBVIOUS
<1>4. g \in 1 .. n /\ Largest(groups, g)
  BY <1>2, <1>3, LargestExists
<1>5. e[g] - e[g - 1] >= 2
  BY <1>1, <1>4, LargestIsLong
<1>6. PICK a \in Nat, b \in Nat :
        /\ a = e[g - 1] /\ b = e[g] /\ b - a >= 2 /\ b <= m
        /\ groups[g] = Run(a, b) /\ Len(groups[g]) = b - a
  <2>1. /\ e[g - 1] \in 0 .. m /\ e[g] \in 0 .. m
        /\ groups[g] = Run(e[g - 1], e[g]) /\ Len(groups[g]) = e[g] - e[g - 1]
    BY <1>2, <1>4
  <2>2. 0 .. m \subseteq Nat /\ \A x \in 0 .. m : x <= m
    OBVIOUS
  <2> QED BY <1>5, <2>1, <2>2
<1>7. PICK half \in Nat : half = (b - a) \div 2 /\ half >= 1 /\ half < b - a
  <2>1. PICK w \in Nat : w = b - a /\ w >= 2
    BY <1>6
  <2>2. w \div 2 \in Nat /\ w \div 2 >= 1 /\ w \div 2 < w
    BY <2>1
  <2> QED BY <2>1, <2>2
<1>8. /\ SubSeq(groups[g], 1, half) = Run(a, a + half)
      /\ SubSeq(groups[g], half + 1, Len(groups[g])) = Run(a + half, b)
  <2>0. b - a >= 2 /\ half < b - a
    BY <1>6, <1>7
  <2>1. /\ 0 \in Nat /\ 0 <= half /\ a + half <= b /\ 0 + 1 = 1 /\ a + 0 = a
        /\ b - a \in Nat /\ half <= b - a /\ a + (b - a) <= b /\ a + (b - a) = b
    BY <2>0
  <2>2. SubSeq(Run(a, b), 1, half) = Run(a, a + half)
    <3>1. PICK y \in Nat : y = a + half /\ y <= b /\ y - a = half - 1 + 1
      BY <2>1
    <3>2. 1 \in Nat /\ 1 >= 1 /\ 1 <= half + 1 /\ a - a = 1 - 1
      OBVIOUS
    <3>3. PICK u \in Nat : u = 1
      OBVIOUS
    <3>4. Within(a, b, u, half, a, y)
      BY <3>1, <3>2, <3>3 DEF Within
    <3>5. SubSeq(Run(a, b), u, half) = Run(a, y)
      BY <3>4, SubRun, SMTT(30)

    <3> QED BY <3>1, <3>3, <3>5
  <2>3. PICK w \in Nat : w = b - a /\ half <= w /\ a + w <= b /\ a + w = b
    BY <2>1
  <2>4. PICK v \in Nat : v = half + 1 /\ v >= 1 /\ v <= w + 1
    BY <2>3
  <2>5. PICK x \in Nat : x = a + half /\ x - a = v - 1 /\ b - x = w - v + 1
    BY <2>3, <2>4
  <2>6. SubSeq(Run(a, b), v, w) = Run(x, b)
    <3>1. Within(a, b, v, w, x, b)
      BY <2>4, <2>5 DEF Within
    <3> QED BY <3>1, SubRun
  <2> QED BY <1>6, <2>2, <2>3, <2>4, <2>5, <2>6
<1>9. PICK c \in Nat : c = a + half /\ a < c /\ c < b
  <2>1. half >= 1 /\ half < b - a
    BY <1>7
  <2>2. a + half \in Nat /\ a < a + half /\ a + half < b
    BY <2>1
  <2> QED BY <2>2
<1>10. PICK f : f = [i \in 0 .. n + 1 |-> IF i < g THEN e[i] ELSE IF i = g THEN c ELSE e[i - 1]]
  OBVIOUS
<1>11. PICK p : p = SubSeq(groups, 1, g - 1)
  OBVIOUS
<1>12. PICK q : q = <<Run(a, c), Run(c, b)>>
  OBVIOUS
<1>13. PICK r : r = SubSeq(groups, g + 1, n)
  OBVIOUS
<1>14. Halved(groups) = (p \o q) \o r
  <2>1. ~ (Len(groups[g]) <= 1)
    BY <1>6
  <2>2. Len(groups[g]) \div 2 = half
    BY <1>6, <1>7
  <2>3. /\ SubSeq(groups[g], 1, Len(groups[g]) \div 2) = Run(a, c)
        /\ SubSeq(groups[g], Len(groups[g]) \div 2 + 1, Len(groups[g])) = Run(c, b)
    BY <1>8, <1>9, <2>2
  <2>4. Halved(groups) =
          IF Len(groups[g]) <= 1 THEN groups
          ELSE SubSeq(groups, 1, g - 1)
                 \o <<SubSeq(groups[g], 1, Len(groups[g]) \div 2),
                      SubSeq(groups[g], Len(groups[g]) \div 2 + 1, Len(groups[g]))>>
                 \o SubSeq(groups, g + 1, Len(groups))
    BY <1>3 DEF Halved, Largest
  <2> QED BY <1>2, <1>11, <1>12, <1>13, <2>1, <2>3, <2>4
<1>15. p \in Seq(Seq(Nat)) /\ Len(p) = g - 1 /\ \A i \in 1 .. g - 1 : p[i] = groups[i]
  <2>1. 1 \in Int /\ g - 1 \in Int /\ \A i \in 1 .. g - 1 : groups[i] \in Seq(Nat)
    BY <1>2, <1>4
  <2>2. /\ p \in Seq(Seq(Nat)) /\ Len(p) = IF 1 <= g - 1 THEN (g - 1) - 1 + 1 ELSE 0
        /\ \A i \in 1 .. (g - 1) - 1 + 1 : p[i] = groups[1 + i - 1]
    BY <1>11, <2>1, SubSeqProperties
  <2>3. (g - 1) - 1 + 1 = g - 1 /\ (IF 1 <= g - 1 THEN (g - 1) - 1 + 1 ELSE 0) = g - 1
    BY <1>4
  <2>4. \A i \in 1 .. g - 1 : 1 + i - 1 = i
    OBVIOUS
  <2> QED BY <2>2, <2>3, <2>4
<1>16. r \in Seq(Seq(Nat)) /\ Len(r) = n - g /\ \A i \in 1 .. n - g : r[i] = groups[g + i]
  <2>1. g + 1 \in Int /\ n \in Int /\ \A i \in (g + 1) .. n : groups[i] \in Seq(Nat)
    BY <1>2, <1>4
  <2>2. /\ r \in Seq(Seq(Nat)) /\ Len(r) = IF g + 1 <= n THEN n - (g + 1) + 1 ELSE 0
        /\ \A i \in 1 .. n - (g + 1) + 1 : r[i] = groups[(g + 1) + i - 1]
    BY <1>13, <2>1, SubSeqProperties
  <2>3. n - (g + 1) + 1 = n - g /\ (IF g + 1 <= n THEN n - (g + 1) + 1 ELSE 0) = n - g
    BY <1>4
  <2>4. \A i \in 1 .. n - g : (g + 1) + i - 1 = g + i
    BY <1>4
  <2> QED BY <2>2, <2>3, <2>4
<1>17. q \in Seq(Seq(Nat)) /\ Len(q) = 2 /\ q[1] = Run(a, c) /\ q[2] = Run(c, b)
  <2>1. Run(a, c) \in Seq(Nat)
    <3>1. a <= c
      BY <1>9
    <3> QED BY <3>1, RunIs
  <2>2. Run(c, b) \in Seq(Nat)
    <3>1. c <= b /\ b \in Nat
      BY <1>9
    <3> QED BY <3>1, RunIs
  <2> QED BY <1>12, <2>1, <2>2
<1>18. PICK new : new = Halved(groups)
  OBVIOUS
<1>19. /\ new \in Seq(Seq(Nat)) /\ Len(new) = n + 1
       /\ \A i \in 1 .. n + 1 : new[i] = IF i < g THEN groups[i]
                                         ELSE IF i = g THEN Run(a, c)
                                         ELSE IF i = g + 1 THEN Run(c, b) ELSE groups[i - 1]
  <2>1. PICK pq : pq = p \o q
    OBVIOUS
  <2>2. /\ pq \in Seq(Seq(Nat)) /\ Len(pq) = Len(p) + Len(q)
        /\ \A i \in 1 .. Len(p) + Len(q) : pq[i] = IF i <= Len(p) THEN p[i] ELSE q[i - Len(p)]
    BY <1>15, <1>17, <2>1, ConcatProperties
  <2>3. Len(pq) = g + 1
    BY <1>4, <1>15, <1>17, <2>2
  <2>4. /\ new \in Seq(Seq(Nat)) /\ Len(new) = Len(pq) + Len(r)
        /\ \A i \in 1 .. Len(pq) + Len(r) : new[i] = IF i <= Len(pq) THEN pq[i] ELSE r[i - Len(pq)]
    <3>1. new = pq \o r
      BY <1>14, <1>18, <2>1
    <3> QED BY <1>16, <2>2, <3>1, ConcatProperties, ZenonT(40)

  <2>5. Len(pq) + Len(r) = n + 1
    BY <1>4, <1>16, <2>3
  <2>6. ASSUME NEW i \in 1 .. n + 1
        PROVE  new[i] = IF i < g THEN groups[i]
                        ELSE IF i = g THEN Run(a, c)
                        ELSE IF i = g + 1 THEN Run(c, b) ELSE groups[i - 1]
    <3>1. new[i] = IF i <= g + 1 THEN pq[i] ELSE r[i - (g + 1)]
      BY <2>3, <2>4, <2>5
    <3>2. CASE i < g
      <4>1. i \in 1 .. g - 1 /\ i <= g - 1 /\ i <= g + 1 /\ i \in 1 .. (g - 1) + 2
        BY <1>4, <3>2
      <4>2. pq[i] = p[i]
        BY <1>15, <1>17, <2>2, <4>1
      <4> QED BY <1>15, <3>1, <3>2, <4>1, <4>2
    <3>3. CASE i = g
      <4>1. g \in 1 .. (g - 1) + 2 /\ ~ (g <= g - 1) /\ g - (g - 1) = 1 /\ g <= g + 1 /\ ~ (g < g)
        BY <1>4
      <4>2. pq[g] = q[1]
        BY <1>15, <1>17, <2>2, <4>1
      <4> QED BY <1>17, <3>1, <3>3, <4>1, <4>2
    <3>4. CASE i = g + 1
      <4>1. /\ g + 1 \in 1 .. (g - 1) + 2 /\ ~ (g + 1 <= g - 1) /\ (g + 1) - (g - 1) = 2
            /\ g + 1 <= g + 1 /\ ~ (g + 1 < g) /\ g + 1 # g
        BY <1>4
      <4>2. pq[g + 1] = q[2]
        BY <1>15, <1>17, <2>2, <4>1
      <4> QED BY <1>17, <3>1, <3>4, <4>1, <4>2
    <3>5. CASE i > g + 1
      <4>1. /\ i - (g + 1) \in 1 .. n - g /\ g + (i - (g + 1)) = i - 1
            /\ ~ (i <= g + 1) /\ ~ (i < g) /\ i # g /\ i # g + 1
        BY <1>4, <3>5
      <4>2. r[i - (g + 1)] = groups[i - 1]
        BY <1>16, <4>1
      <4> QED BY <3>1, <4>1, <4>2
    <3>6. i < g \/ i = g \/ i = g + 1 \/ i > g + 1
      BY <1>4
    <3> QED BY <3>2, <3>3, <3>4, <3>5, <3>6
  <2> QED BY <2>4, <2>5, <2>6
<1>20. ASSUME NEW i \in 1 .. n + 1 PROVE new[i] = Run(f[i - 1], f[i]) /\ f[i - 1] < f[i]
  <2>1. i \in 0 .. n + 1 /\ i - 1 \in 0 .. n + 1 /\ (i - 1) - 1 = i - 2
    OBVIOUS
  <2>2. /\ f[i] = IF i < g THEN e[i] ELSE IF i = g THEN c ELSE e[i - 1]
        /\ f[i - 1] = IF i - 1 < g THEN e[i - 1] ELSE IF i - 1 = g THEN c ELSE e[i - 2]
    BY <1>10, <2>1
  <2>3. CASE i < g
    <3>1. i \in 1 .. n /\ i - 1 < g
      BY <1>4, <2>3
    <3>2. f[i] = e[i] /\ f[i - 1] = e[i - 1] /\ new[i] = groups[i]
      BY <1>19, <2>2, <2>3, <3>1
    <3> QED BY <1>2, <3>1, <3>2
  <2>4. CASE i = g
    <3>1. ~ (g < g) /\ g - 1 < g
      BY <1>4
    <3>2. f[i] = c /\ f[i - 1] = e[g - 1] /\ new[i] = Run(a, c)
      BY <1>19, <2>2, <2>4, <3>1
    <3> QED BY <1>6, <1>9, <3>2
  <2>5. CASE i = g + 1
    <3>1. ~ (i < g) /\ i # g /\ i - 1 = g /\ ~ (g < g)
      BY <1>4, <2>5
    <3>2. f[i] = e[g] /\ f[i - 1] = c /\ new[i] = Run(c, b)
      BY <1>19, <2>2, <2>5, <3>1
    <3> QED BY <1>6, <1>9, <3>2
  <2>6. CASE i > g + 1
    <3>1. /\ ~ (i < g) /\ i # g /\ ~ (i - 1 < g) /\ i - 1 # g /\ i # g + 1
          /\ i - 1 \in 1 .. n /\ (i - 1) - 1 = i - 2
      BY <1>4, <2>6
    <3>2. f[i] = e[i - 1] /\ f[i - 1] = e[i - 2] /\ new[i] = groups[i - 1]
      BY <1>19, <2>2, <3>1
    <3>3. groups[i - 1] = Run(e[(i - 1) - 1], e[i - 1]) /\ e[(i - 1) - 1] < e[i - 1]
      BY <1>2, <3>1
    <3> QED BY <3>1, <3>2, <3>3
  <2>7. i < g \/ i = g \/ i = g + 1 \/ i > g + 1
    BY <1>4
  <2> QED BY <2>3, <2>4, <2>5, <2>6, <2>7
<1>21. f \in [0 .. n + 1 -> 0 .. m] /\ f[0] = 0 /\ f[n + 1] = m
  <2>1. ASSUME NEW i \in 0 .. n + 1
        PROVE  (IF i < g THEN e[i] ELSE IF i = g THEN c ELSE e[i - 1]) \in 0 .. m
    <3>1. CASE i < g
      <4>1. i \in 0 .. n
        BY <1>4, <3>1
      <4> QED BY <1>2, <3>1, <4>1
    <3>2. CASE i = g
      <4>1. c \in 0 .. m /\ ~ (g < g)
        BY <1>4, <1>6, <1>9, SMTT(30)

      <4> QED BY <3>2, <4>1
    <3>3. CASE i > g
      <4>1. i - 1 \in 0 .. n /\ ~ (i < g) /\ i # g
        BY <1>4, <3>3
      <4> QED BY <1>2, <4>1
    <3>4. i < g \/ i = g \/ i > g
      BY <1>4
    <3> QED BY <3>1, <3>2, <3>3, <3>4
  <2>2. 0 \in 0 .. n + 1 /\ 0 < g /\ n + 1 \in 0 .. n + 1 /\ ~ (n + 1 < g) /\ n + 1 # g /\ (n + 1) - 1 = n
    BY <1>4
  <2>3. f[0] = e[0] /\ f[n + 1] = e[n]
    BY <1>10, <2>2
  <2>4. e[0] = 0 /\ e[n] = m
    BY <1>1 DEF Cuts
  <2> QED BY <1>10, <2>1, <2>3, <2>4
<1>22. new = [i \in 1 .. n + 1 |-> Run(f[i - 1], f[i])]
  <2>1. new = [i \in 1 .. n + 1 |-> new[i]]
    BY <1>19, LenProperties
  <2> QED BY <1>20, <2>1
<1>23. Cuts(new, f, n + 1, m)
  BY <1>20, <1>21, <1>22 DEF Cuts
<1> QED BY <1>18, <1>23 DEF Parts

\* The keyframe k joins the last group, or starts one.
Joins(groups, k, target) ==
  /\ groups # <<>>
  /\ \/ ~ (/\ kept[k].frame.index - kept[k - 1].frame.index >= MinGap
           /\ (kept[k].frame.index - kept[k - 1].frame.index) * 2 * target >= frames)
     \/ Len(groups) >= target

JoinedWith(groups, k, target) ==
  IF Joins(groups, k, target)
  THEN [groups EXCEPT ![Len(groups)] = Append(groups[Len(groups)], k)] ELSE Append(groups, <<k>>)

LEMMA JoinedSteps ==
  ASSUME NEW m \in Nat, DOMAIN kept = 1 .. m, NEW target \in Nat \ {0}
  PROVE  \E st : /\ st[0] = <<>> /\ Joined(target) = st[m]
                 /\ \A j \in 0 .. m - 1 : st[j + 1] = JoinedWith(st[j], j + 1, target)
<1> DEFINE D == Seq(Seq(Nat))
<1> DEFINE F == [p \in D \X (1 .. m) |-> JoinedWith(p[1], p[2], target)]
<1> DEFINE Eq(h) == h = [set \in SUBSET (1 .. m) |->
                          IF set = {} THEN <<>>
                          ELSE JoinedWith(h[set \ {Top(set)}], Top(set), target)]
<1>2. ASSUME NEW d \in D, NEW k \in 1 .. m
      PROVE  /\ F[<<d, k>>] \in D
             /\ F[<<d, k>>] = JoinedWith(d, k, target)
  <2>1. F[<<d, k>>] = JoinedWith(d, k, target)
    OBVIOUS
  <2>2. k \in Nat /\ <<k>> \in Seq(Nat)
    OBVIOUS
  <2>3. Append(d, <<k>>) \in D
    BY <2>2, AppendProperties
  <2>4. ASSUME d # <<>>
        PROVE  [d EXCEPT ![Len(d)] = Append(d[Len(d)], k)] \in D
    <3>1. Len(d) \in Nat \ {0}
      BY <2>4, EmptySeq
    <3>2. Len(d) \in 1 .. Len(d)
      BY <3>1
    <3>3. d[Len(d)] \in Seq(Nat)
      BY <3>2, ElementOfSeq
    <3>4. Append(d[Len(d)], k) \in Seq(Nat)
      BY <2>2, <3>3, AppendProperties
    <3> QED BY <3>2, <3>4, ExceptSeq
  <2>5. JoinedWith(d, k, target) \in D
    <3> HIDE DEF D
    <3> QED BY <2>3, <2>4 DEF JoinedWith, Joins
  <2> HIDE DEF F
  <2> QED BY <2>1, <2>5
<1>3. \E h : Eq(h)
  <2>1. <<>> \in D
    OBVIOUS
  <2>2. \A d \in D : \A k \in 1 .. m : F[<<d, k>>] \in D
    BY <1>2
  <2>3. PICK h \in [SUBSET (1 .. m) -> D] : IsFold(h, F, <<>>, m)
    <3> HIDE DEF F, D
    <3> QED BY <2>1, <2>2, FoldExists
  <2>4. ASSUME NEW set \in SUBSET (1 .. m), set # {}
        PROVE  F[<<h[set \ {Top(set)}], Top(set)>>]
                 = JoinedWith(h[set \ {Top(set)}], Top(set), target)
    <3>1. Top(set) \in 1 .. m
      BY <2>4, TopIs
    <3>2. h[set \ {Top(set)}] \in D
      BY <2>3
    <3> HIDE DEF F, D
    <3> QED BY <1>2, <3>1, <3>2
  <2>5. Eq(h)
    <3> HIDE DEF F, D
    <3> QED BY <2>3, <2>4 DEF IsFold
  <2> QED BY <2>5
<1> DEFINE number == [k \in DOMAIN kept |-> k]
<1> DEFINE Folds(h) == h = [set \in SUBSET DOMAIN number |->
                             IF set = {} THEN <<>>
                             ELSE JoinedWith(h[set \ {Top(set)}], number[Top(set)], target)]
<1>4. ASSUME NEW h PROVE Folds(h) <=> Eq(h)
  <2>1. DOMAIN number = 1 .. m /\ \A k \in 1 .. m : number[k] = k
    OBVIOUS
  <2>2. ASSUME NEW set \in SUBSET (1 .. m), set # {} PROVE number[Top(set)] = Top(set)
    <3>1. Top(set) \in 1 .. m
      BY <2>2, TopIs
    <3> QED BY <2>1, <3>1
  <2> HIDE DEF number
  <2> QED BY <2>1, <2>2
<1>5. PICK c : c = (CHOOSE h : Folds(h)) /\ Eq(c)
  <2> HIDE DEF Eq, Folds
  <2> QED BY <1>3, <1>4
<1>6. Joined(target) = c[1 .. m]
  <2>1. DOMAIN number = 1 .. m
    OBVIOUS
  <2>2. Joined(target) = (CHOOSE h : Folds(h))[DOMAIN number]
    BY DEF Joined, JoinedWith, Joins, S!FoldLeft, S!MapThenFoldSet, S!Max, Top
  <2> HIDE DEF number, Folds
  <2> QED BY <1>5, <2>1, <2>2
<1> HIDE DEF F, D
<1>7. PICK st : st = [j \in 0 .. m |-> c[1 .. j]]
  OBVIOUS
<1>8. st[0] = <<>>
  <2>1. 1 .. 0 = {} /\ {} \in SUBSET (1 .. m)
    OBVIOUS
  <2>2. c[{}] = <<>>
    BY <1>5, <2>1
  <2> QED BY <1>7, <2>1, <2>2
<1>9. ASSUME NEW j \in 0 .. m - 1 PROVE st[j + 1] = JoinedWith(st[j], j + 1, target)
  <2>1. j \in 0 .. m /\ j + 1 \in 0 .. m
    OBVIOUS
  <2>2. st[j] = c[1 .. j] /\ st[j + 1] = c[1 .. (j + 1)]
    BY <1>7, <2>1
  <2>3. PICK set : set = 1 .. (j + 1)
    OBVIOUS
  <2>4. set \in SUBSET (1 .. m) /\ set # {} /\ Top(set) = j + 1 /\ set \ {j + 1} = 1 .. j
    BY <2>3, Initial
  <2>5. c[set] = JoinedWith(c[set \ {Top(set)}], Top(set), target)
    BY <1>5, <2>4
  <2> QED BY <2>1, <2>2, <2>3, <2>4, <2>5
<1>10. st[m] = c[1 .. m]
  BY <1>7
<1> HIDE DEF Eq
<1> QED BY <1>6, <1>8, <1>9, <1>10

LEMMA NoParts == Parts(<<>>, 0, 0)
<1>1. PICK e : e = [i \in 0 .. 0 |-> 0]
  OBVIOUS
<1>2. <<>> = [i \in 1 .. 0 |-> Run(e[i - 1], e[i])]
  OBVIOUS
<1>3. Cuts(<<>>, e, 0, 0)
  BY <1>1, <1>2 DEF Cuts
<1> QED BY <1>3 DEF Parts

\* The keyframes are joined to at most as many groups as there may be.
LEMMA JoinedIs ==
  ASSUME NEW m \in Nat \ {0}, DOMAIN kept = 1 .. m, NEW target \in Nat \ {0}
  PROVE  \E n \in 1 .. target : Parts(Joined(target), n, m)
<1>0. m \in Nat
  OBVIOUS
<1>1. PICK st : /\ st[0] = <<>> /\ Joined(target) = st[m]
                /\ \A j \in 0 .. m - 1 : st[j + 1] = JoinedWith(st[j], j + 1, target)
  BY <1>0, JoinedSteps
<1> DEFINE G == {j \in 0 .. m : \E n \in 0 .. target : Parts(st[j], n, j) /\ (j # 0 => n # 0)}
<1>2. 0 \in G
  BY <1>1, NoParts
<1>3. ASSUME NEW j \in 0 .. m - 1, j \in G PROVE j + 1 \in G
  <2>1. PICK n \in 0 .. target : Parts(st[j], n, j) /\ (j # 0 => n # 0)
    BY <1>3
  <2>2. n \in Nat /\ j \in Nat /\ j + 1 \in 0 .. m /\ j + 1 # 0
    OBVIOUS
  <2>3. PICK e : Cuts(st[j], e, n, j)
    BY <2>1 DEF Parts
  <2>4. st[j] \in Seq(Seq(Nat)) /\ Len(st[j]) = n
    BY <2>2, <2>3, PartsAre
  <2>5. st[j + 1] = JoinedWith(st[j], j + 1, target)
    BY <1>1
  <2>6. CASE Joins(st[j], j + 1, target)
    <3>1. n # 0
      BY <2>4, <2>6, EmptySeq DEF Joins
    <3>2. n \in Nat \ {0}
      BY <2>2, <3>1
    <3>3. st[j + 1] = [st[j] EXCEPT ![n] = Append(st[j][n], j + 1)]
      BY <2>4, <2>5, <2>6 DEF JoinedWith
    <3>4. Parts(st[j + 1], n, j + 1)
      <4>1. PICK groups : groups = st[j]
        OBVIOUS
      <4>2. Parts(groups, n, j)
        BY <2>1, <4>1
      <4>3. Parts([groups EXCEPT ![n] = Append(groups[n], j + 1)], n, j + 1)
        BY <2>2, <3>2, <4>2, LongerLast
      <4> QED BY <3>3, <4>1, <4>3
    <3> QED BY <2>2, <3>1, <3>4
  <2>7. CASE ~ Joins(st[j], j + 1, target)
    <3>1. st[j + 1] = Append(st[j], <<j + 1>>)
      BY <2>5, <2>7 DEF JoinedWith
    <3>2. Parts(st[j + 1], n + 1, j + 1)
      BY <2>1, <2>2, <3>1, OneMore
    <3>3. n = 0 \/ n < target
      <4>1. n # 0 => st[j] # <<>>
        BY <2>4, EmptySeq
      <4> QED BY <2>2, <2>4, <2>7, <4>1 DEF Joins
    <3>4. n + 1 \in 0 .. target /\ n + 1 # 0
      BY <3>3
    <3> QED BY <2>2, <3>2, <3>4
  <2> QED BY <2>6, <2>7
<1>4. m \in G
  <2>1. m \in 0 .. m
    OBVIOUS
  <2> HIDE DEF G
  <2> QED BY <1>0, <1>2, <1>3, <2>1, Along
<1>5. PICK n \in 0 .. target : Parts(st[m], n, m) /\ n # 0
  BY <1>4
<1>6. n \in 1 .. target
  BY <1>5
<1> QED BY <1>1, <1>5, <1>6

\* What is done until there are enough groups.
HalvedFor(groups, target) == IF Len(groups) < target THEN Halved(groups) ELSE groups

\* The groups when there are more keyframes than there may be segments.
Grouped(target) ==
  S!FoldLeft(LAMBDA groups, n : IF Len(groups) < target THEN Halved(groups) ELSE groups,
             Joined(target), [n \in 1 .. target |-> n])

LEMMA HalvedForIs ==
  ASSUME NEW m \in Nat, NEW target \in Nat \ {0}, target < m,
         NEW n \in 1 .. target, NEW groups, Parts(groups, n, m)
  PROVE  /\ Len(groups) = n /\ groups \in Seq(Seq(Nat))
         /\ n < target => n + 1 \in 1 .. target /\ Parts(HalvedFor(groups, target), n + 1, m)
         /\ ~ (n < target) => Parts(HalvedFor(groups, target), n, m)
<1>1. n \in Nat /\ n \in Nat \ {0} /\ n < m
  OBVIOUS
<1>2. PICK e : Cuts(groups, e, n, m)
  BY DEF Parts
<1>3. Len(groups) = n /\ groups \in Seq(Seq(Nat))
  BY <1>1, <1>2, PartsAre
<1>4. ASSUME n < target
      PROVE  n + 1 \in 1 .. target /\ Parts(HalvedFor(groups, target), n + 1, m)
  <2>1. n + 1 \in 1 .. target
    BY <1>4
  <2>2. Parts(Halved(groups), n + 1, m)
    BY <1>1, HalvedIs
  <2> QED BY <1>3, <1>4, <2>1, <2>2 DEF HalvedFor
<1>5. ~ (n < target) => Parts(HalvedFor(groups, target), n, m)
  BY <1>3 DEF HalvedFor
<1> QED BY <1>3, <1>4, <1>5

LEMMA GroupedSteps ==
  ASSUME NEW m \in Nat \ {0}, DOMAIN kept = 1 .. m, NEW target \in Nat \ {0}, target < m
  PROVE  \E st : /\ st[0] = Joined(target) /\ Grouped(target) = st[target]
                 /\ \A j \in 0 .. target - 1 : st[j + 1] = HalvedFor(st[j], target)
<1>1. target \in Nat /\ m \in Nat
  OBVIOUS
<1> DEFINE base == Joined(target)
<1> DEFINE D == {g \in Seq(Seq(Nat)) : \E n \in 1 .. target : Parts(g, n, m)}
<1> DEFINE F == [p \in D \X (1 .. target) |-> HalvedFor(p[1], target)]
<1> DEFINE Eq(h) == h = [set \in SUBSET (1 .. target) |->
                          IF set = {} THEN base ELSE HalvedFor(h[set \ {Top(set)}], target)]
<1>2. ASSUME NEW d \in D, NEW k \in 1 .. target
      PROVE  /\ F[<<d, k>>] \in D
             /\ F[<<d, k>>] = HalvedFor(d, target)
  <2>1. F[<<d, k>>] = HalvedFor(d, target)
    OBVIOUS
  <2>2. PICK n \in 1 .. target : Parts(d, n, m)
    OBVIOUS
  <2>3. PICK l \in 1 .. target : Parts(HalvedFor(d, target), l, m)
    BY <1>1, <2>2, HalvedForIs
  <2>4. HalvedFor(d, target) \in Seq(Seq(Nat))
    BY <1>1, <2>3, HalvedForIs
  <2>5. HalvedFor(d, target) \in D
    BY <2>3, <2>4
  <2> HIDE DEF F
  <2> QED BY <2>1, <2>5
<1>3. \E h : Eq(h)
  <2>1. base \in D
    <3>1. PICK n \in 1 .. target : Parts(Joined(target), n, m)
      BY JoinedIs
    <3>2. Joined(target) \in Seq(Seq(Nat))
      BY <1>1, <3>1, HalvedForIs
    <3> QED BY <3>1, <3>2
  <2>2. \A d \in D : \A k \in 1 .. target : F[<<d, k>>] \in D
    BY <1>2
  <2>3. PICK h \in [SUBSET (1 .. target) -> D] : IsFold(h, F, base, target)
    <3> HIDE DEF F, D, base
    <3> QED BY <1>1, <2>1, <2>2, FoldExists
  <2>4. ASSUME NEW set \in SUBSET (1 .. target), set # {}
        PROVE  F[<<h[set \ {Top(set)}], Top(set)>>] = HalvedFor(h[set \ {Top(set)}], target)
    <3>1. Top(set) \in 1 .. target
      BY <1>1, <2>4, TopIs
    <3>2. h[set \ {Top(set)}] \in D
      BY <2>3
    <3> HIDE DEF F, D
    <3> QED BY <1>2, <3>1, <3>2
  <2>5. Eq(h)
    <3> HIDE DEF F, D, base
    <3> QED BY <2>3, <2>4 DEF IsFold
  <2> QED BY <2>5
<1> DEFINE number == [n \in 1 .. target |-> n]
<1> DEFINE Folds(h) == h = [set \in SUBSET DOMAIN number |->
                             IF set = {} THEN base ELSE HalvedFor(h[set \ {Top(set)}], target)]
<1>4. ASSUME NEW h PROVE Folds(h) <=> Eq(h)
  <2>1. DOMAIN number = 1 .. target
    OBVIOUS
  <2> HIDE DEF number
  <2> QED BY <2>1
<1>5. PICK c : c = (CHOOSE h : Folds(h)) /\ Eq(c)
  <2> HIDE DEF Eq, Folds
  <2> QED BY <1>3, <1>4
<1>6. Grouped(target) = c[1 .. target]
  <2>1. DOMAIN number = 1 .. target
    OBVIOUS
  <2>2. Grouped(target) = (CHOOSE h : Folds(h))[DOMAIN number]
    BY DEF Grouped, HalvedFor, S!FoldLeft, S!MapThenFoldSet, S!Max, Top
  <2> HIDE DEF number, Folds
  <2> QED BY <1>5, <2>1, <2>2
<1> HIDE DEF F, D
<1>7. PICK st : st = [j \in 0 .. target |-> c[1 .. j]]
  OBVIOUS
<1>8. st[0] = base
  <2>1. 1 .. 0 = {} /\ {} \in SUBSET (1 .. target)
    OBVIOUS
  <2>2. c[{}] = base
    BY <1>5, <2>1
  <2> QED BY <1>7, <2>1, <2>2
<1>9. ASSUME NEW j \in 0 .. target - 1 PROVE st[j + 1] = HalvedFor(st[j], target)
  <2>1. j \in 0 .. target /\ j + 1 \in 0 .. target
    OBVIOUS
  <2>2. st[j] = c[1 .. j] /\ st[j + 1] = c[1 .. (j + 1)]
    BY <1>7, <2>1
  <2>3. PICK set : set = 1 .. (j + 1)
    OBVIOUS
  <2>4. set \in SUBSET (1 .. target) /\ set # {} /\ Top(set) = j + 1 /\ set \ {j + 1} = 1 .. j
    BY <1>1, <2>3, Initial
  <2>5. c[set] = HalvedFor(c[set \ {Top(set)}], target)
    BY <1>5, <2>4
  <2> QED BY <2>1, <2>2, <2>3, <2>4, <2>5
<1>10. st[target] = c[1 .. target]
  BY <1>7
<1> HIDE DEF Eq
<1> QED BY <1>6, <1>8, <1>9, <1>10

LEMMA GroupedIs ==
  ASSUME NEW m \in Nat \ {0}, DOMAIN kept = 1 .. m, NEW target \in Nat \ {0}, target < m
  PROVE  Parts(Grouped(target), target, m)
<1>1. target \in Nat /\ m \in Nat
  OBVIOUS
<1>2. PICK st : /\ st[0] = Joined(target) /\ Grouped(target) = st[target]
                /\ \A j \in 0 .. target - 1 : st[j + 1] = HalvedFor(st[j], target)
  BY GroupedSteps
<1> DEFINE G == {j \in 0 .. target : \E n \in 1 .. target : Parts(st[j], n, m) /\ n >= j}
<1>3. 0 \in G
  <2>1. PICK n \in 1 .. target : Parts(Joined(target), n, m)
    BY JoinedIs
  <2>2. n >= 0
    OBVIOUS
  <2> QED BY <1>1, <1>2, <2>1, <2>2
<1>4. ASSUME NEW j \in 0 .. target - 1, j \in G PROVE j + 1 \in G
  <2>1. PICK n \in 1 .. target : Parts(st[j], n, m) /\ n >= j
    BY <1>4
  <2>2. j + 1 \in 0 .. target /\ st[j + 1] = HalvedFor(st[j], target)
    BY <1>2
  <2>3. CASE n < target
    <3>1. n + 1 \in 1 .. target /\ Parts(st[j + 1], n + 1, m)
      BY <1>1, <2>1, <2>2, <2>3, HalvedForIs
    <3>2. n + 1 >= j + 1
      BY <2>1
    <3> QED BY <2>2, <3>1, <3>2
  <2>4. CASE ~ (n < target)
    <3>1. Parts(st[j + 1], n, m)
      BY <1>1, <2>1, <2>2, <2>4, HalvedForIs
    <3>2. n >= j + 1
      BY <2>4
    <3> QED BY <2>2, <3>1, <3>2
  <2> QED BY <2>3, <2>4
<1>5. target \in G
  <2>1. target \in 0 .. target
    OBVIOUS
  <2> HIDE DEF G
  <2> QED BY <1>1, <1>3, <1>4, <2>1, Along
<1>6. PICK n \in 1 .. target : Parts(st[target], n, m) /\ n >= target
  BY <1>5
<1>7. n = target
  BY <1>6
<1> QED BY <1>2, <1>6, <1>7

LEMMA SingleIs ==
  ASSUME NEW m \in Nat
  PROVE  Parts([k \in 1 .. m |-> <<k>>], m, m)
<1>1. PICK e : e = [i \in 0 .. m |-> i]
  OBVIOUS
<1>2. ASSUME NEW i \in 1 .. m PROVE <<i>> = Run(e[i - 1], e[i]) /\ e[i - 1] < e[i]
  <2>1. PICK a \in Nat : a = i - 1 /\ a + 1 = i /\ a - a = 0 /\ a <= a
    OBVIOUS
  <2>2. e[i - 1] = a /\ e[i] = a + 1
    BY <1>1, <2>1
  <2>3. Run(a, a) \in Seq(Nat) /\ Len(Run(a, a)) = 0
    BY <2>1, RunIs
  <2>4. Run(a, a) = <<>>
    BY <2>3, EmptySeq
  <2>5. Append(Run(a, a), a + 1) = Run(a, a + 1)
    BY <2>1, RunGrows
  <2>6. Append(<<>>, a + 1) = <<a + 1>>
    OBVIOUS
  <2>7. <<i>> = Run(a, i)
    BY <2>1, <2>4, <2>5, <2>6
  <2>8. e[i - 1] = a /\ e[i] = i /\ a < i
    BY <2>1, <2>2
  <2> QED BY <2>7, <2>8
<1>3. [k \in 1 .. m |-> <<k>>] = [k \in 1 .. m |-> Run(e[k - 1], e[k])]
  BY <1>2
<1>4. e \in [0 .. m -> 0 .. m] /\ e[0] = 0 /\ e[m] = m
  BY <1>1
<1>5. Cuts([k \in 1 .. m |-> <<k>>], e, m, m)
  BY <1>2, <1>3, <1>4 DEF Cuts
<1> QED BY <1>5 DEF Parts

\* The segments are the keyframes, in order, cut into as many runs as there may be.
LEMMA SegmentsAre ==
  ASSUME NEW K, kept \in Seq(K)
  PROVE  SegmentsArePartition
<1>1. PICK m \in Nat : m = Len(kept) /\ DOMAIN kept = 1 .. m
  BY LenProperties
<1>2. MaxSegments \in Nat \ {0}
  BY KeyframesAssumption
<1>3. PICK target \in Nat \ {0} : target = Higher(1, Lower(MaxSegments, Len(kept)))
  <2>1. PICK most \in Nat \ {0} : most = MaxSegments
    BY <1>2
  <2>2. PICK low \in Nat : low = Lower(most, m)
    BY DEF Lower
  <2>3. Higher(1, low) \in Nat \ {0}
    BY DEF Higher
  <2> QED BY <1>1, <2>1, <2>2, <2>3
<1>4. Parts(Segments, Lower(MaxSegments, m), m) /\ Lower(MaxSegments, m) \in Nat
  <2>1. CASE m <= target
    <3>1. Segments = [k \in 1 .. m |-> <<k>>]
      BY <1>1, <1>3, <2>1 DEF Segments
    <3>2. Lower(MaxSegments, m) = m
      BY <1>1, <1>2, <1>3, <2>1 DEF Higher, Lower
    <3> QED BY <3>1, <3>2, SingleIs
  <2>2. CASE ~ (m <= target)
    <3>1. Segments = Grouped(target)
      BY <1>1, <1>3, <2>2 DEF Segments, Grouped
    <3>2. target < m /\ m \in Nat \ {0} /\ Lower(MaxSegments, m) = target
      BY <1>1, <1>2, <1>3, <2>2 DEF Higher, Lower
    <3> QED BY <1>1, <3>1, <3>2, GroupedIs
  <2> QED BY <2>1, <2>2
<1>5. PICK n \in Nat : n = Lower(MaxSegments, m)
  BY <1>4
<1>6. Parts(Segments, n, m)
  BY <1>4, <1>5
<1>7. PICK e : Cuts(Segments, e, n, m)
  BY <1>6 DEF Parts
<1>8. DOMAIN Segments = 1 .. n /\ Len(Segments) = n /\ \A i \in 1 .. n : Segments[i] # <<>>
  BY <1>7, PartsAre
<1>9. S!FlattenSeq(Segments) = [k \in 1 .. m |-> k]
  BY <1>6, Flattened
<1> QED BY <1>1, <1>5, <1>8, <1>9 DEF SegmentsArePartition

Candidate == [index : 0 .. frames, level : Levels, score : Scores]

Keyframe ==
  [frame : Candidate, number : Nat,
   mode : {"none", "model_disabled", "vision_skipped_limit", "vision_fallback", "model"}]

\* What is chosen is chosen before the first frame is written, of the frames that were read.
KeyframesInv ==
  /\ frames \in FrameCounts /\ wanted \in Requested
  /\ stage \in {"decoding", "writing", "done"}
  /\ tried \in Nat /\ tried <= Higher(Len(CandidateIndices), wanted)
  /\ stage = "decoding" => frames # 0 /\ tried <= Len(CandidateIndices)
  /\ candidate \in Seq(Candidate)
  /\ stage = "writing" => chosen = Sorted(Selection) /\ tried <= Len(chosen)
  /\ kept \in Seq(Keyframe)
  /\ \A k \in DOMAIN kept : kept[k].number = k

LEMMA CandidatesFromInv ==
  ASSUME candidate \in Seq(Candidate), frames \in Nat
  PROVE  CandidatesOK
<1>1. Candidate \subseteq [index : Int, level : Int, score : Int]
  <2>1. 0 .. frames \subseteq Int /\ Levels \subseteq Int /\ Scores \subseteq Int
    BY KeyframesAssumption
  <2>2. ASSUME NEW c \in Candidate PROVE c \in [index : Int, level : Int, score : Int]
    BY <2>1 DEF Candidate
  <2> QED BY <2>2
<1> QED BY <1>1, SeqMonotonic DEF CandidatesOK

LEMMA CandidateIndicesAre ==
  ASSUME frames \in Nat \ {0}, wanted \in Nat \ {0}
  PROVE  /\ Len(CandidateIndices) \in Nat
         /\ \A k \in 1 .. Len(CandidateIndices) : CandidateIndices[k] \in 0 .. frames
<1>1. PICK count \in Nat \ {0, 1} : count = Higher(wanted * PerKeyframe, Fewest)
  BY CountIs
<1>2. PICK list : list = CandidateIndices
  OBVIOUS
<1>3. PICK total \in Nat \ {0} : total = frames
  OBVIOUS
<1>4. PICK n \in Nat : n = Lower(count, total)
  BY DEF Lower
<1>5. list = Sorted(Indices(total, count))
  BY <1>1, <1>2, <1>3 DEF CandidateIndices
<1>6. list \in [1 .. n -> 0 .. total - 1]
  BY <1>4, <1>5, IndicesAre
<1>7. Len(list) = n
  BY <1>6
<1>8. 0 .. total - 1 \subseteq 0 .. total
  OBVIOUS
<1> QED BY <1>2, <1>3, <1>6, <1>7, <1>8

LEMMA NoIndices ==
  ASSUME frames = 0, wanted \in Nat \ {0}
  PROVE  Len(CandidateIndices) \in Nat
<1>1. PICK count \in Nat \ {0, 1} : count = Higher(wanted * PerKeyframe, Fewest)
  BY CountIs
<1>2. PICK set : set = Indices(frames, count)
  OBVIOUS
<1>3. set = {0}
  BY <1>1, <1>2 DEF Indices, Lower
<1>4. set \in SUBSET Int /\ IsFiniteSet(set)
  BY <1>3, FS_Singleton
<1>5. PICK n \in Nat : n = Cardinality(set)
  BY <1>4, FS_CardinalityType
<1>6. CandidateIndices = Sorted(set)
  BY <1>1, <1>2 DEF CandidateIndices
<1>7. PICK list : list = CandidateIndices /\ list \in [1 .. n -> set]
  BY <1>4, <1>5, <1>6, SortedIs
<1>8. Len(list) = n
  BY <1>7
<1> QED BY <1>7, <1>8

\* What is selected are candidates, and no more than are wanted.
LEMMA SelectedAre ==
  ASSUME CandidatesOK, wanted \in Nat \ {0}
  PROVE  /\ Len(Sorted(Selection)) \in Nat /\ Len(Sorted(Selection)) <= wanted
         /\ \A k \in 1 .. Len(Sorted(Selection)) : Sorted(Selection)[k] \in DOMAIN candidate
<1>1. Selection \in SUBSET DOMAIN candidate /\ Cardinality(Selection) <= wanted
  BY SelectionIs DEF Chooses
<1>2. IsFiniteSet(Selection) /\ Selection \in SUBSET Int
  <2>1. DOMAIN candidate \in SUBSET Int /\ IsFiniteSet(DOMAIN candidate)
    BY CandidatesAre
  <2> QED BY <1>1, <2>1, FS_Subset
<1>3. PICK s : s = Sorted(Selection)
  OBVIOUS
<1>4. PICK n \in Nat : n = Cardinality(Selection)
  BY <1>2, FS_CardinalityType
<1>5. s \in [1 .. n -> Selection]
  BY <1>2, <1>3, <1>4, SortedIs
<1>6. Len(s) = n
  BY <1>5
<1> QED BY <1>1, <1>3, <1>4, <1>5, <1>6

LEMMA KeyframesInitInv ==
  ASSUME KeyframesInit
  PROVE  KeyframesInv
<1>1. frames \in Nat /\ wanted \in Nat \ {0}
  BY KeyframesAssumption DEF KeyframesInit
<1>2. stage = "decoding" => frames # 0 /\ tried <= Len(CandidateIndices)
  <2>1. ASSUME frames # 0 PROVE 0 <= Len(CandidateIndices)
    <3>1. frames \in Nat \ {0}
      BY <1>1, <2>1
    <3>2. Len(CandidateIndices) \in Nat
      BY <1>1, <3>1, CandidateIndicesAre
    <3> QED BY <3>2
  <2> QED BY <2>1 DEF KeyframesInit
<1>3. 0 <= Higher(Len(CandidateIndices), wanted)
  <2>1. CASE frames # 0
    <3>1. PICK l \in Nat : l = Len(CandidateIndices)
      BY <1>1, <2>1, CandidateIndicesAre
    <3> QED BY <1>1, <3>1 DEF Higher
  <2>2. CASE frames = 0
    <3>1. PICK l \in Nat : l = Len(CandidateIndices)
      BY <1>1, <2>2, NoIndices
    <3> QED BY <1>1, <3>1 DEF Higher
  <2> QED BY <2>1, <2>2
<1> QED BY <1>1, <1>2, <1>3 DEF KeyframesInit, KeyframesInv

LEMMA SameSelection ==
  ASSUME candidate' = candidate, wanted' = wanted
  PROVE  Selection' = Selection
<1>1. FromBuckets' = FromBuckets
  BY DEF FromBuckets, AddBest, Bucket, Buckets, ByScore, Before, Distinct,
         S!FoldLeft, S!MapThenFoldSet, S!Max, Ordered
<1> QED
  BY <1>1 DEF Selection, ByScore, Before, Distinct, S!FoldLeft, S!MapThenFoldSet, S!Max, Ordered

LEMMA SameCandidates ==
  ASSUME frames' = frames, wanted' = wanted
  PROVE  CandidateIndices' = CandidateIndices /\ Candidate' = Candidate /\ Keyframe' = Keyframe
BY DEF CandidateIndices, Candidate, Keyframe

LEMMA InvNumbers ==
  ASSUME KeyframesInv
  PROVE  /\ frames \in Nat /\ wanted \in Nat \ {0} /\ tried \in Nat
         /\ Len(CandidateIndices) \in Nat
         /\ CandidatesOK /\ Len(kept) \in Nat /\ DOMAIN kept = 1 .. Len(kept)
<1>1. frames \in Nat /\ wanted \in Nat \ {0} /\ tried \in Nat
  BY KeyframesAssumption DEF KeyframesInv
<1>2. Len(CandidateIndices) \in Nat
  BY <1>1, CandidateIndicesAre, NoIndices
<1>3. CandidatesOK
  BY <1>1, CandidatesFromInv DEF KeyframesInv
<1>4. Len(kept) \in Nat /\ DOMAIN kept = 1 .. Len(kept)
  BY LenProperties DEF KeyframesInv
<1> QED BY <1>1, <1>2, <1>3, <1>4

LEMMA HigherIs ==
  ASSUME NEW a \in Nat, NEW b \in Nat
  PROVE  Higher(a, b) \in Nat /\ a <= Higher(a, b) /\ b <= Higher(a, b)
BY DEF Higher

LEMMA DecodeStep ==
  ASSUME KeyframesInv, Decode
  PROVE  KeyframesInv'
<1>1. /\ frames \in Nat /\ wanted \in Nat \ {0} /\ tried \in Nat
      /\ Len(CandidateIndices) \in Nat
  BY InvNumbers
<1>2. /\ stage = "decoding" /\ tried < Len(CandidateIndices) /\ tried' = tried + 1
      /\ frames' = frames /\ wanted' = wanted /\ stage' = stage /\ chosen' = chosen /\ kept' = kept
  BY DEF Decode
<1>3. CandidateIndices' = CandidateIndices /\ Candidate' = Candidate /\ Keyframe' = Keyframe
  BY <1>2, SameCandidates
<1>4. candidate' \in Seq(Candidate)
  <2>1. CASE candidate' = candidate
    BY <2>1 DEF KeyframesInv
  <2>2. CASE candidate' # candidate
    <3>1. PICK level \in Levels, score \in Scores :
            candidate' = Append(candidate,
              [index |-> CandidateIndices[tried + 1], level |-> level, score |-> score])
      BY <2>2 DEF Decode
    <3>2. tried + 1 \in 1 .. Len(CandidateIndices) /\ frames \in Nat \ {0}
      BY <1>1, <1>2 DEF KeyframesInv
    <3>3. CandidateIndices[tried + 1] \in 0 .. frames
      BY <1>1, <3>2, CandidateIndicesAre
    <3>4. [index |-> CandidateIndices[tried + 1], level |-> level, score |-> score] \in Candidate
      BY <3>3 DEF Candidate
    <3> QED BY <3>1, <3>4, AppendProperties DEF KeyframesInv
  <2> QED BY <2>1, <2>2
<1>5. PICK l \in Nat, w \in Nat : l = Len(CandidateIndices) /\ w = wanted
  BY <1>1
<1>6. tried' \in Nat /\ tried' <= l /\ tried' <= Higher(l, w)
  <2>1. PICK t \in Nat : t = tried' /\ t <= l
    BY <1>1, <1>2, <1>5
  <2>2. PICK h \in Nat : h = Higher(l, w) /\ l <= h
    BY HigherIs
  <2>3. t <= h
    BY <2>1, <2>2
  <2> QED BY <2>1, <2>2, <2>3
<1>7. stage' = "decoding" => frames' # 0 /\ tried' <= Len(CandidateIndices')
  BY <1>2, <1>3, <1>5, <1>6 DEF KeyframesInv
<1>8. tried' <= Higher(Len(CandidateIndices'), wanted')
  BY <1>2, <1>3, <1>5, <1>6
<1> QED BY <1>2, <1>3, <1>4, <1>6, <1>7, <1>8 DEF KeyframesInv

LEMMA SelectStep ==
  ASSUME KeyframesInv, Select
  PROVE  KeyframesInv'
<1>1. /\ frames \in Nat /\ wanted \in Nat \ {0} /\ CandidatesOK
      /\ Len(CandidateIndices) \in Nat
  BY InvNumbers
<1>2. /\ stage' = "writing" /\ tried' = 0 /\ chosen' = Sorted(Selection)
      /\ frames' = frames /\ wanted' = wanted /\ candidate' = candidate /\ kept' = kept
  BY DEF Select
<1>3. /\ CandidateIndices' = CandidateIndices /\ Candidate' = Candidate /\ Keyframe' = Keyframe
      /\ Selection' = Selection
  BY <1>2, SameCandidates, SameSelection
<1>4. chosen' = Sorted(Selection')
  BY <1>2, <1>3
<1>5. Len(chosen') \in Nat
  BY <1>1, <1>2, SelectedAre
<1>6. 0 <= Higher(Len(CandidateIndices'), wanted')
  <2>1. PICK l \in Nat, w \in Nat : l = Len(CandidateIndices') /\ w = wanted'
    BY <1>1, <1>2, <1>3
  <2> QED BY <2>1, HigherIs
<1>7. stage' = "writing" => chosen' = Sorted(Selection') /\ tried' <= Len(chosen')
  BY <1>2, <1>4, <1>5
<1> QED BY <1>2, <1>3, <1>6, <1>7 DEF KeyframesInv

LEMMA WriteStep ==
  ASSUME KeyframesInv, WriteFrame
  PROVE  KeyframesInv'
<1>1. /\ frames \in Nat /\ wanted \in Nat \ {0} /\ tried \in Nat /\ CandidatesOK
      /\ Len(CandidateIndices) \in Nat /\ Len(kept) \in Nat /\ DOMAIN kept = 1 .. Len(kept)
  BY InvNumbers
<1>2. /\ stage = "writing" /\ tried < Len(chosen) /\ tried' = tried + 1
      /\ frames' = frames /\ wanted' = wanted /\ stage' = stage
      /\ candidate' = candidate /\ chosen' = chosen
  BY DEF WriteFrame
<1>3. /\ CandidateIndices' = CandidateIndices /\ Candidate' = Candidate /\ Keyframe' = Keyframe
      /\ Selection' = Selection
  BY <1>2, SameCandidates, SameSelection
<1>4. chosen = Sorted(Selection)
  BY <1>2 DEF KeyframesInv
<1>5. /\ Len(chosen) \in Nat /\ Len(chosen) <= wanted
      /\ \A k \in 1 .. Len(chosen) : chosen[k] \in DOMAIN candidate
  BY <1>1, <1>4, SelectedAre
<1>6. kept' \in Seq(Keyframe) /\ \A k \in DOMAIN kept' : kept'[k].number = k
  <2>1. CASE kept' = kept
    BY <2>1 DEF KeyframesInv
  <2>2. CASE kept' # kept
    <3>1. PICK new : new = [frame |-> candidate[chosen[tried + 1]], number |-> Len(kept) + 1,
                            mode |-> "none"]
      OBVIOUS
    <3>2. kept' = Append(kept, new)
      BY <2>2, <3>1 DEF WriteFrame
    <3>3. tried + 1 \in 1 .. Len(chosen)
      BY <1>1, <1>2, <1>5
    <3>4. chosen[tried + 1] \in DOMAIN candidate
      BY <1>5, <3>3
    <3>5. candidate[chosen[tried + 1]] \in Candidate
      <4>1. candidate \in Seq(Candidate)
        BY DEF KeyframesInv
      <4>2. PICK i \in DOMAIN candidate : i = chosen[tried + 1]
        BY <3>4
      <4>3. i \in 1 .. Len(candidate)
        BY <4>1, LenProperties
      <4>4. candidate[i] \in Candidate
        BY <4>1, <4>3, ElementOfSeq
      <4> QED BY <4>2, <4>4
    <3>6. Len(kept) + 1 \in Nat
      BY <1>1
    <3>7. new \in Keyframe /\ new.number = Len(kept) + 1
      BY <3>1, <3>5, <3>6 DEF Keyframe
    <3>8. kept \in Seq(Keyframe)
      BY DEF KeyframesInv
    <3>9. /\ kept' \in Seq(Keyframe) /\ Len(kept') = Len(kept) + 1
          /\ \A i \in 1 .. Len(kept) : kept'[i] = kept[i]
          /\ kept'[Len(kept) + 1] = new
      BY <3>2, <3>7, <3>8, AppendProperties
    <3>10. DOMAIN kept' = 1 .. Len(kept) + 1
      BY <3>9, LenProperties
    <3>11. ASSUME NEW k \in 1 .. Len(kept) + 1 PROVE kept'[k].number = k
      <4>1. CASE k = Len(kept) + 1
        BY <3>7, <3>9, <4>1
      <4>2. CASE k # Len(kept) + 1
        <5>1. k \in 1 .. Len(kept)
          BY <1>1, <4>2
        <5>2. kept[k].number = k
          BY <1>1, <5>1 DEF KeyframesInv
        <5> QED BY <3>9, <5>1, <5>2
      <4> QED BY <4>1, <4>2
    <3> QED BY <3>9, <3>10, <3>11
  <2> QED BY <2>1, <2>2
<1>7. tried' \in Nat /\ tried' <= Higher(Len(CandidateIndices'), wanted')
  <2>1. PICK l \in Nat, w \in Nat : l = Len(CandidateIndices) /\ w = wanted
    BY <1>1
  <2>2. tried' \in Nat /\ tried' <= w
    BY <1>1, <1>2, <1>5, <2>1
  <2>3. PICK h \in Nat : h = Higher(l, w) /\ w <= h
    BY HigherIs
  <2>4. tried' <= h
    BY <2>2, <2>3
  <2> QED BY <1>2, <1>3, <2>1, <2>2, <2>3, <2>4
<1>8. stage' = "writing" => chosen' = Sorted(Selection') /\ tried' <= Len(chosen')
  BY <1>1, <1>2, <1>3, <1>4, <1>5
<1> QED BY <1>2, <1>3, <1>6, <1>7, <1>8 DEF KeyframesInv

LEMMA AnalyseStep ==
  ASSUME KeyframesInv, Analyse
  PROVE  KeyframesInv'
<1>1. Len(kept) \in Nat /\ DOMAIN kept = 1 .. Len(kept)
  BY InvNumbers
<1>2. /\ stage' = "done" /\ tried' = tried
      /\ frames' = frames /\ wanted' = wanted
      /\ candidate' = candidate /\ chosen' = chosen
  BY DEF Analyse
<1>3. CandidateIndices' = CandidateIndices /\ Candidate' = Candidate /\ Keyframe' = Keyframe
  BY <1>2, SameCandidates
<1>4. PICK model \in BOOLEAN : \E failing \in SUBSET DOMAIN kept :
        kept' = [k \in DOMAIN kept |-> [kept[k] EXCEPT !.mode =
          IF ~ model THEN "model_disabled"
          ELSE IF k > Higher(1, VisionMax) THEN "vision_skipped_limit"
          ELSE IF k \in failing THEN "vision_fallback" ELSE "model"]]
  BY DEF Analyse
<1>5. PICK failing \in SUBSET DOMAIN kept :
        kept' = [k \in DOMAIN kept |-> [kept[k] EXCEPT !.mode =
          IF ~ model THEN "model_disabled"
          ELSE IF k > Higher(1, VisionMax) THEN "vision_skipped_limit"
          ELSE IF k \in failing THEN "vision_fallback" ELSE "model"]]
  BY <1>4
<1>6. ASSUME NEW k \in 1 .. Len(kept) PROVE kept'[k] \in Keyframe /\ kept'[k].number = k
  <2>1. kept[k] \in Keyframe /\ kept[k].number = k
    BY <1>1, ElementOfSeq DEF KeyframesInv
  <2>2. PICK mode \in {"model_disabled", "vision_skipped_limit", "vision_fallback", "model"} :
          kept'[k] = [kept[k] EXCEPT !.mode = mode]
    BY <1>1, <1>5
  <2> QED BY <2>1, <2>2 DEF Keyframe
<1>7. kept' \in [1 .. Len(kept) -> Keyframe]
  BY <1>1, <1>5, <1>6
<1>8. kept' \in Seq(Keyframe) /\ DOMAIN kept' = 1 .. Len(kept)
  BY <1>1, <1>7
<1> QED BY <1>2, <1>3, <1>6, <1>8 DEF KeyframesInv

LEMMA KeyframesStep ==
  ASSUME KeyframesInv, [KeyframesNext]_keyframesVars
  PROVE  KeyframesInv'
<1>1. CASE UNCHANGED keyframesVars
  <2>1. /\ frames' = frames /\ wanted' = wanted /\ stage' = stage /\ tried' = tried
        /\ candidate' = candidate /\ chosen' = chosen /\ kept' = kept
    BY <1>1 DEF keyframesVars
  <2>2. /\ CandidateIndices' = CandidateIndices /\ Candidate' = Candidate /\ Keyframe' = Keyframe
        /\ Selection' = Selection
    BY <2>1, SameCandidates, SameSelection
  <2> QED BY <2>1, <2>2 DEF KeyframesInv
<1> QED BY <1>1, DecodeStep, SelectStep, WriteStep, AnalyseStep DEF KeyframesNext

LEMMA ChosenFromInv ==
  ASSUME KeyframesInv
  PROVE  FramesAreChosen
<1>1. frames \in Nat /\ wanted \in Nat \ {0} /\ CandidatesOK
  BY InvNumbers
<1>2. stage = "decoding" => frames \in Nat \ {0}
  BY <1>1 DEF KeyframesInv
<1>3. kept \in Seq(Keyframe)
  BY DEF KeyframesInv
<1>4. SegmentsArePartition
  BY <1>3, SegmentsAre
<1>5. stage = "writing" => SelectionIsComplete
  BY <1>1, SelectionIsCompleteLemma DEF KeyframesInv
<1>6. stage = "decoding" => IndicesAreSpread
  BY <1>1, <1>2, SpreadIs
<1> QED BY <1>4, <1>5, <1>6 DEF FramesAreChosen, KeyframesInv

LEMMA KeyframesTypeFromInv ==
  ASSUME KeyframesInv
  PROVE  KeyframesTypeOK
<1>1. PICK l \in Nat, w \in Nat : l = Len(CandidateIndices) /\ w = wanted
  BY InvNumbers
<1>2. PICK h \in Nat : h = Higher(l, w)
  BY HigherIs
<1>3. tried \in 0 .. h
  BY <1>1, <1>2 DEF KeyframesInv
<1>4. candidate \in Seq(Candidate)
  BY DEF KeyframesInv
<1>5. \A k \in DOMAIN candidate : candidate[k] \in Candidate
  BY <1>4, LenProperties, ElementOfSeq
<1> QED BY <1>1, <1>2, <1>3, <1>5 DEF KeyframesTypeOK, KeyframesInv, Candidate

\* The types of the key frame selection: no more candidates are read than there are to try,
\* and no more frames written than were asked for, whatever fails.
THEOREM FramesTypeTheorem == KeyframesSpec => []KeyframesTypeOK
<1>1. KeyframesInit => KeyframesInv
  BY KeyframesInitInv
<1>2. KeyframesInv /\ [KeyframesNext]_keyframesVars => KeyframesInv'
  BY KeyframesStep
<1>3. KeyframesInv => KeyframesTypeOK
  BY KeyframesTypeFromInv
<1> QED BY <1>1, <1>2, <1>3, PTL DEF KeyframesSpec

\* For every length of a video, every number of frames asked for and segments, every content
\* of the frames and every frame that cannot be read or written: the candidates are spread
\* evenly from the first frame to the last, the choice among them is complete, as large as
\* it may be and without two alike, and the segments cut the keyframes, in order, into as
\* many parts as there may be.
THEOREM FramesTheorem == KeyframesSpec => []FramesAreChosen
<1>1. KeyframesInit => KeyframesInv
  BY KeyframesInitInv
<1>2. KeyframesInv /\ [KeyframesNext]_keyframesVars => KeyframesInv'
  BY KeyframesStep
<1>3. KeyframesInv => FramesAreChosen
  BY ChosenFromInv
<1> QED BY <1>1, <1>2, <1>3, PTL DEF KeyframesSpec

-----------------------------------------------------------------------------
(* The components side by side.                                            *)
(*                                                                         *)
(* No component writes a variable of another: what the product does to the *)
(* variables of each is a step of that component or none.  So every        *)
(* theorem about a component holds of the product.                         *)

\* Whichever component runs, each of the eight follows its own specification.
THEOREM ContentImplementsComponents ==
  ContentSpec => /\ DocumentsSpec /\ SweepSpec /\ EgressSpec /\ QualitySpec
                 /\ DraftingSpec /\ RetrievalSpec /\ ChainSpec /\ KeyframesSpec
<1>1. ContentInit => /\ DocumentsInit /\ SweepInit /\ EgressInit /\ QualityInit
                     /\ DraftingInit /\ RetrievalInit /\ ChainInit /\ KeyframesInit
  BY Zenon DEF ContentInit
<1>2. [ContentNext]_contentVars
        => /\ [DocumentsNext]_documentsVars /\ [SweepNext]_sweepVars
           /\ [EgressNext]_egressVars /\ [QualityNext]_qualityVars
           /\ [DraftingNext]_draftingVars /\ [RetrievalNext]_retrievalVars
           /\ [ChainNext]_chainVars /\ [KeyframesNext]_keyframesVars
  BY DEF ContentNext, contentVars
<1> QED
  BY <1>1, <1>2, PTL
     DEF ContentSpec, DocumentsSpec, SweepSpec, EgressSpec, QualitySpec, DraftingSpec,
         RetrievalSpec, ChainSpec, KeyframesSpec

\* Of the eight components that hold or judge content, each keeps the types of its variables.
THEOREM ContentTypeTheorem == ContentSpec => []ContentTypeOK
<1>1. RetrievalInv => RetrievalTypeOK
  BY DEF RetrievalInv
<1>2. ChainInv => ChainTypeOK
  BY ChainTypeFromInv
<1>3. /\ DocumentsTypeOK /\ SweepTypeOK /\ EgressTypeOK /\ QualityTypeOK
      /\ DraftingTypeOK /\ RetrievalTypeOK /\ ChainTypeOK /\ KeyframesTypeOK
      => ContentTypeOK
  BY Zenon DEF ContentTypeOK
<1> QED
  BY <1>1, <1>2, <1>3, ContentImplementsComponents, DocumentsTypeTheorem, SweepTypes,
     EgressTypeTheorem, QualityTypeTheorem, DraftingInvariant, RetrievalInvariant,
     ChainInvariant, FramesTypeTheorem, PTL

\* And each keeps what it promises: for every value of the constants, all that is checked of
\* the product.
THEOREM ContentSafety ==
  ContentSpec
    => /\ [](UploadedIsStored /\ ConnectsWhereChecked /\ ScoreIsCapped /\ ScoreIsMonotone)
       /\ [](SignalsStayBlockers /\ SearchIsComplete /\ VerifiedIsWritten /\ FramesAreChosen)
       /\ ReconcilesAllOrNothing /\ SweepSparesUsed
BY ContentImplementsComponents, UploadedTheorem, ConnectTheorem, CappedTheorem,
   MonotoneTheorem, SignalsTheorem, SearchTheorem, VerifiedTheorem, FramesTheorem,
   ReconcilesTheorem, SweepTheorem, PTL

=============================================================================
