------------------------------- MODULE Documents -------------------------------
(***************************************************************************)
(* The documents of one project: uploads (app/api/documents.py), which     *)
(* store a file and then register its owner in a transaction, and the      *)
(* command that registers the files without an owner's row                 *)
(* (app/storage/document_reconciliation.py).                               *)
(*                                                                         *)
(* A document is known by its name and its content: whoever uploads the    *)
(* same one in the project writes to the same path and the same row.       *)
(***************************************************************************)
CONSTANTS
  Documents,
  Uploads,    \* requests
  Users,
  Nobody,     \* of a document without an owner
  Foreign,    \* a file that names another project, or cannot be read
  NoFile,
  NoRow

ASSUME DocumentsAssumption ==
  /\ Documents # {}
  /\ Users \cap {Nobody, Foreign, NoFile, NoRow} = {}
  /\ Nobody \notin {Foreign, NoFile, NoRow} /\ Foreign # NoFile

VARIABLES
  file,     \* of each document: the owner its file names
  row,      \* resource_ownership: the owner of each document
  upload,   \* what each request is doing
  plan      \* the reconciliation that runs, with --apply

documentsVars == <<file, row, upload, plan>>

Stored == {d \in Documents : file[d] # NoFile}
Registered == {d \in Documents : row[d] # NoRow}

\* created: the request found no file (created_file).
Upload == [pc : {"new", "writing", "registering", "undoing", "done", "refused", "failed", "lost"},
           document : Documents, user : Users \cup {Nobody}, created : BOOLEAN]

\* seen: the documents with a file at its beginning; todo: those it has still to inspect;
\* adds: the rows it will insert.
Plan == [on : BOOLEAN, seen : SUBSET Documents, todo : SUBSET Documents,
         adds : SUBSET (Documents \X (Users \cup {Nobody})), issues : BOOLEAN]

NoPlan == [on |-> FALSE, seen |-> {}, todo |-> {}, adds |-> {}, issues |-> FALSE]

UploadTo(x, pc) == upload' = [upload EXCEPT ![x].pc = pc]

-----------------------------------------------------------------------------
(* upload_document, list_documents.                                        *)

\* No permission, a kind of file that is not allowed, too large, empty, or without text:
\* the spooled copy is removed.
Reject(x) ==
  /\ upload[x].pc = "new"
  /\ UploadTo(x, "refused")
  /\ UNCHANGED <<file, row, plan>>

\* Is the file there?
Look(x, d, u) ==
  /\ upload[x].pc = "new"
  /\ upload' = [upload EXCEPT ![x] =
       [pc       |-> IF d \in Stored THEN "registering" ELSE "writing",
        document |-> d, user |-> u, created |-> d \notin Stored]]
  /\ UNCHANGED <<file, row, plan>>

\* A temporary file takes the place of the document's.
StoreFile(x) ==
  /\ upload[x].pc = "writing"
  /\ file' = [file EXCEPT ![upload[x].document] = upload[x].user]
  /\ UploadTo(x, "registering")
  /\ UNCHANGED <<row, plan>>

\* It is not written, and removed: nothing was stored.
StoreFails(x) ==
  /\ upload[x].pc = "writing"
  /\ UploadTo(x, "refused")
  /\ UNCHANGED <<file, row, plan>>

\* register_resource_ownership: ON CONFLICT DO NOTHING.  A reconciliation holds the lock.
RegisterOwner(x) ==
  LET d == upload[x].document
  IN  /\ upload[x].pc = "registering" /\ ~ plan.on
      /\ row' = [row EXCEPT ![d] = IF d \in Registered THEN @ ELSE upload[x].user]
      /\ UploadTo(x, "done")
      /\ UNCHANGED <<file, plan>>

\* Fault: the file goes, whoever has created it.
RegisterFailsForAll(x) ==
  /\ upload[x].pc = "registering"
  /\ UploadTo(x, "undoing")
  /\ UNCHANGED <<file, row, plan>>

\* The database stays locked, or fails.
RegisterFails(x) ==
  /\ upload[x].pc = "registering"
  /\ UploadTo(x, IF upload[x].created THEN "undoing" ELSE "failed")
  /\ UNCHANGED <<file, row, plan>>

\* Who has created the file removes it.
Undo(x) ==
  /\ upload[x].pc = "undoing"
  /\ file' = [file EXCEPT ![upload[x].document] = NoFile]
  /\ UploadTo(x, "failed")
  /\ UNCHANGED <<row, plan>>

\* The process is killed, and leaves what it has stored.
LoseUpload(x) ==
  /\ upload[x].pc \in {"writing", "registering", "undoing"}
  /\ UploadTo(x, "lost")
  /\ UNCHANGED <<file, row, plan>>

\* list_documents, and the ids that a retrieval is given: whole files with an owner's row.
Listed == Stored \cap Registered

-----------------------------------------------------------------------------
(* reconcile_document_ownership with --apply; a dry run changes nothing.   *)

\* BEGIN IMMEDIATE; the rows and the paths are read.
BeginReconciliation ==
  /\ ~ plan.on
  /\ plan' = [on |-> TRUE, seen |-> Stored, todo |-> Stored, adds |-> {}, issues |-> FALSE]
  /\ UNCHANGED <<file, row, upload>>

\* A file must be there, be of this project, and name the owner of the row, if any.
InspectDocument(d) ==
  LET refused == file[d] \in {NoFile, Foreign} \/ (d \in Registered /\ row[d] # file[d])
  IN  /\ d \in plan.todo
      /\ plan' = [on |-> plan.on, seen |-> plan.seen, todo |-> plan.todo \ {d},
                  issues |-> plan.issues \/ refused,
                  adds |-> plan.adds \cup
                    (IF refused \/ d \in Registered THEN {} ELSE {<<d, file[d]>>})]
      /\ UNCHANGED <<file, row, upload>>

\* Fault: what is in order is registered, although there are issues.
CommitTheRest ==
  /\ plan.on /\ plan.todo = {}
  /\ row' = [d \in Documents |->
       IF \E u \in Users \cup {Nobody} : <<d, u>> \in plan.adds
       THEN CHOOSE u \in Users \cup {Nobody} : <<d, u>> \in plan.adds ELSE row[d]]
  /\ plan' = NoPlan
  /\ UNCHANGED <<file, upload>>

\* A row without a file is an issue too; any issue ends it with a rollback.
CommitReconciliation ==
  LET blocked == plan.issues \/ ~ Registered \subseteq plan.seen
  IN  /\ plan.on /\ plan.todo = {}
      /\ row' = [d \in Documents |->
           IF ~ blocked /\ \E u \in Users \cup {Nobody} : <<d, u>> \in plan.adds
           THEN CHOOSE u \in Users \cup {Nobody} : <<d, u>> \in plan.adds ELSE row[d]]
      /\ plan' = NoPlan
      /\ UNCHANGED <<file, upload>>

\* It fails or is killed: its transaction is rolled back.
LoseReconciliation ==
  /\ plan.on
  /\ plan' = NoPlan
  /\ UNCHANGED <<file, row, upload>>

\* Files may be older than the rows: of before there were any, or after a restore.
DocumentsInit ==
  /\ file \in [Documents -> Users \cup {Nobody, Foreign, NoFile}]
  /\ row = [d \in Documents |-> NoRow]
  /\ upload \in [Uploads -> [pc : {"new"}, document : {CHOOSE d \in Documents : TRUE},
                             user : {Nobody}, created : {FALSE}]]
  /\ plan = NoPlan

DocumentsNext ==
  \/ \E x \in Uploads :
       \/ Reject(x) \/ StoreFile(x) \/ StoreFails(x) \/ RegisterOwner(x) \/ RegisterFails(x)
       \/ Undo(x) \/ LoseUpload(x)
       \/ \E d \in Documents, u \in Users : Look(x, d, u)
  \/ BeginReconciliation \/ CommitReconciliation \/ LoseReconciliation
  \/ \E d \in Documents : InspectDocument(d)

DocumentsSpec == DocumentsInit /\ [][DocumentsNext]_documentsVars

-----------------------------------------------------------------------------
(* Properties.                                                             *)

DocumentsTypeOK ==
  /\ file \in [Documents -> Users \cup {Nobody, Foreign, NoFile}]
  /\ row \in [Documents -> Users \cup {Nobody, NoRow}]
  /\ upload \in [Uploads -> Upload]
  /\ plan \in Plan /\ plan.todo \subseteq plan.seen

\* A reconciliation registers all files it saw or none, leaves no row of a file it did not
\* see, and takes no document from its owner, whatever is uploaded, undone and killed while
\* it runs.
ReconcilesAllOrNothing ==
  [][plan.on /\ row' # row =>
       /\ {d \in Documents : row'[d] # NoRow} = plan.seen
       /\ \A d \in Registered : row'[d] = row[d]
    ]_documentsVars

\* What an upload has answered with success is stored and registered.  The one thing that
\* takes the file away again is the undo of another upload which found none: with several
\* processes, it may be that of a file which both have stored, or only one.
UploadedIsStored ==
  \A x \in Uploads : upload[x].pc = "done" =>
    \/ upload[x].document \in Listed
    \/ \E y \in Uploads : /\ upload[y].pc = "failed" /\ upload[y].created
                          /\ upload[y].document = upload[x].document
=============================================================================
