-------------------------------- MODULE Database --------------------------------
(***************************************************************************)
(* The database file of the application, app/storage/database.py: the      *)
(* migrations that every process runs when it opens the file, and the      *)
(* commands of scripts/manage_database.py that copy and replace it.        *)
(*                                                                         *)
(* A transaction of SQLite is one step.  Commits go to the write-ahead log *)
(* beside the file; the log belongs to the file it was begun for.          *)
(***************************************************************************)
EXTENDS Integers, Sequences, FiniteSets

CONSTANTS
  Processes,   \* of the application
  Build,       \* CURRENT_SCHEMA_VERSION of the build each process runs
  Current,     \* the one of the build the commands run
  Oldest,      \* the schema the file has first
  Paths,       \* where backups are kept
  NoPath,
  MaxWrites    \* bound: the writes of the application

ASSUME BuildsAssumption ==
  /\ Current \in Nat \ {0} /\ Oldest \in 0 .. Current
  /\ Build \in [Processes -> 1 .. Current]
  /\ NoPath \notin Paths /\ MaxWrites \in Nat

VARIABLES
  main,     \* what the database file holds, and its write-ahead log makes of it
  log,      \* the log beside the file: none, live, or stale, which is of another file
  backup,   \* the file at each path
  proc,     \* the processes
  tool,     \* the maintenance command that runs
  written,  \* how many writes there were
  past      \* history, which guards nothing: of the restores that have replaced the file

databaseVars == <<main, log, backup, proc, tool, written, past>>

\* What a database holds: the migrations it has gone through, in order, and the last
\* write.  A damaged one, or one read with the log of another file, is not whole.
Contents == [ran : Seq(1 .. Current), write : 0 .. MaxWrites, whole : BOOLEAN]
None == [ran |-> <<>>, write |-> 0, whole |-> FALSE]
Damaged == None

\* What a connection reads.
Seen == IF log = "stale" THEN Damaged ELSE main

\* A connection commits and closes.  The last one takes the log into the file.
Commit(content, last) == main' = content /\ log' = IF last THEN "none" ELSE "live"

Recorded == {Seen.ran[k] : k \in 1 .. Len(Seen.ran)}

\* current_schema_version
Version(content) == IF content.ran = <<>> THEN 0 ELSE CHOOSE v \in 0 .. Current :
  /\ \E k \in 1 .. Len(content.ran) : content.ran[k] = v
  /\ \A k \in 1 .. Len(content.ran) : content.ran[k] <= v

-----------------------------------------------------------------------------
(* The processes of the application.  One that migrates keeps its          *)
(* connection; a request has one of its own.                               *)

Off == [pc |-> "off", next |-> 0, cached |-> 0]
Connected == [pc |-> "migrating", next |-> 1, cached |-> 0]
Adrift == [pc |-> "adrift", next |-> 0, cached |-> 0]
Serving(version) == [pc |-> "ready", next |-> 0, cached |-> version]

Migrating(p) == proc[p].pc \in {"migrating", "locking"}

\* The connection of p may be the last one.
Alone(p) == \A q \in Processes \ {p} : ~Migrating(q)

\* It closes, and has changed nothing since the last commit.
CloseUnchanged(p) == main' = main /\ log' \in {log} \cup IF Alone(p) THEN {"none"} ELSE {}

\* Somebody who may be in a request, or in the middle of one when the file is replaced.
SomebodyRuns == \E p \in Processes : proc[p].pc # "off"

\* Whoever migrates goes on with a file, or a log, that is gone.
CutOff == proc' = [p \in Processes |-> IF Migrating(p) THEN Adrift ELSE proc[p]]

\* History: somebody commits while a restore runs.
Used == tool' = [tool EXCEPT !.used = @ \/ tool.pc \in {"saving", "saved", "verified"}]

\* connect_database and apply_migrations up to the loop, at any time: a schema of a newer
\* build is refused.  With a damaged file, or beside a stale log, this is Stumble.
Open(p) ==
  /\ proc[p].pc = "off" /\ Seen.whole
  /\ IF Version(Seen) > Build[p]
     THEN CloseUnchanged(p) /\ UNCHANGED proc
     ELSE UNCHANGED <<main, log>> /\ proc' = [proc EXCEPT ![p] = Connected]
  /\ UNCHANGED <<backup, tool, written, past>>

\* Is the next migration recorded?
Check(p) ==
  LET next == proc[p].next
  IN  /\ proc[p].pc = "migrating" /\ next <= Build[p]
      /\ proc' = [proc EXCEPT ![p] =
           IF next \in Recorded THEN [@ EXCEPT !.next = next + 1] ELSE [@ EXCEPT !.pc = "locking"]]
      /\ UNCHANGED <<main, log, backup, tool, written, past>>

\* After the last one the version is remembered: this process does not look again.
Ready(p) ==
  /\ proc[p].pc = "migrating" /\ proc[p].next > Build[p]
  /\ proc' = [proc EXCEPT ![p] = Serving(Version(Seen))]
  /\ CloseUnchanged(p)
  /\ UNCHANGED <<backup, tool, written, past>>

\* Fault: whether it is recorded is not asked again under the lock.
MigrateAnyway(p) ==
  LET next == proc[p].next
  IN  /\ proc[p].pc = "locking"
      /\ Commit([Seen EXCEPT !.ran = Append(@, next)], FALSE) /\ Used
      /\ proc' = [proc EXCEPT ![p].pc = "migrating", ![p].next = next + 1]
      /\ UNCHANGED <<backup, written, past>>

\* The transaction of a migration: BEGIN IMMEDIATE, the question again, the migration and
\* its row.
Migrate(p) ==
  LET next == proc[p].next
  IN  /\ proc[p].pc = "locking"
      /\ IF next \in Recorded THEN UNCHANGED <<main, log, tool>>
         ELSE Commit([Seen EXCEPT !.ran = Append(@, next)], FALSE) /\ Used
      /\ proc' = [proc EXCEPT ![p].pc = "migrating", ![p].next = next + 1]
      /\ UNCHANGED <<backup, written, past>>

\* The lock is not free in time, or the migration refuses the rows it finds.
MigrationFails(p) ==
  /\ proc[p].pc = "locking"
  /\ proc' = [proc EXCEPT ![p] = Off]
  /\ CloseUnchanged(p)
  /\ UNCHANGED <<backup, tool, written, past>>

\* A request that changes something.
Write(p, last) ==
  /\ proc[p].pc = "ready" /\ Seen.whole /\ written < MaxWrites /\ (last => Alone(p))
  /\ written' = written + 1
  /\ Commit([Seen EXCEPT !.write = written'], last) /\ Used
  /\ UNCHANGED <<backup, proc, past>>

\* A request that changes nothing.
Read(p) ==
  /\ proc[p].pc = "ready" /\ Seen.whole
  /\ CloseUnchanged(p)
  /\ UNCHANGED <<backup, proc, tool, written, past>>

\* Whoever connects to a damaged file, or to one beside a stale log, may notice it or not.
\* The stale log may be taken into the file when the connection closes.
Stumble(p, taken) ==
  /\ ~Seen.whole /\ proc[p].pc \in {"off", "ready"}
  /\ proc' = [proc EXCEPT ![p] = IF @.pc = "ready" THEN @ ELSE Adrift]
  /\ IF taken THEN main' = Damaged /\ log' = "none" ELSE UNCHANGED <<main, log>>
  /\ UNCHANGED <<backup, tool, written, past>>

\* What a process has migrated is not the file that is there: it was replaced meanwhile, or
\* is damaged.  It serves with what it read, or stops.
Settle(p) ==
  /\ proc[p].pc = "adrift"
  /\ \E version \in Build[p] .. Current : proc' = [proc EXCEPT ![p] = Serving(version)]
  /\ UNCHANGED <<main, log, backup, tool, written, past>>

\* The process ends, fails or is killed, in its transaction too.
Stop(p) ==
  /\ proc[p].pc # "off"
  /\ proc' = [proc EXCEPT ![p] = Off]
  /\ UNCHANGED <<main, log, backup, tool, written, past>>

-----------------------------------------------------------------------------
(* The commands.  The code does not look who has the database open.        *)

\* target is the path of the backup that is made; old is what the restore replaces, and
\* used tells whether somebody has committed since.
NoTool == [pc |-> "none", source |-> NoPath, target |-> NoPath, copy |-> None, old |-> None,
           used |-> FALSE]

\* Where and what the last restore has saved of the file it replaced, until it has removed
\* the log in order; whether somebody was in its way.  Sticky: whether a restore has saved
\* over its own source.
NoPast == [path |-> NoPath, held |-> None, exposed |-> FALSE, onItself |-> FALSE]

\* A backup of another database, which has gone through every migration, is brought here
\* before there is one of this.
Bring(path) ==
  /\ \A other \in Paths : backup[other] = None
  /\ tool.pc = "none"
  /\ backup' = [backup EXCEPT ![path] =
       [ran |-> [k \in 1 .. Current |-> k], write |-> 0, whole |-> TRUE]]
  /\ UNCHANGED <<main, log, proc, tool, written, past>>

\* backup_database: a consistent copy, beside its destination, which is verified.
StartBackup(target) ==
  /\ tool.pc = "none" /\ Seen.whole
  /\ tool' = [pc |-> "copied", source |-> NoPath, target |-> target, copy |-> Seen, old |-> None,
              used |-> FALSE]
  /\ UNCHANGED <<main, log, backup, proc, written, past>>

\* The copy takes the place of the destination.
PublishBackup ==
  /\ tool.pc = "copied"
  /\ backup' = [backup EXCEPT ![tool.target] = tool.copy]
  /\ tool' = NoTool
  /\ UNCHANGED <<main, log, proc, written, past>>

\* Fault: the safety backup is left out.
StartWithoutSafety(source, target) ==
  /\ tool.pc = "none" /\ backup[source].whole /\ Version(backup[source]) = Current
  /\ tool' = [pc |-> "saved", source |-> source, target |-> target, copy |-> None, old |-> Seen,
              used |-> FALSE]
  /\ UNCHANGED <<main, log, backup, proc, written, past>>

\* restore_database, up to its safety backup: the source is verified, and has the schema
\* of this build; a consistent copy of the database is made and verified.  The safety
\* backup may go to any path, that of the source too.
StartRestore(source, target) ==
  /\ tool.pc = "none" /\ backup[source].whole /\ Version(backup[source]) = Current
  /\ Seen.whole
  /\ tool' = [pc |-> "saving", source |-> source, target |-> target, copy |-> Seen, old |-> Seen,
              used |-> FALSE]
  /\ UNCHANGED <<main, log, backup, proc, written, past>>

Save ==
  /\ tool.pc = "saving"
  /\ backup' = [backup EXCEPT ![tool.target] = tool.copy]
  /\ tool' = [tool EXCEPT !.pc = "saved"]
  /\ UNCHANGED <<main, log, proc, written, past>>

\* The source is copied beside the file, in whole or not, and the copy is verified.
Copy ==
  /\ tool.pc = "saved"
  /\ \E copy \in {backup[tool.source], Damaged} :
       copy.whole /\ tool' = [tool EXCEPT !.pc = "verified", !.copy = copy]
  /\ UNCHANGED <<main, log, backup, proc, written, past>>

\* The copy takes the place of the file.  The log stays, and is of another file now.  Whoever
\* migrates goes on with the file that is gone; such a connection, or that of a request,
\* still has the log open, and what it commits is in there.
Replace ==
  /\ tool.pc = "verified"
  /\ main' = tool.copy
  /\ \E stray \in BOOLEAN :
       /\ stray => SomebodyRuns
       /\ log' = IF stray \/ log # "none" THEN "stale" ELSE "none"
       /\ past' = [path |-> tool.target, held |-> tool.old, exposed |-> stray \/ log # "none",
                   onItself |-> past.onItself \/ tool.source = tool.target]
  /\ CutOff
  /\ tool' = [pc |-> "replaced", source |-> NoPath, target |-> NoPath, copy |-> tool.copy,
              old |-> None, used |-> FALSE]
  /\ UNCHANGED <<backup, written>>

\* The log is removed, also one that was begun for the new file since: what was committed to
\* it is lost.  Who has it open goes on with a log that is gone while others begin another
\* one, which can spoil the file.
RemoveLog ==
  /\ tool.pc = "replaced"
  /\ main' \in {main} \cup IF SomebodyRuns \/ log = "live" THEN {tool.copy, Damaged} ELSE {}
  /\ past' = IF main'.whole THEN [NoPast EXCEPT !.onItself = past.onItself]
              ELSE [past EXCEPT !.exposed = TRUE]
  /\ log' = "none"
  /\ CutOff
  /\ tool' = NoTool
  /\ UNCHANGED <<backup, written>>

\* The command fails or is killed, between two steps too: what it copied goes, or is left
\* where nobody looks.
ToolEnds ==
  /\ tool.pc # "none"
  /\ tool' = NoTool
  /\ UNCHANGED <<main, log, backup, proc, written, past>>

DatabaseInit ==
  /\ main = [ran |-> [k \in 1 .. Oldest |-> k], write |-> 0, whole |-> TRUE]
  /\ log = "none"
  /\ backup = [path \in Paths |-> None]
  /\ proc = [p \in Processes |-> Off]
  /\ tool = NoTool
  /\ written = 0
  /\ past = NoPast

DatabaseNext ==
  \/ \E p \in Processes :
       \/ Open(p) \/ Check(p) \/ Ready(p) \/ Migrate(p) \/ MigrationFails(p) \/ Read(p)
       \/ Settle(p) \/ Stop(p)
       \/ \E last \in BOOLEAN : Write(p, last)
       \/ \E taken \in BOOLEAN : Stumble(p, taken)
  \/ \E path \in Paths :
       \/ Bring(path) \/ StartBackup(path)
       \/ \E source \in Paths : StartRestore(source, path)
  \/ PublishBackup \/ Save \/ Copy \/ Replace \/ RemoveLog \/ ToolEnds

DatabaseSpec == DatabaseInit /\ [][DatabaseNext]_databaseVars

-----------------------------------------------------------------------------
(* Properties.                                                             *)

DatabaseTypeOK ==
  /\ main \in Contents /\ backup \in [Paths -> Contents]
  /\ log \in {"none", "live", "stale"}
  /\ proc \in [Processes -> [pc : {"off", "migrating", "locking", "ready", "adrift"},
                             next : 0 .. Current + 1, cached : 0 .. Current]]
  /\ tool.pc \in {"none", "copied", "saving", "saved", "verified", "replaced"}
  /\ written \in 0 .. MaxWrites

\* However many processes of whatever builds start at once, run, stop or are killed, and
\* whatever is backed up and restored under them: a migration runs once and in its order,
\* and who serves requests remembers at least the schema its build was made for and finds
\* at least the one it remembers.  The exception is a restore whose safety backup was
\* written over its own source, which is not verified for its schema again: it can put an
\* older one back.  (The schema may be a later one: only a process that starts then is
\* refused.)
MigrationsRunOnceInOrder ==
  /\ \A content \in {Seen} \cup {backup[path] : path \in Paths} :
       \A k \in 1 .. Len(content.ran) : content.ran[k] = k
  /\ \A p \in Processes : proc[p].pc = "ready" =>
       /\ proc[p].cached >= Build[p]
       /\ Seen.whole /\ ~past.onItself => Version(Seen) >= proc[p].cached

\* What a restore replaces can be had back, whoever uses the database meanwhile and
\* wherever the command is killed.  Until the file is replaced the database is what it was
\* when the restore began, but for what others commit; the safety backup holds that
\* content.  A database that is not whole was replaced by a restore with a log beside it
\* or with the application running; and then, also when the restore was killed before it
\* removed the log and the log has spoiled the new file since, what the restore replaced
\* is whole at the path of its safety backup.
RestoreCanBeUndone ==
  /\ tool.pc \in {"saving", "saved", "verified"} => tool.used \/ Seen = tool.old
  /\ tool.pc \in {"saved", "verified"} => backup[tool.target] = tool.old
  /\ ~Seen.whole => past.exposed /\ past.held.whole /\ backup[past.path] = past.held
=============================================================================
