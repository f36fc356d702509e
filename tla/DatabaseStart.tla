---------------------------- MODULE DatabaseStart ----------------------------
(***************************************************************************)
(* The start of the database, once per process: a driver is chosen, the    *)
(* schema is brought to that of the installed release, with a backup       *)
(* before it, and the JSON files of an old installation are imported.  The *)
(* process may end between any two of its writes, and the user may install *)
(* another release or delete the database before the next one.             *)
(*                                                                         *)
(* With a native driver a commit is in the write-ahead log at once and in  *)
(* the main file some time later.  sql.js reads the main file only, drops  *)
(* the log, and writes the file a moment after the start is over.          *)
(***************************************************************************)
EXTENDS Naturals, Sequences, FiniteSets

CONSTANTS
  Latest,    \* bound: the newest release's SCHEMA_VERSION
  Keep,      \* KEEP_BACKUPS
  MaxBoots,  \* bound
  Legacies   \* what the JSON files may be: "none", "good", "short", "broken"

ASSUME StartAssumption ==
  /\ {Latest, Keep, MaxBoots} \subseteq Nat \ {0}
  /\ Legacies \subseteq {"none", "good", "short", "broken"}

VARIABLES
  release,  \* SCHEMA_VERSION and latestVersion() of the installed release
  main,     \* the main file of the database
  log,      \* the database with its write-ahead log
  db,       \* the database as this process sees it
  native,   \* whether this process found a native driver
  at,       \* how far runMigrationOnce is
  fresh,    \* its constant of that name
  backups,  \* contents of the directories, newest first
  legacy,   \* the JSON files
  marker,   \* whether MIGRATED_MARKER exists
  boots,    \* history: starts so far
  opened,   \* history: the database this start found
  seen,     \* history: what this start has met: "unsaved" backup, "tried" import
  upset,    \* history: the database before the upgrade that is not over
  cut,      \* history: starts of that upgrade that were cut short
  saved,    \* history: a backup of it was made
  aborted   \* history: an import into this database was aborted

startVars == <<release, main, log, db, native, at, fresh, backups, legacy, marker,
               boots, opened, seen, upset, cut, saved, aborted>>
historyVars == <<boots, opened, seen, upset, cut, saved, aborted>>

Version == 0..Latest
Database ==
  [meta : BOOLEAN,            \* _meta has rows
   version : Version,         \* schemaVersion
   stamp : Version,           \* backupSchemaVersion
   columns : Version,         \* the release whose tables and columns are there
   applied : [1..Latest -> Nat],  \* how often each migration was applied
   imports : Nat]             \* how often the JSON files were imported

None == [meta |-> FALSE, version |-> 0, stamp |-> 0, columns |-> 0,
         applied |-> [v \in 1..Latest |-> 0], imports |-> 0]

\* A database some release left, stamped by it or older than the stamps.
Left(v, s) == [None EXCEPT !.meta = TRUE, !.version = v, !.stamp = s, !.columns = v,
                           !.applied = [m \in 1..Latest |-> IF m <= v THEN 1 ELSE 0]]

StartTypeOK ==
  /\ release \in 1..Latest
  /\ {main, log, db, opened, upset} \subseteq Database
  /\ at \in {"off", "backup", "copy", "migrate", "stamp", "import", "importing", "mark", "ready", "failed"}
  /\ {native, fresh, marker, saved, aborted} \subseteq BOOLEAN
  /\ backups \in Seq([kind : {"partial", "database", "json"}, of : Database])
  /\ legacy \in Legacies
  /\ seen \subseteq {"unsaved", "tried"}
  /\ boots \in 0..MaxBoots /\ cut \in 0..MaxBoots

StartInit ==
  /\ release \in 1..Latest
  /\ main \in {None} \cup {Left(v, s) : v \in 0..release, s \in {0, release}}
  /\ main.stamp <= main.version
  /\ log = main /\ db = None /\ opened = None
  /\ native = FALSE /\ at = "off" /\ fresh = FALSE
  /\ backups = <<>> /\ legacy \in Legacies /\ marker = FALSE
  /\ boots = 0 /\ seen = {} /\ upset = None /\ cut = 0 /\ saved = FALSE /\ aborted = FALSE

-----------------------------------------------------------------------------
(* Disk and driver.                                                           *)
Commit(d) == db' = d /\ log' = (IF native THEN d ELSE log) /\ UNCHANGED main

\* initAdapter: the first driver that loads.  sql.js drops the log.
Drive(n) ==
  /\ native' = n
  /\ db' = IF n THEN log ELSE main
  /\ log' = db'
  /\ UNCHANGED main

Checkpoint ==
  /\ native /\ at # "off" /\ main # log
  /\ main' = log
  /\ UNCHANGED <<release, log, db, native, at, fresh, backups, legacy, marker, historyVars>>

\* The debounced save of sql.js: the start runs through without yielding.
SaveFile ==
  /\ ~native /\ at \in {"ready", "failed"} /\ db # main
  /\ main' = db /\ log' = db
  /\ UNCHANGED <<release, db, native, at, fresh, backups, legacy, marker, historyVars>>

-----------------------------------------------------------------------------
(* Backups.                                                                   *)
NewBackup(kind, d) == <<[kind |-> kind, of |-> d]>> \o backups

\* Mutant: one directory fewer is kept.
KeepFewer(dirs) == SubSeq(dirs, 1, IF Len(dirs) < Keep THEN Len(dirs) ELSE Keep - 1)

\* pruneOldBackups
Pruned(dirs) == SubSeq(dirs, 1, IF Len(dirs) < Keep THEN Len(dirs) ELSE Keep)

-----------------------------------------------------------------------------
(* runMigrationOnce, write by write.                                          *)
Reach(p) == at' = p

\* Mutant: the schema is compared by the version the migrations stamp.
NewerMigrations(d) == d.version < release

SchemaChanging(d) == d.stamp < release

NoUpgrade == upset' = None /\ cut' = 0 /\ saved' = FALSE

(* Up to the backup of the schema: nothing durable but the pruning.           *)
Open(n) ==
  /\ at = "off" /\ boots < MaxBoots /\ boots' = boots + 1
  /\ Drive(n)
  /\ opened' = db' /\ seen' = {}
  /\ fresh' = ~db'.meta
  /\ backups' = Pruned(backups)
  /\ IF fresh' THEN Reach("migrate") /\ NoUpgrade
     ELSE IF SchemaChanging(db')
     THEN /\ Reach("backup")
          /\ upset' = IF upset = None THEN db' ELSE upset
          /\ UNCHANGED <<cut, saved>>
     ELSE Reach("migrate") /\ UNCHANGED <<upset, cut, saved>>
  /\ UNCHANGED <<release, legacy, marker, aborted>>

\* No driver loads.
NoDriver ==
  /\ at = "off" /\ boots < MaxBoots /\ boots' = boots + 1
  /\ Reach("failed")
  /\ seen' = {} /\ opened' = None /\ native' = TRUE /\ fresh' = FALSE
  /\ UNCHANGED <<release, main, log, db, backups, legacy, marker, upset, cut, saved, aborted>>

(* makeBackupDir *)
MakeBackupDir ==
  /\ at = "backup"
  /\ backups' = NewBackup("partial", None)
  /\ Reach("copy")
  /\ UNCHANGED <<release, main, log, db, native, fresh, legacy, marker, historyVars>>

(* backupDbLite, then the pruning *)
BackupDbLite ==
  /\ at = "copy"
  /\ backups' = Pruned([backups EXCEPT ![1] = [kind |-> "database", of |-> db]])
  /\ Reach("migrate")
  /\ saved' = (saved \/ db = upset)
  /\ UNCHANGED <<release, main, log, db, native, fresh, legacy, marker,
                 boots, opened, seen, upset, cut, aborted>>

\* The start goes on without a backup.
BackupFails ==
  /\ at \in {"backup", "copy"}
  /\ seen' = seen \cup {"unsaved"}
  /\ Reach("migrate")
  /\ UNCHANGED <<release, main, log, db, native, fresh, backups, legacy, marker,
                 boots, opened, upset, cut, saved, aborted>>

\* The first migration creates the tables as they are declared now.
Applied(d) ==
  LET v == d.version + 1
  IN  [d EXCEPT !.applied[v] = @ + 1, !.columns = IF v = 1 /\ @ = 0 THEN release ELSE @]

Stamped(d) == [d EXCEPT !.version = @ + 1, !.meta = TRUE]

\* Mutant: the version is stamped after the transaction of the migration.
MigrateThenStamp ==
  /\ at = "migrate" /\ db.version < release
  /\ \/ Commit(Stamped(Applied(db))) /\ UNCHANGED at
     \/ Commit(Applied(db)) /\ Reach("failed")
  /\ UNCHANGED <<release, native, fresh, backups, legacy, marker, historyVars>>

(* runVersionedMigrations: one pending migration and its stamp, a transaction.*)
Migrate ==
  /\ at = "migrate" /\ db.version < release
  /\ Commit(Stamped(Applied(db)))
  /\ UNCHANGED at
  /\ UNCHANGED <<release, native, fresh, backups, legacy, marker, historyVars>>

\* It throws: the start is over, and the process keeps the rejected promise.
MigrationThrows ==
  /\ at = "migrate" /\ db.version < release
  /\ Reach("failed")
  /\ UNCHANGED <<release, main, log, db, native, fresh, backups, legacy, marker, historyVars>>

(* syncSchemaFromTables; a column it cannot add is left out.                  *)
SyncSchema ==
  /\ at = "migrate" /\ db.version >= release
  /\ \/ Commit(IF db.columns < release THEN [db EXCEPT !.columns = release] ELSE db)
     \/ UNCHANGED <<main, log, db>>
  /\ Reach("stamp")
  /\ UNCHANGED <<release, native, fresh, backups, legacy, marker, historyVars>>

StampBackupVersion ==
  /\ at = "stamp"
  /\ Commit([db EXCEPT !.stamp = release, !.meta = TRUE])
  /\ Reach("import")
  /\ UNCHANGED <<release, native, fresh, backups, legacy, marker, historyVars>>

-----------------------------------------------------------------------------
(* The import of the JSON files.                                              *)
\* Mutant: the marker alone decides.
DueByMarker == legacy # "none" /\ ~marker

ImportDue == fresh /\ legacy # "none" /\ ~marker

\* The start is over, and so is an upgrade.
Over == Reach("ready") /\ NoUpgrade

NothingToImport ==
  /\ at = "import" /\ ~ImportDue
  /\ Over
  /\ UNCHANGED <<release, main, log, db, native, fresh, backups, legacy, marker,
                 boots, opened, seen, aborted>>

\* The JSON files are copied away first; that may fail.
BackupJson ==
  /\ at = "import" /\ ImportDue
  /\ \/ backups' = NewBackup("json", None) /\ Reach("importing")
     \/ backups' = NewBackup("partial", None) /\ Reach("failed")
  /\ UNCHANGED <<release, main, log, db, native, fresh, legacy, marker, historyVars>>

(* One transaction; rows that do not fit abort it, other errors end the start.*)
Import ==
  /\ at = "importing"
  /\ seen' = seen \cup {"tried"}
  /\ \/ /\ legacy = "good"
        /\ Commit([db EXCEPT !.imports = @ + 1])
        /\ Reach("mark") /\ UNCHANGED <<upset, cut, saved, aborted>>
     \/ /\ legacy = "short"
        /\ Over /\ aborted' = TRUE /\ UNCHANGED <<main, log, db>>
     \/ /\ legacy = "broken"
        /\ Reach("failed") /\ UNCHANGED <<main, log, db, upset, cut, saved, aborted>>
  /\ UNCHANGED <<release, native, fresh, backups, legacy, marker, boots, opened>>

\* The marker is a file of its own; a failure to write it is ignored.
Mark ==
  /\ at = "mark"
  /\ marker' \in {TRUE, marker}
  /\ backups' = Pruned(backups)
  /\ Over
  /\ UNCHANGED <<release, main, log, db, native, fresh, legacy, boots, opened, seen, aborted>>

-----------------------------------------------------------------------------
(* The process ends, wherever it is.                                          *)
Stop ==
  /\ at # "off" /\ Reach("off")
  /\ db' = None /\ fresh' = FALSE /\ seen' = {} /\ opened' = None
  /\ cut' = IF upset # None THEN cut + 1 ELSE cut
  /\ UNCHANGED <<release, main, log, native, backups, legacy, marker, boots, upset, saved, aborted>>

(* Another release is installed, newer or older.                              *)
Install(r) ==
  /\ at = "off" /\ r # release /\ release' = r
  /\ UNCHANGED <<main, log, db, native, at, fresh, backups, legacy, marker, historyVars>>

(* The user deletes the database.                                             *)
Wipe ==
  /\ at = "off" /\ log # None
  /\ main' = None /\ log' = None
  /\ NoUpgrade /\ aborted' = FALSE
  /\ UNCHANGED <<release, db, native, at, fresh, backups, legacy, marker, boots, opened, seen>>

(* The user repairs the JSON files.                                           *)
MendLegacy ==
  /\ at = "off" /\ legacy \in {"short", "broken"} /\ legacy' = "good"
  /\ UNCHANGED <<release, main, log, db, native, at, fresh, backups, marker, historyVars>>

StartNext ==
  \/ \E n \in BOOLEAN : Open(n)
  \/ NoDriver \/ MakeBackupDir \/ BackupDbLite \/ BackupFails
  \/ Migrate \/ MigrationThrows \/ SyncSchema \/ StampBackupVersion
  \/ NothingToImport \/ BackupJson \/ Import \/ Mark
  \/ Checkpoint \/ SaveFile \/ Stop
  \/ \E r \in 1..Latest : Install(r)
  \/ Wipe \/ MendLegacy

StartSpec == StartInit /\ [][StartNext]_startVars

-----------------------------------------------------------------------------
(* Whatever start was cut short where, each migration up to the version a     *)
(* database is stamped with has been applied to it once, and no other.        *)
EachMigrationOnce ==
  \A d \in {main, log, db} : \A m \in 1..Latest : d.applied[m] = IF m <= d.version THEN 1 ELSE 0

Backed(d) == \E j \in DOMAIN backups : backups[j] = [kind |-> "database", of |-> d]

Changed == \/ db.version # opened.version
           \/ opened.stamp < release /\ db.columns # opened.columns

(* A start changes no schema of a database in use unless it has a backup of   *)
(* it as it found it, or the backup failed; and the backup of the database as *)
(* it was before an upgrade stays while fewer starts of the upgrade were cut  *)
(* short than backups are kept.                                               *)
UpgradesAreBackedUp ==
  /\ at # "off" /\ opened.meta /\ Changed /\ "unsaved" \notin seen => Backed(opened)
  /\ saved /\ cut < Keep => Backed(upset)

(* The JSON files are imported at most once into a database, and a start that *)
(* found it new, the files in order and no marker has imported them.          *)
LegacyArrivesOnce ==
  /\ \A d \in {main, log, db} : d.imports <= 1
  /\ at = "ready" /\ fresh /\ legacy = "good" /\ ~marker => db.imports = 1

(* A start that is over leaves the schema the installed release expects.      *)
SchemaIsReached == at = "ready" => db.version >= release /\ db.stamp = release

StartIsSafe == EachMigrationOnce /\ UpgradesAreBackedUp /\ LegacyArrivesOnce /\ SchemaIsReached

(* An import that was aborted is tried again by the next start.               *)
AbortedImportIsRetried == at = "ready" /\ aborted /\ ~marker => "tried" \in seen
===============================================================================
