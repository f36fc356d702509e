------------------------------ MODULE ServerStore ------------------------------
(***************************************************************************)
(* The database as the write-behind queues of the server see it, and the   *)
(* end of the server process.  With a native driver a committed            *)
(* transaction is durable.  sql.js keeps the database in memory and writes *)
(* the whole file a moment after a change; the file is replaced by a       *)
(* rename, so what is on disk is always one whole earlier state.           *)
(*                                                                         *)
(* getAdapter is taken to have succeeded once.                             *)
(***************************************************************************)
EXTENDS Naturals, FiniteSets, Sequences

CONSTANT MaxRestarts  \* bound: how often the process ends

VARIABLES
  native,     \* whether a native driver was found
  mem,        \* the tables, by the queue that writes them
  disk,       \* what a restart will find
  dirty,      \* sql.js: changes not yet in the file
  saveTimer,  \* sql.js: the debounced save is due
  saveFailed, \* history: the last save failed
  stage,      \* of the process: running, draining, exiting
  restarts    \* history: ends of the process so far

storeVars == <<native, mem, disk, dirty, saveTimer, saveFailed, stage, restarts>>

StoreInit(empty) ==
  /\ native \in BOOLEAN
  /\ mem = empty /\ disk = empty
  /\ dirty = FALSE /\ saveTimer = FALSE /\ saveFailed = FALSE
  /\ stage = "running" /\ restarts = 0

StoreTypeOK ==
  /\ {native, dirty, saveTimer, saveFailed} \subseteq BOOLEAN
  /\ stage \in {"running", "draining", "exiting"}
  /\ restarts \in 0..MaxRestarts

(* A transaction; scheduleSave puts the save off once more. *)
Commit(q, rows) ==
  /\ mem' = [mem EXCEPT ![q] = rows]
  /\ IF native THEN disk' = mem' /\ UNCHANGED <<dirty, saveTimer>>
               ELSE dirty' = TRUE /\ saveTimer' = TRUE /\ UNCHANGED disk
  /\ UNCHANGED <<native, saveFailed, stage, restarts>>

(* A transaction is rolled back; with sql.js a write made in it may already   *)
(* have scheduled a save.                                                     *)
Rollback ==
  \/ UNCHANGED storeVars
  \/ /\ ~native
     /\ dirty' = TRUE /\ saveTimer' = TRUE
     /\ UNCHANGED <<native, mem, disk, saveFailed, stage, restarts>>

\* Mutant: the changes count as saved before the file is written.
CleanAnyway ==
  /\ saveTimer
  /\ saveTimer' = FALSE /\ dirty' = FALSE
  /\ UNCHANGED <<native, mem, disk, saveFailed, stage, restarts>>

(* persist, from the debounce timer. *)
Save ==
  /\ saveTimer
  /\ saveTimer' = FALSE /\ dirty' = FALSE /\ disk' = mem /\ saveFailed' = FALSE
  /\ UNCHANGED <<native, mem, stage, restarts>>

(* The error is logged; dirty stays, but nothing is scheduled. *)
SaveFails ==
  /\ saveTimer
  /\ saveTimer' = FALSE /\ saveFailed' = TRUE
  /\ UNCHANGED <<native, mem, disk, dirty, stage, restarts>>

(* The process is gone, what is left is the file; the next one starts. *)
Lose(file) ==
  /\ restarts < MaxRestarts /\ restarts' = restarts + 1
  /\ disk' = file /\ mem' = file
  /\ dirty' = FALSE /\ saveTimer' = FALSE /\ saveFailed' = FALSE
  /\ stage' = "running"
  /\ UNCHANGED native

(* Every change that is not in the file is due to be saved, unless the last   *)
(* save failed: then it waits for the next change.                            *)
UnsavedIsScheduled == mem # disk => saveTimer \/ saveFailed
===============================================================================
