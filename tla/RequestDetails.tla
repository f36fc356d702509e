---------------------------- MODULE RequestDetails ----------------------------
(***************************************************************************)
(* The request log behind the dashboard: rows are buffered and written in  *)
(* batches, by a timer or as soon as a batch is full.  A stream saves its  *)
(* row twice under one id: a placeholder (version 1) when it starts, the   *)
(* final one (version 2) when it ends.  A failed batch goes back to the    *)
(* front of the buffer.                                                    *)
(***************************************************************************)
EXTENDS ServerStore

CONSTANTS
  Detail,   \* ids
  Batch,    \* batchSize
  MaxRows   \* maxRecords

ASSUME DetailAssumption ==
  IsFiniteSet(Detail) /\ Batch \in Nat \ {0} /\ MaxRows \in Nat \ {0}

VARIABLES
  issued,      \* history: version last saved, by id
  gone,        \* history: ids of requests a restart has ended
  writeBuffer,
  batch,       \* what the flush in progress has taken
  isFlushing,
  flushTimer,
  detailFailed,  \* history: the last batch failed
  detailDrain    \* whose flush the shutdown route waits for: no, own, other

detailVars == <<issued, gone, writeBuffer, batch, isFlushing, flushTimer, detailFailed, detailDrain>>

\* A row's timestamp is the rank of the save call.
Row == [ver : 0..2, at : 0..2 * Cardinality(Detail)]
NoRow == [ver |-> 0, at |-> 0]
Record == [id : Detail, row : Row]
NoDetails == [i \in Detail |-> NoRow]

DetailTypeOK ==
  /\ issued \in [Detail -> Row]
  /\ gone \subseteq Detail
  /\ writeBuffer \in Seq(Record) /\ batch \in Seq(Record)
  /\ {isFlushing, flushTimer, detailFailed} \subseteq BOOLEAN
  /\ detailDrain \in {"no", "own", "other"}
  /\ mem.details \in [Detail -> Row]

DetailInit ==
  /\ issued = NoDetails /\ gone = {}
  /\ writeBuffer = <<>> /\ batch = <<>>
  /\ isFlushing = FALSE /\ flushTimer = FALSE
  /\ detailFailed = FALSE /\ detailDrain = "no"

\* The number of saves so far is the present time.
Saves == LET at == {issued[i].at : i \in Detail}
         IN CHOOSE n \in at : \A m \in at : m <= n

\* flushToDatabase up to its first await: a second flush returns at once.
TakeBatch(buffer) ==
  IF isFlushing \/ buffer = <<>>
  THEN writeBuffer' = buffer /\ UNCHANGED <<batch, isFlushing>>
  ELSE writeBuffer' = <<>> /\ batch' = buffer /\ isFlushing' = TRUE

(* saveRequestDetail, observability being enabled. *)
SaveDetail(i) ==
  LET row == [ver |-> issued[i].ver + 1, at |-> Saves + 1]
      buffer == Append(writeBuffer, [id |-> i, row |-> row])
  IN /\ i \notin gone /\ issued[i].ver < 2
     /\ issued' = [issued EXCEPT ![i] = row]
     /\ IF Len(buffer) >= Batch
          THEN flushTimer' = FALSE /\ TakeBatch(buffer)
          ELSE flushTimer' = TRUE /\ writeBuffer' = buffer /\ UNCHANGED <<batch, isFlushing>>
     /\ UNCHANGED <<storeVars, gone, detailFailed, detailDrain>>

FlushTimer ==
  /\ flushTimer
  /\ flushTimer' = FALSE
  /\ TakeBatch(writeBuffer)
  /\ UNCHANGED <<storeVars, issued, gone, detailFailed, detailDrain>>

\* The upserts, in order.
Upserted(table) ==
  [i \in Detail |->
     LET mine == {k \in DOMAIN batch : batch[k].id = i}
     IN IF mine = {} THEN table[i]
        ELSE batch[CHOOSE k \in mine : \A l \in mine : l <= k].row]

\* The oldest rows beyond maxRecords are deleted.
Trimmed(table) ==
  LET newer(i) == {j \in Detail : table[j].ver > 0 /\ table[j].at > table[i].at}
  IN [i \in Detail |-> IF Cardinality(newer(i)) >= MaxRows THEN NoRow ELSE table[i]]

(* The transaction succeeds, and the loop goes on with what came meanwhile. *)
CommitBatch ==
  /\ isFlushing
  /\ Commit("details", Trimmed(Upserted(mem.details)))
  /\ batch' = writeBuffer /\ writeBuffer' = <<>>
  /\ isFlushing' = (writeBuffer # <<>>)
  /\ detailFailed' = FALSE
  /\ UNCHANGED <<issued, gone, flushTimer, detailDrain>>

\* Mutants: the failed batch is tried again after what came meanwhile; it is
\* dropped; no timer is set for it.
RetryAfterTheRest ==
  /\ isFlushing
  /\ writeBuffer' = batch /\ batch' = writeBuffer
  /\ isFlushing' = (writeBuffer # <<>>) /\ flushTimer' = TRUE /\ detailFailed' = TRUE
  /\ UNCHANGED <<storeVars, issued, gone, detailDrain>>

DropBatch ==
  /\ isFlushing
  /\ batch' = <<>> /\ isFlushing' = FALSE /\ flushTimer' = TRUE /\ detailFailed' = TRUE
  /\ UNCHANGED <<storeVars, issued, gone, writeBuffer, detailDrain>>

RequeueSilently ==
  /\ isFlushing
  /\ writeBuffer' = batch \o writeBuffer /\ batch' = <<>>
  /\ isFlushing' = FALSE /\ detailFailed' = TRUE
  /\ UNCHANGED <<storeVars, issued, gone, flushTimer, detailDrain>>

(* The transaction fails: requeued in front, a timer set to try again. *)
BatchFails ==
  /\ isFlushing
  /\ writeBuffer' = batch \o writeBuffer /\ batch' = <<>>
  /\ isFlushing' = FALSE /\ flushTimer' = TRUE /\ detailFailed' = TRUE
  /\ Rollback
  /\ UNCHANGED <<issued, gone, detailDrain>>

DetailNext ==
  \/ \E i \in Detail : SaveDetail(i)
  \/ FlushTimer \/ CommitBatch \/ BatchFails

\* The shutdown route calls flushToDatabase.
DetailDrains ==
  /\ detailDrain' = IF isFlushing THEN "other" ELSE "own"
  /\ TakeBatch(writeBuffer)
  /\ UNCHANGED <<issued, gone, flushTimer, detailFailed>>

DetailDrained == detailDrain = "own" => ~isFlushing

\* With the process go the buffer and the requests that are still streaming.
DetailsLost ==
  /\ gone' = {i \in Detail : issued[i].ver > 0}
  /\ writeBuffer' = <<>> /\ batch' = <<>>
  /\ isFlushing' = FALSE /\ flushTimer' = FALSE
  /\ detailFailed' = FALSE /\ detailDrain' = "no"
  /\ UNCHANGED issued

-----------------------------------------------------------------------------
Waiting == {writeBuffer[k] : k \in DOMAIN writeBuffer} \cup {batch[k] : k \in DOMAIN batch}

(* What is buffered will be written: a flush is running or a timer is set,    *)
(* after failures and with saves in between, too.                             *)
NothingStranded == writeBuffer # <<>> => flushTimer \/ isFlushing

(* The latest row of a request is in the table or on its way to it, unless    *)
(* MaxRows requests have newer rows or a restart took it.                     *)
NoDetailLost ==
  \A i \in Detail \ gone : issued[i].ver > 0 =>
    \/ mem.details[i] = issued[i]
    \/ [id |-> i, row |-> issued[i]] \in Waiting
    \/ Cardinality({j \in Detail : issued[j].at > issued[i].at}) >= MaxRows

(* A final row is never overwritten by its placeholder, whatever failed in    *)
(* between; only a restart on sql.js goes back to an earlier file.            *)
FinalRowStays ==
  [][\A i \in Detail :
       mem.details[i].ver = 2 /\ mem'.details[i].ver = 1 => restarts' # restarts]_<<storeVars, detailVars>>
===============================================================================
