------------------------------ MODULE UsageQueue ------------------------------
(***************************************************************************)
(* The usage write-behind queue: saveRequestUsage appends an entry and      *)
(* sees to it that a flush is coming; the promise it returns asks for an    *)
(* immediate one when somebody waits for it.  A flush persists its entries  *)
(* one by one, and an entry that fails is dropped.                          *)
(*                                                                         *)
(* An entry carries the timestamp its caller made; two entries with the    *)
(* same timestamp, account, model and token counts are one usage event.    *)
(***************************************************************************)
EXTENDS ServerStore

CONSTANTS
  Call,  \* calls of saveRequestUsage
  Event  \* Event[c]: the usage event c reports

ASSUME UsageAssumption == DOMAIN Event = Call

VARIABLES
  queue,       \* entries not yet taken by a flush
  usageTimer,
  kick,        \* a setImmediate flush is due
  flushing,
  items,       \* what the flush in progress still has to persist
  settled,     \* calls whose promise is resolved
  waited,      \* calls whose promise somebody waits for
  dropped,     \* history: calls whose entry failed
  usageDrain   \* calls the shutdown route waits for

usageVars == <<queue, usageTimer, kick, flushing, items, settled, waited, dropped, usageDrain>>

In(seq) == {seq[k] : k \in DOMAIN seq}
Saved == In(queue) \cup In(items) \cup settled

UsageTypeOK ==
  /\ queue \in Seq(Call) /\ items \in Seq(Call)
  /\ {usageTimer, kick, flushing} \subseteq BOOLEAN
  /\ {settled, waited, dropped, usageDrain} \subseteq SUBSET Call
  /\ mem.usage \subseteq {Event[c] : c \in Call}

UsageInit ==
  /\ queue = <<>> /\ items = <<>>
  /\ usageTimer = FALSE /\ kick = FALSE /\ flushing = FALSE
  /\ settled = {} /\ waited = {} /\ dropped = {} /\ usageDrain = {}

\* Mutant: the flush is scheduled only when somebody waits.
SaveUsageUnarmed(c) ==
  /\ c \notin Saved
  /\ queue' = Append(queue, c)
  /\ UNCHANGED <<storeVars, usageTimer, kick, flushing, items, settled, waited, dropped, usageDrain>>

(* saveRequestUsage *)
SaveUsage(c) ==
  /\ c \notin Saved
  /\ queue' = Append(queue, c)
  /\ usageTimer' = TRUE
  /\ UNCHANGED <<storeVars, kick, flushing, items, settled, waited, dropped, usageDrain>>

(* Somebody consumes the promise of a call for the first time. *)
NotifyWaiter(c) ==
  /\ c \in Saved \ waited
  /\ waited' = waited \cup {c}
  /\ usageTimer' = FALSE /\ kick' = TRUE
  /\ UNCHANGED <<storeVars, queue, flushing, items, settled, dropped, usageDrain>>

(* flushUsageQueue up to its first await. *)
TakeQueue ==
  IF flushing \/ queue = <<>>
  THEN UNCHANGED <<queue, items, flushing>>
  ELSE items' = queue /\ queue' = <<>> /\ flushing' = TRUE

UsageTimer ==
  /\ usageTimer /\ usageTimer' = FALSE
  /\ TakeQueue
  /\ UNCHANGED <<storeVars, kick, settled, waited, dropped, usageDrain>>

UsageKick ==
  /\ kick /\ kick' = FALSE
  /\ TakeQueue
  /\ UNCHANGED <<storeVars, usageTimer, settled, waited, dropped, usageDrain>>

\* Mutant: nothing is scheduled for what was saved during the flush.
EntryDoneUnarmed ==
  /\ items' = Tail(items)
  /\ settled' = settled \cup {Head(items)}
  /\ flushing' = (items' # <<>>)
  /\ UNCHANGED <<queue, usageTimer, kick, waited, usageDrain>>

(* The promise resolves; after the last entry the flush ends, and what was    *)
(* saved meanwhile gets a timer.                                              *)
EntryDone ==
  /\ items' = Tail(items)
  /\ settled' = settled \cup {Head(items)}
  /\ IF items' = <<>>
       THEN flushing' = FALSE /\ usageTimer' = (usageTimer \/ queue # <<>>)
       ELSE UNCHANGED <<flushing, usageTimer>>
  /\ UNCHANGED <<queue, kick, waited, usageDrain>>

\* Mutant: the promise resolves without the write.
PersistUnawaited ==
  /\ flushing
  /\ EntryDone
  /\ UNCHANGED <<storeVars, dropped>>

(* persistUsageEntry: an event that is already in the table is not counted    *)
(* again.                                                                     *)
PersistEntry ==
  /\ flushing
  /\ Commit("usage", mem.usage \cup {Event[Head(items)]})
  /\ EntryDone
  /\ UNCHANGED dropped

(* The transaction fails: the error is logged, the entry is gone. *)
PersistFails ==
  /\ flushing
  /\ Rollback
  /\ EntryDone
  /\ dropped' = dropped \cup {Head(items)}

UsageNext ==
  \/ \E c \in Call : SaveUsage(c) \/ NotifyWaiter(c)
  \/ UsageTimer \/ UsageKick \/ PersistEntry \/ PersistFails

(* flushPendingUsage, called by the shutdown route: it does not wait for a    *)
(* flush that is already running.                                             *)
UsageDrains ==
  /\ usageTimer' = FALSE
  /\ TakeQueue
  /\ usageDrain' = IF flushing THEN {} ELSE In(queue)
  /\ UNCHANGED <<kick, settled, waited, dropped>>

UsageDrained == usageDrain \subseteq settled

\* The queue goes with the process; a promise it leaves behind counts as settled,
\* a row that is not in the file as dropped.
UsageLost ==
  /\ queue' = <<>> /\ items' = <<>>
  /\ usageTimer' = FALSE /\ kick' = FALSE /\ flushing' = FALSE
  /\ settled' = settled \cup In(queue) \cup In(items)
  /\ dropped' = dropped \cup {c \in settled' : Event[c] \notin mem'.usage}
  /\ usageDrain' = {}
  /\ UNCHANGED waited

-----------------------------------------------------------------------------
(* Whatever is queued will be flushed: a timer or a kick is due, or a flush   *)
(* is running that looks at the queue again when it ends.  The kick that a    *)
(* waiter asks for may find a flush running and do nothing.                   *)
NoEntryStranded == queue # <<>> => usageTimer \/ kick \/ flushing

(* A promise resolves only when its usage event is in the table, or its       *)
(* transaction has failed: what an awaiting caller reads next is its own row. *)
SettledIsRecorded == \A c \in settled \ dropped : Event[c] \in mem.usage

(* Every call of saveRequestUsage is settled, waited for or not: the hot path *)
(* never looks at its promise, and failed writes do not hold the queue.       *)
UsageSettles == \A c \in Call : (c \in Saved) ~> (c \in settled)
===============================================================================
