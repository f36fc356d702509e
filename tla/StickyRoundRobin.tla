--------------------------- MODULE StickyRoundRobin ---------------------------
(***************************************************************************)
(* The round-robin strategy of account selection: stay with the most       *)
(* recently used account for Limit requests, then take the least recently  *)
(* used one.  The counters live in memory and are written behind in        *)
(* batches; a restart comes back with what the database holds.             *)
(*                                                                         *)
(* A request reads the list of available accounts first and decides later, *)
(* in the provider's mutex, on counters that are then current.             *)
(*                                                                         *)
(* lastUsedAt is an ISO string of milliseconds.  Only its order matters,   *)
(* so stamps are kept as ranks: 0 is never, and `now' is the rank of the   *)
(* present millisecond.                                                    *)
(***************************************************************************)
EXTENDS Naturals, FiniteSets

CONSTANTS
  Account,   \* the accounts, each named by its place in the priority order
  Selection, \* concurrent selections
  Limit,     \* stickyRoundRobinLimit
  Spaced,    \* whether two selections never fall into one millisecond
  Affinity,  \* whether conversations are pinned to accounts
  NoAccount

ASSUME StickyAssumption ==
  /\ Account \subseteq Nat /\ Account # {} /\ IsFiniteSet(Account)
  /\ Limit \in Nat \ {0}
  /\ Spaced \in BOOLEAN /\ Affinity \in BOOLEAN
  /\ NoAccount \notin Account

VARIABLES
  now,       \* rank of the present millisecond
  used,      \* counters as selection sees them (rrStickyState over the rows)
  saved,     \* counters in the database
  pending,   \* rrPersist.pending
  batch,     \* the counters a flush in progress writes
  where,     \* where each request is
  snapshot,  \* the available accounts it read
  last,      \* history: the account of the latest selection
  run        \* history: how often in a row, by strategy, others being available

stickyVars == <<now, used, saved, pending, batch, where, snapshot, last, run>>

Stamp == 0..3 * Cardinality(Account) + 1
Counter == [at : Stamp, count : 0..Limit]
Never == [at |-> 0, count |-> 0]
NoBatch == [c \in {} |-> Never]

StickyTypeOK ==
  /\ now \in Stamp \ {0}
  /\ used \in [Account -> Counter]
  /\ saved \in [Account -> Counter]
  /\ pending \subseteq Account
  /\ DOMAIN batch \subseteq Account /\ \A c \in DOMAIN batch : batch[c] \in Counter
  /\ where \in [Selection -> {"idle", "read"}]
  /\ snapshot \in [Selection -> SUBSET Account]
  /\ last \in Account \cup {NoAccount}
  /\ run \in Nat

StickyInit ==
  /\ now = 1
  /\ used = [c \in Account |-> Never]
  /\ saved = [c \in Account |-> Never]
  /\ pending = {} /\ batch = NoBatch
  /\ where = [r \in Selection |-> "idle"]
  /\ snapshot = [r \in Selection |-> {}]
  /\ last = NoAccount /\ run = 0

-----------------------------------------------------------------------------
(* getProviderCredentials reads the accounts that are neither locked nor      *)
(* excluded, whichever these are.                                             *)
Read(r, avail) ==
  /\ where[r] = "idle"
  /\ avail # {}
  /\ where' = [where EXCEPT ![r] = "read"]
  /\ snapshot' = [snapshot EXCEPT ![r] = avail]
  /\ UNCHANGED <<now, used, saved, pending, batch, last, run>>

\* The stable sorts by lastUsedAt; accounts never used come last in byRecency
\* and first in sortedByOldest, and among equals priority decides.
MoreRecent(c, d) ==
  used[c].at > used[d].at \/ (used[c].at = used[d].at /\ c <= d)
Older(c, d) ==
  used[c].at < used[d].at \/ (used[c].at = used[d].at /\ c <= d)

\* Mutant: the replacement is the next by priority.
ByPriority(avail) == CHOOSE c \in avail : \A d \in avail : c <= d

Latest(avail) == CHOOSE c \in avail : \A d \in avail : MoreRecent(c, d)
Oldest(avail) == CHOOSE c \in avail : \A d \in avail : Older(c, d)

\* Stay with the current account while its count is below the limit.
Stays(avail) ==
  used[Latest(avail)].at > 0 /\ used[Latest(avail)].count < Limit

Chosen(avail) == IF Stays(avail) THEN Latest(avail) ELSE Oldest(avail)

\* recordRrUse
RecordUse(c, n) ==
  /\ used' = [used EXCEPT ![c] = [at |-> now, count |-> n]]
  /\ pending' = pending \cup {c}

Decided(r) ==
  /\ where[r] = "read"
  /\ Spaced => \A c \in Account : used[c].at < now
  /\ where' = [where EXCEPT ![r] = "idle"]
  /\ snapshot' = [snapshot EXCEPT ![r] = {}]
  /\ UNCHANGED <<now, saved, batch>>

(* The strategy's decision. *)
SelectByStrategy(r) ==
  LET c == Chosen(snapshot[r])
  IN  /\ Decided(r)
      /\ RecordUse(c, IF Stays(snapshot[r]) THEN used[c].count + 1 ELSE 1)
      /\ last' = c
      /\ run' = IF snapshot[r] # {c} /\ c = last THEN run + 1 ELSE 1

(* The conversation's account is available: it is used whatever its count. *)
SelectPinned(r, c) ==
  /\ Affinity
  /\ c \in snapshot[r]
  /\ Decided(r)
  /\ RecordUse(c, 1)
  /\ last' = c /\ run' = 1

-----------------------------------------------------------------------------
(* flushRrCounters, armed while counters are pending. *)
FlushBegin ==
  /\ batch = NoBatch /\ pending # {}
  /\ batch' = [c \in pending |-> used[c]]
  /\ pending' = {}
  /\ UNCHANGED <<now, used, saved, where, snapshot, last, run>>

FlushDone ==
  /\ batch # NoBatch
  /\ saved' = [c \in Account |-> IF c \in DOMAIN batch THEN batch[c] ELSE saved[c]]
  /\ batch' = NoBatch
  /\ UNCHANGED <<now, used, pending, where, snapshot, last, run>>

\* Mutant: a failed flush drops its batch.
FlushDrops ==
  /\ batch # NoBatch
  /\ batch' = NoBatch
  /\ UNCHANGED <<now, used, saved, pending, where, snapshot, last, run>>

(* A failed flush queues its accounts again. *)
FlushFails ==
  /\ batch # NoBatch
  /\ pending' = pending \cup DOMAIN batch
  /\ batch' = NoBatch
  /\ UNCHANGED <<now, used, saved, where, snapshot, last, run>>

(* The process ends; the next one starts from the rows. *)
Restart ==
  /\ used' = saved
  /\ pending' = {} /\ batch' = NoBatch
  /\ where' = [r \in Selection |-> "idle"]
  /\ snapshot' = [r \in Selection |-> {}]
  /\ last' = NoAccount /\ run' = 0
  /\ UNCHANGED <<now, saved>>

\* The stamps somewhere in use, and their ranks.
Stamps ==
  {used[c].at : c \in Account} \cup {saved[c].at : c \in Account}
    \cup {batch[c].at : c \in DOMAIN batch}
Rank(s) == Cardinality({t \in Stamps \ {0} : t <= s})
Ranked(counter) == [counter EXCEPT !.at = Rank(@)]

(* The next millisecond; stamps are ranked anew. *)
NextMillisecond ==
  /\ now \in Stamps
  /\ now' = Rank(now) + 1
  /\ used' = [c \in Account |-> Ranked(used[c])]
  /\ saved' = [c \in Account |-> Ranked(saved[c])]
  /\ batch' = [c \in DOMAIN batch |-> Ranked(batch[c])]
  /\ UNCHANGED <<pending, where, snapshot, last, run>>

Flush == FlushBegin \/ FlushDone \/ FlushFails

StickyNext ==
  \/ \E r \in Selection :
       \/ SelectByStrategy(r)
       \/ \E avail \in SUBSET Account : Read(r, avail)
       \/ \E c \in Account : SelectPinned(r, c)
  \/ Flush \/ Restart \/ NextMillisecond

StickySpec == StickyInit /\ [][StickyNext]_stickyVars

\* Requests that have read decide, the flush timer fires and database writes
\* settle, not for ever with an error, and time passes.
StickyFairSpec ==
  /\ StickySpec
  /\ WF_stickyVars(NextMillisecond) /\ WF_stickyVars(FlushBegin) /\ SF_stickyVars(FlushDone)
  /\ \A r \in Selection : WF_stickyVars(SelectByStrategy(r) \/ \E c \in Account : SelectPinned(r, c))

-----------------------------------------------------------------------------
(* Properties *)

\* With other accounts available, no account is chosen by the strategy more
\* than Limit times in a row, however accounts come and go, requests interleave
\* between reading and deciding, flushes fail and the server restarts: when no
\* two selections fall into one millisecond.
RunsAreLimited == run <= Limit

\* Once no request is selecting any more, the database catches up with the
\* counters, although flushes overlap with selections and may fail.
CountersArrive == <>[](\A r \in Selection : where[r] = "idle") => <>[](saved = used)

=============================================================================
