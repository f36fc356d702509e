----------------------------- MODULE AccountPool -----------------------------
(***************************************************************************)
(* The provider-connection rows ("accounts") of the database and the       *)
(* operations that read and rewrite their availability: the per-model      *)
(* cooldown locks, the exponential backoff level and the error status.     *)
(*                                                                         *)
(* A lock is stored by the code as an absolute expiry in a flat field      *)
(* modelLock_<model>.  Every reader only ever compares it with the current *)
(* time, so a row keeps the ticks left until that expiry: 0 is an expiry   *)
(* in the past.  `keys' is the set of lock fields the row carries, since   *)
(* an expired field still present differs from an absent one.              *)
(***************************************************************************)
EXTENDS Naturals

CONSTANTS
  Conn,          \* the accounts of one provider
  Model,         \* the provider's models
  AccountKey,    \* MODEL_LOCK_ALL, also "no model known"
  BaseCooldown,  \* BACKOFF_CONFIG.base, in ticks
  MaxCooldown,   \* BACKOFF_CONFIG.max, in ticks
  MaxLevel,      \* BACKOFF_CONFIG.maxLevel
  ResetCap       \* MAX_RATE_LIMIT_COOLDOWN_MS, in ticks

ASSUME PoolAssumption ==
  /\ AccountKey \notin Model
  /\ BaseCooldown \in Nat \ {0}
  /\ MaxCooldown \in Nat \ {0}
  /\ MaxLevel \in Nat \ {0}
  /\ ResetCap \in Nat \ {0}

LockKey == Model \cup {AccountKey}

Status == {"active", "unavailable"}

Row == [enabled : BOOLEAN,          \* isActive
        keys    : SUBSET LockKey,   \* the modelLock_* fields present
        left    : [LockKey -> Nat], \* ticks to each expiry, 0 when past or absent
        status  : Status,           \* testStatus
        err     : BOOLEAN,          \* lastError is set
        code    : BOOLEAN,          \* errorCode is set
        level   : 0..MaxLevel]      \* backoffLevel

FreshRow == [enabled |-> TRUE, keys |-> {}, left |-> [k \in LockKey |-> 0],
             status |-> "active", err |-> FALSE, code |-> FALSE, level |-> 0]

AtMost(x, cap) == IF x \in 0..cap THEN x ELSE cap

-----------------------------------------------------------------------------
(* Reading a row *)

Expired(rec) == {k \in rec.keys : rec.left[k] = 0}

ActiveLocks(rec) == {k \in rec.keys : rec.left[k] > 0}

\* `connection[key] || connection[MODEL_LOCK_ALL]': a field for this model,
\* even an expired one, is the only field consulted.
ConsultedKey(rec, m) == IF m \in rec.keys THEN m ELSE AccountKey

\* Mutant: a lock field that is present counts, whatever its expiry.
PresentLockHolds(rec, m) == ConsultedKey(rec, m) \in rec.keys

IsModelLockActive(rec, m) ==
  /\ ConsultedKey(rec, m) \in rec.keys
  /\ rec.left[ConsultedKey(rec, m)] > 0

-----------------------------------------------------------------------------
(* Writing a row: connToRow drops the dead lock fields on every write. *)

Relocked(rec, ks, lf) == [rec EXCEPT !.keys = ks, !.left = lf]

PruneModelLocks(rec) == Relocked(rec, ActiveLocks(rec), rec.left)

DropKeys(rec, ks) ==
  Relocked(rec, rec.keys \ ks, [k \in LockKey |-> IF k \in ks THEN 0 ELSE rec.left[k]])

SetLock(rec, m, ticks) ==
  Relocked(rec, rec.keys \cup {m}, [rec.left EXCEPT ![m] = ticks])

Healed(rec) ==
  [rec EXCEPT !.status = "active", !.err = FALSE, !.code = FALSE, !.level = 0]

Blamed(rec, lv) ==
  [rec EXCEPT !.status = "unavailable", !.err = TRUE, !.code = TRUE, !.level = lv]

Switched(rec) == [rec EXCEPT !.enabled = ~rec.enabled]

Uncoded(rec) == [rec EXCEPT !.code = FALSE]

\* What the dashboard resets: errorCode stays.
Calmed(rec) == [rec EXCEPT !.status = "active", !.err = FALSE, !.level = 0]

\* One tick of the wall clock.
Aged(rec) ==
  Relocked(rec, rec.keys, [k \in LockKey |-> IF rec.left[k] > 0 THEN rec.left[k] - 1 ELSE 0])

-----------------------------------------------------------------------------
(* Classifying an upstream failure *)

\* What ERROR_RULES makes of one upstream error.  "payload": the body itself is
\* rejected; "client": a deterministic 4xx, cooldown 0; "fixed": a constant
\* cooldown; "backoff": a quota error; "reset": the provider named its reset.
Failure == [kind : {"payload", "client", "fixed", "backoff", "reset"}, ticks : Nat]

GetQuotaCooldown(level) == AtMost(BaseCooldown * 2^(IF level > 0 THEN level - 1 ELSE 0), MaxCooldown)

\* Mutant: the level is not capped.
UncappedLevel(level) == level + 1

NextLevel(level) == AtMost(level + 1, MaxLevel)

CooldownOf(f, level) ==
  CASE f.kind = "backoff" -> GetQuotaCooldown(NextLevel(level))
    [] f.kind = "reset"   -> AtMost(f.ticks, ResetCap)
    [] f.kind = "fixed"   -> f.ticks
    [] OTHER              -> 0

LevelAfter(f, level) ==
  CASE f.kind = "backoff" -> NextLevel(level)
    [] f.kind = "reset"   -> 0
    [] OTHER              -> level

-----------------------------------------------------------------------------
(* The two writers of availability *)

\* Mutant: the whole account is locked for a failure of one model.
AccountMarkedRow(rec, m, f, level) ==
  PruneModelLocks(Blamed(SetLock(rec, AccountKey, CooldownOf(f, level)), LevelAfter(f, level)))

\* updateProviderConnection with the lock markAccountUnavailable builds from
\* the backoff level it read earlier.
MarkedRow(rec, m, f, level) ==
  PruneModelLocks(Blamed(SetLock(rec, m, CooldownOf(f, level)), LevelAfter(f, level)))

\* The fields clearAccountError removes, decided on the row as it was when the
\* account was selected (`old'), not as it is now.
KeysToClear(old, m) ==
  Expired(old) \cup (IF m = AccountKey THEN {} ELSE old.keys \cap {m, AccountKey})

NothingToClear(old, m) ==
  KeysToClear(old, m) = {} /\ old.status # "unavailable" /\ ~old.err

\* Mutant: the error state is reset whatever locks remain.
AlwaysHealedRow(rec, old, m) ==
  IF NothingToClear(old, m) THEN rec
  ELSE PruneModelLocks(Healed(DropKeys(rec, KeysToClear(old, m))))

ClearedRow(rec, old, m) ==
  IF NothingToClear(old, m)
  THEN IF old.code THEN PruneModelLocks(Uncoded(rec)) ELSE rec
  ELSE LET open == DropKeys(rec, KeysToClear(old, m))
       IN  PruneModelLocks(IF ActiveLocks(old) \subseteq KeysToClear(old, m)
                           THEN Healed(open) ELSE open)

\* The dashboard's clearCooldown: one model's lock, or (AccountKey) all of
\* them.  It leaves errorCode alone.
UnlockedRow(rec, m) ==
  LET gone == IF m = AccountKey THEN rec.keys ELSE rec.keys \cap {m}
      open == DropKeys(rec, gone)
      reset == rec.status = "unavailable" /\ (m = AccountKey \/ m \in rec.keys)
  IN  IF gone = {} /\ ~reset THEN rec
      ELSE PruneModelLocks(IF reset THEN Calmed(open) ELSE open)
=============================================================================
