---------------------------- MODULE QuotaFetchCache ----------------------------
(***************************************************************************)
(* The cache of provider quota answers: callers of the same key share one  *)
(* load, a fresh value is returned at once, and a forced call starts a new  *)
(* load beside the running one.  A load carries the version its entry had   *)
(* when it began; the version starts again when the entry is deleted.       *)
(***************************************************************************)
EXTENDS Naturals, FiniteSets, Sequences

CONSTANTS
  QuotaKey,
  MaxQuotaEntries,
  MaxLoads          \* bound

ASSUME QuotaAssumption ==
  IsFiniteSet(QuotaKey) /\ MaxQuotaEntries \in Nat \ {0} /\ MaxLoads \in Nat

VARIABLES
  entries,  \* by key: the load its value is from, its promise (0: none), version
            \* (0: no entry), whether the value is fresh
  order,    \* keys of the map, oldest entry first
  loads,    \* loads begun, in order: key, version, status
  epoch     \* history, by key: deletions of the entry

quotaVars == <<entries, order, loads, epoch>>

NoEntry == [value |-> 0, promise |-> 0, version |-> 0, fresh |-> FALSE]

QuotaTypeOK ==
  /\ entries \in [QuotaKey -> [value : 0..MaxLoads, promise : 0..MaxLoads,
                               version : 0..MaxLoads, fresh : BOOLEAN]]
  /\ order \in Seq(QuotaKey)
  /\ loads \in Seq([key : QuotaKey, version : 1..MaxLoads, epoch : Nat,
                    force : BOOLEAN, status : {"running", "loaded", "failed"}])
  /\ epoch \in [QuotaKey -> Nat]

QuotaInit ==
  /\ entries = [k \in QuotaKey |-> NoEntry]
  /\ order = <<>> /\ loads = <<>>
  /\ epoch = [k \in QuotaKey |-> 0]

\* The value gets older than maxAgeMs.
QuotaAges(k) ==
  /\ entries[k].fresh
  /\ entries' = [entries EXCEPT ![k].fresh = FALSE]
  /\ UNCHANGED <<order, loads, epoch>>

\* Whether a call returns what is there.
Answered(e, force) == ~force /\ (e.fresh \/ e.promise # 0)

\* Mutant: a call with an old value does not look for a running load.
GetQuotaUnshared(k, force) ==
  LET id == Len(loads) + 1
      version == entries[k].version + 1
  IN /\ id <= MaxLoads
     /\ force \/ ~entries[k].fresh
     /\ loads' = Append(loads, [key |-> k, version |-> version, epoch |-> epoch[k],
                                force |-> force, status |-> "running"])
     /\ entries' = [entries EXCEPT ![k].promise = id, ![k].version = version]
     /\ order' = IF entries[k].version = 0 THEN Append(order, k) ELSE order
     /\ UNCHANGED epoch

(* getCachedQuotaUsage, when it starts a load. *)
GetQuota(k, force) ==
  LET id == Len(loads) + 1
      version == entries[k].version + 1
  IN /\ id <= MaxLoads
     /\ ~Answered(entries[k], force)
     /\ loads' = Append(loads, [key |-> k, version |-> version, epoch |-> epoch[k],
                                force |-> force, status |-> "running"])
     /\ entries' = [entries EXCEPT ![k].promise = id, ![k].version = version]
     /\ order' = IF entries[k].version = 0 THEN Append(order, k) ELSE order
     /\ UNCHANGED epoch

Delete(map, keys) == [k \in QuotaKey |-> IF k \in keys THEN NoEntry ELSE map[k]]
Deleted(keys) == epoch' = [k \in QuotaKey |-> epoch[k] + (IF k \in keys THEN 1 ELSE 0)]
Without(keys) == SelectSeq(order, LAMBDA k : k \notin keys)

\* Mutant: every load fills its entry.
IsAny(id) == entries[loads[id].key].version > 0

\* Whether the load may fill its entry.
IsCurrent(id) == entries[loads[id].key].version = loads[id].version

(* The loader answers; beyond the cap the oldest entries go. *)
QuotaLoaded(id) ==
  LET k == loads[id].key
      old == {order[i] : i \in 1..(Len(order) - MaxQuotaEntries)}
      filled == [value |-> id, promise |-> 0, version |-> loads[id].version, fresh |-> TRUE]
  IN /\ loads[id].status = "running"
     /\ loads' = [loads EXCEPT ![id].status = "loaded"]
     /\ IF IsCurrent(id)
        THEN /\ entries' = Delete([entries EXCEPT ![k] = filled], old)
             /\ order' = Without(old) /\ Deleted(old)
        ELSE UNCHANGED <<entries, order, epoch>>

\* Mutant: a failed load leaves its entry alone.
QuotaFailsKept(id) ==
  /\ loads[id].status = "running"
  /\ loads' = [loads EXCEPT ![id].status = "failed"]
  /\ UNCHANGED <<entries, order, epoch>>

(* The loader fails: an entry that has only this promise is deleted; one that *)
(* has an older value keeps the promise, too.                                 *)
QuotaFails(id) ==
  LET k == loads[id].key
      mine == IF entries[k].promise = id /\ entries[k].value = 0 THEN {k} ELSE {}
  IN /\ loads[id].status = "running"
     /\ loads' = [loads EXCEPT ![id].status = "failed"]
     /\ entries' = Delete(entries, mine)
     /\ order' = Without(mine) /\ Deleted(mine)

(* invalidateQuotaFetchCache *)
InvalidateQuota(keys) ==
  LET there == {k \in keys : entries[k].version > 0}
  IN /\ there # {}
     /\ entries' = Delete(entries, there)
     /\ order' = Without(there) /\ Deleted(there)
     /\ UNCHANGED loads

QuotaNext ==
  \/ \E k \in QuotaKey : QuotaAges(k) \/ \E force \in BOOLEAN : GetQuota(k, force)
  \/ \E id \in DOMAIN loads : QuotaLoaded(id) \/ QuotaFails(id)
  \/ \E keys \in SUBSET QuotaKey : InvalidateQuota(keys)

\* The cache and the running loads go with the process.
QuotaLost ==
  /\ entries' = Delete(entries, QuotaKey)
  /\ order' = <<>> /\ Deleted(QuotaKey)
  /\ loads' = [id \in DOMAIN loads |->
                 IF loads[id].status = "running" THEN [loads[id] EXCEPT !.status = "failed"]
                                                 ELSE loads[id]]

-----------------------------------------------------------------------------
Running(k) == {id \in DOMAIN loads : loads[id].key = k /\ loads[id].status = "running"}

(* Callers that do not force share a load: two of them run beside each other  *)
(* only where a forced load was mixed in or the entry had been deleted.       *)
LoadsAreShared ==
  \A k \in QuotaKey : \A i, j \in Running(k) :
    i < j /\ loads[i].epoch = loads[j].epoch
      => \E f \in 1..j : /\ loads[f].key = k
                         /\ (i < f /\ loads[f].force) \/ loads[f].epoch < loads[i].epoch

(* A caller is handed the promise of a failed load only where the entry has   *)
(* an older value: an error without one is not cached.                        *)
FailureIsNotCached ==
  \A k \in QuotaKey :
    entries[k].promise # 0 /\ loads[entries[k].promise].status = "failed" => entries[k].value # 0

(* A value is not replaced by an older load's, except that a load from before *)
(* the deletion of the entry can do so when the versions have met again.      *)
NewestLoadWins ==
  [][\A k \in QuotaKey :
       entries'[k].value # 0 /\ entries'[k].value < entries[k].value
         => loads[entries'[k].value].epoch < epoch[k]]_quotaVars
===============================================================================
