------------------------- MODULE RoutingEngineProofs -------------------------
(***************************************************************************)
(* Proofs about the account fallback loop, alone and next to the health    *)
(* prober, for every set of accounts, models and requests.                 *)
(***************************************************************************)
EXTENDS HealthProber, FiniteSetTheorems, TLAPS

-----------------------------------------------------------------------------
(* The row operators return rows, and only a mark makes an expiry later. *)

\* No lock field of `new' expires later than in `old'.
NotLater(new, old) == \A k \in LockKey : new.left[k] <= old.left[k]

\* A capped number is a natural number no larger than its cap.
LEMMA AtMostBounds ==
  ASSUME NEW x, NEW cap \in Nat
  PROVE  AtMost(x, cap) \in 0..cap
  BY DEF AtMost

\* A healthy account's status and level are in range.
LEMMA HealthyFields == "active" \in Status /\ "unavailable" \in Status /\ 0 \in 0..MaxLevel
  BY PoolAssumption DEF Status

\* An account is created with a row.
LEMMA FreshRowType == FreshRow \in Row
  BY HealthyFields DEF FreshRow, Row

\* Replacing the lock fields by well-typed ones yields a row.
LEMMA RelockedType ==
  ASSUME NEW rec \in Row, NEW ks \in SUBSET LockKey, NEW lf \in [LockKey -> Nat]
  PROVE  Relocked(rec, ks, lf) \in Row /\ Relocked(rec, ks, lf).left = lf
<1>1. Relocked(rec, ks, lf) \in Row
  BY DEF Relocked, Row
<1>2. Relocked(rec, ks, lf).left = lf
  BY DEF Relocked, Row
<1> QED
  BY <1>1, <1>2

\* Rewriting the error state yields a row with the same expiries.
LEMMA StatusType ==
  ASSUME NEW rec \in Row, NEW lv \in 0..MaxLevel
  PROVE  /\ Healed(rec) \in Row  /\ Healed(rec).left = rec.left
         /\ Calmed(rec) \in Row  /\ Calmed(rec).left = rec.left
         /\ Uncoded(rec) \in Row /\ Uncoded(rec).left = rec.left
         /\ Blamed(rec, lv) \in Row /\ Blamed(rec, lv).left = rec.left
<1>1. Healed(rec) \in Row /\ Healed(rec).left = rec.left
  BY HealthyFields DEF Healed, Row
<1>2. Calmed(rec) \in Row /\ Calmed(rec).left = rec.left
  BY HealthyFields DEF Calmed, Row
<1>3. Uncoded(rec) \in Row /\ Uncoded(rec).left = rec.left
  BY DEF Uncoded, Row
<1>4. Blamed(rec, lv) \in Row /\ Blamed(rec, lv).left = rec.left
  BY HealthyFields DEF Blamed, Row
<1> QED
  BY <1>1, <1>2, <1>3, <1>4

\* Pruning dead lock fields yields a row with the same expiries.
LEMMA PruneType ==
  ASSUME NEW rec \in Row
  PROVE  PruneModelLocks(rec) \in Row /\ PruneModelLocks(rec).left = rec.left
<1>1. ActiveLocks(rec) \in SUBSET LockKey /\ rec.left \in [LockKey -> Nat]
  BY DEF ActiveLocks, Row
<1> QED
  BY <1>1, RelockedType DEF PruneModelLocks

\* Dropping lock fields makes no expiry later.
LEMMA DropType ==
  ASSUME NEW rec \in Row, NEW ks
  PROVE  DropKeys(rec, ks) \in Row /\ NotLater(DropKeys(rec, ks), rec)
<1> DEFINE lf == [k \in LockKey |-> IF k \in ks THEN 0 ELSE rec.left[k]]
<1>1. lf \in [LockKey -> Nat] /\ \A k \in LockKey : lf[k] <= rec.left[k]
  BY DEF Row
<1>2. rec.keys \ ks \in SUBSET LockKey
  BY DEF Row
<1>3. DropKeys(rec, ks) \in Row /\ DropKeys(rec, ks).left = lf
  <2> HIDE DEF lf
  <2>1. DropKeys(rec, ks) = Relocked(rec, rec.keys \ ks, lf)
    BY DEF DropKeys, lf
  <2> QED
    BY <1>1, <1>2, <2>1, RelockedType
<1> QED
  BY <1>1, <1>3 DEF NotLater

\* Neither does a tick of the clock.
LEMMA AgedType ==
  ASSUME NEW rec \in Row
  PROVE  Aged(rec) \in Row /\ NotLater(Aged(rec), rec)
<1> DEFINE lf == [k \in LockKey |-> IF rec.left[k] > 0 THEN rec.left[k] - 1 ELSE 0]
<1>1. lf \in [LockKey -> Nat] /\ \A k \in LockKey : lf[k] <= rec.left[k]
  BY DEF Row
<1>2. rec.keys \in SUBSET LockKey
  BY DEF Row
<1>3. Aged(rec) \in Row /\ Aged(rec).left = lf
  <2> HIDE DEF lf
  <2>1. Aged(rec) = Relocked(rec, rec.keys, lf)
    BY DEF Aged, lf
  <2> QED
    BY <1>1, <1>2, <2>1, RelockedType
<1> QED
  BY <1>1, <1>3 DEF NotLater

\* Switching an account on or off rewrites no expiry.
LEMMA ToggledType ==
  ASSUME NEW rec \in Row
  PROVE  Switched(rec) \in Row /\ Switched(rec).left = rec.left
  BY DEF Switched, Row

\* The cooldown of a failure, and the level it leaves, are in range.
LEMMA FailureRange ==
  ASSUME NEW f \in Failure, NEW lv \in 0..MaxLevel
  PROVE  CooldownOf(f, lv) \in Nat /\ LevelAfter(f, lv) \in 0..MaxLevel
<1>1. GetQuotaCooldown(NextLevel(lv)) \in Nat
  BY AtMostBounds, PoolAssumption DEF GetQuotaCooldown
<1>2. NextLevel(lv) \in 0..MaxLevel
  BY AtMostBounds, PoolAssumption DEF NextLevel
<1>3. AtMost(f.ticks, ResetCap) \in Nat
  BY AtMostBounds, PoolAssumption
<1> QED
  BY <1>1, <1>2, <1>3, PoolAssumption DEF CooldownOf, LevelAfter, Failure

\* Marking an account rewrites only the expiry of the model that failed.
LEMMA MarkedType ==
  ASSUME NEW rec \in Row, NEW m \in LockKey, NEW f \in Failure, NEW lv \in 0..MaxLevel
  PROVE  /\ MarkedRow(rec, m, f, lv) \in Row
         /\ \A k \in LockKey \ {m} : MarkedRow(rec, m, f, lv).left[k] = rec.left[k]
<1> DEFINE cd == CooldownOf(f, lv)
           lf == [rec.left EXCEPT ![m] = cd]
<1>1. cd \in Nat /\ LevelAfter(f, lv) \in 0..MaxLevel
  BY FailureRange
<1>2. lf \in [LockKey -> Nat] /\ \A k \in LockKey \ {m} : lf[k] = rec.left[k]
  <2> HIDE DEF cd
  <2> QED
    BY <1>1 DEF Row
<1>3. rec.keys \cup {m} \in SUBSET LockKey
  BY DEF Row
<1>4. SetLock(rec, m, cd) \in Row /\ SetLock(rec, m, cd).left = lf
  <2> HIDE DEF lf, cd
  <2>1. SetLock(rec, m, cd) = Relocked(rec, rec.keys \cup {m}, lf)
    BY DEF SetLock, lf
  <2> QED
    BY <1>2, <1>3, <2>1, RelockedType
<1> HIDE DEF lf, cd
<1>5. MarkedRow(rec, m, f, lv) = PruneModelLocks(Blamed(SetLock(rec, m, cd), LevelAfter(f, lv)))
  BY DEF MarkedRow, cd
<1> QED
  BY <1>1, <1>2, <1>4, <1>5, StatusType, PruneType

\* Clearing an account's errors makes no expiry later, whatever the snapshot
\* it is decided on.
LEMMA ClearedType ==
  ASSUME NEW rec \in Row, NEW old, NEW m
  PROVE  ClearedRow(rec, old, m) \in Row /\ NotLater(ClearedRow(rec, old, m), rec)
<1> DEFINE open == DropKeys(rec, KeysToClear(old, m))
<1>1. open \in Row /\ NotLater(open, rec)
  BY DropType
<1>2. NotLater(rec, rec)
  BY DEF NotLater, Row
<1>3. ClearedRow(rec, old, m) \in {rec, PruneModelLocks(Uncoded(rec)),
                                   PruneModelLocks(open), PruneModelLocks(Healed(open))}
  BY DEF ClearedRow
<1> HIDE DEF open
<1>4. \A x \in {rec, PruneModelLocks(Uncoded(rec))} : x \in Row /\ x.left = rec.left
  BY StatusType, PruneType, HealthyFields
<1>5. \A x \in {PruneModelLocks(open), PruneModelLocks(Healed(open))} : x \in Row /\ x.left = open.left
  BY <1>1, StatusType, PruneType, HealthyFields
<1> QED
  BY <1>1, <1>2, <1>3, <1>4, <1>5 DEF NotLater

\* Nor does the dashboard's unlock.
LEMMA UnlockedType ==
  ASSUME NEW rec \in Row, NEW m
  PROVE  UnlockedRow(rec, m) \in Row /\ NotLater(UnlockedRow(rec, m), rec)
<1> DEFINE gone == IF m = AccountKey THEN rec.keys ELSE rec.keys \cap {m}
           open == DropKeys(rec, gone)
<1>1. open \in Row /\ NotLater(open, rec)
  BY DropType
<1>2. NotLater(rec, rec)
  BY DEF NotLater, Row
<1>3. UnlockedRow(rec, m) \in {rec, PruneModelLocks(open), PruneModelLocks(Calmed(open))}
  BY DEF UnlockedRow
<1> HIDE DEF open
<1>4. \A x \in {PruneModelLocks(open), PruneModelLocks(Calmed(open))} : x \in Row /\ x.left = open.left
  BY <1>1, StatusType, PruneType, HealthyFields
<1> QED
  BY <1>1, <1>2, <1>3, <1>4 DEF NotLater

-----------------------------------------------------------------------------
(* The inductive invariant holds initially and is preserved. *)

\* A request whose loop state does not change keeps its part of the invariant.
LEMMA LoopFrame ==
  ASSUME NEW q \in Req, LoopInv(q), pc'[q] = pc[q], excluded'[q] = excluded[q],
         attempts'[q] = attempts[q], conn'[q] = conn[q]
  PROVE  LoopInv(q)'
  BY DEF LoopInv, Charged

\* Every request starts idle, with nothing excluded.
LEMMA InitIInv == Init => IInv
<1> SUFFICES ASSUME Init PROVE IInv
  OBVIOUS
<1>1. TypeOK
  BY FreshRowType, HealthyFields DEF Init, TypeOK, Phase, Outcome, NoFault, Failure, LockKey
<1>2. \A r \in Req : LoopInv(r)
  BY FS_EmptySet DEF Init, LoopInv, InFlight
<1> QED
  BY <1>1, <1>2 DEF IInv

\* Every step of the loop, the operator or the clock preserves typing.
LEMMA StepTypeOK == IInv /\ [Next]_vars => TypeOK'
<1> SUFFICES ASSUME IInv, [Next]_vars PROVE TypeOK'
  OBVIOUS
<1> USE DEF IInv
<1>0. /\ TypeOK
      /\ \A r \in Req : pc[r] \in InFlight => conn[r] \in Conn
      /\ \A c \in Conn : row[c] \in Row
      /\ \A r \in Req : seen[r] \in Row /\ model[r] \in LockKey
      /\ \A r \in Req : fault[r] \in Failure /\ level[r] \in 0..MaxLevel
  BY DEF TypeOK, LoopInv
<1>a. \A r \in Req : outcome[r] \in Outcome /\ excluded[r] \in SUBSET Conn
  BY DEF TypeOK
<1>b. FreshRow \in Row /\ NoFault \in Failure /\ AccountKey \in LockKey /\ 0 \in 0..MaxLevel
  BY FreshRowType, HealthyFields DEF NoFault, Failure, LockKey
<1>1. ASSUME NEW r \in Req, NEW m \in Asked, NEW p \in Pins, Begin(r, m, p) PROVE TypeOK'
  BY <1>1, <1>0, EngineAssumption DEF Begin, TypeOK, Phase, Outcome
<1>2. ASSUME NEW r \in Req, StopAtDeadline(r) PROVE TypeOK'
  BY <1>2, <1>0 DEF StopAtDeadline, Answer, request, TypeOK, Phase, Outcome
<1>3. ASSUME NEW r \in Req, GiveUp(r) PROVE TypeOK'
  BY <1>3, <1>0 DEF GiveUp, Answer, request, TypeOK, Phase, Outcome
<1>4. ASSUME NEW r \in Req, NEW c \in Conn, Select(r, c) PROVE TypeOK'
  BY <1>4, <1>0 DEF Select, TypeOK, Phase, Outcome
<1>5. ASSUME NEW r \in Req, PersistTokens(r) PROVE TypeOK'
  <2>1. conn[r] \in Conn /\ PruneModelLocks(row[conn[r]]) \in Row
    BY <1>5, <1>0, PruneType DEF PersistTokens, InFlight
  <2> QED
    BY <1>5, <1>0, <2>1 DEF PersistTokens, request, TypeOK
<1>6. ASSUME NEW r \in Req, NEW p \in {"healing", "blocked"}, Respond(r, p) PROVE TypeOK'
  BY <1>6, <1>0 DEF Respond, request, TypeOK, Phase, Outcome
<1>7. ASSUME NEW r \in Req, NEW f \in Failures, Fail(r, f) PROVE TypeOK'
  BY <1>7, <1>0, <1>b, EngineAssumption DEF Fail, DropSeen, TypeOK, Phase, Outcome
<1>8. ASSUME NEW r \in Req, Heal(r) PROVE TypeOK'
  <2>1. conn[r] \in Conn /\ ClearedRow(row[conn[r]], seen[r], model[r]) \in Row
    BY <1>8, <1>0, ClearedType DEF Heal, InFlight
  <2> QED
    BY <1>8, <1>0, <1>b, <2>1 DEF Heal, ClearAccountError, Answer, DropSeen, TypeOK, Phase, Outcome
<1>9. ASSUME NEW r \in Req, NEW f \in Failures, HealThenFail(r, f) PROVE TypeOK'
  <2>1. conn[r] \in Conn /\ ClearedRow(row[conn[r]], seen[r], model[r]) \in Row
    BY <1>9, <1>0, ClearedType DEF HealThenFail, InFlight
  <2> QED
    BY <1>9, <1>0, <1>b, <2>1, EngineAssumption DEF HealThenFail, ClearAccountError, DropSeen, TypeOK, Phase, Outcome
<1>10. ASSUME NEW r \in Req, StopOnFailure(r) PROVE TypeOK'
  BY <1>10, <1>0 DEF StopOnFailure, Answer, request, TypeOK, Phase, Outcome
<1>11. ASSUME NEW r \in Req, ReadBackoff(r) PROVE TypeOK'
  <2>1. conn[r] \in Conn /\ row[conn[r]].level \in 0..MaxLevel
    BY <1>11, <1>0 DEF ReadBackoff, InFlight, Row
  <2> QED
    BY <1>11, <1>0, <2>1 DEF ReadBackoff, TypeOK, Phase, Outcome
<1>12. ASSUME NEW r \in Req, MarkAccountUnavailable(r) PROVE TypeOK'
  <2>1. conn[r] \in Conn
    BY <1>12, <1>0 DEF MarkAccountUnavailable, InFlight
  <2>2. MarkedRow(row[conn[r]], model[r], fault[r], level[r]) \in Row
    BY <1>12, <1>0, <2>1, MarkedType
  <2>3. row' \in [Conn -> Row]
    BY <1>12, <1>0, <2>1, <2>2 DEF MarkAccountUnavailable, TypeOK
  <2>4. /\ pc' \in [Req -> Phase]
        /\ outcome' \in [Req -> Outcome]
        /\ excluded' \in [Req -> SUBSET Conn]
    BY <1>12, <1>0, <2>1 DEF MarkAccountUnavailable, Exclude, Answer, TypeOK, Phase, Outcome
  <2> QED
    BY <1>12, <1>0, <1>b, <2>3, <2>4 DEF MarkAccountUnavailable, TypeOK
<1>13. ASSUME NEW r \in Req, Return(r) PROVE TypeOK'
  BY <1>13, <1>0, <1>b DEF Return, TypeOK, Phase, Outcome
<1>14. ASSUME NEW c \in Editable, NEW m \in LockKey, ClearCooldown(c, m) PROVE TypeOK'
  <2>1. c \in Conn /\ UnlockedRow(row[c], m) \in Row
    BY <1>14, <1>0, UnlockedType, EngineAssumption
  <2> QED
    BY <1>14, <1>0, <2>1 DEF ClearCooldown, request, TypeOK
<1>15. ASSUME NEW c \in Editable, Toggle(c) PROVE TypeOK'
  <2>1. c \in Conn /\ PruneModelLocks(Switched(row[c])) \in Row
    BY <1>15, <1>0, ToggledType, PruneType, EngineAssumption
  <2> QED
    BY <1>15, <1>0, <2>1 DEF Toggle, request, TypeOK
<1>16. CASE Tick
  <2>1. row' \in [Conn -> Row] /\ seen' \in [Req -> Row]
    BY <1>16, <1>0, AgedType DEF Tick
  <2>2. Deadline + 1 \in Nat
    BY EngineAssumption
  <2>3. \A r \in Req : AtMost(age[r] + 1, Deadline + 1) \in Nat
    BY <2>2, AtMostBounds
  <2>4. age' \in [Req -> Nat]
    BY <1>16, <1>0, <2>3 DEF Tick, TypeOK
  <2> QED
    BY <1>16, <1>0, <2>1, <2>4 DEF Tick, TypeOK
<1>17. CASE UNCHANGED vars
  BY <1>17, <1>0 DEF vars, TypeOK
<1> QED
  BY <1>1, <1>2, <1>3, <1>4, <1>5, <1>6, <1>7, <1>8, <1>9, <1>10, <1>11, <1>12, <1>13, <1>14, <1>15, <1>16, <1>17 DEF Next, Serve, Progress, Operator

\* The accounting implies that no account is called twice.
LEMMA LoopInvDistinct == IInv => DistinctAttempts
<1> SUFFICES ASSUME IInv, NEW r \in Req PROVE attempts[r] = Cardinality(Charged(r))
  BY DEF DistinctAttempts
<1>0. TypeOK /\ LoopInv(r) /\ pc[r] \in Phase
  BY DEF IInv, TypeOK
<1>1. IsFiniteSet(excluded[r]) /\ Cardinality(excluded[r]) \in Nat /\ Cardinality({}) = 0
  BY <1>0, FS_EmptySet, FS_CardinalityType DEF LoopInv
<1>2. CASE pc[r] \in InFlight
  <2>1. Charged(r) = excluded[r] \cup {conn[r]} /\ attempts[r] = Cardinality(excluded[r]) + 1
    BY <1>0, <1>1, <1>2 DEF LoopInv, Charged
  <2>2. Cardinality(excluded[r] \cup {conn[r]}) = Cardinality(excluded[r]) + 1
    BY <1>0, <1>1, <1>2, FS_AddElement DEF LoopInv
  <2> QED
    BY <2>1, <2>2
<1>3. CASE pc[r] = "gate"
  <2>1. CASE attempts[r] = 0
    BY <2>1, <1>1 DEF Charged
  <2>2. CASE attempts[r] # 0
    <3>1. conn[r] \in excluded[r]
      BY <1>0, <1>1, <1>3, <2>2 DEF LoopInv
    <3>2. Charged(r) = excluded[r]
      BY <2>2, <3>1 DEF Charged
    <3> QED
      BY <1>0, <1>3, <3>2 DEF LoopInv
  <2> QED
    BY <2>1, <2>2
<1>4. CASE pc[r] = "idle"
  BY <1>0, <1>1, <1>4 DEF LoopInv, Charged
<1>5. CASE pc[r] = "done"
  BY <1>0, <1>5 DEF LoopInv
<1> QED
  BY <1>0, <1>2, <1>3, <1>4, <1>5 DEF Phase, InFlight

\* Every step preserves the accounting of attempts and exclusions.
LEMMA StepLoopInv == IInv /\ [Next]_vars => \A q \in Req : LoopInv(q)'
<1> SUFFICES ASSUME IInv, [Next]_vars, NEW q \in Req PROVE LoopInv(q)'
  OBVIOUS
<1>0. TypeOK /\ LoopInv(q) /\ excluded[q] \in SUBSET Conn /\ IsFiniteSet(excluded[q])
  BY DEF IInv, TypeOK, LoopInv
<1>c. IsFiniteSet({}) /\ Cardinality({}) = 0 /\ Cardinality(excluded[q]) \in Nat
  BY <1>0, FS_EmptySet, FS_CardinalityType
<1>d. \A c \in Conn \ excluded[q] :
        /\ IsFiniteSet(excluded[q] \cup {c})
        /\ Cardinality(excluded[q] \cup {c}) = Cardinality(excluded[q]) + 1
  BY <1>0, FS_AddElement
<1>f. attempts[q] = Cardinality(Charged(q))
  BY LoopInvDistinct DEF DistinctAttempts
<1>1. ASSUME NEW r \in Req, NEW m \in Asked, NEW p \in Pins, Begin(r, m, p) PROVE LoopInv(q)'
  <2>1. CASE r = q
    <3>1. pc'[q] = "gate" /\ attempts'[q] = 0 /\ excluded'[q] = {}
      BY <2>1, <1>1, <1>0 DEF Begin, TypeOK, LoopInv
    <3> QED
      BY <3>1, <1>c DEF LoopInv, InFlight
  <2>2. CASE r # q
    BY <2>2, <1>1, <1>0, LoopFrame DEF Begin, TypeOK
  <2> QED
    BY <2>1, <2>2
<1>2. ASSUME NEW r \in Req, StopAtDeadline(r) PROVE LoopInv(q)'
  <2>1. CASE r = q
    <3>1. pc'[q] = "done" /\ attempts'[q] = attempts[q] /\ excluded'[q] = excluded[q] /\ conn'[q] = conn[q]
      BY <2>1, <1>2, <1>0 DEF StopAtDeadline, Answer, request, TypeOK
    <3> QED
      BY <3>1, <1>0, <1>f DEF LoopInv, InFlight, Charged
  <2>2. CASE r # q
    BY <2>2, <1>2, <1>0, LoopFrame DEF StopAtDeadline, TypeOK, PastDeadline, Answer, request, Charged
  <2> QED
    BY <2>1, <2>2
<1>3. ASSUME NEW r \in Req, GiveUp(r) PROVE LoopInv(q)'
  <2>1. CASE r = q
    <3>1. pc'[q] = "done" /\ attempts'[q] = attempts[q] /\ excluded'[q] = excluded[q] /\ conn'[q] = conn[q]
      BY <2>1, <1>3, <1>0 DEF GiveUp, Answer, request, TypeOK
    <3> QED
      BY <3>1, <1>0, <1>f DEF LoopInv, InFlight, Charged
  <2>2. CASE r # q
    BY <2>2, <1>3, <1>0, LoopFrame DEF GiveUp, TypeOK, Answer, request, Charged
  <2> QED
    BY <2>1, <2>2
<1>4. ASSUME NEW r \in Req, NEW c \in Conn, Select(r, c) PROVE LoopInv(q)'
  <2>1. CASE r = q
    BY <2>1, <1>4, <1>0, <1>c DEF Select, TypeOK, LoopInv, InFlight, Available
  <2>2. CASE r # q
    BY <2>2, <1>4, <1>0, LoopFrame DEF Select, TypeOK, Available
  <2> QED
    BY <2>1, <2>2
<1>5. ASSUME NEW r \in Req, PersistTokens(r) PROVE LoopInv(q)'
  BY <1>5, <1>0, LoopFrame DEF PersistTokens, request
<1>6. ASSUME NEW r \in Req, NEW p \in {"healing", "blocked"}, Respond(r, p) PROVE LoopInv(q)'
  <2>1. CASE r = q
    BY <2>1, <1>6, <1>0, <1>c DEF Respond, TypeOK, LoopInv, InFlight, request
  <2>2. CASE r # q
    BY <2>2, <1>6, <1>0, LoopFrame DEF Respond, TypeOK, request
  <2> QED
    BY <2>1, <2>2
<1>7. ASSUME NEW r \in Req, NEW f \in Failures, Fail(r, f) PROVE LoopInv(q)'
  <2>1. CASE r = q
    BY <2>1, <1>7, <1>0, <1>c DEF Fail, TypeOK, LoopInv, InFlight
  <2>2. CASE r # q
    BY <2>2, <1>7, <1>0, LoopFrame DEF Fail, TypeOK
  <2> QED
    BY <2>1, <2>2
<1>8. ASSUME NEW r \in Req, Heal(r) PROVE LoopInv(q)'
  <2>1. CASE r = q
    BY <2>1, <1>8, <1>0, <1>c, <1>d DEF Heal, TypeOK, LoopInv, InFlight, Answer, Charged
  <2>2. CASE r # q
    BY <2>2, <1>8, <1>0, LoopFrame DEF Heal, TypeOK, Answer, Charged
  <2> QED
    BY <2>1, <2>2
<1>9. ASSUME NEW r \in Req, NEW f \in Failures, HealThenFail(r, f) PROVE LoopInv(q)'
  <2>1. CASE r = q
    BY <2>1, <1>9, <1>0, <1>c DEF HealThenFail, TypeOK, LoopInv, InFlight
  <2>2. CASE r # q
    BY <2>2, <1>9, <1>0, LoopFrame DEF HealThenFail, TypeOK
  <2> QED
    BY <2>1, <2>2
<1>10. ASSUME NEW r \in Req, StopOnFailure(r) PROVE LoopInv(q)'
  <2>1. CASE r = q
    BY <2>1, <1>10, <1>0, <1>c, <1>d DEF StopOnFailure, TypeOK, LoopInv, InFlight, Answer, request, Charged
  <2>2. CASE r # q
    BY <2>2, <1>10, <1>0, LoopFrame DEF StopOnFailure, TypeOK, Answer, request, Charged
  <2> QED
    BY <2>1, <2>2
<1>11. ASSUME NEW r \in Req, ReadBackoff(r) PROVE LoopInv(q)'
  <2>1. CASE r = q
    BY <2>1, <1>11, <1>0, <1>c DEF ReadBackoff, TypeOK, LoopInv, InFlight
  <2>2. CASE r # q
    BY <2>2, <1>11, <1>0, LoopFrame DEF ReadBackoff, TypeOK
  <2> QED
    BY <2>1, <2>2
<1>12. ASSUME NEW r \in Req, MarkAccountUnavailable(r) PROVE LoopInv(q)'
  <2>1. CASE r = q
    BY <2>1, <1>12, <1>0, <1>c, <1>d DEF MarkAccountUnavailable, TypeOK, LoopInv, InFlight, Exclude, Answer
  <2>2. CASE r # q
    BY <2>2, <1>12, <1>0, LoopFrame DEF MarkAccountUnavailable, TypeOK, Exclude, Answer
  <2> QED
    BY <2>1, <2>2
<1>13. ASSUME NEW r \in Req, Return(r) PROVE LoopInv(q)'
  <2>1. CASE r = q
    BY <2>1, <1>13, <1>0, <1>c DEF Return, TypeOK, LoopInv, InFlight
  <2>2. CASE r # q
    BY <2>2, <1>13, <1>0, LoopFrame DEF Return, TypeOK
  <2> QED
    BY <2>1, <2>2
<1>14. ASSUME NEW c \in Editable, NEW m \in LockKey, ClearCooldown(c, m) PROVE LoopInv(q)'
  BY <1>14, <1>0, LoopFrame DEF ClearCooldown, request
<1>15. ASSUME NEW c \in Editable, Toggle(c) PROVE LoopInv(q)'
  BY <1>15, <1>0, LoopFrame DEF Toggle, request
<1>16. CASE Tick
  BY <1>16, <1>0, LoopFrame DEF Tick
<1>17. CASE UNCHANGED vars
  BY <1>17, <1>0, LoopFrame DEF vars
<1> QED
  BY <1>1, <1>2, <1>3, <1>4, <1>5, <1>6, <1>7, <1>8, <1>9, <1>10, <1>11, <1>12, <1>13, <1>14, <1>15, <1>16, <1>17 DEF Next, Serve, Progress, Operator

-----------------------------------------------------------------------------
(* Locks *)

\* A step that makes an expiry of some account later is a failed request's mark.
LEMMA StepEarned == IInv /\ [Next]_vars => EarnedLocks
<1> SUFFICES ASSUME IInv, [Next]_vars, NEW c \in Conn, NEW k \in LockKey,
                    row'[c].left[k] > row[c].left[k]
             PROVE  \E r \in Req \ Probe :
                      /\ k = model[r]
                      /\ c \in Charged(r)
                      /\ fault[r].kind \in {"fixed", "backoff", "reset"}
                      /\ pc[r] = "marking" /\ pc'[r] # "marking"
  BY DEF EarnedLocks
<1>0. /\ TypeOK
      /\ \A r \in Req : LoopInv(r) /\ fault[r] \in Failure /\ level[r] \in 0..MaxLevel
      /\ \A r \in Req : pc[r] \in InFlight => conn[r] \in Conn
      /\ \A r \in Req : model[r] \in LockKey
      /\ \A x \in Conn : row[x] \in Row
      /\ row[c].left[k] \in Nat
  BY DEF IInv, TypeOK, LoopInv, Row
<1>1. ~(row'[c].left[k] <= row[c].left[k])
  <2>1. row'[c].left[k] \in Nat
    BY StepTypeOK DEF TypeOK, Row
  <2> QED
    BY <2>1, <1>0
<1>2. ASSUME row'[c] = row[c] PROVE FALSE
  BY <1>0, <1>1, <1>2
<1>3. ASSUME NotLater(row'[c], row[c]) PROVE FALSE
  BY <1>1, <1>3 DEF NotLater
<1>4. \A r \in Req : ~PersistTokens(r)
  <2> SUFFICES ASSUME NEW r \in Req, PersistTokens(r) PROVE FALSE
    OBVIOUS
  <2>1. row'[c].left = row[c].left
    BY <1>0, PruneType DEF PersistTokens, TypeOK
  <2> QED
    BY <2>1, <1>0, <1>1
<1>5. \A r \in Req : ~ClearAccountError(r)
  <2> SUFFICES ASSUME NEW r \in Req, ClearAccountError(r) PROVE FALSE
    OBVIOUS
  <2>1. row'[c] = row[c] \/ row'[c] = ClearedRow(row[c], seen[r], model[r])
    BY <1>0 DEF ClearAccountError, TypeOK
  <2> QED
    BY <2>1, <1>0, <1>2, <1>3, ClearedType
<1>6. \A d \in Editable, m \in LockKey : ~ClearCooldown(d, m)
  <2> SUFFICES ASSUME NEW d \in Editable, NEW m \in LockKey, ClearCooldown(d, m) PROVE FALSE
    OBVIOUS
  <2>1. row'[c] = row[c] \/ row'[c] = UnlockedRow(row[c], m)
    BY <1>0 DEF ClearCooldown, TypeOK
  <2> QED
    BY <2>1, <1>0, <1>2, <1>3, UnlockedType
<1>7. \A d \in Editable : ~Toggle(d)
  <2> SUFFICES ASSUME NEW d \in Editable, Toggle(d) PROVE FALSE
    OBVIOUS
  <2>1. row'[c] = row[c] \/ row'[c] = PruneModelLocks(Switched(row[c]))
    BY <1>0 DEF Toggle, TypeOK
  <2>2. row'[c].left = row[c].left
    BY <2>1, <1>0, ToggledType, PruneType
  <2> QED
    BY <2>2, <1>0, <1>1
<1>8. ~Tick
  BY <1>0, <1>3, AgedType DEF Tick
<1>9. PICK r \in Req : MarkAccountUnavailable(r)
  <2>1. row' # row
    BY <1>2
  <2> QED
    BY <2>1, <1>4, <1>5, <1>6, <1>7, <1>8
    DEF Next, Serve, Operator, Progress, Begin, StopAtDeadline, GiveUp, Select, Respond, Fail,
        Heal, HealThenFail, StopOnFailure, ReadBackoff, Return, vars
<1>10. /\ r \notin Probe /\ pc[r] = "marking" /\ pc'[r] # "marking"
       /\ conn[r] \in Conn
  <2>1. pc[r] = "marking" /\ pc[r] \in InFlight
    BY <1>9 DEF MarkAccountUnavailable, InFlight
  <2>2. pc'[r] # "marking"
    BY <1>0, <1>9 DEF MarkAccountUnavailable, Exclude, Answer, TypeOK
  <2> QED
    BY <2>1, <2>2, <1>0 DEF LoopInv
<1>11. conn[r] = c
  BY <1>2, <1>0, <1>9 DEF MarkAccountUnavailable, TypeOK
<1>12. row'[c] = MarkedRow(row[c], model[r], fault[r], level[r]) /\ CooldownOf(fault[r], level[r]) > 0
  BY <1>2, <1>0, <1>9, <1>11 DEF MarkAccountUnavailable, TypeOK
<1>13. k = model[r]
  <2> SUFFICES ASSUME k # model[r] PROVE FALSE
    OBVIOUS
  <2>1. row'[c].left[k] = row[c].left[k]
    BY <1>0, <1>12, MarkedType
  <2> QED
    BY <2>1, <1>0, <1>1
<1>14. fault[r].kind \in {"fixed", "backoff", "reset"}
  BY <1>12 DEF CooldownOf
<1>15. c \in Charged(r)
  <2>1. attempts[r] = Cardinality(excluded[r]) + 1 /\ IsFiniteSet(excluded[r])
    BY <1>0, <1>10 DEF LoopInv, InFlight
  <2>2. attempts[r] # 0
    BY <2>1, FS_CardinalityType
  <2> QED
    BY <2>2, <1>11 DEF Charged
<1> QED
  BY <1>10, <1>13, <1>14, <1>15

-----------------------------------------------------------------------------
(* The loop implements Failover: initial states and steps *)

\* Initially every request is idle and has charged no account.
LEMMA InitImplements == Init => Promise!Init
  BY DEF Init, Promise!Init, Stage, Charged

\* A step that changes neither the stage nor the charges of any request is a
\* stutter of the promise.
LEMMA StutterFrame ==
  ASSUME TypeOK, TypeOK', attempts' = attempts,
         \A q \in Req : Stage(q)' = Stage(q) /\ Charged(q)' = Charged(q)
  PROVE  UNCHANGED Promise!vars
  BY DEF Promise!vars

\* Every step of the loop is a step of the promise or a stutter of it.
LEMMA StepImplements == IInv /\ [Next]_vars => [Promise!Next]_(Promise!vars)
<1> SUFFICES ASSUME IInv, [Next]_vars PROVE [Promise!Next]_(Promise!vars)
  OBVIOUS
<1>0. TypeOK /\ TypeOK' /\ \A r \in Req : LoopInv(r) /\ IsFiniteSet(excluded[r])
  BY StepTypeOK DEF IInv, LoopInv
<1>g. ASSUME NEW r \in Req, pc[r] = "gate", attempts[r] # 0 PROVE conn[r] \in excluded[r]
  <2>1. LoopInv(r) /\ attempts[r] \in Nat
    BY <1>0 DEF TypeOK
  <2> QED
    BY <1>g, <2>1 DEF LoopInv
<1> USE DEF Stage, Charged
<1>1. ASSUME NEW r \in Req, NEW m \in Asked, NEW p \in Pins, Begin(r, m, p) PROVE [Promise!Next]_(Promise!vars)
  <2>1. Promise!Begin(r)
    BY <1>1, <1>0 DEF Promise!Begin, Begin, TypeOK
  <2> QED
    BY <2>1 DEF Promise!Next
<1>2. ASSUME NEW r \in Req, StopAtDeadline(r) PROVE [Promise!Next]_(Promise!vars)
  <2>1. Promise!End(r)
    BY <1>2, <1>0 DEF Promise!End, StopAtDeadline, Answer, TypeOK, request
  <2> QED
    BY <2>1 DEF Promise!Next
<1>3. ASSUME NEW r \in Req, GiveUp(r) PROVE [Promise!Next]_(Promise!vars)
  <2>1. Promise!End(r)
    BY <1>3, <1>0 DEF Promise!End, GiveUp, Answer, TypeOK, request
  <2> QED
    BY <2>1 DEF Promise!Next
<1>4. ASSUME NEW r \in Req, NEW c \in Conn, Select(r, c) PROVE [Promise!Next]_(Promise!vars)
  <2>1. c \notin excluded[r] /\ pc[r] = "gate" /\ attempts[r] \in Nat
    BY <1>4, <1>0 DEF Select, Available, TypeOK
  <2>2. Charged(r) = excluded[r]
    <3>1. CASE attempts[r] = 0
      <4>1. IsFiniteSet(excluded[r]) /\ Cardinality(excluded[r]) = 0
        BY <2>1, <3>1, <1>0 DEF LoopInv
      <4>2. excluded[r] = {}
        BY <4>1, FS_EmptySet
      <4> QED
        BY <3>1, <4>2
    <3>2. CASE attempts[r] # 0
      <4>1. conn[r] \in excluded[r]
        BY <3>2, <2>1, <1>g
      <4> QED
        BY <3>2, <4>1
    <3> QED
      BY <3>1, <3>2
  <2>3. Charged(r)' = excluded[r] \cup {c}
    BY <1>4, <1>0, <2>1 DEF Select, TypeOK
  <2>4. \A q \in Req \ {r} : Charged(q)' = Charged(q)
    BY <1>4, <1>0 DEF Select, TypeOK
  <2>5. \A q \in Req : Stage(q)' = Stage(q)
    BY <1>4, <1>0 DEF Select, TypeOK
  <2>6. attempts' = [attempts EXCEPT ![r] = @ + 1] /\ Stage(r) = "routing"
    BY <1>4, <2>1 DEF Select
  <2> HIDE DEF Stage, Charged
  <2>7. Promise!Try(r, c)
    BY <2>1, <2>2, <2>3, <2>4, <2>5, <2>6 DEF Promise!Try
  <2> QED
    BY <2>7 DEF Promise!Next
<1>5. ASSUME NEW r \in Req, PersistTokens(r) PROVE [Promise!Next]_(Promise!vars)
  BY <1>5, <1>0, StutterFrame DEF PersistTokens, TypeOK, request
<1>6. ASSUME NEW r \in Req, NEW p \in {"healing", "blocked"}, Respond(r, p) PROVE [Promise!Next]_(Promise!vars)
  BY <1>6, <1>0, StutterFrame DEF Respond, TypeOK, request
<1>7. ASSUME NEW r \in Req, NEW f \in Failures, Fail(r, f) PROVE [Promise!Next]_(Promise!vars)
  BY <1>7, <1>0, StutterFrame DEF Fail, TypeOK
<1>8. ASSUME NEW r \in Req, Heal(r) PROVE [Promise!Next]_(Promise!vars)
  <2>1. Promise!End(r)
    BY <1>8, <1>0 DEF Promise!End, Heal, Answer, TypeOK
  <2> QED
    BY <2>1 DEF Promise!Next
<1>9. ASSUME NEW r \in Req, NEW f \in Failures, HealThenFail(r, f) PROVE [Promise!Next]_(Promise!vars)
  BY <1>9, <1>0, StutterFrame DEF HealThenFail, TypeOK
<1>10. ASSUME NEW r \in Req, StopOnFailure(r) PROVE [Promise!Next]_(Promise!vars)
  <2>1. Promise!End(r)
    BY <1>10, <1>0 DEF Promise!End, StopOnFailure, Answer, TypeOK, request
  <2> QED
    BY <2>1 DEF Promise!Next
<1>11. ASSUME NEW r \in Req, ReadBackoff(r) PROVE [Promise!Next]_(Promise!vars)
  BY <1>11, <1>0, StutterFrame DEF ReadBackoff, TypeOK
<1>12. ASSUME NEW r \in Req, MarkAccountUnavailable(r) PROVE [Promise!Next]_(Promise!vars)
  <2>1. conn[r] \notin excluded[r] /\ pc[r] = "marking"
    BY <1>12, <1>0 DEF MarkAccountUnavailable, LoopInv, InFlight
  <2>2. pc' = [pc EXCEPT ![r] = "gate"] /\ excluded' = [excluded EXCEPT ![r] = @ \cup {conn[r]}]
    BY <1>12, <2>1 DEF MarkAccountUnavailable, Exclude
  <2>3. attempts' = attempts /\ conn' = conn
    BY <1>12 DEF MarkAccountUnavailable
  <2> QED
    BY <2>1, <2>2, <2>3, <1>0, StutterFrame DEF TypeOK
<1>13. ASSUME NEW r \in Req, Return(r) PROVE [Promise!Next]_(Promise!vars)
  <2>1. Promise!Return(r)
    BY <1>13, <1>0 DEF Promise!Return, Return, TypeOK
  <2> QED
    BY <2>1 DEF Promise!Next
<1>14. ASSUME NEW c \in Editable, NEW m \in LockKey, ClearCooldown(c, m) PROVE [Promise!Next]_(Promise!vars)
  BY <1>14, <1>0, StutterFrame DEF ClearCooldown, TypeOK, request
<1>15. ASSUME NEW c \in Editable, Toggle(c) PROVE [Promise!Next]_(Promise!vars)
  BY <1>15, <1>0, StutterFrame DEF Toggle, TypeOK, request
<1>16. CASE Tick
  BY <1>16, <1>0, StutterFrame DEF Tick, TypeOK
<1>17. CASE UNCHANGED vars
  BY <1>17, <1>0, StutterFrame DEF vars
<1> QED
  BY <1>1, <1>2, <1>3, <1>4, <1>5, <1>6, <1>7, <1>8, <1>9, <1>10, <1>11, <1>12, <1>13, <1>14, <1>15, <1>16, <1>17 DEF Next, Serve, Progress, Operator

-----------------------------------------------------------------------------
(* The theorems *)

\* The invariant of the loop holds in every reachable state.
THEOREM SpecIInv == Spec => []IInv
<1>1. IInv /\ [Next]_vars => IInv'
  BY StepTypeOK, StepLoopInv DEF IInv
<1> QED
  BY InitIInv, <1>1, PTL DEF Spec

\* Type correctness of rows, snapshots and loop state, for any number of
\* accounts, models and requests.
THEOREM TypeCorrect == Spec => []TypeOK
<1>1. IInv => TypeOK
  BY DEF IInv
<1> QED
  BY SpecIInv, <1>1, PTL

\* No request ever calls upstream twice with one account, for any number of
\* accounts and requests and any timing of the locks.
THEOREM NoRepeatedAttempt == Spec => []DistinctAttempts
  BY SpecIInv, LoopInvDistinct, PTL

\* A cooldown is never started or extended but by a user request's own failure
\* on that account for that model.
THEOREM LocksEarned == Spec => LocksAreEarned
<1>1. IInv /\ [Next]_vars => [EarnedLocks]_vars
  BY StepEarned
<1> QED
  BY SpecIInv, <1>1, PTL DEF Spec, LocksAreEarned

\* The safety half of ImplementsFailover: a request charges accounts one at a
\* time, never twice, and is answered after any number of them.
THEOREM LoopIsFailover == Spec => Promise!Init /\ [][Promise!Next]_(Promise!vars)
<1>1. IInv /\ [Next]_vars => [Promise!Next]_(Promise!vars)
  BY StepImplements
<1> QED
  BY SpecIInv, InitImplements, <1>1, PTL DEF Spec

-----------------------------------------------------------------------------
\* The step formula of NoEarlyGiveUp.
NotEarly ==
  \A r \in Req :
    /\ outcome[r] # "unavailable"
    /\ outcome'[r] = "unavailable"
    /\ attempts[r] < AttemptCap(r)
    => \A c \in Conn : \/ ~row[c].enabled
                       \/ c \in Charged(r)
                       \/ ActiveLocks(row[c]) \cap {model[r], AccountKey} # {}

\* Only GiveUp answers "unavailable".
LEMMA OnlyGiveUp ==
  ASSUME IInv, Next, NEW r \in Req, outcome[r] # "unavailable", outcome'[r] = "unavailable"
  PROVE  GiveUp(r)
<1>0. outcome \in [Req -> Outcome]
  BY DEF IInv, TypeOK
<1>1. ASSUME NEW q \in Req, StopAtDeadline(q) \/ StopOnFailure(q) \/ Heal(q) PROVE FALSE
  BY <1>0, <1>1 DEF StopAtDeadline, StopOnFailure, Heal, Answer
<1>2. ASSUME NEW q \in Req, NEW m \in Asked, NEW p \in Pins, Begin(q, m, p) PROVE FALSE
  BY <1>2 DEF Begin
<1>3. ASSUME NEW q \in Req, NEW c \in Conn, Select(q, c) PROVE FALSE
  BY <1>3 DEF Select
<1>4. ASSUME NEW q \in Req, NEW p \in {"healing", "blocked"}, Respond(q, p) PROVE FALSE
  BY <1>4 DEF Respond
<1>5. ASSUME NEW q \in Req, NEW f \in Failures, Fail(q, f) \/ HealThenFail(q, f) PROVE FALSE
  BY <1>5 DEF Fail, HealThenFail
<1>6. ASSUME NEW q \in Req, ReadBackoff(q) \/ PersistTokens(q) PROVE FALSE
  BY <1>6 DEF ReadBackoff, PersistTokens
<1>7. ASSUME NEW q \in Req, MarkAccountUnavailable(q) PROVE FALSE
  BY <1>0, <1>7 DEF MarkAccountUnavailable, Exclude, Answer
<1>8. ASSUME NEW q \in Req, Return(q) PROVE FALSE
  BY <1>0, <1>8 DEF Return
<1>9. ASSUME Operator \/ Tick PROVE FALSE
  BY <1>9 DEF Operator, Toggle, ClearCooldown, Tick
<1>10. PICK q \in Req : GiveUp(q)
  BY <1>1, <1>2, <1>3, <1>4, <1>5, <1>6, <1>7, <1>8, <1>9 DEF Next, Serve, Progress
<1>11. q = r
  BY <1>0, <1>10 DEF GiveUp, Answer
<1> QED
  BY <1>10, <1>11

LEMMA StepNotEarly == IInv /\ Next => NotEarly
<1> SUFFICES ASSUME IInv, Next, NEW r \in Req, outcome[r] # "unavailable", outcome'[r] = "unavailable",
                    attempts[r] < AttemptCap(r), NEW c \in Conn, row[c].enabled
             PROVE  c \in Charged(r) \/ ActiveLocks(row[c]) \cap {model[r], AccountKey} # {}
  BY DEF NotEarly
<1>0. TypeOK /\ LoopInv(r) /\ IsFiniteSet(excluded[r]) /\ attempts[r] \in Nat /\ AttemptCap(r) \in Nat
  BY EngineAssumption DEF IInv, LoopInv, TypeOK, AttemptCap
<1>1. pc[r] = "gate" /\ Available(r) = {}
  BY <1>0, OnlyGiveUp DEF GiveUp
<1>2. c \in excluded[r] \/ IsModelLockActive(row[c], model[r])
  BY <1>1 DEF Available
<1>3. CASE c \in excluded[r]
  <2>1. attempts[r] # 0
    BY <1>0, <1>1, <1>3, FS_EmptySet DEF LoopInv
  <2> QED
    BY <1>3, <2>1 DEF Charged
<1>4. CASE IsModelLockActive(row[c], model[r])
  BY <1>4 DEF IsModelLockActive, ConsultedKey, ActiveLocks
<1> QED
  BY <1>2, <1>3, <1>4

\* "unavailable" is never answered while an enabled account is left that this
\* request has not called and that is not cooling down for its model.
THEOREM GivesUpLast == Spec => NoEarlyGiveUp
<1>1. IInv /\ [Next]_vars => [NotEarly]_vars
  BY StepNotEarly
<1>2. Spec => [][NotEarly]_vars
  BY <1>1, SpecIInv, PTL DEF Spec
<1> QED
  BY <1>2 DEF NotEarly, NoEarlyGiveUp

-----------------------------------------------------------------------------
(* Healing: what a success does to its account, for every set of accounts,   *)
(* models and failures.                                                      *)
\* The fields of a row that a rewrite of its locks leaves alone.
SameState(new, old) ==
  /\ new.status = old.status
  /\ new.err = old.err
  /\ new.code = old.code
  /\ new.level = old.level

\* Pruning keeps everything but the dead lock fields.
LEMMA PruneFields ==
  ASSUME NEW rec \in Row
  PROVE  /\ PruneModelLocks(rec).keys = ActiveLocks(rec)
         /\ PruneModelLocks(rec).left = rec.left
         /\ ActiveLocks(PruneModelLocks(rec)) = ActiveLocks(rec)
         /\ SameState(PruneModelLocks(rec), rec)
<1>1. /\ PruneModelLocks(rec).keys = ActiveLocks(rec)
      /\ PruneModelLocks(rec).left = rec.left
      /\ SameState(PruneModelLocks(rec), rec)
  BY DEF PruneModelLocks, Relocked, SameState, Row
<1> QED BY <1>1 DEF ActiveLocks

\* Dropping lock fields leaves the other locks as they are.
LEMMA DropFields ==
  ASSUME NEW rec \in Row, NEW ks
  PROVE  /\ DropKeys(rec, ks).keys = rec.keys \ ks
         /\ \A k \in LockKey : DropKeys(rec, ks).left[k] = IF k \in ks THEN 0 ELSE rec.left[k]
         /\ ActiveLocks(DropKeys(rec, ks)) = ActiveLocks(rec) \ ks
         /\ SameState(DropKeys(rec, ks), rec)
<1>1. /\ DropKeys(rec, ks).keys = rec.keys \ ks
      /\ DropKeys(rec, ks).left = [k \in LockKey |-> IF k \in ks THEN 0 ELSE rec.left[k]]
      /\ SameState(DropKeys(rec, ks), rec)
  BY DEF DropKeys, Relocked, SameState, Row
<1>2. \A k \in LockKey : DropKeys(rec, ks).left[k] = IF k \in ks THEN 0 ELSE rec.left[k]
  BY <1>1
<1>3. rec.keys \subseteq LockKey
  BY DEF Row
<1> QED BY <1>1, <1>2, <1>3 DEF ActiveLocks

\* Resetting the error state leaves the locks alone.
LEMMA HealedFields ==
  ASSUME NEW rec \in Row
  PROVE  /\ Healed(rec).keys = rec.keys /\ Healed(rec).left = rec.left
         /\ Healed(rec).status = "active" /\ ~Healed(rec).err /\ ~Healed(rec).code
         /\ ActiveLocks(Healed(rec)) = ActiveLocks(rec)
<1>1. /\ Healed(rec).keys = rec.keys /\ Healed(rec).left = rec.left
      /\ Healed(rec).status = "active" /\ ~Healed(rec).err /\ ~Healed(rec).code
  BY DEF Healed, Row
<1> QED BY <1>1 DEF ActiveLocks

LEMMA UncodedFields ==
  ASSUME NEW rec \in Row
  PROVE  /\ Uncoded(rec).keys = rec.keys /\ Uncoded(rec).left = rec.left
         /\ Uncoded(rec).status = rec.status /\ Uncoded(rec).err = rec.err
         /\ Uncoded(rec).level = rec.level /\ ~Uncoded(rec).code
         /\ ActiveLocks(Uncoded(rec)) = ActiveLocks(rec)
<1>1. /\ Uncoded(rec).keys = rec.keys /\ Uncoded(rec).left = rec.left
      /\ Uncoded(rec).status = rec.status /\ Uncoded(rec).err = rec.err
      /\ Uncoded(rec).level = rec.level /\ ~Uncoded(rec).code
  BY DEF Uncoded, Row
<1> QED BY <1>1 DEF ActiveLocks

-----------------------------------------------------------------------------
\* What HealIsExact demands of the row a success for m leaves of rec.
Exact(new, rec, m) ==
  /\ ~IsModelLockActive(new, m)
  /\ \A k \in Model \ {m} : new.left[k] = rec.left[k]
  /\ IF ActiveLocks(new) = {}
     THEN new.status = "active" /\ ~new.err /\ ~new.code
     ELSE new.status = rec.status /\ new.level = rec.level

\* With no active lock for m, the locks of a row's rewrite that adds no lock
\* and lets no field be outlived are no obstacle to m either.
LEMMA StaysOpen ==
  ASSUME NEW rec \in Row, NEW new \in Row, NEW m \in LockKey,
         ActiveLocks(new) \subseteq ActiveLocks(rec) \ {m, AccountKey}
  PROVE  ~IsModelLockActive(new, m)
BY DEF IsModelLockActive, ConsultedKey, ActiveLocks

\* A row that was fit for m when it was selected, and is unchanged, is left
\* exactly as it should be.
LEMMA ClearedExactly ==
  ASSUME NEW rec \in Row, NEW m \in LockKey, ~IsModelLockActive(rec, m)
  PROVE  Exact(ClearedRow(rec, rec, m), rec, m)
<1> DEFINE ks == KeysToClear(rec, m)
           open == DropKeys(rec, ks)
<1>0. /\ rec.keys \subseteq LockKey /\ AccountKey \in LockKey /\ AccountKey \notin Model
      /\ rec.left \in [LockKey -> Nat] /\ rec.status \in Status
  BY PoolAssumption DEF Row, LockKey
<1>1. CASE NothingToClear(rec, m) /\ ~rec.code
  <2>1. ClearedRow(rec, rec, m) = rec /\ rec.status = "active" /\ ~rec.err
    BY <1>0, <1>1 DEF ClearedRow, NothingToClear, Status
  <2> QED BY <1>1, <2>1 DEF Exact
<1>2. CASE NothingToClear(rec, m) /\ rec.code
  <2> DEFINE new == PruneModelLocks(Uncoded(rec))
  <2>1. ClearedRow(rec, rec, m) = new /\ rec.status = "active" /\ ~rec.err
    BY <1>0, <1>2 DEF ClearedRow, NothingToClear, Status
  <2>2. Uncoded(rec) \in Row
    BY StatusType, HealthyFields
  <2>3. /\ new.keys = ActiveLocks(rec) /\ new.left = rec.left /\ ActiveLocks(new) = ActiveLocks(rec)
        /\ new.status = rec.status /\ new.err = rec.err /\ new.level = rec.level /\ ~new.code
    BY <2>2, UncodedFields, PruneFields DEF SameState
  <2>4. Expired(rec) = {}
    BY <1>2 DEF NothingToClear, KeysToClear
  <2>5. rec.keys = ActiveLocks(rec)
    BY <1>0, <2>4 DEF Expired, ActiveLocks
  <2>6. ~IsModelLockActive(new, m)
    BY <2>3, <2>5 DEF IsModelLockActive, ConsultedKey
  <2> QED BY <2>1, <2>3, <2>6 DEF Exact
<1>3. CASE ~NothingToClear(rec, m)
  <2>1. open \in Row /\ Healed(open) \in Row
    BY DropType, StatusType, HealthyFields
  <2>2. /\ \A k \in LockKey : open.left[k] = IF k \in ks THEN 0 ELSE rec.left[k]
        /\ ActiveLocks(open) = ActiveLocks(rec) \ ks
        /\ SameState(open, rec)
    BY DropFields
  <2>3. \A k \in Model \ {m} : open.left[k] = rec.left[k]
    <3>1. \A k \in Model \ {m} : k \in ks => rec.left[k] = 0
      BY <1>0 DEF KeysToClear, Expired
    <3> QED BY <2>2, <3>1 DEF LockKey
  <2>4. m \notin ActiveLocks(rec) \ ks /\ AccountKey \notin ActiveLocks(rec) \ ks
    BY <1>0 DEF KeysToClear, ActiveLocks, IsModelLockActive, ConsultedKey
  <2>5. CASE ActiveLocks(rec) \subseteq ks
    <3> DEFINE new == PruneModelLocks(Healed(open))
    <3>1. ClearedRow(rec, rec, m) = new
      BY <1>3, <2>5 DEF ClearedRow
    <3>2. /\ new.left = open.left /\ ActiveLocks(new) = ActiveLocks(open)
          /\ new.status = "active" /\ ~new.err /\ ~new.code
      BY <2>1, HealedFields, PruneFields DEF SameState
    <3>3. new \in Row /\ ActiveLocks(new) = {}
      BY <2>1, <2>2, <2>5, <3>2, PruneType
    <3>4. ~IsModelLockActive(new, m)
      BY <3>3, StaysOpen
    <3> HIDE DEF new
    <3> QED BY <2>3, <3>1, <3>2, <3>3, <3>4 DEF Exact
  <2>6. CASE ~(ActiveLocks(rec) \subseteq ks)
    <3> DEFINE new == PruneModelLocks(open)
    <3>1. ClearedRow(rec, rec, m) = new
      BY <1>3, <2>6 DEF ClearedRow
    <3>2. /\ new.left = open.left /\ ActiveLocks(new) = ActiveLocks(rec) \ ks
          /\ new.status = rec.status /\ new.level = rec.level
      BY <2>1, <2>2, PruneFields DEF SameState
    <3>3. new \in Row
      BY <2>1, PruneType
    <3>4. ActiveLocks(new) # {}
      BY <2>6, <3>2
    <3>5. ~IsModelLockActive(new, m)
      BY <2>4, <3>2, <3>3, StaysOpen
    <3> HIDE DEF new
    <3> QED BY <2>3, <3>1, <3>2, <3>4, <3>5 DEF Exact
  <2> QED BY <2>5, <2>6
<1> QED BY <1>1, <1>2, <1>3

-----------------------------------------------------------------------------
\* The snapshot a request works with was fit when the account was selected, and
\* time only takes locks away from it.
Fit(r) == pc[r] \in {"upstream", "healing", "blocked"} => ~IsModelLockActive(seen[r], model[r])

FitInv == \A r \in Req : Fit(r)

LEMMA FitFrame ==
  ASSUME NEW q \in Req, Fit(q), seen'[q] = seen[q], model'[q] = model[q],
         pc'[q] \in {"upstream", "healing", "blocked"} => pc[q] \in {"upstream", "healing", "blocked"}
  PROVE  Fit(q)'
BY DEF Fit, IsModelLockActive, ConsultedKey

\* A lock that is not active does not become so with time.
LEMMA AgedFit ==
  ASSUME NEW rec \in Row, NEW m \in LockKey, ~IsModelLockActive(rec, m)
  PROVE  ~IsModelLockActive(Aged(rec), m)
<1>1. Aged(rec).keys = rec.keys
  BY DEF Aged, Relocked, Row
<1>2. Aged(rec).left = [k \in LockKey |-> IF rec.left[k] > 0 THEN rec.left[k] - 1 ELSE 0]
  BY DEF Aged, Relocked, Row
<1>3. ConsultedKey(rec, m) \in LockKey /\ ConsultedKey(Aged(rec), m) = ConsultedKey(rec, m)
  BY <1>1 DEF ConsultedKey, LockKey
<1>4. rec.left \in [LockKey -> Nat]
  BY DEF Row
<1> QED BY <1>1, <1>2, <1>3, <1>4 DEF IsModelLockActive

LEMMA StepFit == IInv /\ FitInv /\ [Next]_vars => FitInv'
<1> SUFFICES ASSUME IInv, FitInv, [Next]_vars, NEW q \in Req PROVE Fit(q)'
  BY DEF FitInv
<1>0. /\ TypeOK /\ Fit(q)
      /\ pc \in [Req -> Phase] /\ model \in [Req -> LockKey] /\ seen \in [Req -> Row]
  BY DEF IInv, TypeOK, FitInv
<1>1. ASSUME NEW r \in Req, NEW m \in Asked, NEW p \in Pins, Begin(r, m, p) PROVE Fit(q)'
  <2>1. CASE r = q
    BY <1>0, <1>1, <2>1 DEF Begin, Fit
  <2>2. CASE r # q
    BY <1>0, <1>1, <2>2, FitFrame DEF Begin
  <2> QED BY <2>1, <2>2
<1>2. ASSUME NEW r \in Req, StopAtDeadline(r) \/ GiveUp(r) \/ StopOnFailure(r) PROVE Fit(q)'
  <2>1. /\ seen' = seen /\ model' = model
        /\ pc' = [pc EXCEPT ![r] = "done"]
    BY <1>2 DEF StopAtDeadline, GiveUp, StopOnFailure, Answer, request
  <2> QED BY <1>0, <2>1, FitFrame
<1>3. ASSUME NEW r \in Req, NEW c \in Conn, Select(r, c) PROVE Fit(q)'
  <2>1. CASE r = q
    <3>1. seen'[q] = row[c] /\ model' = model /\ ~IsModelLockActive(row[c], model[q])
      BY <1>0, <1>3, <2>1 DEF Select, Available
    <3> QED BY <3>1 DEF Fit, IsModelLockActive, ConsultedKey
  <2>2. CASE r # q
    BY <1>0, <1>3, <2>2, FitFrame DEF Select
  <2> QED BY <2>1, <2>2
<1>4. ASSUME NEW r \in Req, PersistTokens(r) PROVE Fit(q)'
  BY <1>0, <1>4, FitFrame DEF PersistTokens, request
<1>5. ASSUME NEW r \in Req, NEW p \in {"healing", "blocked"}, Respond(r, p) PROVE Fit(q)'
  <2>1. seen' = seen /\ model' = model /\ pc[r] = "upstream" /\ pc' = [pc EXCEPT ![r] = p]
    BY <1>5 DEF Respond, request
  <2> QED BY <1>0, <2>1, FitFrame
<1>6. ASSUME NEW r \in Req, NEW f \in Failures, Fail(r, f) \/ HealThenFail(r, f) PROVE Fit(q)'
  <2>1. /\ seen' = [seen EXCEPT ![r] = FreshRow] /\ model' = model
        /\ pc' = [pc EXCEPT ![r] = "failed"]
    BY <1>6 DEF Fail, HealThenFail, DropSeen
  <2>2. CASE r = q
    BY <1>0, <2>1, <2>2 DEF Fit
  <2>3. CASE r # q
    BY <1>0, <2>1, <2>3, FitFrame
  <2> QED BY <2>2, <2>3
<1>7. ASSUME NEW r \in Req, Heal(r) PROVE Fit(q)'
  <2>1. /\ seen' = [seen EXCEPT ![r] = FreshRow] /\ model' = model
        /\ pc' = [pc EXCEPT ![r] = "done"]
    BY <1>7 DEF Heal, Answer, DropSeen
  <2>2. CASE r = q
    BY <1>0, <2>1, <2>2 DEF Fit
  <2>3. CASE r # q
    BY <1>0, <2>1, <2>3, FitFrame
  <2> QED BY <2>2, <2>3
<1>8. ASSUME NEW r \in Req, ReadBackoff(r) PROVE Fit(q)'
  BY <1>0, <1>8, FitFrame DEF ReadBackoff
<1>9. ASSUME NEW r \in Req, MarkAccountUnavailable(r) PROVE Fit(q)'
  BY <1>0, <1>9, FitFrame DEF MarkAccountUnavailable, Exclude, Answer
<1>10. ASSUME NEW r \in Req, Return(r) PROVE Fit(q)'
  <2>1. CASE r = q
    BY <1>0, <1>10, <2>1 DEF Return, Fit
  <2>2. CASE r # q
    BY <1>0, <1>10, <2>2, FitFrame DEF Return
  <2> QED BY <2>1, <2>2
<1>11. ASSUME Operator PROVE Fit(q)'
  BY <1>0, <1>11, FitFrame DEF Operator, Toggle, ClearCooldown, request
<1>12. CASE Tick
  <2>1. seen'[q] = Aged(seen[q]) /\ model' = model /\ pc' = pc
    BY <1>12 DEF Tick
  <2>2. CASE pc[q] \in {"upstream", "healing", "blocked"}
    <3>1. ~IsModelLockActive(seen[q], model[q])
      BY <1>0, <2>2 DEF Fit
    <3>2. ~IsModelLockActive(Aged(seen[q]), model[q])
      BY <1>0, <3>1, AgedFit
    <3> QED BY <2>1, <3>2 DEF Fit, IsModelLockActive, ConsultedKey
  <2>3. CASE pc[q] \notin {"upstream", "healing", "blocked"}
    BY <2>1, <2>3 DEF Fit
  <2> QED BY <2>2, <2>3
<1>13. CASE UNCHANGED vars
  BY <1>0, <1>13, FitFrame DEF vars
<1> QED
  BY <1>1, <1>2, <1>3, <1>4, <1>5, <1>6, <1>7, <1>8, <1>9, <1>10, <1>11, <1>12, <1>13
  DEF Next, Serve, Progress

\* Only the success itself ends the healing of a request.
LEMMA OnlyHealsHeal ==
  ASSUME IInv, Next, NEW r \in Req, pc[r] \in {"healing", "blocked"}, pc'[r] # pc[r]
  PROVE  ClearAccountError(r)
<1>0. pc \in [Req -> Phase]
  BY DEF IInv, TypeOK
<1>1. ASSUME NEW q \in Req, q # r, pc'[r] = pc[r] PROVE FALSE
  BY <1>1
<1>2. ASSUME NEW q \in Req, StopAtDeadline(q) \/ GiveUp(q) \/ StopOnFailure(q) PROVE FALSE
  BY <1>0, <1>2 DEF StopAtDeadline, GiveUp, StopOnFailure, Answer
<1>3. ASSUME NEW q \in Req, NEW m \in Asked, NEW p \in Pins, Begin(q, m, p) PROVE FALSE
  BY <1>0, <1>3 DEF Begin
<1>4. ASSUME NEW q \in Req, NEW c \in Conn, Select(q, c) PROVE FALSE
  BY <1>0, <1>4 DEF Select
<1>5. ASSUME NEW q \in Req, NEW p \in {"healing", "blocked"}, Respond(q, p) PROVE FALSE
  BY <1>0, <1>5 DEF Respond
<1>6. ASSUME NEW q \in Req, NEW f \in Failures, Fail(q, f) PROVE FALSE
  BY <1>0, <1>6 DEF Fail
<1>7. ASSUME NEW q \in Req, ReadBackoff(q) \/ Return(q) \/ PersistTokens(q) PROVE FALSE
  BY <1>0, <1>7 DEF ReadBackoff, Return, PersistTokens
<1>8. ASSUME NEW q \in Req, MarkAccountUnavailable(q) PROVE FALSE
  BY <1>0, <1>8 DEF MarkAccountUnavailable, Exclude, Answer
<1>9. ASSUME Operator \/ Tick PROVE FALSE
  BY <1>0, <1>9 DEF Operator, Toggle, ClearCooldown, Tick
<1>10. ASSUME NEW q \in Req, Heal(q) PROVE ClearAccountError(r)
  BY <1>0, <1>10 DEF Heal, Answer
<1>11. ASSUME NEW q \in Req, NEW f \in Failures, HealThenFail(q, f) PROVE ClearAccountError(r)
  BY <1>0, <1>11 DEF HealThenFail
<1> QED
  BY <1>2, <1>3, <1>4, <1>5, <1>6, <1>7, <1>8, <1>9, <1>10, <1>11 DEF Next, Serve, Progress

\* The step formula of HealIsExact.
HealsExactly ==
  \A r \in Req :
    LET c == conn[r] IN
    /\ pc[r] \in {"healing", "blocked"}
    /\ pc'[r] # pc[r]
    /\ row[c] = seen[r]
    => /\ ~IsModelLockActive(row'[c], model[r])
       /\ \A k \in Model \ {model[r]} : row'[c].left[k] = row[c].left[k]
       /\ IF ActiveLocks(row'[c]) = {}
          THEN row'[c].status = "active" /\ ~row'[c].err /\ ~row'[c].code
          ELSE row'[c].status = row[c].status /\ row'[c].level = row[c].level

LEMMA StepHeals == IInv /\ FitInv /\ Next => HealsExactly
<1> SUFFICES ASSUME IInv, FitInv, Next, NEW r \in Req,
                    pc[r] \in {"healing", "blocked"}, pc'[r] # pc[r], row[conn[r]] = seen[r]
             PROVE  Exact(row'[conn[r]], row[conn[r]], model[r])
  BY DEF HealsExactly, Exact
<1>1. /\ row \in [Conn -> Row] /\ seen[r] \in Row /\ model[r] \in LockKey /\ conn[r] \in Conn
  BY DEF IInv, TypeOK, LoopInv, InFlight
<1>2. row'[conn[r]] = ClearedRow(seen[r], seen[r], model[r])
  BY <1>1, OnlyHealsHeal DEF ClearAccountError
<1>3. ~IsModelLockActive(seen[r], model[r])
  BY DEF Fit, FitInv
<1> QED BY <1>1, <1>2, <1>3, ClearedExactly

\* A success on an account no other request touched meanwhile leaves it exactly
\* fit: selectable for that model, other models' locks kept, and the error state
\* reset exactly when no lock is left (clearAccountError).
THEOREM SuccessHealsExactly == Spec => HealIsExact
<1>1. Init => FitInv
  BY DEF Init, Fit, FitInv
<1>2. IInv /\ FitInv /\ [Next]_vars => [HealsExactly]_vars
  BY StepHeals
<1>3. Spec => [][HealsExactly]_vars
  BY <1>1, <1>2, StepFit, SpecIInv, PTL DEF Spec
<1> QED BY <1>3 DEF HealsExactly, HealIsExact
-----------------------------------------------------------------------------
(* The loop next to the health prober: its pings are requests like others, and *)
(* a ping that succeeded clears the account by the row the sweep had read.      *)

ProberTyped ==
  /\ targets \subseteq Target
  /\ probing \in Target \cup {NoTarget}

ProberInv == IInv /\ ProberTyped

\* A request may begin for any model and any account: also a ping's.
LEMMA BeginKeepsLoops ==
  ASSUME IInv, NEW r \in Req, NEW m \in LockKey, NEW p \in Conn, Begin(r, m, p)
  PROVE  IInv'
<1>0. TypeOK /\ \A q \in Req : LoopInv(q)
  BY DEF IInv
<1>1. TypeOK'
  BY <1>0 DEF Begin, TypeOK, Phase, Outcome
<1>2. LoopInv(r)'
  <2>1. LoopInv(r) /\ pc[r] = "idle" /\ pc'[r] = "gate"
    BY <1>0 DEF Begin, TypeOK
  <2>2. excluded' = excluded /\ attempts' = attempts /\ conn' = conn
    BY DEF Begin
  <2>3. excluded[r] = {} /\ attempts[r] = 0 /\ IsFiniteSet(excluded[r])
    BY <2>1 DEF LoopInv
  <2>4. Cardinality(excluded[r]) = 0
    BY <2>3, FS_EmptySet
  <2> QED BY <2>1, <2>2, <2>3, <2>4 DEF LoopInv, InFlight
<1>3. ASSUME NEW q \in Req, q # r PROVE LoopInv(q)'
  <2>1. pc'[q] = pc[q] /\ excluded'[q] = excluded[q] /\ attempts'[q] = attempts[q] /\ conn'[q] = conn[q]
    BY <1>0, <1>3 DEF Begin, TypeOK
  <2> QED BY <1>0, <2>1, LoopFrame
<1> QED BY <1>1, <1>2, <1>3 DEF IInv

\* The loops do not depend on the rows, as long as they are rows.
LEMMA RowsKeepLoops ==
  ASSUME IInv, row' \in [Conn -> Row], UNCHANGED <<pc, request, outcome>>
  PROVE  IInv'
<1>1. TypeOK'
  BY DEF IInv, TypeOK, request
<1>2. ASSUME NEW q \in Req PROVE LoopInv(q)'
  BY LoopFrame DEF IInv, request
<1> QED BY <1>1, <1>2 DEF IInv

LEMMA NextKeepsLoops == IInv /\ [Next]_vars => IInv'
BY StepTypeOK, StepLoopInv DEF IInv

LEMMA TargetFields ==
  ASSUME NEW t \in Target
  PROVE  /\ t.conn \in Conn /\ t.model \in Model /\ t.row \in Row
         /\ t \in [conn : Conn, model : Model, row : Row]
BY DEF Target

LEMMA ProberInitInv == ProberInit => ProberInv
BY InitIInv DEF ProberInit, ProberInv, ProberTyped

LEMMA AgedTargetType == ASSUME NEW t \in Target PROVE AgedTarget(t) \in Target
<1>1. Aged(t.row) \in Row
  BY TargetFields, AgedType
<1> QED BY <1>1, TargetFields DEF AgedTarget, Target

\* The requests the gateway serves for its clients and its pings.
LEMMA ServedIsNext == ServeStep => Next /\ UNCHANGED proberVars
BY DEF ServeStep, Advance, Next, Serve

LEMMA SettledRow ==
  ASSUME ProberInv, Settle
  PROVE  row' \in [Conn -> Row]
<1>1. probing \in Target /\ row \in [Conn -> Row]
  BY DEF Settle, ProberInv, ProberTyped, IInv, TypeOK
<1>2. probing.conn \in Conn
  BY <1>1, TargetFields
<1>3. ClearedRow(row[probing.conn], probing.row, probing.model) \in Row
  BY <1>1, <1>2, ClearedType
<1>4. \/ row' = [row EXCEPT ![probing.conn] = ClearedRow(@, probing.row, probing.model)]
      \/ row' = row
  BY DEF Settle
<1> QED BY <1>1, <1>2, <1>3, <1>4

LEMMA ProberStepInv == ProberInv /\ [ProberNext]_allVars => ProberInv'
<1> SUFFICES ASSUME ProberInv, [ProberNext]_allVars PROVE ProberInv'
  OBVIOUS
<1>0. IInv /\ ProberTyped
  BY DEF ProberInv
<1>1. CASE ServeStep
  <2>1. ProberTyped'
    BY <1>0, <1>1, ServedIsNext DEF ProberTyped, proberVars
  <2>2. IInv'
    BY <1>0, <1>1, ServedIsNext, NextKeepsLoops
  <2> QED BY <2>1, <2>2 DEF ProberInv
<1>2. CASE TickAll
  <2>1. IInv'
    BY <1>0, <1>2, NextKeepsLoops DEF TickAll, Next
  <2>2. targets' = {AgedTarget(t) : t \in targets}
        /\ probing' = IF probing = NoTarget THEN NoTarget ELSE AgedTarget(probing)
    BY <1>2 DEF TickAll
  <2>3. ProberTyped'
    BY <1>0, <2>2, AgedTargetType DEF ProberTyped
  <2> QED BY <2>1, <2>3 DEF ProberInv
<1>3. CASE Sweep
  <2>1. UNCHANGED vars /\ probing' = probing /\ targets' = DueTargets
    BY <1>3 DEF Sweep
  <2>2. IInv'
    BY <1>0, <2>1, NextKeepsLoops
  <2>3. {row[c] : c \in Conn} \subseteq Row
    BY <1>0 DEF IInv, TypeOK
  <2>4. ASSUME NEW t \in DueTargets PROVE t \in Target
    BY <2>3 DEF DueTargets, Target
  <2>5. ProberTyped'
    BY <1>0, <2>1, <2>4 DEF ProberTyped
  <2> QED BY <2>2, <2>5 DEF ProberInv
<1>4. CASE PingStep
  <2>1. PICK t \in targets : Ping(t)
    BY <1>4 DEF PingStep
  <2>2. t \in Target /\ t.conn \in Conn /\ t.model \in LockKey /\ ProbeSlot \in Req
    BY <1>0, TargetFields, ProberAssumption, EngineAssumption DEF ProberTyped, LockKey
  <2>3. IInv'
    BY <1>0, <2>1, <2>2, BeginKeepsLoops DEF Ping
  <2>4. ProberTyped'
    BY <1>0, <2>1, <2>2 DEF Ping, ProberTyped
  <2> QED BY <2>3, <2>4 DEF ProberInv
<1>5. CASE PingTimeout
  <2>1. UNCHANGED vars /\ targets' = targets /\ probing' = NoTarget
    BY <1>5 DEF PingTimeout
  <2>2. IInv'
    BY <1>0, <2>1, NextKeepsLoops
  <2> QED BY <1>0, <2>1, <2>2 DEF ProberInv, ProberTyped
<1>6. CASE Settle
  <2>1. IInv'
    BY <1>0, <1>6, SettledRow, RowsKeepLoops DEF Settle
  <2> QED BY <1>0, <1>6, <2>1 DEF ProberInv, ProberTyped, Settle
<1>7. CASE UNCHANGED allVars
  <2>1. UNCHANGED vars /\ UNCHANGED proberVars
    BY <1>7 DEF allVars
  <2>2. IInv'
    BY <1>0, <2>1, NextKeepsLoops
  <2> QED BY <1>0, <2>1, <2>2 DEF ProberInv, ProberTyped, proberVars
<1> QED BY <1>1, <1>2, <1>3, <1>4, <1>5, <1>6, <1>7 DEF ProberNext

\* What the writers of a row do to a lock that runs.
LEMMA PruneKeepsLocks ==
  ASSUME NEW rec \in Row
  PROVE  PruneModelLocks(rec).keys = ActiveLocks(rec)
BY DEF PruneModelLocks, Relocked, Row

LEMMA MarkKeepsLocks ==
  ASSUME NEW rec \in Row, NEW m \in LockKey, NEW f \in Failure, NEW lv \in 0..MaxLevel,
         CooldownOf(f, lv) > 0, NEW k \in ActiveLocks(rec)
  PROVE  k \in MarkedRow(rec, m, f, lv).keys
<1> DEFINE cd == CooldownOf(f, lv)
<1>1. cd \in Nat /\ cd > 0 /\ LevelAfter(f, lv) \in 0..MaxLevel
  BY FailureRange
<1> HIDE DEF cd
<1> DEFINE lf == [rec.left EXCEPT ![m] = cd]
           lc == SetLock(rec, m, cd)
<1>2. lf \in [LockKey -> Nat] /\ rec.keys \cup {m} \in SUBSET LockKey
  BY <1>1 DEF Row
<1>3. k \in rec.keys /\ k \in LockKey /\ lf[k] > 0
  BY <1>1 DEF ActiveLocks, Row
<1>4. lc = Relocked(rec, rec.keys \cup {m}, lf)
  BY DEF SetLock
<1> HIDE DEF lf
<1>5. lc \in Row /\ lc.left = lf /\ lc.keys = rec.keys \cup {m}
  <2>1. Relocked(rec, rec.keys \cup {m}, lf).keys = rec.keys \cup {m}
    BY DEF Relocked, Row
  <2> DEFINE ks == rec.keys \cup {m}
  <2>2. ks \in SUBSET LockKey
    BY <1>2
  <2> HIDE DEF ks
  <2>3. Relocked(rec, ks, lf) \in Row /\ Relocked(rec, ks, lf).left = lf
    BY <1>2, <2>2, RelockedType
  <2> QED BY <1>4, <2>1, <2>3 DEF ks
<1> HIDE DEF lc
<1> DEFINE bl == Blamed(lc, LevelAfter(f, lv))
<1>6. bl \in Row /\ bl.left = lf /\ bl.keys = lc.keys
  <2>1. bl.keys = lc.keys
    BY <1>5 DEF Blamed, Row
  <2> QED BY <1>1, <1>5, <2>1, StatusType
<1>7. MarkedRow(rec, m, f, lv) = PruneModelLocks(bl)
  BY DEF MarkedRow, lc, cd
<1> HIDE DEF bl
<1>8. k \in ActiveLocks(bl)
  BY <1>3, <1>5, <1>6 DEF ActiveLocks
<1> QED BY <1>6, <1>7, <1>8, PruneKeepsLocks

LEMMA ClearKeepsLocks ==
  ASSUME NEW rec \in Row, NEW old, NEW m, NEW k \in ActiveLocks(rec),
         k \notin KeysToClear(old, m)
  PROVE  k \in ClearedRow(rec, old, m).keys
<1> DEFINE gone == KeysToClear(old, m)
           open == DropKeys(rec, gone)
<1>0. k \in rec.keys /\ k \in LockKey /\ rec.left[k] > 0 /\ k \notin gone
  BY DEF ActiveLocks, Row
<1>1. open \in Row
  BY DropType
<1>2. open.keys = rec.keys \ gone /\ open.left[k] = rec.left[k]
  BY <1>0 DEF DropKeys, Relocked, Row
<1>3. ClearedRow(rec, old, m) \in {rec, PruneModelLocks(Uncoded(rec)),
                                   PruneModelLocks(open), PruneModelLocks(Healed(open))}
  BY DEF ClearedRow
<1> HIDE DEF open, gone
<1>4. k \in ActiveLocks(open)
  BY <1>0, <1>2 DEF ActiveLocks
<1>5. k \in PruneModelLocks(open).keys
  BY <1>1, <1>4, PruneKeepsLocks
<1>6. k \in PruneModelLocks(Healed(open)).keys
  <2>1. Healed(open) \in Row /\ Healed(open).left = open.left
    BY <1>1, StatusType, HealthyFields
  <2>2. Healed(open).keys = open.keys
    BY <1>1 DEF Healed, Row
  <2>3. k \in ActiveLocks(Healed(open))
    BY <1>4, <2>1, <2>2 DEF ActiveLocks
  <2> QED BY <2>1, <2>3, PruneKeepsLocks
<1>7. k \in PruneModelLocks(Uncoded(rec)).keys
  <2>1. Uncoded(rec) \in Row /\ Uncoded(rec).left = rec.left
    BY StatusType, HealthyFields
  <2>2. Uncoded(rec).keys = rec.keys
    BY DEF Uncoded, Row
  <2>3. k \in ActiveLocks(Uncoded(rec))
    BY <1>0, <2>1, <2>2 DEF ActiveLocks
  <2> QED BY <2>1, <2>3, PruneKeepsLocks
<1> QED BY <1>0, <1>3, <1>5, <1>6, <1>7

LEMMA AgeKeepsFields ==
  ASSUME NEW rec \in Row PROVE Aged(rec).keys = rec.keys
BY DEF Aged, Relocked, Row

\* A write to the row of one account leaves the other rows.
LEMMA OneRow ==
  ASSUME NEW c, NEW d \in Conn, NEW new, row \in [Conn -> Row], row' = [row EXCEPT ![c] = new]
  PROVE  row'[d] = IF d = c THEN new ELSE row[d]
OBVIOUS

LEMMA ServedUnlocks ==
  ASSUME ProberInv, ServeStep, NEW c \in Conn, NEW k \in Model,
         k \in ActiveLocks(row[c]), k \notin row'[c].keys
  PROVE  HealedByRequest(c, k) \/ VouchedFor(c, k)
<1>0. /\ row \in [Conn -> Row] /\ row[c] \in Row /\ k \in row[c].keys
      /\ \A r \in Req : model[r] \in LockKey /\ fault[r] \in Failure /\ level[r] \in 0..MaxLevel
  BY DEF ProberInv, IInv, TypeOK, ActiveLocks
<1>1. ASSUME NEW r \in Req, PersistTokens(r) PROVE FALSE
  <2>1. row' = [row EXCEPT ![conn[r]] = PruneModelLocks(row[conn[r]])]
    BY <1>1 DEF PersistTokens
  <2>2. row'[c] = IF c = conn[r] THEN PruneModelLocks(row[conn[r]]) ELSE row[c]
    BY <1>0, <2>1, OneRow
  <2> QED BY <1>0, <2>2, PruneKeepsLocks
<1>2. ASSUME NEW r \in Req, MarkAccountUnavailable(r) PROVE FALSE
  <2>1. row' = IF CooldownOf(fault[r], level[r]) > 0
               THEN [row EXCEPT ![conn[r]] = MarkedRow(row[conn[r]], model[r], fault[r], level[r])]
               ELSE row
    BY <1>2 DEF MarkAccountUnavailable
  <2>2. CooldownOf(fault[r], level[r]) > 0
    BY <1>0, <2>1
  <2>3. row'[c] = IF c = conn[r] THEN MarkedRow(row[conn[r]], model[r], fault[r], level[r]) ELSE row[c]
    BY <1>0, <2>1, <2>2, OneRow
  <2> QED BY <1>0, <2>2, <2>3, MarkKeepsLocks
<1>3. ASSUME NEW r \in Req, ClearAccountError(r), pc[r] \in {"healing", "blocked"}
      PROVE  HealedByRequest(c, k)
  <2>1. row' = [row EXCEPT ![conn[r]] = ClearedRow(row[conn[r]], seen[r], model[r])]
    BY <1>3 DEF ClearAccountError
  <2>2. row'[c] = IF c = conn[r] THEN ClearedRow(row[conn[r]], seen[r], model[r]) ELSE row[c]
    BY <1>0, <2>1, OneRow
  <2>3. conn[r] = c /\ k \in KeysToClear(seen[r], model[r])
    BY <1>0, <2>2, ClearKeepsLocks
  <2> QED BY <1>3, <2>3 DEF HealedByRequest
<1>4. ASSUME row' = row PROVE FALSE
  BY <1>0, <1>4
<1>5. ASSUME NEW r \in Req, Progress(r) PROVE HealedByRequest(c, k)
  BY <1>2, <1>3, <1>4, <1>5
     DEF Progress, StopAtDeadline, GiveUp, Select, Respond, Fail, HealThenFail, Heal, StopOnFailure,
         ReadBackoff, Return
<1>6. ASSUME NEW r \in Req, NEW m, NEW p, Begin(r, m, p) PROVE FALSE
  BY <1>4, <1>6 DEF Begin
<1> QED BY <1>1, <1>5, <1>6 DEF ServeStep, Advance

LEMMA StepUnlocks ==
  ASSUME ProberInv, [ProberNext]_allVars, NEW c \in Conn, NEW k \in Model,
         k \in ActiveLocks(row[c]), k \notin row'[c].keys
  PROVE  HealedByRequest(c, k) \/ VouchedFor(c, k)
<1>0. row \in [Conn -> Row] /\ row[c] \in Row /\ k \in row[c].keys
  BY DEF ProberInv, IInv, TypeOK, ActiveLocks
<1>1. ASSUME row' = row PROVE FALSE
  BY <1>0, <1>1
<1>2. CASE ServeStep
  BY <1>2, ServedUnlocks
<1>3. CASE TickAll
  <2>1. row'[c] = Aged(row[c])
    BY <1>3 DEF TickAll, Tick
  <2> QED BY <1>0, <2>1, AgeKeepsFields
<1>4. CASE PingStep \/ Sweep \/ PingTimeout \/ UNCHANGED allVars
  BY <1>1, <1>4 DEF PingStep, Ping, Begin, Sweep, PingTimeout, allVars, vars
<1>5. CASE Settle
  <2>1. /\ probing # NoTarget /\ outcome[ProbeSlot] = "ok"
        /\ row' = [row EXCEPT ![probing.conn] = ClearedRow(row[probing.conn], probing.row, probing.model)]
    BY <1>1, <1>5 DEF Settle
  <2>2. row'[c] = IF c = probing.conn THEN ClearedRow(row[probing.conn], probing.row, probing.model)
                  ELSE row[c]
    BY <1>0, <2>1, OneRow
  <2>3. c = probing.conn /\ k \in KeysToClear(probing.row, probing.model)
    BY <1>0, <2>2, ClearKeepsLocks
  <2>4. k # AccountKey
    BY PoolAssumption
  <2>5. k = probing.model \/ k \in Expired(probing.row)
    BY <2>3, <2>4 DEF KeysToClear
  <2> QED BY <2>1, <2>3, <2>5 DEF VouchedFor
<1> QED BY <1>2, <1>3, <1>4, <1>5 DEF ProberNext

\* clearAccountError and the health prober: however requests, pings that time
\* out and sweeps overlap, a lock that is lifted before its time is lifted by a
\* success of a request for that model on that account, or of the ping sent for
\* that very lock, whichever account answered it.
THEOREM UnlocksAlwaysFollowSuccess == ProberSpec => UnlocksFollowSuccess
<1>1. ASSUME ProberInv, [ProberNext]_allVars PROVE [EarlyUnlock]_allVars
  BY <1>1, StepUnlocks DEF EarlyUnlock, LiftedEarly
<1> QED BY <1>1, ProberInitInv, ProberStepInv, PTL DEF ProberSpec, UnlocksFollowSuccess

\* The promise of the loop holds next to the prober as well: no request, a ping
\* included, calls upstream twice with one account.
THEOREM NoRepeatedAttemptNextToProber == ProberSpec => []DistinctAttempts
<1>1. ProberInv => DistinctAttempts
  BY LoopInvDistinct DEF ProberInv
<1> QED BY <1>1, ProberInitInv, ProberStepInv, PTL DEF ProberSpec

=============================================================================
