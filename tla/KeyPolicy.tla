------------------------------- MODULE KeyPolicy -------------------------------
(***************************************************************************)
(* What a virtual key allows: handleChat validates the key, reads its       *)
(* record again, and checks expiry and allowlist, the month's spend and    *)
(* the request rate.  Record and spend come through caches of a few        *)
(* seconds; the dashboard's writes, and the write of lastUsedAt after an   *)
(* admission, clear both.  The spend is what the usage queue has written   *)
(* so far.                                                                 *)
(*                                                                         *)
(* There is one key, a usage event costs one unit, and requireApiKey is on. *)
(* Months are left out, and a deleted key is an inactive one.              *)
(***************************************************************************)
EXTENDS Naturals, FiniteSets, Sequences

CONSTANTS
  Req,       \* requests made with the key
  Records,   \* contents of the key's row: [active, allowed, expires]
  FirstRow,
  Budget, Rpm, Window, KeyTtl, SpendTtl,
  MaxNow     \* bound

ASSUME KeyAssumption ==
  /\ IsFiniteSet(Req) /\ FirstRow \in Records
  /\ Records \subseteq [active : BOOLEAN, allowed : BOOLEAN, expires : Nat]
  /\ {Budget, Rpm, Window, KeyTtl, SpendTtl} \subseteq Nat \ {0} /\ MaxNow \in Nat

VARIABLES
  now,
  row,         \* of the key, in the database
  spent,       \* sum of the costs in the usage table
  keyCache,    \* the record and when it expires (0: nothing cached)
  spendCache,  \* the sum and when it was asked for (Never: nothing cached)
  stamps,      \* windows: times of the last admissions
  req,         \* where each request is, what it holds
  touching,    \* an update of lastUsedAt is on its way
  changedAt,   \* history: time of the last change of the row
  reachedAt    \* history: when the recorded spend reached the budget (Never: not yet)

keyVars == <<now, row, spent, keyCache, spendCache, stamps, req, touching, changedAt, reachedAt>>

Never == MaxNow + 1
Nothing == [rec |-> FirstRow, exp |-> 0]
NoSpend == [sum |-> 0, at |-> Never]

\* A request validates the key, loads its record for the policy, asks for the
\* spend; askedAt is the time read before an await.
NewRequest == [at |-> "new", rec |-> FirstRow, start |-> 0, askedAt |-> 0, admittedAt |-> Never]

TypeOK ==
  /\ now \in 0..MaxNow
  /\ row \in Records /\ spent \in 0..Budget
  /\ keyCache \in [rec : Records, exp : 0..MaxNow + KeyTtl]
  /\ spendCache \in [sum : Nat, at : 0..Never]
  /\ stamps \in Seq(0..MaxNow) /\ Len(stamps) <= Rpm
  /\ req \in [Req -> [at : {"new", "validating", "valid", "loading", "loaded", "budget",
                            "admitted", "refused"},
                      rec : Records, start : 0..MaxNow, askedAt : 0..MaxNow,
                      admittedAt : 0..Never]]
  /\ touching \in BOOLEAN
  /\ {changedAt, reachedAt} \subseteq 0..Never

Init ==
  /\ now = 0 /\ row = FirstRow /\ spent = 0
  /\ keyCache = Nothing /\ spendCache = NoSpend /\ stamps = <<>>
  /\ req = [r \in Req |-> NewRequest]
  /\ touching = FALSE /\ changedAt = 0 /\ reachedAt = Never

Becomes(r, q) == req' = [req EXCEPT ![r] = q]
Refused == [NewRequest EXCEPT !.at = "refused"]

Tick ==
  /\ now < MaxNow /\ now' = now + 1
  /\ UNCHANGED <<row, spent, keyCache, spendCache, stamps, req, touching, changedAt, reachedAt>>

\* Mutant: the time to live runs from the end of the await.
CachedFromNow(r) == [rec |-> req[r].rec, exp |-> now + KeyTtl]

\* cachedKeyLookup after its await: the loaded record is cached, whatever was
\* written meanwhile, for KeyTtl from before the await.
Cached(r) == [rec |-> req[r].rec, exp |-> req[r].askedAt + KeyTtl]

\* Only the key of an active record is valid.
Judge(r, rec, start) ==
  Becomes(r, IF rec.active THEN [NewRequest EXCEPT !.at = "valid", !.rec = rec, !.start = start]
             ELSE Refused)

(* isValidApiKey *)
Validate(r) ==
  /\ req[r].at = "new"
  /\ IF keyCache.exp > now
     THEN Judge(r, keyCache.rec, now)
     ELSE Becomes(r, [req[r] EXCEPT !.at = "validating", !.rec = row, !.askedAt = now, !.start = now])
  /\ UNCHANGED <<now, row, spent, keyCache, spendCache, stamps, touching, changedAt, reachedAt>>

Validated(r) ==
  /\ req[r].at = "validating"
  /\ keyCache' = Cached(r)
  /\ Judge(r, req[r].rec, req[r].start)
  /\ UNCHANGED <<now, row, spent, spendCache, stamps, touching, changedAt, reachedAt>>

(* getApiKeyByKey *)
GetApiKeyByKey(r) ==
  /\ req[r].at = "valid"
  /\ IF keyCache.exp > now
     THEN Becomes(r, [req[r] EXCEPT !.at = "loaded", !.rec = keyCache.rec])
     ELSE Becomes(r, [req[r] EXCEPT !.at = "loading", !.rec = row, !.askedAt = now])
  /\ UNCHANGED <<now, row, spent, keyCache, spendCache, stamps, touching, changedAt, reachedAt>>

GotApiKey(r) ==
  /\ req[r].at = "loading"
  /\ keyCache' = Cached(r)
  /\ Becomes(r, [req[r] EXCEPT !.at = "loaded", !.askedAt = 0])
  /\ UNCHANGED <<now, row, spent, spendCache, stamps, touching, changedAt, reachedAt>>

PolicyOK(rec) == rec.allowed /\ rec.expires > now

\* consumeRateLimit: the stamps shifted off the front, up to one that counts.
Expired ==
  CHOOSE k \in 0..Len(stamps) :
    /\ \A i \in 1..k : stamps[i] + Window <= now
    /\ k < Len(stamps) => stamps[k + 1] + Window > now

\* What is left of the window.
InWindow == SubSeq(stamps, Expired + 1, Len(stamps))

\* Mutant: one request too many.
MayPassOneMore == Len(InWindow) <= Rpm

\* The window is not full.
MayPass == Len(InWindow) < Rpm

\* The request passes if the rate allows it.
Consume(r) ==
  IF MayPass
  THEN /\ stamps' = Append(InWindow, now)
       /\ Becomes(r, [req[r] EXCEPT !.at = "admitted", !.admittedAt = now, !.askedAt = 0])
       /\ touching' \in {touching, TRUE}  \* lastUsedAt is written once a minute
  ELSE /\ stamps' = InWindow
       /\ Becomes(r, Refused)
       /\ UNCHANGED touching

\* Mutant: the sum is read again only after something cleared the cache.
SpendKept == spendCache.at # Never

\* The cached sum is fresh.
SpendHit == spendCache.at # Never /\ now < spendCache.at + SpendTtl

(* Allowlist and expiry, then a cached spend; an inactive record is not the   *)
(* policy's business.                                                         *)
CheckPolicy(r) ==
  LET rec == req[r].rec
      governed == rec.active /\ PolicyOK(rec)
  IN /\ req[r].at = "loaded"
     /\ \/ /\ ~rec.active
           /\ Becomes(r, [req[r] EXCEPT !.at = "admitted"]) /\ UNCHANGED <<stamps, touching>>
        \/ /\ \/ rec.active /\ ~PolicyOK(rec)
              \/ governed /\ SpendHit /\ spendCache.sum >= Budget
           /\ Becomes(r, Refused) /\ UNCHANGED <<stamps, touching>>
        \/ governed /\ SpendHit /\ spendCache.sum < Budget /\ Consume(r)
        \/ /\ governed /\ ~SpendHit
           /\ Becomes(r, [req[r] EXCEPT !.at = "budget", !.askedAt = now]) /\ UNCHANGED <<stamps, touching>>
     /\ UNCHANGED <<now, row, spent, keyCache, spendCache, changedAt, reachedAt>>

(* getKeyMonthlySpendUsd after its awaits. *)
CheckBudget(r) ==
  /\ req[r].at = "budget"
  /\ spendCache' = [sum |-> spent, at |-> req[r].askedAt]
  /\ IF spent >= Budget
     THEN Becomes(r, Refused) /\ UNCHANGED <<stamps, touching>>
     ELSE Consume(r)
  /\ UNCHANGED <<now, row, spent, keyCache, changedAt, reachedAt>>

(* The database fails: the request is refused. *)
PolicyFails(r) ==
  /\ req[r].at \in {"validating", "loading", "budget"}
  /\ Becomes(r, Refused)
  /\ UNCHANGED <<now, row, spent, keyCache, spendCache, stamps, touching, changedAt, reachedAt>>

\* invalidateApiKeysCache
Invalidated == keyCache' = Nothing /\ spendCache' = NoSpend

(* updateApiKey from the dashboard. *)
UpdateApiKey(rec) ==
  /\ rec # row
  /\ row' = rec
  /\ Invalidated
  /\ changedAt' = now
  /\ UNCHANGED <<now, spent, stamps, req, touching, reachedAt>>

(* updateApiKey with the time of the last use; the rest of the row is read    *)
(* and written in the same transaction.                                       *)
Touch ==
  /\ touching /\ touching' = FALSE
  /\ Invalidated
  /\ UNCHANGED <<now, row, spent, stamps, req, changedAt, reachedAt>>

(* The usage queue writes an event of the key. *)
UsageIsRecorded ==
  /\ spent < Budget /\ spent' = spent + 1
  /\ reachedAt' = IF spent' = Budget THEN now ELSE reachedAt
  /\ UNCHANGED <<now, row, keyCache, spendCache, stamps, req, touching, changedAt>>

(* Caches, windows and the requests go with the process. *)
ProcessEnds ==
  /\ Invalidated /\ stamps' = <<>>
  /\ req' = [r \in Req |-> IF req[r].at = "new" THEN req[r] ELSE Refused]
  /\ touching' = FALSE
  /\ UNCHANGED <<now, row, spent, changedAt, reachedAt>>

Next ==
  \/ \E r \in Req :
       \/ Validate(r) \/ Validated(r) \/ GetApiKeyByKey(r) \/ GotApiKey(r)
       \/ CheckPolicy(r) \/ CheckBudget(r) \/ PolicyFails(r)
  \/ \E rec \in Records : UpdateApiKey(rec)
  \/ Touch \/ Tick \/ UsageIsRecorded \/ ProcessEnds

Spec == Init /\ [][Next]_keyVars

-----------------------------------------------------------------------------
(* A change of the key made KeyTtl before a request begins is what judges it, *)
(* even if an older record was being loaded when the cache was cleared.       *)
KeyChangesBite ==
  \A r \in Req :
    /\ req[r].at \in {"valid", "loaded", "budget", "admitted"}
    /\ req[r].start >= changedAt + KeyTtl
    => req[r].rec = row

(* No request that begins SpendTtl after the recorded spend reached the       *)
(* budget is admitted under the key's policy.                                 *)
BudgetBites ==
  \A r \in Req :
    req[r].at = "admitted" /\ req[r].rec.active => req[r].start < reachedAt + SpendTtl

(* What the policy says reaches the requests once the caches have aged.       *)
PolicyBites == KeyChangesBite /\ BudgetBites

(* No Window of time sees more than Rpm admissions under the key's policy,    *)
(* however the requests interleave.                                           *)
RateIsCapped ==
  \A t \in 0..MaxNow :
    Cardinality({r \in Req : req[r].admittedAt \in t..(t + Window - 1) \ {Never}}) <= Rpm
===============================================================================
