----------------------------- MODULE TokenRefresh -----------------------------
(***************************************************************************)
(* Refreshing the OAuth grant of one account.  Three kinds of callers meet:*)
(* the proactive refresh before a request (and its background twin), the   *)
(* reactive one after a 401/403, and the dashboard's usage page with the   *)
(* jobs that borrow its function.  Two maps keep them from spending a      *)
(* rotating refresh token twice: a lock per connection whose joiners share *)
(* the pending promise, and a memo keyed by the old token whose successes  *)
(* live for a short while.                                                 *)
(*                                                                         *)
(* Neither map is used by everybody.  The usage page takes no lock, and    *)
(* the executors of antigravity and workbuddy (Direct) call the token      *)
(* endpoint themselves, past the memo; only the proactive refresh of their *)
(* accounts, which does not go through the executor, uses it.              *)
(*                                                                         *)
(* Refresh tokens are numbered in the order the provider issues them.  A   *)
(* step is a macrotask: an upstream answer, with everything the promises   *)
(* it settles go on to do, is one step.                                    *)
(***************************************************************************)
EXTENDS Integers, FiniteSets

CONSTANTS
  Job,          \* slots for concurrent refreshes
  MaxToken,     \* tokens issued before the provider stops rotating
  TTL,          \* REFRESH_RESULT_TTL_MS in ticks
  MaxTries,     \* maxRetries of refreshWithRetry
  Executor,     \* the executors the account's provider may have
  SelfLocking,  \* those whose refreshCredentials takes the lock itself
  Direct,       \* those whose refreshCredentials does not use the memo
  NoJob,        \* the lock is free
  Absent,       \* no memo entry
  Pending,      \* a memo entry with a promise in flight
  Null,         \* a refresh that failed, for now
  Denied        \* invalid_grant

ASSUME RefreshAssumption ==
  /\ NoJob \notin Job
  /\ MaxToken \in Nat
  /\ TTL \in Nat \ {0}
  /\ MaxTries \in Nat \ {0}
  /\ Executor # {} /\ SelfLocking \subseteq Executor
  /\ Direct \subseteq Executor \ SelfLocking
  /\ Absent \notin {Pending, Null, Denied} /\ Pending \notin {Null, Denied} /\ Null # Denied
  /\ \A t \in 0..MaxToken : t \notin {Absent, Pending, Null, Denied}

VARIABLES
  executor, \* the provider's executor
  stored,  \* the token in the connection's row
  issued,  \* the newest token the provider has issued
  memo,    \* refreshDedupCache: what is kept for each old token
  ttl,     \* ticks until a kept result expires
  lock,    \* the job whose promise refreshLocks holds
  pc,      \* where each job is
  kind,    \* who asks
  token,   \* the token in the credentials it was given
  tries,   \* attempts of refreshWithRetry
  spent    \* for each token, ticks since it was rotated, -1 if it was not

vars == <<executor, stored, issued, memo, ttl, lock, pc, kind, token, tries, spent>>

Token == 0..MaxToken
Kind == {"proactive", "background", "reactive", "dashboard"}
Phase == {"idle", "armed", "attempt", "calling", "direct", "sharing", "joined"}

TypeOK ==
  /\ executor \in Executor
  /\ stored \in Token
  /\ issued \in Token
  /\ memo \in [Token -> Token \cup {Absent, Pending, Null, Denied}]
  /\ ttl \in [Token -> 0..TTL]
  /\ lock \in Job \cup {NoJob}
  /\ pc \in [Job -> Phase]
  /\ kind \in [Job -> Kind]
  /\ token \in [Job -> Token]
  /\ tries \in [Job -> 0..MaxTries-1]
  /\ spent \in [Token -> -1..TTL]

Init ==
  /\ executor \in Executor
  /\ stored = 0 /\ issued = 0
  /\ memo = [t \in Token |-> Absent]
  /\ ttl = [t \in Token |-> 0]
  /\ lock = NoJob
  /\ pc = [j \in Job |-> "idle"]
  /\ kind = [j \in Job |-> "proactive"]
  /\ token = [j \in Job |-> 0]
  /\ tries = [j \in Job |-> 0]
  /\ spent = [t \in Token |-> -1]

-----------------------------------------------------------------------------
(* A caller copies the row into its credentials; a request may hold on to   *)
(* them for as long as its upstream call takes to answer 401.               *)
Arm(j, k) ==
  /\ pc[j] = "idle"
  /\ k = "background" => \A i \in Job : pc[i] = "idle" \/ kind[i] # "background"
  /\ pc' = [pc EXCEPT ![j] = "armed"]
  /\ kind' = [kind EXCEPT ![j] = k]
  /\ token' = [token EXCEPT ![j] = stored]
  /\ UNCHANGED <<executor, stored, issued, memo, ttl, lock, tries, spent>>

Nested == executor \in SelfLocking

\* The usage page calls the executor without asking for the lock.
TakesLock(j) == kind[j] # "dashboard" \/ Nested

\* Mutant: the lock is taken over instead of joined.
AskAnyhow(j) ==
  /\ pc[j] = "armed"
  /\ pc' = [pc EXCEPT ![j] = "attempt"]
  /\ lock' = IF TakesLock(j) THEN j ELSE lock
  /\ UNCHANGED <<executor, stored, issued, memo, ttl, kind, token, tries, spent>>

(* withCredentialRefreshLock: join the pending refresh or become it. *)
Ask(j) ==
  /\ pc[j] = "armed"
  /\ IF TakesLock(j) /\ lock # NoJob
     THEN /\ pc' = [pc EXCEPT ![j] = "joined"]
          /\ UNCHANGED lock
     ELSE /\ pc' = [pc EXCEPT ![j] = "attempt"]
          /\ lock' = IF TakesLock(j) THEN j ELSE lock
  /\ UNCHANGED <<executor, stored, issued, memo, ttl, kind, token, tries, spent>>

(* The executor of a reactive refresh joins the lock its caller holds. *)
Rejoin(j) ==
  /\ pc[j] = "attempt"
  /\ kind[j] = "reactive" /\ Nested
  /\ pc' = [pc EXCEPT ![j] = "joined"]
  /\ UNCHANGED <<executor, stored, issued, memo, ttl, lock, kind, token, tries, spent>>

\* The proactive refresh picks the provider's refresher itself
\* (refreshTokenByProvider); the others ask the executor.
PassesMemo(j) == executor \in Direct /\ kind[j] \in {"reactive", "dashboard"}

ReachesMemo(j) == pc[j] = "attempt" /\ ~(kind[j] = "reactive" /\ Nested) /\ ~PassesMemo(j)

(* An executor without the memo: call the token endpoint. *)
CallDirectly(j) ==
  /\ pc[j] = "attempt" /\ PassesMemo(j)
  /\ pc' = [pc EXCEPT ![j] = "direct"]
  /\ UNCHANGED <<executor, stored, issued, memo, ttl, lock, kind, token, tries, spent>>

\* Mutant: a promise in flight is not shared.
UnsharedCall(j) ==
  /\ ReachesMemo(j)
  /\ memo[token[j]] \in {Absent, Pending}
  /\ memo' = [memo EXCEPT ![token[j]] = Pending]
  /\ pc' = [pc EXCEPT ![j] = "calling"]
  /\ UNCHANGED <<executor, stored, issued, ttl, lock, kind, token, tries, spent>>

(* dedupRefresh without an entry: call the token endpoint. *)
Call(j) ==
  /\ ReachesMemo(j)
  /\ memo[token[j]] = Absent
  /\ memo' = [memo EXCEPT ![token[j]] = Pending]
  /\ pc' = [pc EXCEPT ![j] = "calling"]
  /\ UNCHANGED <<executor, stored, issued, ttl, lock, kind, token, tries, spent>>

(* dedupRefresh with a promise in flight: await it. *)
Share(j) ==
  /\ ReachesMemo(j)
  /\ memo[token[j]] = Pending
  /\ pc' = [pc EXCEPT ![j] = "sharing"]
  /\ UNCHANGED <<executor, stored, issued, memo, ttl, lock, kind, token, tries, spent>>

-----------------------------------------------------------------------------
\* refreshWithRetry goes again on null, MaxTries times in all.
Retrying(S, res) == {j \in S : kind[j] = "reactive" /\ res = Null /\ tries[j] + 1 < MaxTries}

\* Mutant: the lock is only given back by a refresh that succeeded.
FreedBySuccess(over, res) == lock \in over /\ res # Null

\* The promise of the lock settles with the job that holds it.
Frees(over, res) == lock \in over

(* The attempts of the jobs S are settled with res.  A job that is through    *)
(* frees the lock, and it and all that joined it persist the new token.       *)
Conclude(S, res) ==
  LET again == Retrying(S, res)
      freed == Frees(S \ again, res)
      ended == (S \ again) \cup (IF freed THEN {j \in Job : pc[j] = "joined"} ELSE {})
  IN  /\ pc' = [j \in Job |-> IF j \in again THEN "attempt" ELSE IF j \in ended THEN "idle" ELSE pc[j]]
      /\ tries' = [j \in Job |-> IF j \in again THEN tries[j] + 1 ELSE IF j \in ended THEN 0 ELSE tries[j]]
      /\ lock' = IF freed THEN NoJob ELSE lock
      /\ stored' = IF res \in Token THEN res ELSE stored

(* dedupRefresh with a settled entry. *)
Recall(j) ==
  /\ ReachesMemo(j)
  /\ memo[token[j]] \notin {Absent, Pending}
  /\ Conclude({j}, memo[token[j]])
  /\ UNCHANGED <<executor, issued, memo, ttl, kind, token, spent>>

\* The jobs that await the call of j.
Callers(j) == {j} \cup {i \in Job : pc[i] = "sharing" /\ token[i] = token[j]}

\* Mutant: a success is dropped from the memo as soon as it is known.
Forget(t, res) ==
  /\ memo' = [memo EXCEPT ![t] = Absent]
  /\ UNCHANGED ttl

\* What is kept of a settled call: a result for TTL, and after null the settled
\* promise itself, which no sweep removes.
Keep(t, res) ==
  /\ memo' = [memo EXCEPT ![t] = res]
  /\ ttl' = [ttl EXCEPT ![t] = IF res = Null THEN 0 ELSE TTL]

(* The token endpoint rotates the newest token and refuses any other. *)
Rotate(j) ==
  /\ pc[j] = "calling"
  /\ token[j] = issued /\ issued < MaxToken
  /\ issued' = issued + 1
  /\ spent' = [spent EXCEPT ![issued] = 0]
  /\ Keep(issued, issued + 1)
  /\ Conclude(Callers(j), issued + 1)
  /\ UNCHANGED <<executor, kind, token>>

Refuse(j) ==
  /\ pc[j] = "calling"
  /\ token[j] < issued
  /\ Keep(token[j], Denied)
  /\ Conclude(Callers(j), Denied)
  /\ UNCHANGED <<executor, issued, kind, token, spent>>

(* A transient failure: an error status is null, a network error may throw. *)
Falter(j) ==
  /\ pc[j] = "calling"
  /\ Keep(token[j], Null)
  /\ Conclude(Callers(j), Null)
  /\ UNCHANGED <<executor, issued, kind, token, spent>>

Throw(j) ==
  /\ pc[j] = "calling"
  /\ memo' = [memo EXCEPT ![token[j]] = Absent]
  /\ Conclude(Callers(j), Null)
  /\ UNCHANGED <<executor, issued, ttl, kind, token, spent>>

(* A direct call settles: nothing is kept, and any failure is null. *)
RotateDirectly(j) ==
  /\ pc[j] = "direct"
  /\ token[j] = issued /\ issued < MaxToken
  /\ issued' = issued + 1
  /\ spent' = [spent EXCEPT ![issued] = 0]
  /\ Conclude({j}, issued + 1)
  /\ UNCHANGED <<executor, memo, ttl, kind, token>>

FailDirectly(j) ==
  /\ pc[j] = "direct"
  /\ Conclude({j}, Null)
  /\ UNCHANGED <<executor, issued, memo, ttl, kind, token, spent>>

(* Time passes; an expired result counts as no entry. *)
Tick ==
  /\ ttl' = [t \in Token |-> IF ttl[t] > 0 THEN ttl[t] - 1 ELSE 0]
  /\ memo' = [t \in Token |-> IF ttl[t] = 1 THEN Absent ELSE memo[t]]
  /\ spent' = [t \in Token |-> IF spent[t] \in 0..TTL-1 THEN spent[t] + 1 ELSE spent[t]]
  /\ UNCHANGED <<executor, stored, issued, lock, pc, kind, token, tries>>

Settle(j) == Rotate(j) \/ Refuse(j) \/ Falter(j) \/ Throw(j)
SettleDirectly(j) == RotateDirectly(j) \/ FailDirectly(j)
Work(j) ==
  \/ Ask(j) \/ Rejoin(j) \/ Call(j) \/ Share(j) \/ Recall(j) \/ Settle(j)
  \/ CallDirectly(j) \/ SettleDirectly(j)

Next ==
  \/ \E j \in Job : Work(j) \/ \E k \in Kind : Arm(j, k)
  \/ Tick

Spec == Init /\ [][Next]_vars

\* Every started refresh runs, and every call to the token endpoint settles.
FairSpec == Spec /\ \A j \in Job : WF_vars(Work(j))

-----------------------------------------------------------------------------
(* Properties *)

InCall(j) == pc[j] \in {"calling", "direct"}

\* However callers interleave, one token is never in two calls to the provider
\* at once, with one exception: next to a call of the usage page, which takes
\* no lock, when the account's executor (antigravity, workbuddy) does not use
\* the memo either.  Where there is a memo it suffices, without a lock; where
\* there is none, the lock alone keeps the calls of requests apart.
OneCallPerToken ==
  \A i, j \in Job :
    i # j /\ InCall(i) /\ InCall(j) /\ token[i] = token[j] =>
      executor \in Direct /\ "dashboard" \in {kind[i], kind[j]}

\* A caller that still holds a token rotated less than TTL ago gets the fresh
\* result instead of spending the old token again: with every executor that
\* uses the memo (dedupRefresh), so not those of antigravity and workbuddy.
NoHastyRespend ==
  [][executor \notin Direct =>
       \A j \in Job : ~InCall(j) /\ InCall(j)' => spent[token[j]] \in {-1, TTL}]_vars

\* With an executor that leaves the lock alone, every refresh ends: holder,
\* joiners and sharers alike, whatever the provider answers.
EveryRefreshEnds == \A j \in Job : pc[j] # "idle" /\ ~Nested ~> pc[j] = "idle"

\* ARCHITECTURE.md:455: "401/403 retry after refresh attempt in core path": the
\* attempt of a request that was answered 401 comes to an end.
RefreshAttemptEnds == \A j \in Job : pc[j] = "armed" /\ kind[j] = "reactive" ~> pc[j] = "idle"
=============================================================================
