---------------------------- MODULE RoutingEngine ----------------------------
(***************************************************************************)
(* Concurrent chat requests of one provider, each running the account      *)
(* fallback loop RoutingEngine.execute with the callbacks of               *)
(* handleSingleModelRequest: select an account that is neither excluded    *)
(* nor cooling down, call upstream, then either clear the account's error  *)
(* state or lock the account for this model and move to the next one.      *)
(*                                                                         *)
(* Atomic steps are the code's synchronous stretches between awaits that   *)
(* touch shared rows.  The row an account had when it was selected travels *)
(* with the request (`seen', the _connection of the credentials) and is    *)
(* what a later success is judged on.                                      *)
(***************************************************************************)
EXTENDS AccountPool, FiniteSets

CONSTANTS
  Req,          \* request slots of the server
  Probe,        \* those that carry x-9r-probe
  NoConn,       \* no account
  Asked,        \* the models asked for (AccountKey: an empty model name)
  Pins,         \* the accounts requests may be pinned to, with NoConn
  Editable,     \* the accounts the operator edits
  Failures,     \* the upstream failures considered, a set of Failure
  MaxAttempts,  \* maxAttempts of a user request (64 in the code)
  Deadline      \* deadlineMs in ticks, 0 disables the gate

ASSUME EngineAssumption ==
  /\ Probe \subseteq Req
  /\ NoConn \notin Conn
  /\ Asked \subseteq LockKey
  /\ Pins \subseteq Conn \cup {NoConn}
  /\ Editable \subseteq Conn
  /\ Failures \subseteq Failure
  /\ MaxAttempts \in Nat \ {0}
  /\ Deadline \in Nat

VARIABLES
  row,       \* the database rows
  pc,        \* where each request is
  model,     \* the model it asks for
  pinned,    \* preferredConnectionId, NoConn if none
  excluded,  \* excludedConnectionIds
  attempts,  \* attempts
  conn,      \* the account of the current or last attempt
  seen,      \* that account's row when it was selected
  fault,     \* the failure being handled
  level,     \* backoffLevel read by markAccountUnavailable
  age,       \* ticks since a user request's loop started, capped past the deadline
  outcome    \* what the client receives

vars == <<row, pc, model, pinned, excluded, attempts, conn, seen, fault, level, age, outcome>>
request == <<model, pinned, excluded, attempts, conn, seen, fault, level, age>>

NoFault == [kind |-> "client", ticks |-> 0]

Phase == {"idle", "gate", "upstream", "healing", "blocked", "failed", "marking", "done"}
Outcome == {"none", "ok", "error", "unavailable", "deadline"}

TypeOK ==
  /\ row \in [Conn -> Row]
  /\ pc \in [Req -> Phase]
  /\ model \in [Req -> LockKey]
  /\ pinned \in [Req -> Conn \cup {NoConn}]
  /\ excluded \in [Req -> SUBSET Conn]
  /\ attempts \in [Req -> Nat]
  /\ conn \in [Req -> Conn \cup {NoConn}]
  /\ seen \in [Req -> Row]
  /\ fault \in [Req -> Failure]
  /\ level \in [Req -> 0..MaxLevel]
  /\ age \in [Req -> Nat]
  /\ outcome \in [Req -> Outcome]

Init ==
  /\ row = [c \in Conn |-> FreshRow]
  /\ pc = [r \in Req |-> "idle"]
  /\ model = [r \in Req |-> AccountKey]
  /\ pinned = [r \in Req |-> NoConn]
  /\ excluded = [r \in Req |-> {}]
  /\ attempts = [r \in Req |-> 0]
  /\ conn = [r \in Req |-> NoConn]
  /\ seen = [r \in Req |-> FreshRow]
  /\ fault = [r \in Req |-> NoFault]
  /\ level = [r \in Req |-> 0]
  /\ age = [r \in Req |-> 0]
  /\ outcome = [r \in Req |-> "none"]

-----------------------------------------------------------------------------
AttemptCap(r) == IF r \in Probe THEN 1 ELSE MaxAttempts

PastDeadline(r) ==
  /\ r \notin Probe
  /\ Deadline > 0
  /\ attempts[r] > 0
  /\ age[r] > Deadline

\* Mutant: the exclusion set of the request is not consulted.
Unlocked(r) ==
  {c \in Conn : row[c].enabled /\ ~IsModelLockActive(row[c], model[r])}

\* Mutant: the dashboard's status badge is consulted instead of the locks.
Healthy(r) ==
  {c \in Conn : row[c].enabled /\ c \notin excluded[r] /\ row[c].status = "active"}

\* The accounts getProviderCredentials leaves after its filter.
Available(r) ==
  {c \in Conn : /\ row[c].enabled
                /\ c \notin excluded[r]
                /\ ~IsModelLockActive(row[c], model[r])}

Answer(r, o) ==
  /\ pc' = [pc EXCEPT ![r] = "done"]
  /\ outcome' = [outcome EXCEPT ![r] = o]

-----------------------------------------------------------------------------
(* A new request; all loop state is local to it. *)
Begin(r, m, p) ==
  /\ pc[r] = "idle"
  /\ pc' = [pc EXCEPT ![r] = "gate"]
  /\ model' = [model EXCEPT ![r] = m]
  /\ pinned' = [pinned EXCEPT ![r] = p]
  /\ UNCHANGED <<row, excluded, attempts, conn, seen, fault, level, age, outcome>>

(* The deadline gate: only between attempts, and it returns the last error. *)
StopAtDeadline(r) ==
  /\ pc[r] = "gate"
  /\ attempts[r] < AttemptCap(r)
  /\ PastDeadline(r)
  /\ Answer(r, "deadline")
  /\ UNCHANGED <<row, request>>

\* Mutant: a request that has tried an account waits for one to come back.
GiveUpUntried(r) ==
  /\ pc[r] = "gate"
  /\ attempts[r] = 0
  /\ Available(r) = {}
  /\ Answer(r, "unavailable")
  /\ UNCHANGED <<row, request>>

(* The loop condition, then resolveCredentials finding no account. *)
GiveUp(r) ==
  /\ pc[r] = "gate"
  /\ \/ attempts[r] >= AttemptCap(r)
     \/ ~PastDeadline(r) /\ Available(r) = {}
  /\ Answer(r, "unavailable")
  /\ UNCHANGED <<row, request>>

(* resolveCredentials picks one of the available accounts.  A preferred one   *)
(* wins while it is available; session affinity and the rotation strategies   *)
(* choose among the rest.                                                     *)
Select(r, c) ==
  /\ pc[r] = "gate"
  /\ attempts[r] < AttemptCap(r)
  /\ ~PastDeadline(r)
  /\ c \in Available(r)
  /\ pinned[r] \in Available(r) => c = pinned[r]
  /\ pc' = [pc EXCEPT ![r] = "upstream"]
  /\ attempts' = [attempts EXCEPT ![r] = @ + 1]
  /\ conn' = [conn EXCEPT ![r] = c]
  /\ seen' = [seen EXCEPT ![r] = row[c]]
  /\ UNCHANGED <<row, model, pinned, excluded, fault, level, age, outcome>>

(* A token refresh in the attempt persists new tokens: the write only prunes. *)
PersistTokens(r) ==
  /\ pc[r] = "upstream"
  /\ row' = [row EXCEPT ![conn[r]] = PruneModelLocks(@)]
  /\ UNCHANGED <<pc, request, outcome>>

\* The credentials object goes out of scope.
DropSeen(r) == seen' = [seen EXCEPT ![r] = FreshRow]

(* Upstream answered 2xx: onRequestSuccess is queued.  A streaming answer that *)
(* turns out not to be an event stream ("blocked") is an error nevertheless.   *)
Respond(r, p) ==
  /\ pc[r] = "upstream"
  /\ p \in {"healing", "blocked"}
  /\ pc' = [pc EXCEPT ![r] = p]
  /\ UNCHANGED <<row, request, outcome>>

Fail(r, f) ==
  /\ pc[r] = "upstream"
  /\ pc' = [pc EXCEPT ![r] = "failed"]
  /\ fault' = [fault EXCEPT ![r] = f]
  /\ DropSeen(r)
  /\ UNCHANGED <<row, model, pinned, excluded, attempts, conn, level, age, outcome>>

(* onRequestSuccess: clearAccountError on the row seen at selection. *)
ClearAccountError(r) ==
  row' = [row EXCEPT ![conn[r]] = ClearedRow(@, seen[r], model[r])]

Heal(r) ==
  /\ pc[r] = "healing"
  /\ ClearAccountError(r)
  /\ Answer(r, "ok")
  /\ DropSeen(r)
  /\ UNCHANGED <<model, pinned, excluded, attempts, conn, fault, level, age>>

(* The non-SSE answer is classified by its status and text like any error. *)
HealThenFail(r, f) ==
  /\ pc[r] = "blocked"
  /\ ClearAccountError(r)
  /\ pc' = [pc EXCEPT ![r] = "failed"]
  /\ fault' = [fault EXCEPT ![r] = f]
  /\ DropSeen(r)
  /\ UNCHANGED <<model, pinned, excluded, attempts, conn, level, age, outcome>>

(* onFailure stops for a probe (never a lock) and for a rejected payload. *)
StopOnFailure(r) ==
  /\ pc[r] = "failed"
  /\ r \in Probe \/ fault[r].kind = "payload"
  /\ Answer(r, "error")
  /\ UNCHANGED <<row, request>>

(* markAccountUnavailable reads the cached list for the backoff level ... *)
ReadBackoff(r) ==
  /\ pc[r] = "failed"
  /\ r \notin Probe
  /\ fault[r].kind # "payload"
  /\ pc' = [pc EXCEPT ![r] = "marking"]
  /\ level' = [level EXCEPT ![r] = row[conn[r]].level]
  /\ UNCHANGED <<row, model, pinned, excluded, attempts, conn, seen, fault, age, outcome>>

\* Mutant: only the last account stays excluded.
ExcludeLast(r) ==
  /\ pc' = [pc EXCEPT ![r] = "gate"]
  /\ excluded' = [excluded EXCEPT ![r] = {conn[r]}]
  /\ UNCHANGED outcome

(* The loop's tail: exclude the account, or return if it already was. *)
Exclude(r) ==
  IF conn[r] \in excluded[r]
  THEN Answer(r, "error") /\ UNCHANGED excluded
  ELSE /\ pc' = [pc EXCEPT ![r] = "gate"]
       /\ excluded' = [excluded EXCEPT ![r] = @ \cup {conn[r]}]
       /\ UNCHANGED outcome

(* ... and writes the lock in a transaction, unless the cooldown is 0. *)
MarkAccountUnavailable(r) ==
  /\ pc[r] = "marking"
  /\ row' = IF CooldownOf(fault[r], level[r]) > 0
            THEN [row EXCEPT ![conn[r]] = MarkedRow(@, model[r], fault[r], level[r])]
            ELSE row
  /\ Exclude(r)
  /\ fault' = [fault EXCEPT ![r] = NoFault]
  /\ level' = [level EXCEPT ![r] = 0]
  /\ UNCHANGED <<model, pinned, attempts, conn, seen, age>>

(* The response is delivered and the request's local state is gone. *)
Return(r) ==
  /\ pc[r] = "done"
  /\ pc' = [pc EXCEPT ![r] = "idle"]
  /\ model' = [model EXCEPT ![r] = AccountKey]
  /\ pinned' = [pinned EXCEPT ![r] = NoConn]
  /\ excluded' = [excluded EXCEPT ![r] = {}]
  /\ attempts' = [attempts EXCEPT ![r] = 0]
  /\ conn' = [conn EXCEPT ![r] = NoConn]
  /\ fault' = [fault EXCEPT ![r] = NoFault]
  /\ age' = [age EXCEPT ![r] = 0]
  /\ outcome' = [outcome EXCEPT ![r] = "none"]
  /\ UNCHANGED <<row, seen, level>>

-----------------------------------------------------------------------------
(* The dashboard: clear a cooldown, switch an account on or off. *)
ClearCooldown(c, m) ==
  /\ row' = [row EXCEPT ![c] = UnlockedRow(@, m)]
  /\ UNCHANGED <<pc, request, outcome>>

Toggle(c) ==
  /\ row' = [row EXCEPT ![c] = PruneModelLocks(Switched(@))]
  /\ UNCHANGED <<pc, request, outcome>>

(* The wall clock. *)
Tick ==
  /\ row' = [c \in Conn |-> Aged(row[c])]
  /\ seen' = [r \in Req |-> Aged(seen[r])]
  /\ age' = [r \in Req |-> IF Deadline = 0 \/ r \in Probe \/ pc[r] \in {"idle", "done"} THEN age[r]
                           ELSE AtMost(age[r] + 1, Deadline + 1)]
  /\ UNCHANGED <<pc, model, pinned, excluded, attempts, conn, fault, level, outcome>>

\* The steps the server itself takes for a request it has accepted.
Progress(r) ==
  \/ StopAtDeadline(r)
  \/ GiveUp(r)
  \/ \E c \in Conn : Select(r, c)
  \/ \E p \in {"healing", "blocked"} : Respond(r, p)
  \/ \E f \in Failures : Fail(r, f) \/ HealThenFail(r, f)
  \/ Heal(r)
  \/ StopOnFailure(r)
  \/ ReadBackoff(r)
  \/ MarkAccountUnavailable(r)
  \/ Return(r)

Serve ==
  \/ \E r \in Req, m \in Asked, p \in Pins : Begin(r, m, p)
  \/ \E r \in Req : PersistTokens(r) \/ Progress(r)

Operator ==
  \E c \in Editable : Toggle(c) \/ \E m \in LockKey : ClearCooldown(c, m)

Next == Serve \/ Operator \/ Tick

Spec == Init /\ [][Next]_vars

\* The event loop runs every accepted request, every upstream call settles
\* (connect, first-byte and total timeouts) and time passes.
FairSpec == Spec /\ WF_vars(Tick) /\ \A r \in Req : WF_vars(Progress(r))

-----------------------------------------------------------------------------
(* Properties *)

\* The accounts a request has called upstream with.
Charged(r) == IF attempts[r] = 0 THEN {} ELSE excluded[r] \cup {conn[r]}

\* However the loops of concurrent requests interleave with locks appearing
\* and disappearing, one request never calls upstream twice with the same
\* account (execute's exclusion set together with the selection filter).
DistinctAttempts == \A r \in Req : attempts[r] = Cardinality(Charged(r))

\* Why: between attempts every call has been paid for by one exclusion; during
\* an attempt the account in use is not yet excluded.
InFlight == {"upstream", "healing", "blocked", "failed", "marking"}

LoopInv(r) ==
  /\ IsFiniteSet(excluded[r])
  /\ pc[r] = "idle" => attempts[r] = 0 /\ excluded[r] = {}
  /\ pc[r] = "gate" => /\ attempts[r] = Cardinality(excluded[r])
                       /\ attempts[r] > 0 => conn[r] \in excluded[r]
  /\ pc[r] \in InFlight => /\ conn[r] \in Conn \ excluded[r]
                           /\ attempts[r] = Cardinality(excluded[r]) + 1
  /\ pc[r] = "marking" => r \notin Probe
  /\ pc[r] = "done" => attempts[r] = Cardinality(Charged(r))

IInv == TypeOK /\ \A r \in Req : LoopInv(r)

EarnedLocks ==
  \A c \in Conn, k \in LockKey :
    row'[c].left[k] > row[c].left[k] =>
      \E r \in Req \ Probe :
        /\ k = model[r]
        /\ c \in Charged(r)
        /\ fault[r].kind \in {"fixed", "backoff", "reset"}
        /\ pc[r] = "marking" /\ pc'[r] # "marking"

\* A cooldown starts or grows only because a user request for that model
\* failed on that account with an account-level error: never for a probe, a
\* rejected payload or a deterministic 4xx, and never on a sibling account.
LocksAreEarned == [][EarnedLocks]_vars

\* A success on an account no other request touched meanwhile leaves it fit:
\* the model is selectable again, locks of other models are kept, and the
\* error state is gone exactly when no lock is left.
HealIsExact ==
  [][\A r \in Req :
       LET c == conn[r] IN
       /\ pc[r] \in {"healing", "blocked"}
       /\ pc'[r] # pc[r]
       /\ row[c] = seen[r]
       => /\ ~IsModelLockActive(row'[c], model[r])
          /\ \A k \in Model \ {model[r]} : row'[c].left[k] = row[c].left[k]
          /\ IF ActiveLocks(row'[c]) = {}
             THEN row'[c].status = "active" /\ ~row'[c].err /\ ~row'[c].code
             ELSE row'[c].status = row[c].status /\ row'[c].level = row[c].level]_vars

\* "unavailable" is only answered, before the attempt cap, when every enabled
\* account has either been called by this very request or is cooling down.
NoEarlyGiveUp ==
  [][\A r \in Req :
       /\ outcome[r] # "unavailable"
       /\ outcome'[r] = "unavailable"
       /\ attempts[r] < AttemptCap(r)
       => \A c \in Conn : \/ ~row[c].enabled
                          \/ c \in Charged(r)
                          \/ ActiveLocks(row[c]) \cap {model[r], AccountKey} # {}]_vars

\* Every accepted request is answered, whatever fails and however the other
\* requests lock accounts under it.
EveryRequestAnswered == \A r \in Req : pc[r] = "gate" ~> pc[r] = "done"

\* When failures stop, every account ends up selectable for every model, and
\* stays so: no cooldown outlives its expiry, even if nothing rewrites the row.
AccountsRecover ==
  <>[](\A r \in Req : pc[r] # "marking")
    => <>[](\A c \in Conn, m \in LockKey : ~IsModelLockActive(row[c], m))

\* The loop implements the failover promise.
Stage(r) == CASE pc[r] = "idle" -> "idle"
              [] pc[r] = "done" -> "answered"
              [] OTHER          -> "routing"

Promise == INSTANCE Failover WITH
  phase <- [r \in Req |-> Stage(r)],
  tried <- [r \in Req |-> Charged(r)],
  spent <- attempts

ImplementsFailover == Promise!Spec

=============================================================================
