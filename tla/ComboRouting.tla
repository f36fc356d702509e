----------------------------- MODULE ComboRouting -----------------------------
(***************************************************************************)
(* Combo requests: an ordered list of models, rotated by the sticky round  *)
(* robin, partitioned by the throttle registry, then tried one after the   *)
(* other until one answers.  Every model is answered by the account loop   *)
(* of RoutingEngine, seen here as success, failure, or rate-limit hits     *)
(* reported on the way.  Direct requests report to the same registry.      *)
(*                                                                         *)
(* A combo lists names; the registry is keyed by the provider and model a  *)
(* name resolves to.                                                       *)
(***************************************************************************)
EXTENDS ModelThrottle, FiniteSets, SequencesExt

CONSTANTS
  Req,          \* concurrent requests of the combo
  Models,       \* the combo, a sequence of names
  Key,          \* provider/model keys of the registry
  Resolved,     \* the key a name is resolved to when it is called
  StickyLimit,  \* comboStickyRoundRobinLimit
  RoundRobin,   \* whether the combo rotates
  Fits,         \* the sets of names capability auto-switch may put first
  Retries,      \* the Retry-After values providers report, 0 for none
  Slack         \* bound on the lead counts of the history

Name == ToSet(Models)

ASSUME ComboAssumption ==
  /\ Models \in Seq(Name) /\ Models # <<>> /\ Name \subseteq Key
  /\ Resolved \in [Name -> Key]
  /\ StickyLimit \in Nat \ {0}
  /\ RoundRobin \in BOOLEAN
  /\ Fits \subseteq SUBSET Name
  /\ Retries \subseteq Nat

VARIABLES
  throttle,  \* _modelThrottleState
  index,     \* comboRotationState: index
  uses,      \* comboRotationState: consecutiveUseCount
  pc,        \* where each request is
  queue,     \* the ready models it has still to try, the current one first
  hot,       \* the names that were HOT when it started
  tried,     \* history: the names it has called
  outcome,   \* its answer
  leads      \* history: how often each position has come first in the rotation

vars == <<throttle, index, uses, pc, queue, hot, tried, outcome, leads>>
request == <<pc, queue, hot, tried, outcome>>
rotation == <<index, uses, leads>>

Phase == {"idle", "calling", "waiting", "done"}
Outcome == {"none", "ok", "failed", "throttled"}

TypeOK ==
  /\ throttle \in [Key -> Entry]
  /\ index \in 0..Len(Models) - 1
  /\ uses \in 0..StickyLimit - 1
  /\ pc \in [Req -> Phase]
  /\ queue \in [Req -> Seq(Name)]
  /\ hot \in [Req -> SUBSET Name]
  /\ tried \in [Req -> SUBSET Name]
  /\ outcome \in [Req -> Outcome]
  /\ leads \in [0..Len(Models) - 1 -> 0..Slack + StickyLimit]

Init ==
  /\ throttle = [k \in Key |-> FreshEntry]
  /\ index = 0 /\ uses = 0
  /\ pc = [r \in Req |-> "idle"]
  /\ queue = [r \in Req |-> <<>>]
  /\ hot = [r \in Req |-> {}]
  /\ tried = [r \in Req |-> {}]
  /\ outcome = [r \in Req |-> "none"]
  /\ leads = [i \in 0..Len(Models) - 1 |-> 0]

-----------------------------------------------------------------------------
RotatedFrom(i) == SubSeq(Models, i + 1, Len(Models)) \o SubSeq(Models, 1, i)

Rotates == RoundRobin /\ Len(Models) > 1

\* Mutant: the lead stays one request too long.
RotateLate ==
  IF Rotates
  THEN /\ index' = IF uses + 1 > StickyLimit THEN (index + 1) % Len(Models) ELSE index
       /\ uses' = IF uses + 1 > StickyLimit THEN 0 ELSE uses + 1
       /\ leads' = [leads EXCEPT ![index] = @ + 1]
  ELSE UNCHANGED rotation

(* getRotatedModels moves the lead after StickyLimit requests. *)
Rotate ==
  IF Rotates
  THEN /\ index' = IF uses + 1 >= StickyLimit THEN (index + 1) % Len(Models) ELSE index
       /\ uses' = IF uses + 1 >= StickyLimit THEN 0 ELSE uses + 1
       /\ leads' = [leads EXCEPT ![index] = @ + 1]
  ELSE UNCHANGED rotation

\* reorderByCapabilities: a stable partition that drops nothing.
Favouring(order, fit) == Only(order, fit) \o Only(order, Name \ fit)

\* Mutant: only the throttle of the first name is looked at.
ReadyIfFirst(order) == IF Hot(throttle[Head(order)]) THEN <<>> ELSE order

HotNames == {n \in Name : Hot(throttle[n])}

\* partitionThrottledModels looks the name up as it is written in the combo.
Ready(order) == Only(order, Name \ HotNames)

\* Bounds the history, not the code.
HistoryOpen == \A i \in DOMAIN leads : leads[i] < Slack

Start(r, fit) ==
  /\ pc[r] = "idle" /\ HistoryOpen
  /\ Rotate
  /\ LET ready == Ready(Favouring(RotatedFrom(IF Rotates THEN index ELSE 0), fit))
     IN  /\ queue' = [queue EXCEPT ![r] = ready]
         /\ hot' = [hot EXCEPT ![r] = HotNames]
         /\ pc' = [pc EXCEPT ![r] = IF ready = <<>> THEN "done" ELSE "calling"]
         /\ outcome' = [outcome EXCEPT ![r] = IF ready = <<>> THEN "throttled" ELSE @]
         /\ tried' = [tried EXCEPT ![r] = IF ready = <<>> THEN {} ELSE {Head(ready)}]
  /\ UNCHANGED throttle

Current(r) == Resolved[Head(queue[r])]

(* recordModelRateLimit, for one account of the model that is being called. *)
Hit(k, retry) == throttle' = [throttle EXCEPT ![k] = Recorded(@, retry)]

RateLimited(r, retry) ==
  /\ pc[r] = "calling"
  /\ Hit(Current(r), retry)
  /\ UNCHANGED <<rotation, request>>

(* The model answers: its throttle is cleared and the answer returned. *)
Succeed(r) ==
  /\ pc[r] = "calling"
  /\ throttle' = [throttle EXCEPT ![Current(r)] = FreshEntry]
  /\ pc' = [pc EXCEPT ![r] = "done"]
  /\ outcome' = [outcome EXCEPT ![r] = "ok"]
  /\ UNCHANGED <<rotation, queue, hot, tried>>

(* On to the next ready model, or the combined error. *)
TryNext(r) ==
  LET rest == Tail(queue[r])
  IN  /\ queue' = [queue EXCEPT ![r] = rest]
      /\ IF rest # <<>>
         THEN /\ pc' = [pc EXCEPT ![r] = "calling"]
              /\ tried' = [tried EXCEPT ![r] = @ \cup {Head(rest)}]
              /\ UNCHANGED outcome
         ELSE /\ pc' = [pc EXCEPT ![r] = "done"]
              /\ outcome' = [outcome EXCEPT ![r] = IF hot[r] # {} THEN "throttled" ELSE "failed"]
              /\ UNCHANGED tried
      /\ UNCHANGED <<throttle, rotation, hot>>

(* The model fails or throws. *)
FailOver(r) == pc[r] = "calling" /\ TryNext(r)

\* Mutant: nobody wakes the wait.
NeverWaitedOut(r) == pc[r] = "waiting" /\ hot[r] # {} /\ TryNext(r)

(* A transient 502/503/504 is waited out before the next model. *)
Transient(r) ==
  /\ pc[r] = "calling"
  /\ pc' = [pc EXCEPT ![r] = "waiting"]
  /\ UNCHANGED <<throttle, rotation, queue, hot, tried, outcome>>

WaitedOut(r) == pc[r] = "waiting" /\ TryNext(r)

Return(r) ==
  /\ pc[r] = "done"
  /\ pc' = [pc EXCEPT ![r] = "idle"]
  /\ queue' = [queue EXCEPT ![r] = <<>>]
  /\ hot' = [hot EXCEPT ![r] = {}]
  /\ tried' = [tried EXCEPT ![r] = {}]
  /\ outcome' = [outcome EXCEPT ![r] = "none"]
  /\ UNCHANGED <<throttle, rotation>>

-----------------------------------------------------------------------------
(* Requests that name the model directly ignore the throttle and feed it. *)
DirectHit(k, retry) == Hit(k, retry) /\ UNCHANGED <<rotation, request>>

DirectSuccess(k) ==
  /\ throttle' = [throttle EXCEPT ![k] = FreshEntry]
  /\ UNCHANGED <<rotation, request>>

(* Editing the combo or its strategy: resetComboRotation. *)
ResetRotation ==
  /\ index' = 0 /\ uses' = 0
  /\ leads' = [i \in DOMAIN leads |-> 0]
  /\ UNCHANGED <<throttle, request>>

Tick ==
  /\ throttle' = [k \in Key |-> Later(throttle[k])]
  /\ UNCHANGED <<rotation, request>>

Progress(r) == Succeed(r) \/ FailOver(r) \/ Transient(r) \/ WaitedOut(r) \/ Return(r)

ComboStep == \E r \in Req : Progress(r) \/ \E fit \in Fits : Start(r, fit)

HitStep ==
  \E retry \in Retries :
    \/ \E r \in Req : RateLimited(r, retry)
    \/ \E k \in {Resolved[n] : n \in Name} : DirectHit(k, retry)

Next ==
  \/ ComboStep \/ HitStep \/ ResetRotation \/ Tick
  \/ \E n \in Name : DirectSuccess(Resolved[n])

Spec == Init /\ [][Next]_vars

\* Calls and waits settle, and time passes.
FairSpec == Spec /\ WF_vars(Tick) /\ \A r \in Req : WF_vars(Progress(r))

-----------------------------------------------------------------------------
(* Properties *)

\* The sticky round robin is fair: of the requests started since the last reset,
\* no position has led more than StickyLimit requests more often than another,
\* whatever the length of the combo and the limit.  (One start is one step of
\* the code, getRotatedModels: this is about its two counters, not overlaps.)
BalancedLeads == \A i, j \in DOMAIN leads : leads[i] <= leads[j] + StickyLimit

\* A combo gives up only when every one of its models was called by this very
\* request or was HOT when it started: no model is lost on the way through
\* rotation, capability reordering, partition and waits.
NoModelLost ==
  \A r \in Req : outcome[r] \in {"failed", "throttled"} => Name = tried[r] \cup hot[r]

\* Nothing but a success, and time, shortens a cooldown that runs: not a further
\* 429 with a smaller Retry-After.  And nothing calls a model HOT on fewer than
\* Threshold hits in the window.
CooldownsStand ==
  [][\A k \in Key :
       /\ throttle'[k].left < throttle[k].left => throttle'[k] \in {FreshEntry, Later(throttle[k])}
       /\ ~Hot(throttle[k]) /\ Hot(throttle'[k]) => Len(throttle[k].hits) = Threshold - 1]_vars

\* A step that reports no 429 of the model, or none that counts.
Unhit(k) == throttle'[k] \in {throttle[k], FreshEntry, Later(throttle[k])}

\* A model whose 429s stop comes back into the rotation and stays: until then a
\* Retry-After may extend its cooldown again and again (modelThrottle.js:62-64).
HotModelsReturn ==
  \A k \in Key : <>[][Unhit(k)]_vars => <>[]~Hot(throttle[k])

\* A cooldown lasts as long as it was given, and when 429s stop it is over.
CooldownsRunOut == CooldownsStand /\ HotModelsReturn

\* A combo request that has a model to call is answered.
EveryComboAnswered == \A r \in Req : pc[r] = "calling" ~> pc[r] = "done"

=============================================================================
