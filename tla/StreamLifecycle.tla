---------------------------- MODULE StreamLifecycle ----------------------------
(***************************************************************************)
(* One request of one account and model from handleChatCore's first        *)
(* upstream call to the end of its response: the pending counter and its   *)
(* safety net, the concurrency cap, the retry after a token refresh, the   *)
(* context guard's second dispatch, and the stream to the client with its  *)
(* watchdogs, its disconnects and its usage record.                        *)
(*                                                                         *)
(* The bytes of a stream are left out: what counts is whether a first      *)
(* chunk arrived, how the upstream ended and how much of that the client   *)
(* has seen.                                                               *)
(***************************************************************************)
EXTENDS ExecutorRetries, FiniteSets

CONSTANTS
  Limit,     \* UPSTREAM_CONCURRENCY_LIMIT, 0 for none
  Streaming  \* the requests whose client reads a stream

ASSUME LifecycleAssumption ==
  /\ Limit \in Nat
  /\ Streaming \subseteq Request
  /\ IsFiniteSet(Request)

VARIABLES
  phase,      \* how far handleChatCore is with the request
  dispatch,   \* which execute call is in progress or came last
  inFlight,   \* upstreamConcurrency.inFlight
  pending,    \* pendingRequests of this account and model
  netArmed,   \* whether the pending timer of this account and model is set
  upstream,   \* the provider's side of the stream
  connected,  \* the stream controller's ~disconnected
  watchdogs,  \* the timers set: "first", "stall", "max"
  client,     \* the client's side of the stream
  finalized,  \* finalizeUsage has run
  detail,     \* what the request details will show
  counted,    \* usage records written
  downs,      \* history: how often the request has been counted down
  torn        \* history: the transform's flush failed

streamVars == <<upstream, connected, watchdogs, client, finalized, torn>>
recordVars == <<detail, counted>>
pendingVars == <<pending, netArmed, downs>>
vars == <<executorVars, phase, dispatch, inFlight, pendingVars, streamVars, recordVars>>

Phase == {"new", "executing", "refreshing", "reading", "piping", "answered", "refused"}

TypeOK ==
  /\ ExecutorTypeOK
  /\ phase \in [Request -> Phase]
  /\ dispatch \in [Request -> {"first", "refreshed", "trimmed"}]
  /\ inFlight \in 0..Cardinality(Request)
  /\ pending \in 0..Cardinality(Request)
  /\ netArmed \in BOOLEAN
  /\ upstream \in [Request -> {"none", "open", "flushed", "broken"}]
  /\ connected \in [Request -> BOOLEAN]
  /\ watchdogs \in [Request -> SUBSET {"first", "stall", "max"}]
  /\ client \in [Request -> {"none", "reading", "closed", "gone"}]
  /\ finalized \in [Request -> BOOLEAN]
  /\ detail \in [Request -> {"none", "placeholder", "final", "error"}]
  /\ counted \in [Request -> Nat]
  /\ downs \in [Request -> Nat]
  /\ torn \in [Request -> BOOLEAN]

Init ==
  /\ ExecutorInit
  /\ phase = [r \in Request |-> "new"]
  /\ dispatch = [r \in Request |-> "first"]
  /\ inFlight = 0 /\ pending = 0 /\ netArmed = FALSE
  /\ upstream = [r \in Request |-> "none"]
  /\ connected = [r \in Request |-> TRUE]
  /\ watchdogs = [r \in Request |-> {}]
  /\ client = [r \in Request |-> "none"]
  /\ finalized = [r \in Request |-> FALSE]
  /\ detail = [r \in Request |-> "none"]
  /\ counted = [r \in Request |-> 0]
  /\ downs = [r \in Request |-> 0]
  /\ torn = [r \in Request |-> FALSE]

-----------------------------------------------------------------------------
(* The pending counter: trackPendingRequest.  Every start sets its timer      *)
(* anew, every end clears it, whoever else is still counted.                  *)
CountUp == pending' = pending + 1 /\ netArmed' = TRUE /\ UNCHANGED downs

CountDown(r) ==
  /\ pending' = IF pending = 0 THEN 0 ELSE pending - 1
  /\ netArmed' = FALSE
  /\ downs' = [downs EXCEPT ![r] = @ + 1]

CountDownIf(r, p) == IF p THEN CountDown(r) ELSE UNCHANGED pendingVars

(* The timer runs longer than any stream after the latest start, but a        *)
(* request that spent long in retries, or reads a long body, may be open.     *)
PendingTimeout ==
  /\ netArmed
  /\ netArmed' = FALSE
  /\ pending' = 0
  /\ UNCHANGED <<executorVars, phase, dispatch, inFlight, downs, streamVars, recordVars>>

-----------------------------------------------------------------------------
(* The dispatch.                                                              *)

\* acquireUpstreamSlot
SlotFree == Limit = 0 \/ inFlight < Limit

\* Counted in first, then refused for lack of a slot: nothing counts it out.
Refuse(r) ==
  /\ phase[r] = "new" /\ ~SlotFree
  /\ CountUp
  /\ phase' = [phase EXCEPT ![r] = "refused"]
  /\ UNCHANGED <<executorVars, dispatch, inFlight, streamVars, recordVars>>

Start(r) ==
  /\ phase[r] = "new" /\ SlotFree
  /\ CountUp
  /\ inFlight' = inFlight + 1
  /\ phase' = [phase EXCEPT ![r] = "executing"]
  /\ Launch(r)
  /\ UNCHANGED <<dispatch, streamVars, recordVars>>

\* releaseUpstreamSlot
Released == IF inFlight > 0 THEN inFlight - 1 ELSE 0

\* Mutant: a call that throws keeps its slot.
KeepSlotOnThrow(r, k) ==
  inFlight' = IF dispatch[r] = "first" /\ k # "network" THEN Released ELSE inFlight

\* The finally block: the slot covers the first execute call only.
ReleaseSlot(r, k) == inFlight' = IF dispatch[r] = "first" THEN Released ELSE inFlight

Keep(r, k) ==
  /\ phase[r] = "executing"
  /\ Retry(r, k) \/ FallBack(r, k)
  /\ UNCHANGED <<phase, dispatch, inFlight, pendingVars, streamVars, recordVars>>

\* A 401 or 403 of the first call has the tokens refreshed first.
AsksForRefresh(r, k) == k = "unauthorized" /\ dispatch[r] = "first"

\* The context guard re-dispatches once; a retry after a refresh that overflows
\* is dropped, what remains is the 401 of the first call.
IsTrimmed(r, k) == k = "overflow" /\ dispatch[r] = "first"

(* The response is an error: counted down, recorded, answered.                *)
GiveErrorBack(r) ==
  /\ CountDown(r)
  /\ detail' = [detail EXCEPT ![r] = "error"]
  /\ phase' = [phase EXCEPT ![r] = "answered"]
  /\ UNCHANGED <<counted, streamVars>>

Refresh(r, k) ==
  /\ phase[r] = "executing" /\ Settles(r, k) /\ AsksForRefresh(r, k)
  /\ ReleaseSlot(r, k)
  /\ phase' = [phase EXCEPT ![r] = "refreshing"]
  /\ UNCHANGED <<executorVars, dispatch, pendingVars, streamVars, recordVars>>

Refreshed(r) ==
  /\ phase[r] = "refreshing"
  /\ dispatch' = [dispatch EXCEPT ![r] = "refreshed"]
  /\ phase' = [phase EXCEPT ![r] = "executing"]
  /\ Launch(r)
  /\ UNCHANGED <<inFlight, pendingVars, streamVars, recordVars>>

RefreshFailed(r) ==
  /\ phase[r] = "refreshing"
  /\ GiveErrorBack(r)
  /\ UNCHANGED <<executorVars, dispatch, inFlight>>

\* Mutant: the second dispatch is counted as another request.
TrimCountsUp(r, k) ==
  /\ phase[r] = "executing" /\ Settles(r, k) /\ IsTrimmed(r, k)
  /\ ReleaseSlot(r, k)
  /\ CountUp
  /\ dispatch' = [dispatch EXCEPT ![r] = "trimmed"]
  /\ Launch(r)
  /\ UNCHANGED <<phase, streamVars, recordVars>>

\* planAndApplyTrim found turns to drop; execute runs again without a slot.
Trim(r, k) ==
  /\ phase[r] = "executing" /\ Settles(r, k) /\ IsTrimmed(r, k)
  /\ ReleaseSlot(r, k)
  /\ dispatch' = [dispatch EXCEPT ![r] = "trimmed"]
  /\ Launch(r)
  /\ UNCHANGED <<phase, pendingVars, streamVars, recordVars>>

(* Every other error, and an overflow nothing can be trimmed for.             *)
Reject(r, k) ==
  /\ phase[r] = "executing" /\ Settles(r, k)
  /\ k # "ok" /\ ~AsksForRefresh(r, k)
  /\ ReleaseSlot(r, k)
  /\ GiveErrorBack(r)
  /\ UNCHANGED <<executorVars, dispatch>>

(* A good response: a body to read, or a stream to pipe.                      *)

\* handleNonStreamingResponse and handleForcedSSEToJson count down before they
\* read the body.
ReadBody(r) ==
  /\ phase[r] = "executing" /\ r \notin Streaming
  /\ ReleaseSlot(r, "ok")
  /\ CountDown(r)
  /\ phase' = [phase EXCEPT ![r] = "reading"]
  /\ UNCHANGED <<executorVars, dispatch, streamVars, recordVars>>

\* handleComplete follows in both cases; an unusable body leaves no record.
BodyRead(r, usable) ==
  /\ phase[r] = "reading"
  /\ phase' = [phase EXCEPT ![r] = "answered"]
  /\ connected' = [connected EXCEPT ![r] = FALSE]
  /\ IF usable
       THEN /\ detail' = [detail EXCEPT ![r] = "final"]
            /\ counted' = [counted EXCEPT ![r] = @ + 1]
       ELSE UNCHANGED recordVars
  /\ UNCHANGED <<executorVars, dispatch, inFlight, pendingVars, upstream, watchdogs,
                 client, finalized, torn>>

\* A 200 that is no event stream (an HTML page) goes through handleError.
Block(r) ==
  /\ phase[r] = "executing" /\ r \in Streaming
  /\ ReleaseSlot(r, "ok")
  /\ CountDown(r)
  /\ connected' = [connected EXCEPT ![r] = FALSE]
  /\ phase' = [phase EXCEPT ![r] = "answered"]
  /\ UNCHANGED <<executorVars, dispatch, upstream, watchdogs, client, finalized, torn,
                 recordVars>>

\* Mutant: no watchdog on the whole duration.
PipeWithoutCeiling(r) ==
  /\ phase[r] = "executing" /\ r \in Streaming
  /\ ReleaseSlot(r, "ok")
  /\ phase' = [phase EXCEPT ![r] = "piping"]
  /\ upstream' = [upstream EXCEPT ![r] = "open"]
  /\ client' = [client EXCEPT ![r] = "reading"]
  /\ watchdogs' = [watchdogs EXCEPT ![r] = {"first"}]
  /\ detail' = [detail EXCEPT ![r] = "placeholder"]
  /\ UNCHANGED <<executorVars, dispatch, pendingVars, connected, finalized, torn, counted>>

\* pipeWithDisconnect, and the placeholder row.
Pipe(r) ==
  /\ phase[r] = "executing" /\ r \in Streaming
  /\ ReleaseSlot(r, "ok")
  /\ phase' = [phase EXCEPT ![r] = "piping"]
  /\ upstream' = [upstream EXCEPT ![r] = "open"]
  /\ client' = [client EXCEPT ![r] = "reading"]
  /\ watchdogs' = [watchdogs EXCEPT ![r] = {"first", "max"}]
  /\ detail' = [detail EXCEPT ![r] = "placeholder"]
  /\ UNCHANGED <<executorVars, dispatch, pendingVars, connected, finalized, torn, counted>>

-----------------------------------------------------------------------------
(* The stream.                                                                *)
streamOnly == <<executorVars, phase, dispatch, inFlight>>

\* Mutant: every terminal path writes a usage record.
FinalizeAgain(r) ==
  /\ finalized' = [finalized EXCEPT ![r] = TRUE]
  /\ counted' = [counted EXCEPT ![r] = @ + 1]
  /\ detail' = [detail EXCEPT ![r] = "final"]

(* finalizeUsage, once: the usage record and the final detail row.            *)
Finalize(r) ==
  IF finalized[r]
  THEN UNCHANGED <<finalized, recordVars>>
  ELSE /\ finalized' = [finalized EXCEPT ![r] = TRUE]
       /\ counted' = [counted EXCEPT ![r] = @ + 1]
       /\ detail' = [detail EXCEPT ![r] = "final"]

\* Mutant: the guard on `disconnected' is lost.
DisconnectAlways(r) ==
  /\ connected' = [connected EXCEPT ![r] = FALSE]
  /\ CountDown(r)

\* handleError and handleDisconnect act on a connected stream only.
Disconnect(r) ==
  /\ connected' = [connected EXCEPT ![r] = FALSE]
  /\ CountDownIf(r, connected[r])

Chunk(r) ==
  /\ upstream[r] = "open"
  /\ watchdogs' = [watchdogs EXCEPT ![r] = (@ \ {"first"}) \cup {"stall"}]
  /\ UNCHANGED <<streamOnly, pendingVars, upstream, connected, client, finalized, torn,
                 recordVars>>

(* The provider closes: the tap's flush clears the watchdogs, the transform's *)
(* counts down at once, then translates the rest and finalizes.  If that      *)
(* throws the error is logged and the stream closes all the same.             *)
Flush(r) ==
  /\ upstream[r] = "open"
  /\ upstream' = [upstream EXCEPT ![r] = "flushed"]
  /\ watchdogs' = [watchdogs EXCEPT ![r] = {}]
  /\ CountDown(r)
  /\ Finalize(r)
  /\ UNCHANGED <<streamOnly, connected, client, torn>>

FlushThrows(r) ==
  /\ upstream[r] = "open"
  /\ upstream' = [upstream EXCEPT ![r] = "flushed"]
  /\ watchdogs' = [watchdogs EXCEPT ![r] = {}]
  /\ CountDown(r)
  /\ torn' = [torn EXCEPT ![r] = TRUE]
  /\ UNCHANGED <<streamOnly, connected, client, finalized, recordVars>>

\* The connection to the provider is lost; the pending read notices later.
Break(r) ==
  /\ upstream[r] = "open"
  /\ upstream' = [upstream EXCEPT ![r] = "broken"]
  /\ UNCHANGED <<streamOnly, pendingVars, watchdogs, connected, client, finalized, torn,
                 recordVars>>

\* The abort takes the upstream body down.
Aborted(r) == [upstream EXCEPT ![r] = IF @ = "open" THEN "broken" ELSE @]

(* A watchdog fires: handleError and abort, on the bare controller, so that   *)
(* the other timers stay set.                                                 *)
Watchdog(r, w) ==
  /\ w \in watchdogs[r]
  /\ watchdogs' = [watchdogs EXCEPT ![r] = @ \ {w}]
  /\ IF connected[r] THEN Disconnect(r) /\ upstream' = Aborted(r)
                     ELSE UNCHANGED <<connected, pendingVars, upstream>>
  /\ UNCHANGED <<streamOnly, client, finalized, torn, recordVars>>

Reads(r) == client[r] = "reading"

(* pull: the controller is disconnected, nothing more is read.                *)
PullClosed(r) ==
  /\ Reads(r) /\ ~connected[r]
  /\ client' = [client EXCEPT ![r] = "closed"]
  /\ Finalize(r)
  /\ UNCHANGED <<streamOnly, pendingVars, upstream, connected, watchdogs, torn>>

(* pull: the read is done.                                                    *)
PullDone(r) ==
  /\ Reads(r) /\ connected[r] /\ upstream[r] = "flushed"
  /\ client' = [client EXCEPT ![r] = "closed"]
  /\ connected' = [connected EXCEPT ![r] = FALSE]
  /\ watchdogs' = [watchdogs EXCEPT ![r] = {}]
  /\ UNCHANGED <<streamOnly, pendingVars, upstream, finalized, torn, recordVars>>

(* pull: the read fails.                                                      *)
ReadError(r) ==
  /\ Reads(r) /\ upstream[r] = "broken"
  /\ client' = [client EXCEPT ![r] = "closed"]
  /\ watchdogs' = [watchdogs EXCEPT ![r] = {}]
  /\ Disconnect(r)
  /\ Finalize(r)
  /\ UNCHANGED <<streamOnly, upstream, torn>>

(* The client cancels, possibly with the end of the stream still unread.      *)
ClientLeaves(r) ==
  /\ Reads(r)
  /\ client' = [client EXCEPT ![r] = "gone"]
  /\ watchdogs' = [watchdogs EXCEPT ![r] = {}]
  /\ upstream' = Aborted(r)
  /\ Disconnect(r)
  /\ Finalize(r)
  /\ UNCHANGED <<streamOnly, torn>>

-----------------------------------------------------------------------------
Settle(r) ==
  \/ \E k \in Result : Keep(r, k) \/ Refresh(r, k) \/ Trim(r, k) \/ Reject(r, k)
  \/ ReadBody(r) \/ Block(r) \/ Pipe(r)
  \/ Refreshed(r) \/ RefreshFailed(r)

Pull(r) == PullClosed(r) \/ PullDone(r) \/ ReadError(r)

Next ==
  \/ \E r \in Request :
       \/ Start(r) \/ Refuse(r) \/ Settle(r)
       \/ \E u \in BOOLEAN : BodyRead(r, u)
       \/ Chunk(r) \/ Flush(r) \/ FlushThrows(r) \/ Break(r)
       \/ \E w \in {"first", "stall", "max"} : Watchdog(r, w)
       \/ Pull(r) \/ ClientLeaves(r)
  \/ PendingTimeout

(* A fetch settles (connect timeout), a refresh does, the duration watchdog   *)
(* fires, and the HTTP layer pulls until its stream closes.  Nothing bounds   *)
(* the reading of a body, and each chunk sets the stall watchdog back.        *)
Fairness ==
  \A r \in Request :
    /\ WF_vars(Settle(r))
    /\ WF_vars(Watchdog(r, "max"))
    /\ WF_vars(Pull(r))

Spec == Init /\ [][Next]_vars /\ Fairness

-----------------------------------------------------------------------------
Ended(r) == phase[r] = "answered" \/ client[r] \in {"closed", "gone"}

(* The concurrency gauge is the number of first upstream calls in progress:   *)
(* no way out of the call, returned, thrown or retried, keeps or returns a    *)
(* slot twice.                                                                *)
SlotsMatchCalls ==
  inFlight = Cardinality({r \in Request : phase[r] = "executing" /\ dispatch[r] = "first"})

(* Every ended request has been counted down, whichever path ended it, and    *)
(* none twice, except when the client left after the transform's flush had    *)
(* counted down and before it read the end.                                   *)
CountedDownOnce ==
  \A r \in Request :
    /\ Ended(r) => downs[r] >= 1
    /\ downs[r] >= 2 => upstream[r] = "flushed" /\ client[r] = "gone"

(* The pending counter never shows more than the requests that were counted   *)
(* in and not out; only a request refused for lack of a slot stays in it.     *)
PendingIsOwed ==
  pending <= Cardinality({r \in Request : phase[r] # "new" /\ downs[r] = 0})

(* A stream that ended has one usage record and its final detail row, by      *)
(* whatever path it ended; without them it had none to the last, and then the *)
(* flush failed.                                                              *)
ServedIsRecorded ==
  \A r \in Request : client[r] \in {"closed", "gone"} =>
    \/ counted[r] = 1 /\ detail[r] = "final"
    \/ torn[r] /\ counted[r] = 0 /\ detail[r] = "placeholder"

(* One execute call sends a bounded number of upstream requests, however the  *)
(* statuses alternate.                                                        *)
RetriesAreBounded == \A r \in Request : sent[r] <= Urls * (MostRetries + 1)

(* No more calls than the cap allows are in progress, and none goes on for    *)
(* more upstream requests than its retries are worth.                         *)
CallsAreBounded == SlotsMatchCalls /\ RetriesAreBounded

(* A stream comes to an end for the client even if the provider drips bytes   *)
(* for ever and the client never leaves.                                      *)
EveryStreamEnds == \A r \in Request : phase[r] = "piping" ~> client[r] # "reading"
===============================================================================
