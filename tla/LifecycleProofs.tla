---------------------------- MODULE LifecycleProofs ----------------------------
(***************************************************************************)
(* Proofs about what is done for one request.                              *)
(*                                                                         *)
(* StreamLifecycle, for any requests, base URLs, retries and concurrency   *)
(* cap: how often a request is counted down and what it records, whichever *)
(* path it takes; the concurrency gauge; the pending counter; the number   *)
(* of upstream requests of one call.                                       *)
(*                                                                         *)
(* ThinkingEffort, for any models, budgets and limits: the depth of        *)
(* thinking a client asks for is the depth the provider is told.           *)
(*                                                                         *)
(* TranslatedRequest, for conversations of any length: the shape of what   *)
(* Claude and Gemini get.  Each converter and each repair pass is shown to *)
(* turn lists of messages of one set (Message, EitherMessage,              *)
(* OpenAiMessage, ProperMessage, FullMessage) into lists of another.       *)
(***************************************************************************)
EXTENDS StreamLifecycle, ThinkingEffort, TranslatedRequest, FiniteSetTheorems, TLAPS

TypedDispatch ==
  /\ phase \in [Request -> Phase]
  /\ dispatch \in [Request -> {"first", "refreshed", "trimmed"}]
  /\ downs \in [Request -> Nat]

TypedStream ==
  /\ upstream \in [Request -> {"none", "open", "flushed", "broken"}]
  /\ connected \in [Request -> BOOLEAN]
  /\ watchdogs \in [Request -> SUBSET {"first", "stall", "max"}]
  /\ client \in [Request -> {"none", "reading", "closed", "gone"}]
  /\ finalized \in [Request -> BOOLEAN]
  /\ torn \in [Request -> BOOLEAN]

TypedRecords ==
  /\ detail \in [Request -> {"none", "placeholder", "final", "error"}]
  /\ counted \in [Request -> Nat]

Typed == TypedDispatch /\ TypedStream /\ TypedRecords

\* Nothing has been sent to the client, nothing recorded, nothing counted down.
Untouched(r) ==
  /\ upstream[r] = "none" /\ client[r] = "none" /\ watchdogs[r] = {}
  /\ connected[r] /\ ~finalized[r] /\ counted[r] = 0 /\ downs[r] = 0

\* Answered without a stream, or about to be.
Streamless(r) ==
  /\ upstream[r] = "none" /\ client[r] = "none" /\ watchdogs[r] = {}
  /\ downs[r] = 1

\* A stream, before and after the client's end of it closed: what it has been
\* counted down by is its flush, its disconnect, or both when the client left in
\* between.
Piped(r) ==
  /\ upstream[r] \in {"open", "flushed", "broken"} /\ client[r] # "none"
  /\ upstream[r] = "flushed" => watchdogs[r] = {}
  /\ ~connected[r] => upstream[r] # "open"
  /\ client[r] # "reading" => ~connected[r]
  /\ client[r] = "reading" /\ connected[r] => downs[r] = IF upstream[r] = "flushed" THEN 1 ELSE 0
  /\ client[r] = "reading" /\ ~connected[r] => upstream[r] = "broken" /\ downs[r] = 1
  /\ client[r] = "closed" => downs[r] = 1
  /\ client[r] = "gone" => downs[r] = IF upstream[r] = "flushed" THEN 2 ELSE 1

\* What is recorded of a stream.
Recorded(r) ==
  /\ finalized[r] => counted[r] = 1 /\ detail[r] = "final"
  /\ ~finalized[r] => counted[r] = 0 /\ detail[r] = "placeholder"
  /\ upstream[r] = "flushed" \/ client[r] # "reading" => finalized[r] \/ torn[r]

Fate(r) ==
  /\ phase[r] \in {"new", "executing", "refreshing", "refused"} => Untouched(r)
  /\ phase[r] \in {"reading", "answered"} => Streamless(r)
  /\ phase[r] = "piping" => Piped(r) /\ Recorded(r)
  /\ phase[r] = "new" => dispatch[r] = "first"

StateInv == Typed /\ \A r \in Request : Fate(r)

\* The step leaves request q alone.
Spared(q) ==
  /\ phase'[q] = phase[q] /\ dispatch'[q] = dispatch[q] /\ downs'[q] = downs[q]
  /\ upstream'[q] = upstream[q] /\ connected'[q] = connected[q] /\ watchdogs'[q] = watchdogs[q]
  /\ client'[q] = client[q] /\ finalized'[q] = finalized[q] /\ torn'[q] = torn[q]
  /\ detail'[q] = detail[q] /\ counted'[q] = counted[q]

-----------------------------------------------------------------------------
LEMMA SparedKeepsFate ==
  ASSUME NEW q \in Request, Fate(q), Spared(q) PROVE Fate(q)'
BY DEF Fate, Untouched, Streamless, Piped, Recorded, Spared

(* A step of r that gives it a fate preserves all. *)
LEMMA OneRequest ==
  ASSUME StateInv, NEW r \in Request, Typed', Fate(r)', \A q \in Request \ {r} : Spared(q)
  PROVE  StateInv'
<1>1. ASSUME NEW q \in Request PROVE Fate(q)'
  BY SparedKeepsFate DEF StateInv
<1> QED BY <1>1 DEF StateInv

LEMMA InitState == Init => StateInv
BY DEF Init, StateInv, Typed, TypedDispatch, TypedStream, TypedRecords, Phase, Fate, Untouched

-----------------------------------------------------------------------------
(* The dispatch. *)

LEMMA StartState ==
  ASSUME StateInv, NEW r \in Request, Start(r) \/ Refuse(r) PROVE StateInv'
<1>1. Typed'
  BY DEF StateInv, Start, Refuse, CountUp, streamVars, recordVars, Typed, TypedDispatch,
         TypedStream, TypedRecords, Phase
<1>2. \A q \in Request \ {r} : Spared(q)
  BY DEF StateInv, Start, Refuse, CountUp, streamVars, recordVars, Typed, TypedDispatch, Spared
<1>3. Fate(r)'
  BY DEF StateInv, Start, Refuse, CountUp, streamVars, recordVars, Typed, TypedDispatch,
         Fate, Untouched
<1> QED BY <1>1, <1>2, <1>3, OneRequest

LEMMA RetryState ==
  ASSUME StateInv, NEW r \in Request, NEW k \in Result,
         Keep(r, k) \/ Refresh(r, k) \/ Trim(r, k)
  PROVE  StateInv'
<1>1. Typed'
  BY DEF StateInv, Keep, Refresh, Trim, pendingVars, streamVars, recordVars, Typed,
         TypedDispatch, TypedStream, TypedRecords, Phase
<1>2. \A q \in Request \ {r} : Spared(q)
  BY DEF StateInv, Keep, Refresh, Trim, pendingVars, streamVars, recordVars, Typed,
         TypedDispatch, Spared
<1>3. Fate(r)'
  BY DEF StateInv, Keep, Refresh, Trim, pendingVars, streamVars, recordVars, Typed,
         TypedDispatch, Fate, Untouched
<1> QED BY <1>1, <1>2, <1>3, OneRequest

LEMMA RefreshedState ==
  ASSUME StateInv, NEW r \in Request, Refreshed(r) PROVE StateInv'
<1>1. Typed'
  BY DEF StateInv, Refreshed, pendingVars, streamVars, recordVars, Typed,
         TypedDispatch, TypedStream, TypedRecords, Phase
<1>2. \A q \in Request \ {r} : Spared(q)
  BY DEF StateInv, Refreshed, pendingVars, streamVars, recordVars, Typed, TypedDispatch, Spared
<1>3. Fate(r)'
  BY DEF StateInv, Refreshed, pendingVars, streamVars, recordVars, Typed,
         TypedDispatch, Fate, Untouched
<1> QED BY <1>1, <1>2, <1>3, OneRequest

LEMMA ErrorState ==
  ASSUME StateInv, NEW r \in Request, phase[r] \in {"executing", "refreshing"},
         GiveErrorBack(r), UNCHANGED dispatch
  PROVE  StateInv'
<1>1. Typed'
  BY DEF StateInv, GiveErrorBack, CountDown, streamVars, Typed,
         TypedDispatch, TypedStream, TypedRecords, Phase
<1>2. \A q \in Request \ {r} : Spared(q)
  BY DEF StateInv, GiveErrorBack, CountDown, streamVars, Typed, TypedDispatch, TypedRecords, Spared
<1>3. Fate(r)'
  BY DEF StateInv, GiveErrorBack, CountDown, streamVars, Typed, TypedDispatch, Fate,
         Untouched, Streamless
<1> QED BY <1>1, <1>2, <1>3, OneRequest

LEMMA BodyState ==
  ASSUME StateInv, NEW r \in Request, NEW u \in BOOLEAN,
         ReadBody(r) \/ BodyRead(r, u) \/ Block(r)
  PROVE  StateInv'
<1>1. Typed'
  <2>1. TypedDispatch'
    BY DEF StateInv, ReadBody, BodyRead, Block, CountDown, pendingVars, Typed, TypedDispatch, Phase
  <2>2. TypedStream'
    BY DEF StateInv, ReadBody, BodyRead, Block, streamVars, Typed, TypedStream
  <2>3. TypedRecords'
    BY DEF StateInv, ReadBody, BodyRead, Block, recordVars, Typed, TypedRecords
  <2> QED BY <2>1, <2>2, <2>3 DEF Typed
<1>2. \A q \in Request \ {r} : Spared(q)
  BY DEF StateInv, ReadBody, BodyRead, Block, CountDown, pendingVars, streamVars, recordVars,
         Typed, TypedDispatch, TypedStream, TypedRecords, Spared
<1>3. Fate(r)'
  BY DEF StateInv, ReadBody, BodyRead, Block, CountDown, pendingVars, streamVars, recordVars,
         Typed, TypedDispatch, TypedStream, Fate, Untouched, Streamless
<1> QED BY <1>1, <1>2, <1>3, OneRequest

LEMMA PipeState ==
  ASSUME StateInv, NEW r \in Request, Pipe(r) PROVE StateInv'
<1>1. Typed'
  BY DEF StateInv, Pipe, pendingVars, Typed, TypedDispatch, TypedStream, TypedRecords, Phase
<1>2. \A q \in Request \ {r} : Spared(q)
  BY DEF StateInv, Pipe, pendingVars, Typed, TypedDispatch, TypedStream, TypedRecords, Spared
<1>3. Piped(r)' /\ Recorded(r)' /\ phase'[r] = "piping"
  BY DEF StateInv, Pipe, pendingVars, Typed, TypedDispatch, TypedStream, TypedRecords, Fate,
         Untouched, Piped, Recorded
<1>4. Fate(r)'
  BY <1>3 DEF Fate
<1> QED BY <1>1, <1>2, <1>4, OneRequest

-----------------------------------------------------------------------------
(* The stream: only a request that is being piped moves. *)

LEMMA PipedOnly ==
  ASSUME StateInv, NEW r \in Request,
         upstream[r] = "open" \/ client[r] = "reading" \/ watchdogs[r] # {}
  PROVE  phase[r] = "piping" /\ Piped(r) /\ Recorded(r)
BY DEF StateInv, Typed, TypedDispatch, Phase, Fate, Untouched, Streamless

LEMMA StreamRequest ==
  ASSUME StateInv, NEW r \in Request, UNCHANGED <<phase, dispatch>>, phase[r] = "piping",
         (TypedStream /\ TypedRecords)', downs' \in [Request -> Nat],
         Piped(r)', Recorded(r)', \A q \in Request \ {r} : Spared(q)
  PROVE  StateInv'
<1>1. Typed'
  BY DEF StateInv, Typed, TypedDispatch
<1>2. Fate(r)'
  BY DEF Fate
<1> QED BY <1>1, <1>2, OneRequest

LEMMA FinalizeRecords ==
  ASSUME StateInv, NEW r \in Request, Recorded(r), Finalize(r)
  PROVE  /\ finalized' \in [Request -> BOOLEAN] /\ TypedRecords'
         /\ finalized'[r] /\ counted'[r] = 1 /\ detail'[r] = "final"
         /\ \A q \in Request \ {r} : /\ finalized'[q] = finalized[q] /\ detail'[q] = detail[q]
                                     /\ counted'[q] = counted[q]
<1>0. TypedStream /\ TypedRecords
  BY DEF StateInv, Typed
<1>1. CASE finalized[r]
  BY <1>0, <1>1 DEF TypedStream, TypedRecords, Recorded, Finalize, recordVars
<1>2. CASE ~finalized[r]
  <2>1. finalized' = [finalized EXCEPT ![r] = TRUE] /\ detail' = [detail EXCEPT ![r] = "final"]
    BY <1>2 DEF Finalize
  <2>2. counted' = [counted EXCEPT ![r] = 1]
    BY <1>0, <1>2 DEF Finalize, Recorded, TypedRecords
  <2> QED BY <1>0, <2>1, <2>2 DEF TypedStream, TypedRecords
<1> QED BY <1>1, <1>2

LEMMA DisconnectCounts ==
  ASSUME StateInv, NEW r \in Request, Disconnect(r)
  PROVE  /\ connected' \in [Request -> BOOLEAN] /\ downs' \in [Request -> Nat]
         /\ ~connected'[r] /\ downs'[r] = IF connected[r] THEN downs[r] + 1 ELSE downs[r]
         /\ \A q \in Request \ {r} : connected'[q] = connected[q] /\ downs'[q] = downs[q]
BY DEF StateInv, Typed, TypedDispatch, TypedStream, Disconnect, CountDownIf, CountDown, pendingVars

LEMMA ProviderState ==
  ASSUME StateInv, NEW r \in Request, Chunk(r) \/ Break(r) \/ Flush(r) \/ FlushThrows(r)
  PROVE  StateInv'
<1>0. phase[r] = "piping" /\ Piped(r) /\ Recorded(r) /\ Typed /\ upstream[r] = "open"
  BY PipedOnly DEF StateInv, Chunk, Break, Flush, FlushThrows
<1>1. CASE Chunk(r)
  <2>1. /\ TypedStream' /\ TypedRecords' /\ downs' \in [Request -> Nat]
        /\ \A q \in Request \ {r} : Spared(q)
    BY <1>0, <1>1 DEF Chunk, streamOnly, pendingVars, recordVars, Typed, TypedDispatch,
                      TypedStream, TypedRecords, Spared
  <2>2. Piped(r)' /\ Recorded(r)'
    BY <1>0, <1>1 DEF Chunk, pendingVars, recordVars, Typed, TypedStream, Piped, Recorded
  <2> QED BY <1>0, <1>1, <2>1, <2>2, StreamRequest DEF Chunk, streamOnly
<1>2. CASE Break(r)
  <2>1. /\ TypedStream' /\ TypedRecords' /\ downs' \in [Request -> Nat]
        /\ \A q \in Request \ {r} : Spared(q)
    BY <1>0, <1>2 DEF Break, streamOnly, pendingVars, recordVars, Typed, TypedDispatch,
                      TypedStream, TypedRecords, Spared
  <2>2. Piped(r)' /\ Recorded(r)'
    BY <1>0, <1>2 DEF Break, pendingVars, recordVars, Typed, TypedStream, Piped, Recorded
  <2> QED BY <1>0, <1>2, <2>1, <2>2, StreamRequest DEF Break, streamOnly
<1>3. CASE Flush(r)
  <2>1. /\ finalized' \in [Request -> BOOLEAN] /\ TypedRecords'
        /\ finalized'[r] /\ counted'[r] = 1 /\ detail'[r] = "final"
        /\ \A q \in Request \ {r} : /\ finalized'[q] = finalized[q] /\ detail'[q] = detail[q]
                                    /\ counted'[q] = counted[q]
    BY <1>0, <1>3, FinalizeRecords DEF Flush
  <2>2. /\ TypedStream' /\ downs' \in [Request -> Nat]
        /\ \A q \in Request \ {r} : Spared(q)
    <3>1. /\ upstream' = [upstream EXCEPT ![r] = "flushed"]
          /\ watchdogs' = [watchdogs EXCEPT ![r] = {}]
          /\ downs' = [downs EXCEPT ![r] = @ + 1]
          /\ UNCHANGED <<phase, dispatch, connected, client, torn>>
      BY <1>3 DEF Flush, CountDown, streamOnly
    <3>2. TypedStream' /\ downs' \in [Request -> Nat]
      BY <1>0, <2>1, <3>1 DEF Typed, TypedDispatch, TypedStream
    <3>3. ASSUME NEW q \in Request \ {r} PROVE Spared(q)
      BY <1>0, <2>1, <3>1 DEF Typed, TypedDispatch, TypedStream, Spared
    <3> QED BY <3>2, <3>3
  <2>3. Piped(r)' /\ Recorded(r)'
    BY <1>0, <1>3, <2>1 DEF Flush, CountDown, Typed, TypedDispatch, TypedStream, Piped, Recorded
  <2> QED BY <1>0, <1>3, <2>1, <2>2, <2>3, StreamRequest DEF Flush, streamOnly
<1>4. CASE FlushThrows(r)
  <2>1. /\ TypedStream' /\ TypedRecords' /\ downs' \in [Request -> Nat]
        /\ \A q \in Request \ {r} : Spared(q)
    BY <1>0, <1>4 DEF FlushThrows, CountDown, streamOnly, recordVars, Typed, TypedDispatch,
                      TypedStream, TypedRecords, Spared
  <2>2. Piped(r)' /\ Recorded(r)'
    BY <1>0, <1>4 DEF FlushThrows, CountDown, recordVars, Typed, TypedDispatch, TypedStream,
                      Piped, Recorded
  <2> QED BY <1>0, <1>4, <2>1, <2>2, StreamRequest DEF FlushThrows, streamOnly
<1> QED BY <1>1, <1>2, <1>3, <1>4

LEMMA WatchdogState ==
  ASSUME StateInv, NEW r \in Request, NEW w, Watchdog(r, w) PROVE StateInv'
<1>0. phase[r] = "piping" /\ Piped(r) /\ Recorded(r) /\ Typed /\ watchdogs[r] # {}
  BY PipedOnly DEF StateInv, Watchdog
<1>1. watchdogs' \in [Request -> SUBSET {"first", "stall", "max"}]
  BY <1>0 DEF Watchdog, Typed, TypedStream
<1>2. CASE connected[r]
  <2>1. /\ connected' \in [Request -> BOOLEAN] /\ downs' \in [Request -> Nat]
        /\ ~connected'[r] /\ downs'[r] = downs[r] + 1
        /\ \A q \in Request \ {r} : connected'[q] = connected[q] /\ downs'[q] = downs[q]
    BY <1>2, DisconnectCounts DEF Watchdog
  <2>2. upstream' = Aborted(r)
    BY <1>2 DEF Watchdog
  <2>3. /\ TypedStream' /\ TypedRecords'
        /\ \A q \in Request \ {r} : Spared(q)
    BY <1>0, <1>1, <2>1, <2>2 DEF Watchdog, Aborted, streamOnly, recordVars, Typed, TypedStream,
                                  TypedRecords, Spared
  <2>4. Piped(r)' /\ Recorded(r)'
    <3>1. /\ client[r] = "reading" /\ upstream[r] \in {"open", "broken"} /\ downs[r] = 0
      BY <1>0, <1>2 DEF Piped
    <3>2. upstream'[r] = "broken" /\ downs'[r] = 1
      BY <1>0, <2>1, <2>2, <3>1 DEF Aborted, Typed, TypedStream
    <3>3. UNCHANGED <<client, finalized, torn, detail, counted>>
      BY DEF Watchdog, recordVars
    <3> QED BY <1>0, <2>1, <3>1, <3>2, <3>3 DEF Piped, Recorded
  <2> QED BY <1>0, <2>1, <2>3, <2>4, StreamRequest DEF Watchdog, streamOnly
<1>3. CASE ~connected[r]
  <2>1. UNCHANGED <<connected, pendingVars, upstream>>
    BY <1>3 DEF Watchdog
  <2>2. /\ TypedStream' /\ TypedRecords' /\ downs' \in [Request -> Nat]
        /\ \A q \in Request \ {r} : Spared(q)
    BY <1>0, <1>1, <2>1 DEF Watchdog, streamOnly, pendingVars, recordVars, Typed, TypedDispatch,
                            TypedStream, TypedRecords, Spared
  <2>3. Piped(r)' /\ Recorded(r)'
    BY <1>0, <2>1 DEF Watchdog, pendingVars, recordVars, Typed, TypedStream, Piped, Recorded
  <2> QED BY <1>0, <2>2, <2>3, StreamRequest DEF Watchdog, streamOnly
<1> QED BY <1>2, <1>3

LEMMA PullState ==
  ASSUME StateInv, NEW r \in Request, PullClosed(r) \/ PullDone(r) PROVE StateInv'
<1>0. phase[r] = "piping" /\ Piped(r) /\ Recorded(r) /\ Typed /\ client[r] = "reading"
  BY PipedOnly DEF StateInv, PullClosed, PullDone, Reads
<1>1. CASE PullClosed(r)
  <2>1. /\ finalized' \in [Request -> BOOLEAN] /\ TypedRecords'
        /\ finalized'[r] /\ counted'[r] = 1 /\ detail'[r] = "final"
        /\ \A q \in Request \ {r} : /\ finalized'[q] = finalized[q] /\ detail'[q] = detail[q]
                                    /\ counted'[q] = counted[q]
    BY <1>0, <1>1, FinalizeRecords DEF PullClosed
  <2>2. /\ TypedStream' /\ downs' \in [Request -> Nat]
        /\ \A q \in Request \ {r} : Spared(q)
    BY <1>0, <1>1, <2>1 DEF PullClosed, pendingVars, streamOnly, Typed, TypedDispatch, TypedStream,
                            Spared
  <2>3. Piped(r)' /\ Recorded(r)'
    BY <1>0, <1>1, <2>1 DEF PullClosed, pendingVars, Typed, TypedStream, Piped, Recorded
  <2> QED BY <1>0, <1>1, <2>1, <2>2, <2>3, StreamRequest DEF PullClosed, streamOnly
<1>2. CASE PullDone(r)
  <2>1. /\ TypedStream' /\ TypedRecords' /\ downs' \in [Request -> Nat]
        /\ \A q \in Request \ {r} : Spared(q)
    BY <1>0, <1>2 DEF PullDone, pendingVars, recordVars, streamOnly, Typed, TypedDispatch,
                      TypedStream, TypedRecords, Spared
  <2>2. Piped(r)' /\ Recorded(r)'
    BY <1>0, <1>2 DEF PullDone, pendingVars, recordVars, Typed, TypedStream, Piped, Recorded
  <2> QED BY <1>0, <1>2, <2>1, <2>2, StreamRequest DEF PullDone, streamOnly
<1> QED BY <1>1, <1>2

LEMMA EndState ==
  ASSUME StateInv, NEW r \in Request, ReadError(r) \/ ClientLeaves(r) PROVE StateInv'
<1>0. phase[r] = "piping" /\ Piped(r) /\ Recorded(r) /\ Typed /\ client[r] = "reading"
  BY PipedOnly DEF StateInv, ReadError, ClientLeaves, Reads
<1>1. /\ finalized' \in [Request -> BOOLEAN] /\ TypedRecords'
      /\ finalized'[r] /\ counted'[r] = 1 /\ detail'[r] = "final"
      /\ \A q \in Request \ {r} : /\ finalized'[q] = finalized[q] /\ detail'[q] = detail[q]
                                  /\ counted'[q] = counted[q]
  BY <1>0, FinalizeRecords DEF ReadError, ClientLeaves
<1>2. /\ connected' \in [Request -> BOOLEAN] /\ downs' \in [Request -> Nat]
      /\ ~connected'[r] /\ downs'[r] = IF connected[r] THEN downs[r] + 1 ELSE downs[r]
      /\ \A q \in Request \ {r} : connected'[q] = connected[q] /\ downs'[q] = downs[q]
  BY DisconnectCounts DEF ReadError, ClientLeaves
<1>3. /\ TypedStream'
      /\ \A q \in Request \ {r} : Spared(q)
  BY <1>0, <1>1, <1>2 DEF ReadError, ClientLeaves, Aborted, streamOnly, Typed, TypedStream, Spared
<1>4. Piped(r)' /\ Recorded(r)'
  BY <1>0, <1>1, <1>2 DEF ReadError, ClientLeaves, Aborted, Typed, TypedDispatch, TypedStream,
                          Piped, Recorded
<1>5. UNCHANGED <<phase, dispatch>>
  BY DEF ReadError, ClientLeaves, streamOnly
<1> QED BY <1>0, <1>1, <1>2, <1>3, <1>4, <1>5, StreamRequest

LEMMA StateStep == StateInv /\ [Next]_vars => StateInv'
<1> SUFFICES ASSUME StateInv, [Next]_vars PROVE StateInv'
  OBVIOUS
<1>1. CASE \E r \in Request : Start(r) \/ Refuse(r)
  BY <1>1, StartState
<1>2. CASE \E r \in Request : \E k \in Result : Keep(r, k) \/ Refresh(r, k) \/ Trim(r, k)
  BY <1>2, RetryState
<1>3. CASE \E r \in Request : \E k \in Result : Reject(r, k)
  BY <1>3, ErrorState DEF Reject
<1>4. CASE \E r \in Request : RefreshFailed(r)
  BY <1>4, ErrorState DEF RefreshFailed
<1>5. CASE \E r \in Request : Refreshed(r)
  BY <1>5, RefreshedState
<1>6. CASE \E r \in Request : ReadBody(r) \/ Block(r) \/ \E u \in BOOLEAN : BodyRead(r, u)
  BY <1>6, BodyState
<1>7. CASE \E r \in Request : Pipe(r)
  BY <1>7, PipeState
<1>8. CASE \E r \in Request : Chunk(r) \/ Break(r) \/ Flush(r) \/ FlushThrows(r)
  BY <1>8, ProviderState
<1>9. CASE \E r \in Request : \E w \in {"first", "stall", "max"} : Watchdog(r, w)
  BY <1>9, WatchdogState
<1>10. CASE \E r \in Request : PullClosed(r) \/ PullDone(r)
  BY <1>10, PullState
<1>11. CASE \E r \in Request : ReadError(r) \/ ClientLeaves(r)
  BY <1>11, EndState
<1>12. CASE PendingTimeout \/ UNCHANGED vars
  <2>1. UNCHANGED <<phase, dispatch, downs, streamVars, recordVars>>
    BY <1>12 DEF PendingTimeout, vars, pendingVars
  <2>2. Typed' /\ \A q \in Request : Spared(q)
    BY <2>1 DEF StateInv, Typed, TypedDispatch, TypedStream, TypedRecords, streamVars, recordVars,
                Spared
  <2>3. ASSUME NEW q \in Request PROVE Fate(q)'
    BY <2>2, SparedKeepsFate DEF StateInv
  <2> QED BY <2>2, <2>3 DEF StateInv
<1> QED BY <1>1, <1>2, <1>3, <1>4, <1>5, <1>6, <1>7, <1>8, <1>9, <1>10, <1>11, <1>12
     DEF Next, Settle, Pull

THEOREM StateAlways == Spec => []StateInv
BY InitState, StateStep, PTL DEF Spec

\* trackPendingRequest(..., false) from the handlers, the transform's flush and
\* the stream controller: every path to the end counts a request down, and none
\* does so twice but a client's leaving between the flush and its end of stream.
THEOREM RequestsAreCountedDown == Spec => []CountedDownOnce
<1>1. StateInv => CountedDownOnce
  <2> SUFFICES ASSUME StateInv, NEW r \in Request
               PROVE  /\ Ended(r) => downs[r] >= 1
                      /\ downs[r] >= 2 => upstream[r] = "flushed" /\ client[r] = "gone"
    BY DEF CountedDownOnce
  <2>1. Fate(r) /\ phase[r] \in Phase /\ client[r] \in {"none", "reading", "closed", "gone"}
    BY DEF StateInv, Typed, TypedDispatch, TypedStream
  <2>2. CASE phase[r] \in {"new", "executing", "refreshing", "refused"}
    BY <2>1, <2>2 DEF Ended, Fate, Untouched
  <2>3. CASE phase[r] \in {"reading", "answered"}
    BY <2>1, <2>3 DEF Ended, Fate, Streamless
  <2>4. CASE phase[r] = "piping"
    BY <2>1, <2>4 DEF Ended, Fate, Piped
  <2> QED BY <2>1, <2>2, <2>3, <2>4 DEF Phase
<1> QED BY <1>1, StateAlways, PTL

\* finalizeUsage: a stream that ended has its record and its final detail row.
THEOREM StreamsAreRecorded == Spec => []ServedIsRecorded
<1>1. StateInv => ServedIsRecorded
  BY DEF StateInv, ServedIsRecorded, Typed, TypedDispatch, TypedStream, Phase, Fate,
         Untouched, Streamless, Piped, Recorded
<1> QED BY <1>1, StateAlways, PTL

-----------------------------------------------------------------------------
(* The concurrency gauge. *)

Calls == {r \in Request : phase[r] = "executing" /\ dispatch[r] = "first"}
GaugeInv == inFlight = Cardinality(Calls)

LEMMA CallsAreFinite == IsFiniteSet(Calls) /\ Cardinality(Calls) \in Nat
BY LifecycleAssumption, FS_Subset, FS_CardinalityType DEF Calls

LEMMA CallsKept ==
  ASSUME GaugeInv, Calls' = Calls, inFlight' = inFlight PROVE GaugeInv'
BY DEF GaugeInv

LEMMA CallReturned ==
  ASSUME GaugeInv, NEW r \in Calls, Calls' = Calls \ {r}, inFlight' = Released PROVE GaugeInv'
<1>1. Cardinality(Calls \ {r}) = Cardinality(Calls) - 1
  BY CallsAreFinite, FS_RemoveElement
<1>2. Cardinality(Calls) # 0
  BY CallsAreFinite, FS_EmptySet
<1> QED BY <1>1, <1>2, CallsAreFinite DEF GaugeInv, Released

\* A call that settles: with it goes its slot, if it had one.
LEMMA CallSettled ==
  ASSUME StateInv, GaugeInv, NEW r \in Request, NEW k, phase[r] = "executing", ReleaseSlot(r, k),
         phase'[r] # "executing" \/ dispatch'[r] # "first",
         \A q \in Request \ {r} : phase'[q] = phase[q] /\ dispatch'[q] = dispatch[q]
  PROVE  GaugeInv'
<1>1. CASE dispatch[r] = "first"
  <2>1. r \in Calls /\ inFlight' = Released
    BY <1>1 DEF Calls, ReleaseSlot
  <2>2. Calls' = Calls \ {r}
    BY DEF Calls
  <2> QED BY <2>1, <2>2, CallReturned
<1>2. CASE dispatch[r] # "first"
  <2>1. inFlight' = inFlight
    BY <1>2 DEF ReleaseSlot
  <2>2. Calls' = Calls
    BY <1>2 DEF Calls
  <2> QED BY <2>1, <2>2, CallsKept
<1> QED BY <1>1, <1>2

LEMMA GaugeStep == StateInv /\ GaugeInv /\ [Next]_vars => GaugeInv'
<1> SUFFICES ASSUME StateInv, GaugeInv, [Next]_vars PROVE GaugeInv'
  OBVIOUS
<1>0. TypedDispatch
  BY DEF StateInv, Typed
<1>1. ASSUME UNCHANGED <<phase, dispatch, inFlight>> PROVE GaugeInv'
  BY <1>1 DEF GaugeInv, Calls
<1>2. CASE \E r \in Request : Start(r)
  <2>1. PICK r \in Request : Start(r)
    BY <1>2
  <2>2. phase[r] = "new" /\ dispatch[r] = "first" /\ UNCHANGED dispatch /\ inFlight' = inFlight + 1
        /\ phase' = [phase EXCEPT ![r] = "executing"]
    BY <2>1 DEF Start, StateInv, Fate
  <2>3. r \notin Calls /\ Calls' = Calls \cup {r}
    BY <1>0, <2>2 DEF Calls, TypedDispatch
  <2> QED BY <2>2, <2>3, CallsAreFinite, FS_AddElement DEF GaugeInv
<1>3. CASE \E r \in Request : Refuse(r) \/ RefreshFailed(r) \/ \E u \in BOOLEAN : BodyRead(r, u)
  <2>1. PICK r \in Request : Refuse(r) \/ RefreshFailed(r) \/ \E u \in BOOLEAN : BodyRead(r, u)
    BY <1>3
  <2>2. /\ UNCHANGED <<dispatch, inFlight>> /\ phase[r] # "executing"
        /\ phase' = [phase EXCEPT ![r] = phase'[r]] /\ phase'[r] # "executing"
    BY <1>0, <2>1 DEF Refuse, RefreshFailed, GiveErrorBack, BodyRead, TypedDispatch
  <2>3. Calls' = Calls
    BY <1>0, <2>2 DEF Calls, TypedDispatch
  <2> QED BY <2>2, <2>3, CallsKept
<1>4. CASE \E r \in Request : Refreshed(r)
  <2>1. PICK r \in Request : Refreshed(r)
    BY <1>4
  <2>2. Calls' = Calls /\ UNCHANGED inFlight
    BY <1>0, <2>1 DEF Refreshed, Calls, TypedDispatch
  <2> QED BY <2>2, CallsKept
<1>5. CASE \E r \in Request : \E k \in Result : Refresh(r, k) \/ Trim(r, k) \/ Reject(r, k)
  <2>1. PICK r \in Request, k \in Result : Refresh(r, k) \/ Trim(r, k) \/ Reject(r, k)
    BY <1>5
  <2>2. /\ phase[r] = "executing" /\ ReleaseSlot(r, k)
        /\ phase'[r] # "executing" \/ dispatch'[r] # "first"
        /\ \A q \in Request \ {r} : phase'[q] = phase[q] /\ dispatch'[q] = dispatch[q]
    BY <1>0, <2>1 DEF Refresh, Trim, Reject, GiveErrorBack, TypedDispatch
  <2> QED BY <2>2, CallSettled
<1>6. CASE \E r \in Request : ReadBody(r) \/ Block(r) \/ Pipe(r)
  <2>1. PICK r \in Request : ReadBody(r) \/ Block(r) \/ Pipe(r)
    BY <1>6
  <2>2. /\ phase[r] = "executing" /\ ReleaseSlot(r, "ok")
        /\ phase'[r] # "executing"
        /\ \A q \in Request \ {r} : phase'[q] = phase[q] /\ dispatch'[q] = dispatch[q]
    BY <1>0, <2>1 DEF ReadBody, Block, Pipe, TypedDispatch
  <2> QED BY <2>2, CallSettled
<1>7. CASE \E r \in Request :
              \/ \E k \in Result : Keep(r, k)
              \/ Chunk(r) \/ Break(r) \/ Flush(r) \/ FlushThrows(r)
              \/ \E w \in {"first", "stall", "max"} : Watchdog(r, w)
              \/ Pull(r) \/ ClientLeaves(r)
  BY <1>1, <1>7 DEF Keep, Chunk, Break, Flush, FlushThrows, Watchdog, Pull, PullClosed, PullDone,
                    ReadError, ClientLeaves, streamOnly
<1>8. CASE PendingTimeout \/ UNCHANGED vars
  BY <1>1, <1>8 DEF PendingTimeout, vars
<1> QED BY <1>2, <1>3, <1>4, <1>5, <1>6, <1>7, <1>8 DEF Next, Settle

-----------------------------------------------------------------------------
(* The retries of one execute call. *)

\* What a call has sent: everything on the URLs it has left behind, and one more
\* than the repetitions on the present one.
RetryInv ==
  /\ url \in [Request -> 0..Urls - 1]
  /\ tries \in [Request -> 0..MostRetries]
  /\ sent \in [Request -> Nat]
  /\ \A r \in Request : sent[r] <= url[r] * (MostRetries + 1) + tries[r] + 1

LEMMA LargestRetries ==
  MostRetries \in Nat /\ \A k \in DOMAIN Retries : Retries[k] \in Nat /\ Retries[k] <= MostRetries
<1> DEFINE Counts == {Retries[k] : k \in DOMAIN Retries}
<1>1. /\ DOMAIN Retries = {"rateLimited", "serverError", "network"}
      /\ \A k \in DOMAIN Retries : Retries[k] \in Nat
  BY RetryAssumption DEF Retries
<1>2. \E n \in Counts : \A k \in DOMAIN Retries : Retries[k] <= n
  <2>1. CASE Retries["network"] <= Retries["rateLimited"] /\ Retries["serverError"] <= Retries["rateLimited"]
    BY <1>1, <2>1
  <2>2. CASE Retries["network"] <= Retries["serverError"] /\ Retries["rateLimited"] <= Retries["serverError"]
    BY <1>1, <2>2
  <2>3. CASE Retries["rateLimited"] <= Retries["network"] /\ Retries["serverError"] <= Retries["network"]
    BY <1>1, <2>3
  <2> QED BY <1>1, <2>1, <2>2, <2>3
<1>3. MostRetries \in Counts /\ \A k \in DOMAIN Retries : Retries[k] <= MostRetries
  BY <1>2 DEF MostRetries
<1> QED BY <1>1, <1>3

LEMMA LaunchRetries ==
  ASSUME RetryInv, NEW r \in Request, Launch(r) PROVE RetryInv'
<1>1. MostRetries' = MostRetries
  BY DEF MostRetries
<1>2. /\ 0 \in 0..Urls - 1 /\ 0 \in 0..MostRetries
      /\ 1 <= 0 * (MostRetries + 1) + 0 + 1
  BY RetryAssumption, LargestRetries
<1>3. /\ url' \in [Request -> 0..Urls - 1] /\ tries' \in [Request -> 0..MostRetries]
      /\ sent' \in [Request -> Nat]
  BY <1>2 DEF RetryInv, Launch
<1>4. ASSUME NEW q \in Request
      PROVE  sent'[q] <= url'[q] * (MostRetries + 1) + tries'[q] + 1
  <2>1. CASE q = r
    BY <1>2, <2>1 DEF RetryInv, Launch
  <2>2. CASE q # r
    BY <2>2 DEF RetryInv, Launch
  <2> QED BY <2>1, <2>2
<1> QED BY <1>1, <1>3, <1>4 DEF RetryInv

LEMMA KeepRetries ==
  ASSUME RetryInv, NEW r \in Request, NEW k, Retry(r, k) \/ FallBack(r, k) PROVE RetryInv'
<1> DEFINE M == MostRetries + 1
<1>9. MostRetries' = MostRetries
  BY DEF MostRetries
<1>0. /\ MostRetries' = MostRetries /\ M \in Nat /\ MostRetries \in Nat
      /\ url[r] \in 0..Urls - 1 /\ tries[r] \in 0..MostRetries /\ sent[r] \in Nat
      /\ sent[r] <= url[r] * M + tries[r] + 1
  BY <1>9, LargestRetries DEF RetryInv
<1>1. CASE Retry(r, k)
  <2>1. tries[r] + 1 \in 0..MostRetries
    BY <1>0, <1>1, LargestRetries DEF Retry, MayRetry
  <2>2. /\ tries' = [tries EXCEPT ![r] = tries[r] + 1] /\ sent' = [sent EXCEPT ![r] = sent[r] + 1]
        /\ url' = url
    BY <1>1 DEF Retry
  <2>3. tries' \in [Request -> 0..MostRetries] /\ sent' \in [Request -> Nat]
    BY <1>0, <2>1, <2>2 DEF RetryInv
  <2>4. url[r] * M \in Nat
    BY <1>0, RetryAssumption
  <2>5. sent[r] + 1 <= url[r] * M + (tries[r] + 1) + 1
    <3> DEFINE base == url[r] * M
    <3>1. base \in Nat /\ sent[r] <= base + tries[r] + 1
      BY <1>0, <2>4
    <3> HIDE DEF base
    <3>2. sent[r] + 1 <= base + (tries[r] + 1) + 1
      BY <1>0, <3>1
    <3> QED BY <3>2 DEF base
  <2>6. \A q \in Request : sent'[q] <= url'[q] * M + tries'[q] + 1
    BY <2>2, <2>5 DEF RetryInv
  <2> QED BY <1>0, <2>2, <2>3, <2>6 DEF RetryInv
<1>2. CASE FallBack(r, k)
  <2>1. url[r] + 1 \in 0..Urls - 1
    BY <1>0, <1>2, RetryAssumption DEF FallBack, MayFallBack
  <2>2. /\ url' = [url EXCEPT ![r] = url[r] + 1] /\ sent' = [sent EXCEPT ![r] = sent[r] + 1]
        /\ tries' = [tries EXCEPT ![r] = 0]
    BY <1>2 DEF FallBack
  <2>3. /\ url' \in [Request -> 0..Urls - 1] /\ tries' \in [Request -> 0..MostRetries]
        /\ sent' \in [Request -> Nat]
    BY <1>0, <2>1, <2>2 DEF RetryInv
  <2>4. url[r] \in Nat /\ (url[r] + 1) * M = url[r] * M + M /\ url[r] * M \in Nat
    BY <1>0, RetryAssumption
  <2>5. sent[r] + 1 <= (url[r] + 1) * M + 0 + 1
    <3> DEFINE base == url[r] * M
    <3>1. base \in Nat /\ sent[r] <= base + tries[r] + 1 /\ (url[r] + 1) * M = base + M
      BY <1>0, <2>4
    <3> HIDE DEF base
    <3> QED BY <1>0, <3>1
  <2>6. ASSUME NEW q \in Request PROVE sent'[q] <= url'[q] * M + tries'[q] + 1
    <3>1. CASE q = r
      BY <2>2, <2>5, <3>1 DEF RetryInv
    <3>2. CASE q # r
      BY <2>2, <3>2 DEF RetryInv
    <3> QED BY <3>1, <3>2
  <2> QED BY <1>0, <2>3, <2>6 DEF RetryInv
<1> QED BY <1>1, <1>2

LEMMA RetryStep == RetryInv /\ [Next]_vars => RetryInv'
<1> SUFFICES ASSUME RetryInv, [Next]_vars PROVE RetryInv'
  OBVIOUS
<1>1. ASSUME UNCHANGED executorVars PROVE RetryInv'
  BY <1>1 DEF RetryInv, executorVars, MostRetries
<1>2. CASE \E r \in Request : Launch(r)
  BY <1>2, LaunchRetries
<1>3. CASE \E r \in Request : \E k \in Result : Keep(r, k)
  BY <1>3, KeepRetries DEF Keep
<1>4. CASE UNCHANGED executorVars
  BY <1>1, <1>4
<1>5. (\E r \in Request : Launch(r)) \/ (\E r \in Request : \E k \in Result : Keep(r, k))
      \/ UNCHANGED executorVars
  BY DEF Next, Settle, Pull, Start, Refuse, Refresh, Trim, Reject, Refreshed, RefreshFailed,
         ReadBody, BodyRead, Block, Pipe, Chunk, Break, Flush, FlushThrows, Watchdog, PullClosed,
         PullDone, ReadError, ClientLeaves, PendingTimeout, streamOnly, vars
<1> QED BY <1>2, <1>3, <1>4, <1>5

LEMMA RetriesFit == RetryInv => RetriesAreBounded
<1> SUFFICES ASSUME RetryInv, NEW r \in Request PROVE sent[r] <= Urls * (MostRetries + 1)
  BY DEF RetriesAreBounded
<1> DEFINE M == MostRetries + 1
           left == Urls - 1 - url[r]
<1>1. /\ M \in Nat /\ Urls \in Nat \ {0} /\ url[r] \in Nat /\ left \in Nat
      /\ tries[r] \in Nat /\ tries[r] + 1 <= M /\ sent[r] \in Nat
      /\ sent[r] <= url[r] * M + tries[r] + 1
  BY LargestRetries, RetryAssumption DEF RetryInv
<1>2. Urls = url[r] + left + 1
  BY <1>1
<1>3. (url[r] + left + 1) * M = url[r] * M + left * M + M
  BY <1>1
<1>4. url[r] * M \in Nat /\ left * M \in Nat
  BY <1>1
<1> HIDE DEF M, left
<1> QED
  <2> DEFINE a == url[r] * M
             b == left * M
             whole == Urls * M
  <2>1. a \in Nat /\ b \in Nat /\ sent[r] <= a + tries[r] + 1 /\ whole = a + b + M
    BY <1>1, <1>2, <1>3, <1>4
  <2> HIDE DEF a, b, whole
  <2>2. sent[r] <= whole
    BY <1>1, <2>1
  <2> QED BY <2>2 DEF whole, M

LEMMA InitDispatch == Init => GaugeInv /\ RetryInv
<1> SUFFICES ASSUME Init PROVE GaugeInv /\ RetryInv
  OBVIOUS
<1>1. Calls = {} /\ inFlight = 0
  BY DEF Init, Calls
<1>2. RetryInv
  <2>1. 0 \in 0..Urls - 1 /\ 0 \in 0..MostRetries /\ 0 <= 0 * (MostRetries + 1) + 0 + 1
    BY RetryAssumption, LargestRetries
  <2> QED BY <2>1 DEF Init, ExecutorInit, RetryInv
<1> QED BY <1>1, <1>2, FS_EmptySet DEF GaugeInv

\* acquireUpstreamSlot with the finally block, and BaseExecutor's retries: the
\* gauge is the number of first calls in progress, and no call sends more than
\* its URLs and the largest of its retry counts allow.
THEOREM CallsStayBounded == Spec => []CallsAreBounded
<1>1. GaugeInv /\ RetryInv => CallsAreBounded
  BY RetriesFit DEF CallsAreBounded, SlotsMatchCalls, GaugeInv, Calls
<1>2. GaugeInv /\ RetryInv /\ StateInv /\ [Next]_vars => (GaugeInv /\ RetryInv)'
  BY GaugeStep, RetryStep
<1> QED BY <1>1, <1>2, InitDispatch, StateAlways, PTL DEF Spec

-----------------------------------------------------------------------------
(* The pending counter. *)

Owed == {r \in Request : phase[r] # "new" /\ downs[r] = 0}
PendingInv == pending \in Nat /\ pending <= Cardinality(Owed)

LEMMA OwedIsFinite == IsFiniteSet(Owed) /\ Cardinality(Owed) \in Nat
BY LifecycleAssumption, FS_Subset, FS_CardinalityType DEF Owed

LEMMA OwedKept ==
  ASSUME PendingInv, Owed' = Owed, pending' = pending \/ pending' = 0 PROVE PendingInv'
BY OwedIsFinite DEF PendingInv

LEMMA OneMoreOwed ==
  ASSUME StateInv, PendingInv, NEW r \in Request, phase[r] = "new",
         NEW to, to # "new", phase' = [phase EXCEPT ![r] = to], CountUp
  PROVE  PendingInv'
<1>1. downs[r] = 0 /\ TypedDispatch
  BY DEF StateInv, Typed, Fate, Untouched
<1>2. r \notin Owed /\ Owed' = Owed \cup {r}
  BY <1>1 DEF Owed, CountUp, TypedDispatch
<1>3. Cardinality(Owed') = Cardinality(Owed) + 1
  BY <1>2, OwedIsFinite, FS_AddElement
<1> QED BY <1>3, OwedIsFinite DEF PendingInv, CountUp

LEMMA OneLessOwed ==
  ASSUME StateInv, PendingInv, NEW r \in Request, CountDown(r), phase[r] # "new", phase'[r] # "new",
         \A q \in Request \ {r} : phase'[q] = phase[q]
  PROVE  PendingInv'
<1>0. TypedDispatch
  BY DEF StateInv, Typed
<1>1. CASE downs[r] = 0
  <2>1. r \in Owed /\ Owed' = Owed \ {r}
    BY <1>0, <1>1 DEF Owed, CountDown, TypedDispatch
  <2>2. Cardinality(Owed') = Cardinality(Owed) - 1
    BY <2>1, OwedIsFinite, FS_RemoveElement
  <2>3. Cardinality(Owed) # 0
    BY <2>1, OwedIsFinite, FS_EmptySet
  <2> QED BY <2>2, <2>3, OwedIsFinite DEF PendingInv, CountDown
<1>2. CASE downs[r] # 0
  <2>1. Owed' = Owed
    BY <1>0, <1>2 DEF Owed, CountDown, TypedDispatch
  <2> QED BY <2>1, OwedIsFinite DEF PendingInv, CountDown
<1> QED BY <1>1, <1>2

LEMMA PendingStep == StateInv /\ PendingInv /\ [Next]_vars => PendingInv'
<1> SUFFICES ASSUME StateInv, PendingInv, [Next]_vars PROVE PendingInv'
  OBVIOUS
<1>0. TypedDispatch
  BY DEF StateInv, Typed
<1>1. CASE \E r \in Request : Start(r) \/ Refuse(r)
  BY <1>1, OneMoreOwed DEF Start, Refuse
<1>2. CASE \E r \in Request : RefreshFailed(r) \/ \E k \in Result : Reject(r, k)
  <2>1. PICK r \in Request : RefreshFailed(r) \/ \E k \in Result : Reject(r, k)
    BY <1>2
  <2>2. /\ CountDown(r) /\ phase[r] # "new" /\ phase'[r] # "new"
        /\ \A q \in Request \ {r} : phase'[q] = phase[q]
    BY <1>0, <2>1 DEF RefreshFailed, Reject, GiveErrorBack, TypedDispatch
  <2> QED BY <2>2, OneLessOwed
<1>3. CASE \E r \in Request : ReadBody(r) \/ Block(r)
  <2>1. PICK r \in Request : ReadBody(r) \/ Block(r)
    BY <1>3
  <2>2. /\ CountDown(r) /\ phase[r] # "new" /\ phase'[r] # "new"
        /\ \A q \in Request \ {r} : phase'[q] = phase[q]
    BY <1>0, <2>1 DEF ReadBody, Block, TypedDispatch
  <2> QED BY <2>2, OneLessOwed
<1>4. CASE \E r \in Request : Flush(r) \/ FlushThrows(r)
  <2>1. PICK r \in Request : Flush(r) \/ FlushThrows(r)
    BY <1>4
  <2>2. CountDown(r) /\ phase[r] = "piping" /\ phase' = phase
    BY <2>1, PipedOnly DEF Flush, FlushThrows, streamOnly
  <2> QED BY <2>2, OneLessOwed
<1>5. CASE \E r \in Request : \/ ReadError(r) \/ ClientLeaves(r)
                              \/ \E w \in {"first", "stall", "max"} : Watchdog(r, w)
  <2>1. PICK r \in Request : \/ ReadError(r) \/ ClientLeaves(r)
                             \/ \E w \in {"first", "stall", "max"} : Watchdog(r, w)
    BY <1>5
  <2>2. phase[r] = "piping" /\ phase' = phase
    BY <2>1, PipedOnly DEF ReadError, ClientLeaves, Watchdog, Reads, streamOnly
  <2>3. CountDown(r) \/ UNCHANGED pendingVars
    BY <2>1 DEF ReadError, ClientLeaves, Watchdog, Disconnect, CountDownIf, pendingVars
  <2>4. CASE CountDown(r)
    BY <2>2, <2>4, OneLessOwed
  <2>5. CASE UNCHANGED pendingVars
    BY <2>2, <2>5, OwedKept DEF pendingVars, Owed
  <2> QED BY <2>3, <2>4, <2>5
<1>6. CASE \E r \in Request : \E k \in Result : Keep(r, k) \/ Refresh(r, k) \/ Trim(r, k)
  <2>1. UNCHANGED pendingVars /\ \A q \in Request : phase[q] = "new" <=> phase'[q] = "new"
    BY <1>0, <1>6 DEF Keep, Refresh, Trim, TypedDispatch
  <2> QED BY <2>1, OwedKept DEF pendingVars, Owed
<1>7. CASE \E r \in Request : Refreshed(r) \/ Pipe(r) \/ \E u \in BOOLEAN : BodyRead(r, u)
  <2>1. UNCHANGED pendingVars /\ \A q \in Request : phase[q] = "new" <=> phase'[q] = "new"
    BY <1>0, <1>7 DEF Refreshed, Pipe, BodyRead, TypedDispatch
  <2> QED BY <2>1, OwedKept DEF pendingVars, Owed
<1>8. CASE \E r \in Request : Chunk(r) \/ Break(r) \/ PullClosed(r) \/ PullDone(r)
  <2>1. UNCHANGED <<phase, pendingVars>>
    BY <1>8 DEF Chunk, Break, PullClosed, PullDone, streamOnly
  <2> QED BY <2>1, OwedKept DEF pendingVars, Owed
<1>9. CASE PendingTimeout \/ UNCHANGED vars
  <2>1. UNCHANGED <<phase, downs>> /\ (pending' = pending \/ pending' = 0)
    BY <1>9 DEF PendingTimeout, vars, pendingVars
  <2> QED BY <2>1, OwedKept DEF Owed
<1> QED BY <1>1, <1>2, <1>3, <1>4, <1>5, <1>6, <1>7, <1>8, <1>9 DEF Next, Settle, Pull

\* trackPendingRequest and its timer: the dashboard never shows more requests of
\* an account than are owed a countdown.
THEOREM PendingStaysOwed == Spec => []PendingIsOwed
<1>1. Init => PendingInv
  <2>1. ASSUME Init PROVE pending = 0
    BY <2>1 DEF Init
  <2> QED BY <2>1, OwedIsFinite DEF PendingInv
<1>2. PendingInv => PendingIsOwed
  BY DEF PendingInv, PendingIsOwed, Owed
<1> QED BY <1>1, <1>2, PendingStep, StateAlways, PTL DEF Spec

-----------------------------------------------------------------------------
(* Thinking: what a client means.                                             *)

\* What a client can mean: none, auto or nothing said, a level, or a budget.
Meant ==
  {Unasked, Intent("none", "absent", 0), Intent("auto", "absent", 0)}
  \cup {Intent("level", l, 0) : l \in Levels}
  \cup {Intent("budget", "absent", b) : b \in Budgets}

AnyRequest ==
  Requests({"openai", "claude", "gemini"}, Efforts, Efforts, AnyBudget, Efforts, AnyBudget, BOOLEAN, Nat, BOOLEAN)

(* Every request has fields of these types.                                   *)
LEMMA AsksAreRequests == Asks \subseteq AnyRequest
<1>1. /\ {"absent", "none", "high"} \subseteq Efforts /\ {"absent"} \subseteq Efforts
      /\ {Absent} \subseteq AnyBudget /\ Limits \subseteq Nat
  BY ThinkingAssumption DEF Efforts, Levels, AnyBudget
<1>2. ASSUME NEW r \in Requests({"openai"}, {"absent", "none", "high"}, {"absent"}, {Absent}, Efforts,
                                {Absent}, {TRUE}, Limits, BOOLEAN)
      PROVE  r \in AnyRequest
  BY <1>1, <1>2 DEF AnyRequest, Requests
<1>3. ASSUME NEW r \in Requests({"claude"}, {"absent"}, Efforts, AnyBudget, {"absent"}, {Absent},
                                BOOLEAN, Limits \ {0}, {FALSE})
      PROVE  r \in AnyRequest
  BY <1>1, <1>3 DEF AnyRequest, Requests
<1>4. ASSUME NEW r \in Requests({"gemini"}, {"absent"}, {"absent"}, {Absent}, {"absent"}, AnyBudget,
                                {TRUE}, Limits, {FALSE})
      PROVE  r \in AnyRequest
  BY <1>1, <1>4 DEF AnyRequest, Requests
<1>. QED
  BY <1>2, <1>3, <1>4 DEF Asks

(* What is found in a request is one of these.                                *)
LEMMA FoundIsMeant == ASSUME NEW r \in Asks PROVE ExtractThinking(r) \in Meant
<1>1. ASSUME NEW l \in Efforts PROVE Named(l) \in Meant
  BY <1>1 DEF Efforts, Levels, Named, Meant, Unasked
<1>2. ASSUME NEW b \in AnyBudget PROVE Budgeted(b) \in Meant
  BY <1>2, ThinkingAssumption DEF AnyBudget, Budgeted, Meant, Absent, AutoBudget, Unasked
<1>3. r \in AnyRequest
  BY AsksAreRequests
<1>4. LET n == NormalizeThinkingConfig(r)
      IN  /\ {n.suffix, n.effort, n.reasoning} \subseteq Efforts
          /\ {n.thinking, n.thinkingBudget} \subseteq AnyBudget
  BY <1>3 DEF AnyRequest, Requests, NormalizeThinkingConfig, AnyBudget
<1>5. ASSUME NEW a \in Meant, NEW b \in Meant PROVE Else(a, b) \in Meant
  BY DEF Else
<1>. QED
  BY <1>1, <1>2, <1>4, <1>5 DEF ExtractThinking

(* The budgets of the levels.                                                 *)
LEMMA LevelBudgets ==
  /\ LevelToBudget["minimal"] = 512 /\ LevelToBudget["low"] = 1024
  /\ LevelToBudget["medium"] = 8192 /\ LevelToBudget["high"] = 24576
  /\ LevelToBudget["xhigh"] = 32768 /\ LevelToBudget["max"] = 128000
  BY DEF LevelToBudget

(* Where Claude's answer has room: a budget under the ceiling is left as it   *)
(* is, one that reaches it is lowered under it, whatever the limit was.       *)
LEMMA Reconciled ==
  ASSUME NEW limit \in Nat, NEW budget \in Nat, NEW ceiling \in Nat, ceiling > 1024
  PROVE  LET fit == ReconcileBudget(limit, budget, ceiling)
         IN  /\ fit.limit \in Nat /\ fit.limit <= ceiling
             /\ fit.budget \in Nat /\ fit.budget < fit.limit
             /\ budget < ceiling => fit.budget = budget
             /\ budget >= ceiling => fit.budget >= ceiling - 1024
  BY DEF ReconcileBudget

(* An adjusted limit is under the ceiling.                                    *)
LEMMA Adjusted ==
  ASSUME NEW limit \in Nat, NEW tools \in BOOLEAN, NEW budget \in Int, NEW ceiling \in Nat
  PROVE  AdjustMaxTokens(limit, tools, budget, ceiling) \in 0..ceiling
  BY DEF AdjustMaxTokens, DefaultMaxTokens, DefaultMinTokens

-----------------------------------------------------------------------------
(* Depth: levels and budgets keep their order in every format.                *)

\* An intent that says how much.
Amounts ==
  {Intent("level", l, 0) : l \in Levels} \cup {Intent("budget", "absent", b) : b \in Nat \ {0}}

(* Who asks for more is given no lower level.                                 *)
LEMMA ToLevelKeepsOrder ==
  ASSUME NEW i \in Amounts, NEW j \in Amounts,
         Depth(i) <= Depth(j), i.level = "max" => j.mode = "level"
  PROVE  /\ ToLevel(i) \in Levels /\ ToLevel(j) \in Levels
         /\ LevelToBudget[ToLevel(i)] <= LevelToBudget[ToLevel(j)]
<1>1. ASSUME NEW b \in Nat \ {0}
      PROVE  /\ BudgetToLevel(b) \in Levels
             /\ b <= 768 => BudgetToLevel(b) = "minimal"
             /\ b > 768 /\ b <= 4096 => BudgetToLevel(b) = "low"
             /\ b > 4096 /\ b <= 16384 => BudgetToLevel(b) = "medium"
             /\ b > 16384 /\ b <= 28672 => BudgetToLevel(b) = "high"
             /\ b > 28672 => BudgetToLevel(b) = "xhigh"
  BY DEF BudgetToLevel, Levels
<1>2. CASE i.mode = "level" /\ j.mode = "level"
  BY <1>2 DEF Amounts, Intent, ToLevel, Depth
<1>3. CASE i.mode = "level" /\ j.mode = "budget"
  <2>1. i.level \in Levels \ {"max"} /\ j.budget \in Nat \ {0}
    BY <1>3 DEF Amounts, Intent
  <2>2. ToLevel(i) = i.level /\ ToLevel(j) = BudgetToLevel(j.budget)
    BY <1>3 DEF ToLevel
  <2>3. LevelToBudget[i.level] <= j.budget
    BY <1>3 DEF Depth
  <2>. QED
    BY <1>1, <2>1, <2>2, <2>3, LevelBudgets DEF Levels
<1>4. CASE i.mode = "budget" /\ j.mode = "level"
  <2>1. j.level \in Levels /\ i.budget \in Nat \ {0}
    BY <1>4 DEF Amounts, Intent
  <2>2. ToLevel(j) = j.level /\ ToLevel(i) = BudgetToLevel(i.budget)
    BY <1>4 DEF ToLevel
  <2>3. i.budget <= LevelToBudget[j.level]
    BY <1>4 DEF Depth
  <2>. QED
    BY <1>1, <2>1, <2>2, <2>3, LevelBudgets DEF Levels
<1>5. CASE i.mode = "budget" /\ j.mode = "budget"
  <2>1. j.budget \in Nat \ {0} /\ i.budget \in Nat \ {0}
    BY <1>5 DEF Amounts, Intent
  <2>2. ToLevel(j) = BudgetToLevel(j.budget) /\ ToLevel(i) = BudgetToLevel(i.budget)
    BY <1>5 DEF ToLevel
  <2>3. i.budget <= j.budget
    BY <1>5 DEF Depth
  <2>. QED
    BY <1>1, <2>1, <2>2, <2>3, LevelBudgets
<1>. QED
  BY <1>2, <1>3, <1>4, <1>5 DEF Amounts, Intent

(* The levels of a format are in the order of the levels.                     *)
LEMMA LevelForKeepsOrder ==
  ASSUME NEW f \in ThinkingFormats, NEW k \in Levels, NEW l \in Levels,
         LevelToBudget[k] <= LevelToBudget[l]
  PROVE  /\ LevelFor(f, k) \in Levels /\ LevelFor(f, l) \in Levels
         /\ LevelToBudget[LevelFor(f, k)] <= LevelToBudget[LevelFor(f, l)]
<1>1. ASSUME NEW n \in Levels
      PROVE  LevelFor(f, n) = CASE f = "openai" /\ n = "max" -> "xhigh"
                                [] f = "claude-adaptive" /\ n = "xhigh" -> "high"
                                [] f = "gemini-level" /\ n \in {"xhigh", "max"} -> "high"
                                [] f = "deepseek" -> IF n \in {"xhigh", "max"} THEN "max" ELSE "high"
                                [] f = "kimi" /\ n = "minimal" -> "low"
                                [] f = "kimi" /\ n = "xhigh" -> "max"
                                [] f = "step" /\ n \in {"xhigh", "max"} -> "high"
                                [] OTHER -> n
  BY DEF LevelFor, Levels
<1>. QED
  BY <1>1, LevelBudgets DEF Levels

\* What is asked of a model that is not told to stop: the least for none.
Effective(i) == IF i.mode = "none" THEN Named("minimal") ELSE i

Stops(m, i) == i.mode = "none" /\ m.canDisable /\ m.format # "gemini-level"

(* What a provider is told, by the formats of the providers.                  *)
LEMMA ToldByFormat ==
  ASSUME NEW m \in Models, NEW i \in Meant
  PROVE  /\ i = Unasked => Told(m, i) = Nothing
         /\ Stops(m, i) => Told(m, i) \in {Off, Nothing}
         /\ ~Stops(m, i) /\ i # Unasked =>
              /\ m.format \in {"zai", "minimax"} => Told(m, i) = On
              /\ m.format \in BudgetFormats =>
                   Told(m, i) = IF i.mode = "auto" THEN On
                                ELSE Intent("budget", "absent", ToBudget(Effective(i), m.most))
              /\ m.format \in ThinkingFormats \ (BudgetFormats \cup {"zai", "minimax"}) =>
                   LET level == LevelFor(m.format, ToLevel(Effective(i)))
                   IN  Told(m, i) = IF m.format = "openai" /\ level = "auto" THEN Nothing
                                    ELSE Intent("level", level, 0)
<1>1. CASE Stops(m, i)
  <2>1. i # Unasked
    BY <1>1 DEF Stops, Unasked, Intent
  <2>. QED
    BY <1>1, <2>1 DEF Told, ApplyFormat, Stops
<1>2. CASE ~Stops(m, i)
  <2>1. Effective(i).mode = "auto" <=> i.mode = "auto"
    BY DEF Effective, Named, Intent
  <2>2. CASE i = Unasked
    BY <2>2 DEF Told
  <2>. SUFFICES ASSUME i # Unasked PROVE
         /\ m.format \in {"zai", "minimax"} => ApplyFormat(m, i) = On
         /\ m.format \in BudgetFormats =>
              ApplyFormat(m, i) = IF i.mode = "auto" THEN On
                                  ELSE Intent("budget", "absent", ToBudget(Effective(i), m.most))
         /\ m.format \in ThinkingFormats \ (BudgetFormats \cup {"zai", "minimax"}) =>
              LET level == LevelFor(m.format, ToLevel(Effective(i)))
              IN  ApplyFormat(m, i) = IF m.format = "openai" /\ level = "auto" THEN Nothing
                                      ELSE Intent("level", level, 0)
    BY <1>2, <2>2 DEF Told
  <2>3. Effective(i) = IF i.mode = "none" THEN Named("minimal") ELSE i
    BY DEF Effective
  <2>4. CASE m.format \in {"zai", "minimax"}
    BY <1>2, <2>4 DEF ApplyFormat, Stops, BudgetFormats
  <2>5. CASE m.format \in BudgetFormats
    BY <1>2, <2>1, <2>3, <2>5 DEF ApplyFormat, Stops, BudgetFormats
  <2>6. CASE m.format \in ThinkingFormats \ (BudgetFormats \cup {"zai", "minimax"})
    BY <1>2, <2>3, <2>6 DEF ApplyFormat, Stops
  <2>. QED
    BY <2>4, <2>5, <2>6 DEF BudgetFormats
<1>. QED
  BY <1>1, <1>2

(* An intent that is neither auto nor unasked says how much, and none is the  *)
(* least of all for a model that does not stop.                               *)
LEMMA EffectiveIsAnAmount ==
  ASSUME NEW i \in Meant, i.mode \in {"none", "level", "budget"}
  PROVE  /\ Effective(i) \in Amounts
         /\ i.mode # "none" => Effective(i) = i
         /\ i.mode = "none" => Effective(i) = Intent("level", "minimal", 0) /\ Depth(i) = 0
         /\ Depth(i) \in Nat /\ Depth(Effective(i)) \in Nat
         /\ Depth(i) = 0 => i.mode = "none"
         /\ i # Unasked
<1>1. CASE i.mode = "none"
  BY <1>1, LevelBudgets DEF Effective, Named, Amounts, Intent, Levels, Depth, Unasked
<1>2. CASE i.mode = "level"
  <2>1. i \in Amounts /\ i.level \in Levels
    BY <1>2 DEF Meant, Amounts, Unasked, Intent
  <2>2. Depth(i) = LevelToBudget[i.level]
    BY <1>2 DEF Depth
  <2>. QED
    BY <1>2, <2>1, <2>2, LevelBudgets DEF Effective, Levels, Unasked, Intent
<1>3. CASE i.mode = "budget"
  BY <1>3, ThinkingAssumption DEF Meant, Effective, Amounts, Unasked, Intent, Depth
<1>. QED
  BY <1>1, <1>2, <1>3

(* Who asks a model that is not told to stop for more asks the formats for no *)
(* lower level and no smaller budget.                                         *)
LEMMA EffectiveKeepsOrder ==
  ASSUME NEW m \in Models, NEW i \in Meant, NEW j \in Meant, AsksNoLess(m, i, j), ~Stops(m, i)
  PROVE  /\ ~Stops(m, j)
         /\ m.format \in BudgetFormats => Depth(Effective(i)) <= Depth(Effective(j))
         /\ ToLevel(Effective(i)) \in Levels /\ ToLevel(Effective(j)) \in Levels
         /\ LevelToBudget[ToLevel(Effective(i))] <= LevelToBudget[ToLevel(Effective(j))]
<1>. DEFINE a == Effective(i)
            b == Effective(j)
<1>1. i.mode \in {"none", "level", "budget"} /\ j.mode \in {"none", "level", "budget"}
  BY DEF AsksNoLess
<1>2. /\ a \in Amounts /\ b \in Amounts
      /\ Depth(i) \in Nat /\ Depth(j) \in Nat /\ Depth(a) \in Nat /\ Depth(b) \in Nat
      /\ Depth(i) <= Depth(j)
  BY <1>1, EffectiveIsAnAmount DEF AsksNoLess
<1>3. j.mode = "none" => i.mode = "none"
  BY <1>1, <1>2, EffectiveIsAnAmount
<1>4. ~Stops(m, j)
  BY <1>3 DEF Stops
<1>5. CASE i.mode = "none"
  <2>1. /\ a = Intent("level", "minimal", 0)
        /\ ToLevel(a) = "minimal" /\ Depth(a) = 512
    BY <1>1, <1>5, EffectiveIsAnAmount, LevelBudgets DEF ToLevel, Depth, Intent
  <2>2. ToLevel(b) \in Levels /\ LevelToBudget[ToLevel(b)] >= 512
    <3>1. b.level = "max" => b.mode = "level"
      BY <1>2 DEF Amounts, Intent
    <3>2. ToLevel(b) \in Levels
      BY <1>2, <3>1, ToLevelKeepsOrder
    <3>. QED
      BY <3>2, LevelBudgets DEF Levels
  <2>3. m.format \in BudgetFormats => Depth(b) >= 512
    <3>. SUFFICES ASSUME m.format \in BudgetFormats PROVE Depth(b) >= 512
      OBVIOUS
    <3>1. ~m.canDisable
      BY <1>5 DEF Stops, BudgetFormats
    <3>2. CASE j.mode = "none"
      <4>1. b = Intent("level", "minimal", 0)
        BY <1>1, <3>2, EffectiveIsAnAmount
      <4>. QED
        BY <4>1, LevelBudgets DEF Depth, Intent
    <3>3. CASE j.mode = "level"
      <4>1. b = j /\ j.level \in Levels
        BY <1>1, <3>3, EffectiveIsAnAmount DEF Amounts, Intent
      <4>. QED
        BY <3>3, <4>1, LevelBudgets DEF Depth, Levels
    <3>4. CASE j.mode = "budget"
      BY <1>1, <1>5, <3>1, <3>4, EffectiveIsAnAmount, LevelBudgets DEF Depth, AsksNoLess
    <3>. QED
      BY <1>1, <3>2, <3>3, <3>4
  <2>. QED
    BY <1>4, <2>1, <2>2, <2>3, LevelBudgets DEF Levels
<1>6. CASE i.mode # "none"
  <2>1. a = i /\ b = j
    BY <1>1, <1>3, <1>6, EffectiveIsAnAmount
  <2>2. i.level = "max" => j.mode = "level"
    BY DEF AsksNoLess
  <2>. QED
    BY <1>2, <1>4, <2>1, <2>2, ToLevelKeepsOrder
<1>. QED
  BY <1>5, <1>6

(* Who asks for more is told to be given no less.                             *)
LEMMA ToldKeepsOrder ==
  ASSUME NEW m \in Models, NEW i \in Meant, NEW j \in Meant, AsksNoLess(m, i, j)
  PROVE  /\ Depth(Told(m, i)) \in Nat /\ Depth(Told(m, j)) \in Nat
         /\ Depth(Told(m, i)) <= Depth(Told(m, j))
<1>. DEFINE a == Effective(i)
            b == Effective(j)
<1>1. /\ i.mode \in {"none", "level", "budget"} /\ j.mode \in {"none", "level", "budget"}
      /\ i # Unasked /\ j # Unasked
      /\ a \in Amounts /\ b \in Amounts /\ Depth(a) \in Nat /\ Depth(b) \in Nat
  BY EffectiveIsAnAmount DEF AsksNoLess
<1>2. m.format \in ThinkingFormats /\ m.most \in Nat \ {0}
  BY ThinkingAssumption
<1>3. Depth(Off) = 0 /\ Depth(Nothing) = 0 /\ Depth(On) = 1
  BY DEF Off, Nothing, On, Depth, Intent
<1>4. ASSUME NEW k \in {i, j}, Stops(m, k) PROVE Depth(Told(m, k)) = 0
  BY <1>3, <1>4, ToldByFormat
<1>5. ASSUME NEW k \in {i, j}, ~Stops(m, k), m.format \in {"zai", "minimax"}
      PROVE  Depth(Told(m, k)) = 1
  BY <1>1, <1>3, <1>5, ToldByFormat
<1>6. ASSUME NEW k \in {i, j}, ~Stops(m, k), m.format \in BudgetFormats
      PROVE  Depth(Told(m, k)) = IF Depth(Effective(k)) > m.most THEN m.most ELSE Depth(Effective(k))
  <2>1. Told(m, k) = Intent("budget", "absent", ToBudget(Effective(k), m.most))
    BY <1>1, <1>6, ToldByFormat
  <2>2. Depth(Told(m, k)) = ToBudget(Effective(k), m.most)
    BY <2>1 DEF Depth, Intent
  <2>3. Effective(k).mode \in {"level", "budget"}
    BY <1>1 DEF Amounts, Intent
  <2>. QED
    BY <2>2, <2>3 DEF ToBudget, Depth
<1>7. ASSUME NEW k \in {i, j}, ~Stops(m, k), ToLevel(Effective(k)) \in Levels,
             m.format \in ThinkingFormats \ (BudgetFormats \cup {"zai", "minimax"})
      PROVE  Depth(Told(m, k)) = LevelToBudget[LevelFor(m.format, ToLevel(Effective(k)))]
  <2>. DEFINE l == LevelFor(m.format, ToLevel(Effective(k)))
  <2>1. l \in Levels
    BY <1>2, <1>7, LevelForKeepsOrder, LevelBudgets DEF Levels
  <2>2. Told(m, k) = IF m.format = "openai" /\ l = "auto" THEN Nothing ELSE Intent("level", l, 0)
    BY <1>1, <1>7, ToldByFormat
  <2>3. Told(m, k) = Intent("level", l, 0)
    BY <2>1, <2>2 DEF Levels
  <2>. QED
    BY <2>3 DEF Depth, Intent
<1>8. ASSUME NEW k \in {i, j} PROVE ToLevel(Effective(k)) \in Levels
  <2>1. Effective(k) \in Amounts /\ Depth(Effective(k)) \in Nat
    BY <1>1
  <2>2. Effective(k).level = "max" => Effective(k).mode = "level"
    BY <2>1 DEF Amounts, Intent
  <2>. QED
    BY <2>1, <2>2, ToLevelKeepsOrder
<1>9. ASSUME NEW k \in {i, j} PROVE Depth(Told(m, k)) \in Nat
  <2>1. CASE m.format \in {"zai", "minimax"}
    BY <1>4, <1>5, <2>1
  <2>2. CASE m.format \in BudgetFormats
    BY <1>1, <1>2, <1>4, <1>6, <2>2
  <2>3. CASE m.format \in ThinkingFormats \ (BudgetFormats \cup {"zai", "minimax"})
    <3>1. LevelFor(m.format, ToLevel(Effective(k))) \in Levels
      BY <1>2, <1>8, LevelForKeepsOrder, LevelBudgets DEF Levels
    <3>. QED
      BY <1>4, <1>7, <1>8, <2>3, <3>1, LevelBudgets DEF Levels
  <2>. QED
    BY <1>2, <2>1, <2>2, <2>3
<1>10. CASE Stops(m, i)
  BY <1>4, <1>9, <1>10
<1>11. CASE ~Stops(m, i)
  <2>1. ~Stops(m, j) /\ (m.format \in BudgetFormats => Depth(a) <= Depth(b))
    BY <1>11, EffectiveKeepsOrder
  <2>2. LevelToBudget[ToLevel(a)] <= LevelToBudget[ToLevel(b)]
    BY <1>11, EffectiveKeepsOrder
  <2>3. CASE m.format \in {"zai", "minimax"}
    BY <1>5, <1>9, <1>11, <2>1, <2>3
  <2>4. CASE m.format \in BudgetFormats
    BY <1>1, <1>2, <1>6, <1>9, <1>11, <2>1, <2>4
  <2>5. CASE m.format \in ThinkingFormats \ (BudgetFormats \cup {"zai", "minimax"})
    <3>1. LevelToBudget[LevelFor(m.format, ToLevel(a))] <= LevelToBudget[LevelFor(m.format, ToLevel(b))]
      BY <1>2, <1>8, <2>2, LevelForKeepsOrder
    <3>. QED
      BY <1>7, <1>8, <1>9, <1>11, <2>1, <2>5, <3>1
  <2>. QED
    BY <1>2, <2>3, <2>4, <2>5
<1>. QED
  BY <1>9, <1>10, <1>11

(* A provider is told a level it has, a budget within its range, and to stop  *)
(* where it can.                                                              *)
LEMMA ToldIsKnown ==
  ASSUME NEW m \in Models, NEW i \in Meant
  PROVE  LET told == Told(m, i)
         IN  /\ told.mode \in {"off", "on", "nothing", "level", "budget"} /\ told.budget \in Nat
             /\ told.mode = "level" =>
                  told.level \in LevelsOf(m.format)
                    \cup IF m.format \in {"claude-adaptive", "step"} THEN {"auto", "minimal"} ELSE {}
             /\ told.mode = "budget" =>
                  /\ m.format \in BudgetFormats /\ told.budget \in 0..m.most
                  /\ told = Intent("budget", "absent", told.budget)
             /\ i.mode = "none" /\ m.canDisable => told.mode \in {"off", "nothing"}
<1>. DEFINE told == Told(m, i)
<1>1. m.format \in ThinkingFormats /\ m.most \in Nat \ {0}
  BY ThinkingAssumption
<1>2. CASE Stops(m, i) \/ i = Unasked
  <2>1. told \in {Off, Nothing}
    BY <1>2, ToldByFormat
  <2>. QED
    BY <2>1 DEF Off, Nothing, Intent
<1>. SUFFICES ASSUME ~Stops(m, i), i # Unasked
     PROVE  /\ told.mode \in {"off", "on", "nothing", "level", "budget"} /\ told.budget \in Nat
            /\ told.mode = "level" =>
                 told.level \in LevelsOf(m.format)
                   \cup IF m.format \in {"claude-adaptive", "step"} THEN {"auto", "minimal"} ELSE {}
            /\ told.mode = "budget" =>
                 /\ m.format \in BudgetFormats /\ told.budget \in 0..m.most
                 /\ told = Intent("budget", "absent", told.budget)
            /\ i.mode = "none" /\ m.canDisable => told.mode \in {"off", "nothing"}
  BY <1>2
<1>3. ~(i.mode = "none" /\ m.canDisable)
  BY ThinkingAssumption DEF Stops
<1>4. i.mode = "auto" \/ i.mode \in {"none", "level", "budget"}
  BY DEF Meant, Intent
<1>5. i.mode # "auto" => Effective(i) \in Amounts /\ Depth(Effective(i)) \in Nat
  BY <1>4, EffectiveIsAnAmount
<1>6. CASE m.format \in {"zai", "minimax"}
  <2>1. told = On
    BY <1>6, ToldByFormat
  <2>. QED
    BY <1>3, <2>1 DEF On, Intent
<1>7. CASE m.format \in BudgetFormats
  <2>1. told = IF i.mode = "auto" THEN On
               ELSE Intent("budget", "absent", ToBudget(Effective(i), m.most))
    BY <1>7, ToldByFormat
  <2>2. CASE i.mode = "auto"
    BY <1>3, <2>1, <2>2 DEF On, Intent
  <2>3. CASE i.mode # "auto"
    <3>1. Effective(i).mode \in {"level", "budget"}
      BY <1>5, <2>3 DEF Amounts, Intent
    <3>2. ToBudget(Effective(i), m.most) \in 0..m.most
      BY <1>1, <1>5, <2>3, <3>1 DEF ToBudget, Depth
    <3>. QED
      BY <1>3, <1>7, <2>1, <2>3, <3>2 DEF Intent
  <2>. QED
    BY <2>2, <2>3
<1>8. CASE m.format \in ThinkingFormats \ (BudgetFormats \cup {"zai", "minimax"})
  <2>. DEFINE k == ToLevel(Effective(i))
              l == LevelFor(m.format, k)
  <2>1. told = IF m.format = "openai" /\ l = "auto" THEN Nothing ELSE Intent("level", l, 0)
    BY <1>8, ToldByFormat
  <2>2. k \in Levels \cup {"auto"}
    <3>1. CASE i.mode = "auto"
      BY <3>1 DEF ToLevel, Effective
    <3>2. CASE i.mode # "auto"
      <4>1. Effective(i).level = "max" => Effective(i).mode = "level"
        BY <1>5, <3>2 DEF Amounts, Intent
      <4>. QED
        BY <1>5, <3>2, <4>1, ToLevelKeepsOrder
    <3>. QED
      BY <3>1, <3>2
  <2>. HIDE DEF k
  <2>3. m.format = "openai" => l \in (Levels \ {"max"}) \cup {"auto"}
    BY <2>2 DEF LevelFor, Levels
  <2>4. m.format = "claude-adaptive" => l \in {"low", "medium", "high", "max", "auto", "minimal"}
    BY <2>2 DEF LevelFor, Levels
  <2>5. m.format = "gemini-level" => l \in {"minimal", "low", "medium", "high"}
    BY <2>2 DEF LevelFor, Levels
  <2>6. m.format = "deepseek" => l \in {"high", "max"}
    BY <2>2 DEF LevelFor, Levels
  <2>7. m.format = "kimi" => l \in {"low", "medium", "high", "max"}
    BY <2>2 DEF LevelFor, Levels
  <2>8. m.format = "step" => l \in {"low", "medium", "high", "auto", "minimal"}
    BY <2>2 DEF LevelFor, Levels
  <2>. HIDE DEF l
  <2>9. CASE told = Nothing
    BY <1>3, <2>9 DEF Nothing, Intent
  <2>10. CASE told = Intent("level", l, 0) /\ ~(m.format = "openai" /\ l = "auto")
    <3>1. l \in LevelsOf(m.format)
              \cup IF m.format \in {"claude-adaptive", "step"} THEN {"auto", "minimal"} ELSE {}
      BY <1>8, <2>3, <2>4, <2>5, <2>6, <2>7, <2>8, <2>10
         DEF LevelsOf, ThinkingFormats, BudgetFormats
    <3>. QED
      BY <1>3, <2>10, <3>1 DEF Intent
  <2>. QED
    BY <2>1, <2>9, <2>10 DEF l
<1>. QED
  BY <1>1, <1>6, <1>7, <1>8

-----------------------------------------------------------------------------
(* Room: what is told of thinking and the limit leave together.               *)

(* What leaves for a provider: what it is told, but that Claude's budget and  *)
(* limit are fitted to each other and Gemini's limit is raised for it.        *)
LEMMA Dispatched ==
  ASSUME NEW m \in Models, NEW r \in Asks, NEW i \in Meant
  PROVE  LET told == Told(m, i)
             leaving == Dispatch(m, r, i)
         IN  /\ told.mode # "budget" \/ m.format # "claude-budget" => leaving.thinking = told
             /\ leaving.thinking.mode = told.mode /\ leaving.thinking.level = told.level
             /\ told.mode = "budget" /\ m.format = "claude-budget" =>
                  /\ leaving.thinking.budget \in Nat
                  /\ told.budget < m.ceiling => leaving.thinking.budget = told.budget
                  /\ told.budget >= m.ceiling => leaving.thinking.budget \in (m.ceiling - 1024)..m.ceiling
             /\ m.format \in {"claude-budget", "claude-adaptive", "gemini-budget"} =>
                  /\ told.mode = "budget" => leaving.thinking.budget < leaving.limit
                  /\ leaving.limit <= m.ceiling \/ leaving.limit = r.limit
<1>. DEFINE told == Told(m, i)
            leaving == Dispatch(m, r, i)
            limit == LimitOf(m, r)
<1>1. /\ m.format \in ThinkingFormats /\ m.most \in Nat \ {0} /\ m.ceiling \in Nat
      /\ m.format \in {"claude-budget", "claude-adaptive"} => m.ceiling > 1024
      /\ m.format = "gemini-budget" =>
           m.most < 65535 /\ m.most < m.ceiling /\ DefaultMaxTokens <= m.ceiling
  BY ThinkingAssumption
<1>2. r.limit \in Nat /\ r.tools \in BOOLEAN /\ NormalizeThinkingConfig(r).thinking \in Int
  <2>1. r \in AnyRequest /\ Absent \in Int /\ AnyBudget \subseteq Int
    BY AsksAreRequests, ThinkingAssumption DEF AnyBudget, Absent, AutoBudget
  <2>. QED
    BY <2>1 DEF AnyRequest, Requests, NormalizeThinkingConfig
<1>3. /\ limit \in Nat
      /\ m.format = "gemini-budget" => limit <= m.ceiling \/ limit = r.limit
  <2>. DEFINE openai == IF r.client = "openai" \/ r.limit = 0 THEN r.limit
                        ELSE AdjustMaxTokens(r.limit, r.tools, NormalizeThinkingConfig(r).thinking,
                                             DefaultMaxTokens)
              claude == AdjustMaxTokens(openai, r.tools, Absent, m.ceiling)
  <2>1. openai \in Nat /\ (openai <= DefaultMaxTokens \/ openai = r.limit)
    BY <1>2, Adjusted DEF DefaultMaxTokens
  <2>2. limit = CASE r.client = TargetOf(m) -> r.limit
                  [] r.client # TargetOf(m) /\ TargetOf(m) = "claude" -> claude
                  [] OTHER -> openai
    BY DEF LimitOf
  <2>. HIDE DEF openai, limit
  <2>3. claude \in Nat
    <3>1. openai \in Nat /\ r.tools \in BOOLEAN /\ m.ceiling \in Nat /\ Absent \in Int
      BY <1>1, <1>2, <2>1 DEF Absent
    <3>2. claude \in 0..m.ceiling
      BY <3>1, Adjusted
    <3>. QED
      BY <3>1, <3>2
  <2>. HIDE DEF claude
  <2>4. limit \in {r.limit, openai, claude}
    BY <2>2
  <2>5. m.format = "gemini-budget" => limit \in {r.limit, openai}
    BY <2>2 DEF TargetOf
  <2>. QED
    BY <1>1, <1>2, <2>1, <2>3, <2>4, <2>5 DEF DefaultMaxTokens
<1>4. /\ told.mode \in {"off", "on", "nothing", "level", "budget"} /\ told.budget \in Nat
      /\ told.mode = "budget" => /\ m.format \in BudgetFormats /\ told.budget \in 0..m.most
                                 /\ told = Intent("budget", "absent", told.budget)
  BY ToldIsKnown
<1>. HIDE DEF told, limit
<1>5. CASE m.format \in {"claude-budget", "claude-adaptive"}
  <2>. DEFINE claude == ReconcileBudget(limit, told.budget, m.ceiling)
  <2>1. leaving = [thinking |-> IF told.mode = "budget" THEN [told EXCEPT !.budget = claude.budget] ELSE told,
                limit |-> claude.limit]
    BY <1>5 DEF Dispatch, TargetOf, told, limit
  <2>2. told.budget \in Nat
    BY <1>4
  <2>3. /\ claude.limit \in Nat /\ claude.limit <= m.ceiling
        /\ claude.budget \in Nat /\ claude.budget < claude.limit
        /\ told.budget < m.ceiling => claude.budget = told.budget
        /\ told.budget >= m.ceiling => claude.budget >= m.ceiling - 1024
    BY <1>1, <1>3, <1>5, <2>2, Reconciled
  <2>4. leaving.limit = claude.limit
    BY <2>1
  <2>5. told.mode # "budget" => leaving.thinking = told
    BY <2>1
  <2>6. told.mode = "budget" => leaving.thinking = Intent("budget", "absent", claude.budget)
    BY <1>4, <2>1 DEF Intent
  <2>. HIDE DEF claude, leaving
  <2>7. CASE told.mode # "budget"
    BY <1>1, <1>5, <2>3, <2>4, <2>5, <2>7 DEF told, leaving
  <2>8. CASE told.mode = "budget"
    <3>1. /\ leaving.thinking.mode = "budget" /\ leaving.thinking.level = "absent"
          /\ leaving.thinking.budget = claude.budget
          /\ told.level = "absent"
      BY <1>4, <2>6, <2>8 DEF Intent
    <3>. m.format = "claude-budget"
      BY <1>4, <1>5, <2>8 DEF BudgetFormats
    <3>2. told.budget >= m.ceiling => claude.budget \in (m.ceiling - 1024)..m.ceiling
      BY <1>1, <1>5, <2>3
    <3>. QED
      BY <1>1, <1>5, <2>3, <2>4, <2>8, <3>1, <3>2 DEF told, leaving
  <2>. QED
    BY <2>7, <2>8
<1>6. CASE m.format \in {"gemini-level", "gemini-budget"}
  <2>. DEFINE floor == CASE told.mode = "level" -> GeminiLevelOutputFloor(told.level)
                         [] told.mode = "budget" -> GeminiBudgetOutputFloor(told.budget)
                         [] told.mode = "on" -> 32768
                         [] OTHER -> 0
  <2>1. leaving = [thinking |-> told, limit |-> EnsureGeminiOutputFloor(limit, floor, m.ceiling)]
    BY <1>6 DEF Dispatch, TargetOf, told, limit
  <2>2. floor \in Nat /\ (told.mode = "budget" => floor = GeminiBudgetOutputFloor(told.budget))
    BY <1>4 DEF GeminiLevelOutputFloor, GeminiBudgetOutputFloor
  <2>3. m.format = "gemini-budget" /\ told.mode = "budget" => told.budget < floor
    BY <1>1, <1>4, <2>2 DEF GeminiBudgetOutputFloor
  <2>. HIDE DEF floor, leaving
  <2>4. leaving.thinking = told /\ leaving.limit = EnsureGeminiOutputFloor(limit, floor, m.ceiling)
    BY <2>1
  <2>. QED
    BY <1>1, <1>3, <1>4, <1>6, <2>2, <2>3, <2>4 DEF EnsureGeminiOutputFloor, told, leaving
<1>7. CASE m.format \notin {"claude-budget", "claude-adaptive", "gemini-level", "gemini-budget"}
  <2>1. leaving = [thinking |-> told, limit |-> limit]
    BY <1>7 DEF Dispatch, TargetOf, told, limit
  <2>. HIDE DEF leaving
  <2>. QED
    BY <1>7, <2>1 DEF told, leaving
<1>. QED
  BY <1>5, <1>6, <1>7

\* In every state: the request is one that is asked, and the rest follows from it.
ThinkingInv ==
  /\ model \in Models /\ request \in Asks
  /\ wanted = ExtractThinking(request)
  /\ outgoing = Dispatch(model, request, wanted)

(* It is an invariant.                                                        *)
LEMMA ThinkingInvHolds == ThinkingSpec => []ThinkingInv
<1>1. ThinkingInit => ThinkingInv
  BY DEF ThinkingInit, ThinkingInv
<1>2. ThinkingInv /\ [AskAgain]_thinkingVars => ThinkingInv'
  BY DEF ThinkingInv, AskAgain, thinkingVars
<1>. QED
  BY <1>1, <1>2, PTL DEF ThinkingSpec

(* The depth a client asks for is honoured, for every model and whatever is   *)
(* asked for.                                                                 *)
THEOREM ThinkingIsAlwaysHonoured == ThinkingSpec => ThinkingIsHonoured
<1>1. ASSUME ThinkingInv, ThinkingInv' PROVE RoomToAnswer' /\ LevelIsKnown' /\ NoneIsNone'
  <2>1. /\ model' \in Models /\ request' \in Asks /\ wanted' \in Meant
        /\ outgoing' = Dispatch(model', request', wanted')
    BY <1>1, FoundIsMeant DEF ThinkingInv
  <2>2. outgoing'.thinking.mode = Told(model', wanted').mode
        /\ outgoing'.thinking.level = Told(model', wanted').level
    BY <2>1, Dispatched
  <2>3. RoomToAnswer'
    BY <2>1, <2>2, Dispatched DEF RoomToAnswer
  <2>4. LevelIsKnown'
    BY <2>1, <2>2, ToldIsKnown DEF LevelIsKnown
  <2>5. NoneIsNone'
    BY <2>1, <2>2, ToldIsKnown DEF NoneIsNone
  <2>. QED
    BY <2>3, <2>4, <2>5
<1>2. ASSUME ThinkingInv, ThinkingInv', AskAgain PROVE NoShallower
  <2>1. /\ model \in Models /\ request \in Asks /\ wanted \in Meant
        /\ model' = model /\ request' \in Asks /\ wanted' \in Meant
        /\ outgoing = Dispatch(model, request, wanted)
        /\ outgoing' = Dispatch(model, request', wanted')
    BY <1>2, FoundIsMeant DEF ThinkingInv, AskAgain
  <2>. SUFFICES ASSUME AsksNoLess(model, wanted, wanted')
       PROVE  \/ Depth(outgoing.thinking) <= Depth(outgoing'.thinking)
              \/ /\ model.format = "claude-budget"
                 /\ ToBudget(wanted', model.most) >= model.ceiling
                 /\ Depth(outgoing'.thinking) >= model.ceiling - 1024
    BY DEF NoShallower
  <2>2. /\ Depth(Told(model, wanted)) \in Nat /\ Depth(Told(model, wanted')) \in Nat
        /\ Depth(Told(model, wanted)) <= Depth(Told(model, wanted'))
    BY <2>1, ToldKeepsOrder
  <2>3. Depth(outgoing.thinking) \in Nat /\ Depth(outgoing.thinking) <= Depth(Told(model, wanted))
    <3>. DEFINE told == Told(model, wanted)
                leaving == Dispatch(model, request, wanted)
    <3>1. CASE told.mode = "budget" /\ model.format = "claude-budget"
      <4>1. leaving.thinking.mode = "budget" /\ leaving.thinking.budget \in Nat
            /\ (told.budget < model.ceiling => leaving.thinking.budget = told.budget)
            /\ (told.budget >= model.ceiling => leaving.thinking.budget \in (model.ceiling - 1024)..model.ceiling)
        BY <2>1, <3>1, Dispatched
      <4>2. model.ceiling \in Nat /\ told.budget \in Nat
        BY <2>1, ToldIsKnown, ThinkingAssumption
      <4>. HIDE DEF told, leaving
      <4>3. Depth(told) = told.budget /\ Depth(leaving.thinking) = leaving.thinking.budget
        BY <3>1, <4>1 DEF Depth
      <4>4. leaving.thinking.budget <= told.budget
        BY <4>1, <4>2
      <4>. QED
        BY <2>1, <4>1, <4>3, <4>4 DEF told, leaving
    <3>2. CASE told.mode # "budget" \/ model.format # "claude-budget"
      <4>1. leaving.thinking = told
        BY <2>1, <3>2, Dispatched
      <4>. QED
        BY <2>1, <2>2, <4>1
    <3>. QED
      BY <3>1, <3>2
  <2>. DEFINE told == Told(model, wanted')
              leaving == Dispatch(model, request', wanted')
  <2>4. CASE model.format # "claude-budget" \/ told.mode # "budget"
    <3>1. leaving.thinking = told
      BY <2>1, <2>4, Dispatched
    <3>. QED
      BY <2>1, <2>2, <2>3, <3>1
  <2>5. CASE model.format = "claude-budget" /\ told.mode = "budget"
    <3>1. leaving.thinking.mode = "budget" /\ leaving.thinking.budget \in Nat
          /\ (told.budget < model.ceiling => leaving.thinking.budget = told.budget)
          /\ (told.budget >= model.ceiling => leaving.thinking.budget \in (model.ceiling - 1024)..model.ceiling)
      BY <2>1, <2>5, Dispatched
    <3>2. model.ceiling \in Nat /\ model.ceiling > 1024 /\ told.budget \in Nat
      BY <2>1, <2>5, ToldIsKnown, ThinkingAssumption
    <3>3. Depth(told) = told.budget /\ Depth(leaving.thinking) = leaving.thinking.budget
      BY <2>5, <3>1 DEF Depth
    <3>4. CASE told.budget < model.ceiling
      BY <2>1, <2>2, <2>3, <3>1, <3>3, <3>4
    <3>5. CASE told.budget >= model.ceiling
      <4>1. wanted'.mode \in {"none", "level", "budget"} /\ ~Stops(model, wanted')
        <5>1. wanted'.mode \in {"none", "level", "budget"}
          BY DEF AsksNoLess
        <5>2. CASE Stops(model, wanted')
          BY <2>1, <2>5, <5>2, ToldByFormat DEF Off, Nothing, Intent
        <5>. QED
          BY <5>1, <5>2
      <4>2. told = Intent("budget", "absent", ToBudget(Effective(wanted'), model.most))
        BY <2>1, <2>5, <4>1, ToldByFormat, EffectiveIsAnAmount DEF BudgetFormats
      <4>3. told.budget = ToBudget(Effective(wanted'), model.most)
        BY <4>2 DEF Intent
      <4>4. wanted'.mode # "none"
        <5>. SUFFICES ASSUME wanted'.mode = "none" PROVE FALSE
          OBVIOUS
        <5>1. Effective(wanted') = Intent("level", "minimal", 0)
          BY <2>1, <4>1, EffectiveIsAnAmount
        <5>2. model.most \in Nat
          BY <2>1, ThinkingAssumption
        <5>3. ToBudget(Effective(wanted'), model.most) <= 512
          BY <5>1, <5>2, LevelBudgets DEF ToBudget, Intent
        <5>. QED
          BY <3>2, <3>5, <4>3, <5>3
      <4>5. ToBudget(wanted', model.most) >= model.ceiling
        BY <2>1, <3>5, <4>1, <4>3, <4>4, EffectiveIsAnAmount
      <4>6. Depth(leaving.thinking) >= model.ceiling - 1024
        BY <3>1, <3>2, <3>3, <3>5
      <4>. QED
        BY <2>1, <2>5, <4>5, <4>6
    <3>. QED
      BY <3>2, <3>4, <3>5
  <2>. QED
    BY <2>4, <2>5
<1>3. ASSUME ThinkingInv, ThinkingInv', [AskAgain]_thinkingVars
      PROVE  [NoShallower /\ RoomToAnswer' /\ LevelIsKnown' /\ NoneIsNone']_thinkingVars
  BY <1>1, <1>2, <1>3
<1>. QED
  BY <1>3, ThinkingInvHolds, PTL DEF ThinkingSpec, ThinkingIsHonoured


-----------------------------------------------------------------------------
(* Lists of lists.                                                            *)
Joined(list, next) == list \o next
Joins == INSTANCE FoldSteps WITH Op <- Joined

\* What FlattenSeq chooses.
FlatOf(f, seqs) ==
  f = [i \in 1..Len(seqs) |-> IF i = 1 THEN seqs[i] ELSE f[i - 1] \o seqs[i]]

\* Every element of list is one of a member of seqs, in their order.
Origins(list, seqs, n, at) ==
  /\ at \in [1..Len(list) -> 1..n]
  /\ \A p, q \in 1..Len(list) : p < q => at[p] <= at[q]
  /\ \A p, q \in 1..Len(list) : p < q /\ at[p] = at[q] => Len(seqs[at[p]]) > 1
  /\ \A p \in 1..Len(list) : \E i \in 1..Len(seqs[at[p]]) : list[p] = seqs[at[p]][i]
  /\ \A j \in 1..n : Len(seqs[j]) > 0 => \E p \in 1..Len(list) : at[p] = j

LEMMA OriginsGrow ==
  ASSUME NEW S, NEW seqs \in Seq(Seq(S)), NEW n \in Nat, n < Len(seqs),
         NEW list \in Seq(S), NEW at, Origins(list, seqs, n, at),
         NEW longer, longer = list \o seqs[n + 1]
  PROVE  longer \in Seq(S) /\ \E more : Origins(longer, seqs, n + 1, more)
<1> DEFINE k == Len(list)
           x == seqs[n + 1]
           l == Len(x)
           more == [p \in 1..(k + l) |-> IF p <= k THEN at[p] ELSE n + 1]
<1>1. x \in Seq(S) /\ k \in Nat /\ l \in Nat
  OBVIOUS
<1>2. /\ longer \in Seq(S) /\ Len(longer) = k + l
      /\ \A p \in 1..(k + l) : longer[p] = IF p <= k THEN list[p] ELSE x[p - k]
  BY <1>1
<1>x. x = seqs[n + 1] /\ k = Len(list) /\ l = Len(x)
  OBVIOUS
<1> HIDE DEF k, x, l
<1>3. at \in [1..k -> 1..n] /\ 1..n \subseteq 1..(n + 1) /\ n + 1 \in 1..(n + 1)
  BY <1>x DEF Origins
<1>4. more \in [1..(k + l) -> 1..(n + 1)]
  BY <1>1, <1>3
<1>5. \A p \in 1..(k + l) : more[p] = IF p <= k THEN at[p] ELSE n + 1
  OBVIOUS
<1> HIDE DEF more
<1>6. ASSUME NEW p \in 1..(k + l), NEW q \in 1..(k + l), p < q PROVE more[p] <= more[q]
  <2>1. CASE q <= k
    <3>1. p \in 1..k /\ q \in 1..k
      BY <1>1, <1>6, <2>1
    <3> QED BY <1>5, <1>6, <1>x, <3>1 DEF Origins
  <2>2. CASE ~(q <= k)
    <3>1. more[q] = n + 1 /\ more[p] \in 1..(n + 1)
      BY <1>4, <1>5, <2>2
    <3> QED BY <3>1
  <2> QED BY <2>1, <2>2
<1>7. ASSUME NEW p \in 1..(k + l) PROVE \E i \in 1..Len(seqs[more[p]]) : longer[p] = seqs[more[p]][i]
  <2>1. CASE p <= k
    <3>1. p \in 1..k /\ more[p] = at[p] /\ longer[p] = list[p]
      BY <1>1, <1>2, <1>5, <2>1
    <3> QED BY <1>x, <3>1 DEF Origins
  <2>2. CASE ~(p <= k)
    <3>1. more[p] = n + 1
      BY <1>5, <2>2
    <3>2. longer[p] = x[p - k]
      BY <1>2, <2>2
    <3>3. p - k \in 1..l
      BY <1>1, <2>2
    <3> QED BY <1>x, <3>1, <3>2, <3>3
  <2> QED BY <2>1, <2>2
<1>9. ASSUME NEW j \in 1..(n + 1), Len(seqs[j]) > 0 PROVE \E p \in 1..(k + l) : more[p] = j
  <2>1. CASE j \in 1..n
    <3>1. PICK p \in 1..k : at[p] = j
      BY <1>9, <1>x, <2>1 DEF Origins
    <3>2. p \in 1..(k + l) /\ p <= k
      BY <1>1
    <3> QED BY <1>5, <3>1, <3>2
  <2>2. CASE j \notin 1..n
    <3>1. j = n + 1
      BY <2>2
    <3>2. k + 1 \in 1..(k + l) /\ ~(k + 1 <= k)
      BY <1>1, <1>9, <1>x, <3>1
    <3> QED BY <1>5, <3>1, <3>2
  <2> QED BY <2>1, <2>2
<1>10. ASSUME NEW p \in 1..(k + l), NEW q \in 1..(k + l), p < q, more[p] = more[q]
       PROVE  Len(seqs[more[p]]) > 1
  <2>1. CASE q <= k
    <3>1. p \in 1..k /\ q \in 1..k
      BY <1>1, <1>10, <2>1
    <3> QED BY <1>5, <1>10, <1>x, <3>1 DEF Origins
  <2>2. CASE ~(q <= k)
    <3>1. more[q] = n + 1
      BY <1>5, <2>2
    <3>2. ~(p <= k)
      <4> SUFFICES ASSUME p <= k PROVE FALSE
        OBVIOUS
      <4>1. p \in 1..k /\ more[p] = at[p]
        BY <1>1, <1>5
      <4>2. more[p] \in 1..n
        BY <1>3, <4>1
      <4> QED BY <1>10, <3>1, <4>2
    <3>3. l > 1
      BY <1>1, <1>10, <2>2, <3>2
    <3> QED BY <1>10, <1>x, <3>1, <3>3
  <2> QED BY <2>1, <2>2
<1>8. Origins(longer, seqs, n + 1, more)
  BY <1>2, <1>4, <1>6, <1>7, <1>9, <1>10 DEF Origins
<1> QED BY <1>2, <1>8

LEMMA FlattenSeqIs ==
  ASSUME NEW S, NEW seqs \in Seq(Seq(S))
  PROVE  FlattenSeq(seqs) = Joins!Result(<<>>, seqs, Len(seqs))
<1> DEFINE n == Len(seqs)
<1>1. n \in Nat /\ \A i \in 1..n : seqs[i] \in Seq(S)
  OBVIOUS
<1>2. PICK h : /\ h[0] = <<>>
               /\ \A k \in 1..n : h[k] = Joined(h[k - 1], seqs[k])
               /\ Joins!Result(<<>>, seqs, n) = h[n]
  BY <1>1, Joins!Steps
<1>3. CASE n = 0
  <2>1. seqs = <<>>
    BY <1>3
  <2>2. FlattenSeq(seqs) = seqs
    BY <1>3 DEF FlattenSeq
  <2> QED BY <1>2, <1>3, <2>1, <2>2
<1>4. CASE n # 0
  <2> DEFINE g == [i \in 1..n |-> h[i]]
             c == CHOOSE f : FlatOf(f, seqs)
  <2>1. FlattenSeq(seqs) = c[n]
    BY <1>4 DEF FlattenSeq, FlatOf
  <2>2. ASSUME NEW i \in 1..n PROVE g[i] = IF i = 1 THEN seqs[i] ELSE g[i - 1] \o seqs[i]
    <3>1. h[i] = h[i - 1] \o seqs[i] /\ g[i] = h[i]
      BY <1>2 DEF Joined
    <3>2. CASE i = 1
      <4>1. h[i - 1] = <<>> /\ seqs[i] \in Seq(S)
        BY <1>1, <1>2, <3>2
      <4>2. <<>> \o seqs[i] = seqs[i]
        BY <4>1
      <4> QED BY <3>1, <3>2, <4>1, <4>2
    <3>3. CASE i # 1
      <4>1. i - 1 \in 1..n
        BY <1>1, <3>3
      <4> QED BY <3>1, <3>3, <4>1
    <3> QED BY <3>2, <3>3
  <2>3. FlatOf(g, seqs)
    BY <2>2 DEF FlatOf
  <2> HIDE DEF g
  <2>4. FlatOf(c, seqs)
    BY <2>3
  <2> HIDE DEF c
  <2>5. \A i \in 1..n : c[i] = IF i = 1 THEN seqs[i] ELSE c[i - 1] \o seqs[i]
    BY <2>4 DEF FlatOf
  <2>6. \A i \in 1..n : g[i] = IF i = 1 THEN seqs[i] ELSE g[i - 1] \o seqs[i]
    BY <2>2
  <2> DEFINE Apart == {i \in 1..n : c[i] # g[i]}
  <2>7. Apart = {}
    <3> SUFFICES ASSUME Apart # {} PROVE FALSE
      OBVIOUS
    <3>1. PICK m \in Apart : \A k \in Apart : m <= k
      <4>1. Apart \in SUBSET Nat
        OBVIOUS
      <4> HIDE DEF Apart
      <4> QED BY <4>1, Joins!LeastNatural
    <3>2. m \in 1..n /\ c[m] # g[m]
      BY <3>1
    <3>3. CASE m = 1
      BY <2>5, <2>6, <3>2, <3>3
    <3>4. CASE m # 1
      <4>1. m - 1 \in 1..n /\ m - 1 \notin Apart
        BY <1>1, <3>1, <3>2, <3>4
      <4>2. c[m - 1] = g[m - 1]
        BY <4>1
      <4> QED BY <2>5, <2>6, <3>2, <3>4, <4>2
    <3> QED BY <3>3, <3>4
  <2>9. n \in 1..n
    BY <1>1, <1>4
  <2>10. c[n] = g[n]
    BY <2>7, <2>9
  <2>8. c[n] = g[n] /\ g[n] = h[n]
    BY <2>9, <2>10 DEF g
  <2> QED BY <1>2, <2>1, <2>8
<1> QED BY <1>3, <1>4

\* Induction over the naturals, as a fact about sets.
LEMMA Climb ==
  ASSUME NEW G, 0 \in G, \A k \in Nat : k \in G => k + 1 \in G
  PROVE  \A k \in Nat : k \in G
<1> DEFINE Bad == {k \in Nat : k \notin G}
<1> SUFFICES ASSUME Bad # {} PROVE FALSE
  OBVIOUS
<1>1. PICK m \in Bad : \A k \in Bad : m <= k
  BY Joins!LeastNatural
<1>2. m # 0
  BY <1>1
<1>3. m - 1 \in Nat /\ m - 1 \notin Bad /\ (m - 1) + 1 = m
  BY <1>1, <1>2
<1> QED BY <1>1, <1>3

LEMMA FlattenFrom ==
  ASSUME NEW S, NEW seqs \in Seq(Seq(S)), NEW list, list = FlattenSeq(seqs)
  PROVE  list \in Seq(S) /\ \E at : Origins(list, seqs, Len(seqs), at)
<1> DEFINE n == Len(seqs)
<1>1. n \in Nat
  OBVIOUS
<1>2. PICK h : /\ h[0] = <<>>
               /\ \A k \in 1..n : h[k] = Joined(h[k - 1], seqs[k])
               /\ Joins!Result(<<>>, seqs, n) = h[n]
  BY <1>1, Joins!Steps
<1>3. list = h[n]
  BY <1>2, FlattenSeqIs
<1> DEFINE P(k) == k <= n => h[k] \in Seq(S) /\ \E at : Origins(h[k], seqs, k, at)
<1>4. P(0)
  <2>1. Origins(<<>>, seqs, 0, <<>>)
    BY DEF Origins
  <2> QED BY <1>2, <2>1
<1>5. ASSUME NEW k \in Nat, P(k) PROVE P(k + 1)
  <2> SUFFICES ASSUME k + 1 <= n PROVE h[k + 1] \in Seq(S) /\ \E at : Origins(h[k + 1], seqs, k + 1, at)
    OBVIOUS
  <2>1. k <= n /\ k < n /\ k + 1 \in 1..n /\ (k + 1) - 1 = k
    BY <1>1
  <2>2. h[k + 1] = h[k] \o seqs[k + 1]
    BY <1>2, <2>1 DEF Joined
  <2>3. PICK at : Origins(h[k], seqs, k, at)
    BY <1>5, <2>1
  <2> QED BY <1>5, <2>1, <2>2, <2>3, OriginsGrow
<1> DEFINE G == {k \in Nat : P(k)}
<1>6. 0 \in G /\ \A k \in Nat : k \in G => k + 1 \in G
  <2> HIDE DEF P
  <2> QED BY <1>4, <1>5
<1> HIDE DEF G
<1>7. n \in G
  BY <1>1, <1>6, Climb
<1> QED BY <1>1, <1>3, <1>7 DEF G

-----------------------------------------------------------------------------
(* Messages.                                                                  *)
Kinds == {"text", "call", "result", "thought"}
Part == [kind : Kinds, id : Int, word : Int]

Roles == {"system", "developer", "user", "assistant", "tool"}
Message == [role : Roles, parts : Seq(Part)]

\* Results come before everything else.
Leads(parts) ==
  \A p, q \in 1..Len(parts) :
    parts[p].kind = "result" /\ parts[q].kind # "result" => p < q

\* What a role may say in a Claude request.
Spoken(role) ==
  {b \in Part : b.kind \in IF role = "assistant" THEN {"text", "call", "thought"} ELSE {"text", "result"}}

ProperMessage == {m \in Message : m.parts \in Seq(Spoken(m.role)) /\ Leads(m.parts)}

\* A message of role tool is a result, or several.
OpenAiMessage ==
  {m \in Message : m.role = "tool" =>
     Len(m.parts) > 0 /\ \A p \in 1..Len(m.parts) : m.parts[p].kind = "result"}

LEMMA SameKinds ==
  ASSUME NEW s \in Seq(Part), NEW seqs \in Seq(Seq(Part)), Len(seqs) = Len(s),
         \A j \in 1..Len(s) : \A i \in 1..Len(seqs[j]) : seqs[j][i].kind = s[j].kind,
         NEW list, list = FlattenSeq(seqs)
  PROVE  /\ list \in Seq(Part)
         /\ Leads(s) => Leads(list)
         /\ \A p \in 1..Len(list) : \E j \in 1..Len(s) : list[p].kind = s[j].kind
<1> DEFINE n == Len(s)
<1>0. n \in Nat /\ n = Len(seqs)
  OBVIOUS
<1>1. list \in Seq(Part)
  BY FlattenFrom
<1>2. PICK at : Origins(list, seqs, n, at)
  BY <1>0, FlattenFrom
<1>3. ASSUME NEW p \in 1..Len(list) PROVE at[p] \in 1..n /\ list[p].kind = s[at[p]].kind
  <2>1. at[p] \in 1..n
    BY <1>2 DEF Origins
  <2>2. PICK i \in 1..Len(seqs[at[p]]) : list[p] = seqs[at[p]][i]
    BY <1>2 DEF Origins
  <2> QED BY <2>1, <2>2
<1>4. ASSUME Leads(s) PROVE Leads(list)
  <2> SUFFICES ASSUME NEW p \in 1..Len(list), NEW q \in 1..Len(list),
                      list[p].kind = "result", list[q].kind # "result"
               PROVE  p < q
    BY DEF Leads
  <2>1. at[p] \in 1..n /\ at[q] \in 1..n /\ at[p] < at[q]
    <3>1. at[p] \in 1..n /\ at[q] \in 1..n
      BY <1>3
    <3>2. s[at[p]].kind = "result" /\ s[at[q]].kind # "result"
      BY <1>3
    <3> QED BY <1>4, <3>1, <3>2 DEF Leads
  <2>2. q < p => at[q] <= at[p]
    BY <1>2 DEF Origins
  <2>3. p \in Int /\ q \in Int /\ p # q
    BY <1>1
  <2> QED BY <1>0, <2>1, <2>2, <2>3
<1> QED BY <1>1, <1>3, <1>4

\* The elements of a list that are members of a set.
Sieve(s, C) == FlattenSeq([j \in DOMAIN s |-> IF s[j] \in C THEN <<s[j]>> ELSE <<>>])

LEMMA SieveFacts ==
  ASSUME NEW S, NEW s \in Seq(S), NEW C, NEW list, list = Sieve(s, C)
  PROVE  /\ list \in Seq(S) /\ list \in Seq(C)
         /\ \A j \in 1..Len(s) : s[j] \in C => Len(list) > 0
         /\ S \subseteq Part => (Leads(s) => Leads(list))
<1> DEFINE n == Len(s)
           seqs == [j \in DOMAIN s |-> IF s[j] \in C THEN <<s[j]>> ELSE <<>>]
<1>1. n \in Nat /\ DOMAIN s = 1..n
  OBVIOUS
<1>2. \A j \in 1..n : s[j] \in S /\ seqs[j] = IF s[j] \in C THEN <<s[j]>> ELSE <<>>
  BY <1>1
<1>3. seqs \in Seq(Seq(S)) /\ seqs \in Seq(Seq(C)) /\ Len(seqs) = n
  <2>1. \A j \in 1..n : seqs[j] \in Seq(S) /\ seqs[j] \in Seq(C)
    BY <1>2
  <2> QED BY <1>1, <2>1
<1>4. list = FlattenSeq(seqs)
  BY DEF Sieve
<1> HIDE DEF seqs, n
<1>5. list \in Seq(S)
  BY <1>3, <1>4, FlattenFrom
<1>6. list \in Seq(C)
  BY <1>3, <1>4, FlattenFrom
<1>7. PICK at : Origins(list, seqs, n, at)
  BY <1>3, <1>4, FlattenFrom
<1>8. ASSUME NEW j \in 1..n, s[j] \in C PROVE Len(list) > 0
  <2>1. Len(seqs[j]) > 0
    <3>1. seqs[j] = <<s[j]>>
      BY <1>2, <1>8
    <3> QED BY <3>1
  <2>2. PICK p \in 1..Len(list) : at[p] = j
    BY <1>7, <2>1 DEF Origins
  <2> QED BY <1>5, <2>2
<1>9. ASSUME S \subseteq Part, Leads(s) PROVE Leads(list)
  <2>1. ASSUME NEW j \in 1..n, NEW i \in 1..Len(seqs[j]) PROVE seqs[j][i].kind = s[j].kind
    <3>1. CASE s[j] \in C
      <4>1. seqs[j] = <<s[j]>>
        BY <1>2, <3>1
      <4>2. i = 1
        BY <4>1
      <4> QED BY <4>1, <4>2
    <3>2. CASE s[j] \notin C
      <4>1. seqs[j] = <<>>
        BY <1>2, <3>2
      <4> QED BY <4>1
    <3> QED BY <3>1, <3>2
  <2>2. s \in Seq(Part) /\ seqs \in Seq(Seq(Part)) /\ Len(seqs) = Len(s)
    <3>1. Seq(S) \subseteq Seq(Part)
      BY <1>9
    <3>2. \A j \in 1..n : seqs[j] \in Seq(Part)
      BY <1>3, <3>1
    <3> QED BY <1>1, <1>3, <3>1, <3>2 DEF n
  <2> QED BY <1>4, <1>9, <2>1, <2>2, SameKinds DEF n
<1> QED BY <1>5, <1>6, <1>8, <1>9 DEF n

LEMMA PartKeepers ==
  ASSUME NEW S \in SUBSET Part, NEW parts \in Seq(S), NEW kind
  PROVE  /\ Of(kind, parts) \in Seq({b \in S : b.kind = kind})
         /\ But(kind, parts) \in Seq({b \in S : b.kind # kind})
         /\ Wordy(parts) \in Seq({b \in S : b.kind = "text"})
         /\ HasPart(kind, parts) => Len(Of(kind, parts)) > 0
         /\ Leads(parts) => Leads(But(kind, parts))
<1> DEFINE ofs == {b \in S : b.kind = kind}
           buts == {b \in S : b.kind # kind}
           words == {b \in S : b.kind = "text" /\ b.word # Blank}
<1>0. DOMAIN parts = 1..Len(parts) /\ \A j \in 1..Len(parts) : parts[j] \in S
  OBVIOUS
<1>1. Of(kind, parts) = Sieve(parts, ofs)
  <2>1. [j \in DOMAIN parts |-> IF parts[j].kind = kind THEN <<parts[j]>> ELSE <<>>]
          = [j \in DOMAIN parts |-> IF parts[j] \in ofs THEN <<parts[j]>> ELSE <<>>]
    BY <1>0
  <2> HIDE DEF ofs
  <2> QED BY <2>1 DEF Of, Where, Sieve
<1>2. But(kind, parts) = Sieve(parts, buts)
  <2>1. [j \in DOMAIN parts |-> IF parts[j].kind # kind THEN <<parts[j]>> ELSE <<>>]
          = [j \in DOMAIN parts |-> IF parts[j] \in buts THEN <<parts[j]>> ELSE <<>>]
    BY <1>0
  <2> HIDE DEF buts
  <2> QED BY <2>1 DEF But, Where, Sieve
<1>3. Wordy(parts) = Sieve(parts, words)
  <2>1. [j \in DOMAIN parts |-> IF parts[j].kind = "text" /\ parts[j].word # Blank THEN <<parts[j]>> ELSE <<>>]
          = [j \in DOMAIN parts |-> IF parts[j] \in words THEN <<parts[j]>> ELSE <<>>]
    BY <1>0
  <2> HIDE DEF words
  <2> QED BY <2>1 DEF Wordy, Where, Sieve
<1>4. /\ words \subseteq {b \in S : b.kind = "text"}
      /\ \A j \in 1..Len(parts) : parts[j].kind = kind => parts[j] \in ofs
  BY <1>0
<1>5. HasPart(kind, parts) => \E j \in 1..Len(parts) : parts[j].kind = kind
  BY <1>0 DEF HasPart
<1>6. Of(kind, parts) \in Seq(ofs)
  BY <1>1, SieveFacts
<1>7. But(kind, parts) \in Seq(buts) /\ (Leads(parts) => Leads(But(kind, parts)))
  BY <1>2, SieveFacts
<1>8. Wordy(parts) \in Seq(words)
  BY <1>3, SieveFacts
<1>9. Wordy(parts) \in Seq({b \in S : b.kind = "text"})
  BY <1>4, <1>8
<1>10. HasPart(kind, parts) => Len(Of(kind, parts)) > 0
  <2> SUFFICES ASSUME HasPart(kind, parts) PROVE Len(Of(kind, parts)) > 0
    OBVIOUS
  <2>1. PICK j \in 1..Len(parts) : parts[j] \in ofs
    BY <1>4, <1>5
  <2> HIDE DEF ofs, buts, words
  <2> QED BY <1>1, <2>1, SieveFacts
<1> QED BY <1>6, <1>7, <1>9, <1>10

\* A list is given by its elements.
LEMMA ListOf ==
  ASSUME NEW T, NEW n \in Nat, NEW f, f = [j \in 1..n |-> f[j]], \A j \in 1..n : f[j] \in T
  PROVE  f \in Seq(T) /\ Len(f) = n
OBVIOUS

LEMMA PartByPart ==
  ASSUME NEW S \in SUBSET Part, NEW s \in Seq(Part), NEW seqs, DOMAIN seqs = 1..Len(s),
         seqs = [j \in 1..Len(s) |-> seqs[j]],
         \A j \in 1..Len(s) : seqs[j] = <<>> \/ \E b \in S : seqs[j] = <<b>> /\ b.kind = s[j].kind,
         NEW list, list = FlattenSeq(seqs)
  PROVE  list \in Seq(S) /\ (Leads(s) => Leads(list))
<1> DEFINE n == Len(s)
<1>0. n \in Nat
  OBVIOUS
<1>1. ASSUME NEW j \in 1..n
      PROVE  seqs[j] \in Seq(S) /\ \A i \in 1..Len(seqs[j]) : seqs[j][i].kind = s[j].kind
  <2>1. CASE seqs[j] = <<>>
    BY <2>1
  <2>2. ASSUME NEW b \in S, seqs[j] = <<b>>, b.kind = s[j].kind
        PROVE  seqs[j] \in Seq(S) /\ \A i \in 1..Len(seqs[j]) : seqs[j][i].kind = s[j].kind
    <3>1. <<b>> \in Seq(S)
      OBVIOUS
    <3>2. \A i \in 1..Len(<<b>>) : <<b>>[i] = b
      OBVIOUS
    <3> QED BY <2>2, <3>1, <3>2
  <2> QED BY <2>1, <2>2
<1>2. seqs \in Seq(Seq(S)) /\ Len(seqs) = n
  BY <1>0, <1>1
<1>3. list \in Seq(S)
  BY <1>2, FlattenFrom
<1>4. seqs \in Seq(Seq(Part))
  <2>1. Seq(S) \subseteq Seq(Part)
    OBVIOUS
  <2> QED BY <1>0, <1>1, <2>1
<1>5. Leads(s) => Leads(list)
  BY <1>1, <1>2, <1>4, SameKinds
<1> QED BY <1>3, <1>5

LEMMA ResultsFirstFacts ==
  ASSUME NEW S \in SUBSET Part, NEW parts \in Seq(S)
  PROVE  /\ ResultsFirst(parts) \in Seq(S)
         /\ Leads(ResultsFirst(parts))
<1> DEFINE a == Of("result", parts)
           b == But("result", parts)
<1>1. /\ a \in Seq({x \in S : x.kind = "result"})
      /\ b \in Seq({x \in S : x.kind # "result"})
  BY PartKeepers
<1>2. ResultsFirst(parts) = a \o b
  BY DEF ResultsFirst
<1> HIDE DEF a, b
<1>3. a \in Seq(S) /\ b \in Seq(S) /\ Len(a) \in Nat /\ Len(b) \in Nat
  BY <1>1
<1>4. \A p \in 1..Len(a) : a[p].kind = "result"
  BY <1>1
<1>5. \A p \in 1..Len(b) : b[p].kind # "result"
  BY <1>1
<1>6. ASSUME NEW p \in 1..Len(a \o b), NEW q \in 1..Len(a \o b),
             (a \o b)[p].kind = "result", (a \o b)[q].kind # "result"
      PROVE  p < q
  <2>1. p <= Len(a)
    <3> SUFFICES ASSUME ~(p <= Len(a)) PROVE FALSE
      OBVIOUS
    <3>1. p - Len(a) \in 1..Len(b) /\ (a \o b)[p] = b[p - Len(a)]
      BY <1>3
    <3> QED BY <1>5, <1>6, <3>1
  <2>2. ~(q <= Len(a))
    <3> SUFFICES ASSUME q <= Len(a) PROVE FALSE
      OBVIOUS
    <3>1. q \in 1..Len(a) /\ (a \o b)[q] = a[q]
      BY <1>3
    <3> QED BY <1>4, <1>6, <3>1
  <2> QED BY <1>3, <2>1, <2>2
<1>7. Leads(a \o b)
  BY <1>6 DEF Leads
<1> QED BY <1>2, <1>3, <1>7

LEMMA WithContentProper ==
  ASSUME NEW messages \in Seq(ProperMessage)
  PROVE  WithContent(messages) \in Seq(ProperMessage)
<1> DEFINE keeps(j) == HasValidContent(messages[j]) \/ (j = Len(messages) /\ messages[j].role = "assistant")
           seqs == [j \in DOMAIN messages |-> IF keeps(j) THEN <<messages[j]>> ELSE <<>>]
<1>1. WithContent(messages) = FlattenSeq(seqs)
  BY DEF WithContent
<1> HIDE DEF keeps
<1>2. \A j \in 1..Len(messages) : seqs[j] \in Seq(ProperMessage)
  OBVIOUS
<1>4. seqs = [j \in 1..Len(messages) |-> seqs[j]]
  OBVIOUS
<1> HIDE DEF seqs
<1>3. seqs \in Seq(Seq(ProperMessage))
  BY <1>2, <1>4, ListOf
<1> QED BY <1>1, <1>3, FlattenFrom

LEMMA NoTextAfterCallsProper ==
  ASSUME NEW m \in ProperMessage
  PROVE  NoTextAfterCalls(m) \in ProperMessage /\ NoTextAfterCalls(m).role = m.role
<1> DEFINE first == Min({j \in DOMAIN m.parts : m.parts[j].kind = "call"})
           keeps(j) == m.parts[j].kind # "text" \/ j < first
           seqs == [j \in DOMAIN m.parts |-> IF keeps(j) THEN <<m.parts[j]>> ELSE <<>>]
           list == FlattenSeq(seqs)
<1>1. m \in Message /\ m.parts \in Seq(Spoken(m.role)) /\ Leads(m.parts)
  BY DEF ProperMessage
<1>2. CASE m.role # "assistant" \/ ~HasPart("call", m.parts)
  BY <1>2 DEF NoTextAfterCalls
<1>3. CASE ~(m.role # "assistant" \/ ~HasPart("call", m.parts))
  <2>1. NoTextAfterCalls(m) = [m EXCEPT !.parts = list]
    BY <1>3 DEF NoTextAfterCalls
  <2>2. m.parts \in Seq(Part) /\ Spoken(m.role) \in SUBSET Part
    BY <1>1 DEF Spoken, Message
  <2> HIDE DEF first, keeps
  <2>3. DOMAIN seqs = 1..Len(m.parts) /\ seqs = [j \in 1..Len(m.parts) |-> seqs[j]]
    BY <2>2
  <2>4. \A j \in 1..Len(m.parts) :
          seqs[j] = <<>> \/ \E b \in Spoken(m.role) : seqs[j] = <<b>> /\ b.kind = m.parts[j].kind
    <3>1. \A j \in 1..Len(m.parts) : m.parts[j] \in Spoken(m.role)
      BY <1>1
    <3>2. \A j \in 1..Len(m.parts) : seqs[j] = <<>> \/ seqs[j] = <<m.parts[j]>>
      BY <2>2
    <3> HIDE DEF seqs
    <3> QED BY <3>1, <3>2
  <2> HIDE DEF seqs
  <2>5. list \in Seq(Spoken(m.role)) /\ Leads(list)
    BY <1>1, <2>2, <2>3, <2>4, PartByPart
  <2> HIDE DEF list
  <2>6. list \in Seq(Part)
    BY <2>2, <2>5
  <2> QED BY <1>1, <2>1, <2>5, <2>6 DEF ProperMessage, Message
<1> QED BY <1>2, <1>3

-----------------------------------------------------------------------------
(* Messages of one role are merged.                                           *)
Differ(messages) ==
  \A j \in 1..(Len(messages) - 1) : messages[j].role # messages[j + 1].role

\* What Merge makes of the last message and the next, when the roles are equal.
Enlarged(messages, x) == [messages EXCEPT ![Len(messages)].parts = x]

LEMMA MergeStep ==
  ASSUME NEW T \in SUBSET Message, NEW all \in Seq(T), Differ(all), NEW m \in T,
         NEW x, NEW next,
         next = IF all # <<>> /\ Last(all).role = m.role THEN Enlarged(all, x) ELSE Append(all, m),
         all # <<>> /\ Last(all).role = m.role => [Last(all) EXCEPT !.parts = x] \in T
  PROVE  next \in Seq(T) /\ Differ(next)
<1> DEFINE n == Len(all)
<1>0. n \in Nat /\ \A j \in 1..n : all[j] \in Message
  OBVIOUS
<1>1. CASE all # <<>> /\ Last(all).role = m.role
  <2>1. next = Enlarged(all, x) /\ Last(all) = all[n] /\ n \in 1..n
    BY <1>1 DEF Last
  <2> DEFINE y == [all[n] EXCEPT !.parts = x]
  <2>2. y \in T /\ y.role = all[n].role
    BY <1>0, <1>1, <2>1 DEF Message
  <2>3. next = [all EXCEPT ![n] = y]
    BY <2>1 DEF Enlarged
  <2> HIDE DEF y
  <2>4. next \in Seq(T) /\ Len(next) = n /\ \A j \in 1..n : next[j].role = all[j].role
    BY <2>1, <2>2, <2>3
  <2>5. \A j \in 1..(n - 1) : next[j].role # next[j + 1].role
    <3>1. \A j \in 1..(n - 1) : j \in 1..n /\ j + 1 \in 1..n
      BY <1>0
    <3> QED BY <2>4, <3>1 DEF Differ
  <2> QED BY <2>4, <2>5 DEF Differ
<1>2. CASE ~(all # <<>> /\ Last(all).role = m.role)
  <2>1. next = Append(all, m)
    BY <1>2
  <2>2. /\ next \in Seq(T) /\ Len(next) = n + 1 /\ next[n + 1] = m
        /\ \A j \in 1..n : next[j] = all[j]
    BY <2>1
  <2>3. ASSUME NEW j \in 1..n PROVE next[j].role # next[j + 1].role
    <3>1. CASE j = n
      <4>1. all # <<>> /\ Last(all) = all[n]
        BY <1>0, <2>3 DEF Last
      <4> QED BY <1>2, <2>2, <3>1, <4>1
    <3>2. CASE j # n
      <4>1. j \in 1..(n - 1) /\ j + 1 \in 1..n
        BY <1>0, <3>2
      <4> QED BY <2>2, <4>1 DEF Differ
    <3> QED BY <3>1, <3>2
  <2>4. Len(next) - 1 = n
    BY <1>0, <2>2
  <2> QED BY <2>2, <2>3, <2>4 DEF Differ
<1> QED BY <1>1, <1>2

MergeFirst(all, m) == Merge(all, m, ResultsFirst)
Merges == INSTANCE FoldSteps WITH Op <- MergeFirst

LEMMA MergeRolesIs ==
  ASSUME NEW messages \in Seq(ProperMessage)
  PROVE  MergeRoles(messages) = Merges!Result(<<>>, messages, Len(messages))
<1>1. DOMAIN messages = 1..Len(messages)
  OBVIOUS
<1> QED
  BY <1>1 DEF MergeRoles, MergeFirst, FoldLeft, MapThenFoldSet, Max,
              Merges!Result, Merges!FoldOf, Merges!Max

LEMMA MergeFirstProper ==
  ASSUME NEW all \in Seq(ProperMessage), Differ(all), NEW m \in ProperMessage
  PROVE  MergeFirst(all, m) \in Seq(ProperMessage) /\ Differ(MergeFirst(all, m))
<1> DEFINE x == ResultsFirst(all[Len(all)].parts \o m.parts)
<1>1. MergeFirst(all, m)
        = IF all # <<>> /\ Last(all).role = m.role THEN Enlarged(all, x) ELSE Append(all, m)
  BY DEF MergeFirst, Merge, Enlarged
<1>2. ASSUME all # <<>>, Last(all).role = m.role PROVE [Last(all) EXCEPT !.parts = x] \in ProperMessage
  <2> DEFINE l == all[Len(all)]
  <2>1. Last(all) = l /\ l \in ProperMessage
    BY <1>2 DEF Last
  <2> HIDE DEF l
  <2>2. /\ l \in Message /\ l.parts \in Seq(Spoken(l.role))
        /\ m \in Message /\ m.parts \in Seq(Spoken(l.role))
    BY <1>2, <2>1 DEF ProperMessage
  <2>3. Spoken(l.role) \in SUBSET Part /\ l.parts \o m.parts \in Seq(Spoken(l.role))
    BY <2>2 DEF Spoken
  <2>4. x \in Seq(Spoken(l.role)) /\ Leads(x)
    BY <2>3, ResultsFirstFacts DEF l
  <2> HIDE DEF x
  <2>5. x \in Seq(Part)
    BY <2>3, <2>4
  <2>6. [l EXCEPT !.parts = x] \in Message /\ [l EXCEPT !.parts = x].parts = x
        /\ [l EXCEPT !.parts = x].role = l.role
    BY <2>2, <2>5 DEF Message
  <2> QED BY <2>1, <2>4, <2>6 DEF ProperMessage
<1> HIDE DEF x
<1>3. ProperMessage \in SUBSET Message
  BY DEF ProperMessage
<1> QED BY <1>1, <1>2, <1>3, MergeStep

LEMMA MergeRolesProper ==
  ASSUME NEW messages \in Seq(ProperMessage)
  PROVE  MergeRoles(messages) \in Seq(ProperMessage) /\ Differ(MergeRoles(messages))
<1> DEFINE n == Len(messages)
<1>1. n \in Nat /\ \A k \in 1..n : messages[k] \in ProperMessage
  OBVIOUS
<1>2. PICK h : /\ h[0] = <<>>
               /\ \A k \in 1..n : h[k] = MergeFirst(h[k - 1], messages[k])
               /\ Merges!Result(<<>>, messages, n) = h[n]
  BY <1>1, Merges!Steps
<1> DEFINE P(k) == k <= n => h[k] \in Seq(ProperMessage) /\ Differ(h[k])
<1>3. P(0)
  BY <1>2 DEF Differ
<1>4. ASSUME NEW k \in Nat, P(k) PROVE P(k + 1)
  <2> SUFFICES ASSUME k + 1 <= n PROVE h[k + 1] \in Seq(ProperMessage) /\ Differ(h[k + 1])
    OBVIOUS
  <2>1. k <= n /\ k + 1 \in 1..n /\ (k + 1) - 1 = k
    BY <1>1
  <2>2. h[k + 1] = MergeFirst(h[k], messages[k + 1]) /\ messages[k + 1] \in ProperMessage
    BY <1>1, <1>2, <2>1
  <2> QED BY <1>4, <2>1, <2>2, MergeFirstProper
<1> DEFINE G == {k \in Nat : P(k)}
<1>5. 0 \in G /\ \A k \in Nat : k \in G => k + 1 \in G
  <2> HIDE DEF P
  <2> QED BY <1>3, <1>4
<1> HIDE DEF G
<1>6. n \in G
  BY <1>1, <1>5, Climb
<1> QED BY <1>1, <1>2, <1>6, MergeRolesIs DEF G

LEMMA EveryProper ==
  ASSUME NEW m \in ProperMessage
  PROVE  /\ m \in Message /\ m.parts \in Seq(Spoken(m.role)) /\ m.parts \in Seq(Part)
         /\ Leads(m.parts) /\ Spoken(m.role) \in SUBSET Part
<1>1. m \in Message /\ m.parts \in Seq(Spoken(m.role)) /\ Leads(m.parts)
  BY DEF ProperMessage
<1> QED BY <1>1 DEF Spoken, Message

LEMMA WithParts ==
  ASSUME NEW m \in ProperMessage, NEW list \in Seq(Spoken(m.role)), Leads(list)
  PROVE  [m EXCEPT !.parts = list] \in ProperMessage /\ [m EXCEPT !.parts = list].role = m.role
<1>1. list \in Seq(Part) /\ m \in Message
  BY EveryProper
<1> QED BY <1>1 DEF ProperMessage, Message

\* The results of all messages.
ResultParts == {b \in Part : b.kind = "result"}
ResultsOf(messages) == FlatMap(LAMBDA m : Of("result", m.parts), messages)

LEMMA AllResults ==
  ASSUME NEW messages \in Seq(ProperMessage)
  PROVE  ResultsOf(messages) \in Seq(ResultParts)
<1> DEFINE seqs == [j \in DOMAIN messages |-> Of("result", messages[j].parts)]
<1>1. ResultsOf(messages) = FlattenSeq(seqs)
  BY DEF FlatMap, ResultsOf
<1>2. seqs = [j \in 1..Len(messages) |-> seqs[j]]
  OBVIOUS
<1>3. ASSUME NEW j \in 1..Len(messages) PROVE seqs[j] \in Seq(ResultParts)
  <2>1. messages[j].parts \in Seq(Part) /\ Part \in SUBSET Part
    BY EveryProper
  <2>2. Of("result", messages[j].parts) \in Seq(ResultParts)
    BY <2>1, PartKeepers DEF ResultParts
  <2> QED BY <2>2
<1> HIDE DEF seqs
<1>4. seqs \in Seq(Seq(ResultParts))
  BY <1>2, <1>3, ListOf
<1> QED BY <1>1, <1>4, FlattenFrom

\* The results of one call that say something.
ContentsOf(all, i) == Where(all, LAMBDA b : b.id = i /\ b.word # Blank)
FirstOf(all, b) == IF ContentsOf(all, b.id) = <<>> THEN b ELSE ContentsOf(all, b.id)[1]

LEMMA FirstIsResult ==
  ASSUME NEW all \in Seq(ResultParts), NEW b \in ResultParts
  PROVE  FirstOf(all, b) \in ResultParts /\ FirstOf(all, b).id = b.id
<1> DEFINE c == ContentsOf(all, b.id)
           C == {x \in ResultParts : x.id = b.id /\ x.word # Blank}
<1>1. [j \in DOMAIN all |-> IF all[j].id = b.id /\ all[j].word # Blank THEN <<all[j]>> ELSE <<>>]
        = [j \in DOMAIN all |-> IF all[j] \in C THEN <<all[j]>> ELSE <<>>]
  OBVIOUS
<1> HIDE DEF C
<1>2. c = Sieve(all, C)
  BY <1>1 DEF ContentsOf, Where, Sieve
<1> HIDE DEF c
<1>3. c \in Seq(C)
  BY <1>2, SieveFacts
<1>4. c # <<>> => c[1] \in C
  BY <1>3
<1> USE DEF C
<1> QED BY <1>4 DEF FirstOf, c

LEMMA DedupeProper ==
  ASSUME NEW messages \in Seq(ProperMessage), NEW out, out = DedupeToolResults(messages)
  PROVE  /\ out \in Seq(ProperMessage) /\ Len(out) = Len(messages)
         /\ \A j \in 1..Len(messages) : out[j].role = messages[j].role
<1> DEFINE all == ResultsOf(messages)
           before(j, p, i) == \/ \E k \in 1..(j - 1) : i \in Ids("result", messages[k].parts)
                              \/ i \in Ids("result", SubSeq(messages[j].parts, 1, p - 1))
           part(j, p) == LET b == messages[j].parts[p]
                         IN  CASE b.kind # "result" -> <<b>>
                               [] b.kind = "result" ->
                                    IF before(j, p, b.id) THEN <<>> ELSE <<FirstOf(all, b)>>
           seqs(j) == [p \in DOMAIN messages[j].parts |-> part(j, p)]
           deduped(j) == [messages[j] EXCEPT !.parts = FlattenSeq(seqs(j))]
<1>1. out = [j \in DOMAIN messages |-> deduped(j)]
  BY DEF DedupeToolResults, FirstOf, ContentsOf, ResultsOf
<1>2. all \in Seq(ResultParts)
  BY AllResults
<1> HIDE DEF all, before
<1>3. ASSUME NEW j \in 1..Len(messages)
      PROVE  deduped(j) \in ProperMessage /\ deduped(j).role = messages[j].role
  <2> DEFINE m == messages[j]
             s == m.parts
  <2>1. /\ m \in ProperMessage /\ s \in Seq(Spoken(m.role)) /\ s \in Seq(Part) /\ Leads(s)
        /\ Spoken(m.role) \in SUBSET Part
    BY EveryProper
  <2>2. ASSUME NEW p \in 1..Len(s)
        PROVE  seqs(j)[p] = <<>> \/ \E b \in Spoken(m.role) : seqs(j)[p] = <<b>> /\ b.kind = s[p].kind
    <3> DEFINE b == s[p]
    <3>0. b \in Spoken(m.role) /\ seqs(j)[p] = part(j, p)
      BY <2>1
    <3>1. CASE b.kind # "result"
      <4>1. part(j, p) = <<b>>
        BY <3>1
      <4> HIDE DEF part, seqs
      <4> QED BY <3>0, <4>1
    <3>2. CASE b.kind = "result"
      <4>1. part(j, p) = IF before(j, p, b.id) THEN <<>> ELSE <<FirstOf(all, b)>>
        BY <3>2
      <4>2. b \in ResultParts
        BY <2>1, <3>0, <3>2 DEF ResultParts
      <4>3. FirstOf(all, b) \in ResultParts
        BY <1>2, <4>2, FirstIsResult
      <4>4. FirstOf(all, b) \in Spoken(m.role) /\ FirstOf(all, b).kind = b.kind
        BY <3>0, <3>2, <4>3 DEF ResultParts, Spoken
      <4> HIDE DEF part, seqs
      <4> QED BY <3>0, <4>1, <4>4
    <3> QED BY <3>1, <3>2
  <2>3. DOMAIN seqs(j) = 1..Len(s) /\ seqs(j) = [p \in 1..Len(s) |-> seqs(j)[p]]
    BY <2>1
  <2> DEFINE list == FlattenSeq(seqs(j))
  <2> HIDE DEF part, seqs, s, m
  <2>4. list \in Seq(Spoken(m.role)) /\ Leads(list)
    BY <2>1, <2>2, <2>3, PartByPart
  <2> HIDE DEF list
  <2>5. [m EXCEPT !.parts = list] \in ProperMessage /\ [m EXCEPT !.parts = list].role = m.role
    BY <2>1, <2>4, WithParts
  <2> QED BY <2>5 DEF list, m
<1> HIDE DEF deduped
<1>4. /\ out = [j \in 1..Len(messages) |-> out[j]]
      /\ \A j \in 1..Len(messages) : out[j] \in ProperMessage /\ out[j].role = messages[j].role
  BY <1>1, <1>3
<1>5. out \in Seq(ProperMessage) /\ Len(out) = Len(messages)
  BY <1>4, ListOf
<1> QED BY <1>4, <1>5

\* Whether a result of call i comes before part p of message j.
Before(messages, j, p, i) ==
  \/ \E k \in 1..(j - 1) : i \in Ids("result", messages[k].parts)
  \/ i \in Ids("result", SubSeq(messages[j].parts, 1, p - 1))

\* No two results have one id.
AnsweredOnce(messages) ==
  \A j, k \in DOMAIN messages :
  \A x \in DOMAIN messages[j].parts, y \in DOMAIN messages[k].parts :
    LET b == messages[j].parts[x]
        c == messages[k].parts[y]
    IN  b.kind = "result" /\ c.kind = "result" /\ b.id = c.id => j = k /\ x = y

\* list is the lists seqs, of one element or none, one after the other.
InOrder(list, seqs, n, at) ==
  /\ at \in [1..Len(list) -> 1..n]
  /\ \A p, q \in 1..Len(list) : p < q => at[p] < at[q]
  /\ \A p \in 1..Len(list) : Len(seqs[at[p]]) = 1 /\ list[p] = seqs[at[p]][1]

LEMMA OneEachInOrder ==
  ASSUME NEW S, NEW n \in Nat, NEW seqs, seqs = [j \in 1..n |-> seqs[j]],
         \A j \in 1..n : seqs[j] \in Seq(S) /\ Len(seqs[j]) <= 1,
         NEW list, list = FlattenSeq(seqs)
  PROVE  \E at : InOrder(list, seqs, n, at)
<1>1. seqs \in Seq(Seq(S)) /\ Len(seqs) = n
  BY ListOf
<1>2. list \in Seq(S) /\ \E at : Origins(list, seqs, n, at)
  BY <1>1, FlattenFrom
<1>3. PICK at : Origins(list, seqs, n, at)
  BY <1>2
<1>4. at \in [1..Len(list) -> 1..n]
  BY <1>3 DEF Origins
<1>5. ASSUME NEW p \in 1..Len(list), NEW q \in 1..Len(list), p < q PROVE at[p] < at[q]
  <2>1. at[p] \in 1..n /\ at[q] \in 1..n /\ at[p] <= at[q]
    BY <1>3, <1>4, <1>5 DEF Origins
  <2>2. at[p] # at[q]
    <3>1. Len(seqs[at[p]]) \in Nat /\ Len(seqs[at[p]]) <= 1
      BY <2>1
    <3> QED BY <1>3, <1>5, <3>1 DEF Origins
  <2> QED BY <2>1, <2>2
<1>6. ASSUME NEW p \in 1..Len(list) PROVE Len(seqs[at[p]]) = 1 /\ list[p] = seqs[at[p]][1]
  <2> DEFINE l == Len(seqs[at[p]])
  <2>1. at[p] \in 1..n
    BY <1>4
  <2>2. l \in Nat /\ l <= 1
    BY <2>1
  <2>3. PICK i \in 1..l : list[p] = seqs[at[p]][i]
    BY <1>3 DEF Origins
  <2>4. l = 1 /\ i = 1
    <3> HIDE DEF l
    <3> QED BY <2>2
  <2> QED BY <2>3, <2>4
<1> QED BY <1>4, <1>5, <1>6 DEF InOrder

\* Where the parts of message j come from.
SourcesOf(messages, out, j, at) ==
  /\ at \in [1..Len(out[j].parts) -> 1..Len(messages[j].parts)]
  /\ \A x, y \in 1..Len(out[j].parts) : x < y => at[x] < at[y]
  /\ \A x \in 1..Len(out[j].parts) : out[j].parts[x].kind = "result" =>
       /\ messages[j].parts[at[x]].kind = "result"
       /\ messages[j].parts[at[x]].id = out[j].parts[x].id
       /\ ~Before(messages, j, at[x], out[j].parts[x].id)

LEMMA DedupedParts ==
  ASSUME NEW messages \in Seq(ProperMessage), NEW j \in 1..Len(messages),
         NEW out, out = DedupeToolResults(messages)
  PROVE  \E at : SourcesOf(messages, out, j, at)
<1> DEFINE all == ResultsOf(messages)
           part(h, p) == LET b == messages[h].parts[p]
                         IN  CASE b.kind # "result" -> <<b>>
                               [] b.kind = "result" ->
                                    IF Before(messages, h, p, b.id) THEN <<>> ELSE <<FirstOf(all, b)>>
           lists(h) == [p \in DOMAIN messages[h].parts |-> part(h, p)]
           deduped(h) == [messages[h] EXCEPT !.parts = FlattenSeq(lists(h))]
           m == messages[j]
           s == m.parts
           seqs == lists(j)
           list == FlattenSeq(seqs)
<1>0. out = [h \in DOMAIN messages |-> deduped(h)]
  BY DEF DedupeToolResults, FirstOf, ContentsOf, ResultsOf, Before
<1>1. out[j] = [m EXCEPT !.parts = list]
  <2>1. j \in DOMAIN messages /\ out[j] = deduped(j)
    <3> HIDE DEF deduped
    <3> QED BY <1>0
  <2> QED BY <2>1
<1>2. all \in Seq(ResultParts)
  BY AllResults
<1>3. m \in Message /\ s \in Seq(Part)
  BY EveryProper
<1>4. DOMAIN s = 1..Len(s) /\ Len(s) \in Nat /\ \A p \in 1..Len(s) : s[p] \in Part
  BY <1>3
<1> HIDE DEF all
<1>5. ASSUME NEW p \in 1..Len(s)
      PROVE  /\ seqs[p] \in Seq(Part) /\ Len(seqs[p]) <= 1
             /\ Len(seqs[p]) = 1 /\ seqs[p][1].kind = "result" =>
                  /\ s[p].kind = "result" /\ s[p].id = seqs[p][1].id
                  /\ ~Before(messages, j, p, s[p].id)
  <2> DEFINE b == s[p]
             f == FirstOf(all, b)
             none == <<>>
  <2>1. seqs[p] = part(j, p) /\ b \in Part
    BY <1>4
  <2>2. none \in Seq(Part) /\ Len(none) = 0
    OBVIOUS
  <2>3. CASE b.kind # "result"
    <3>1. part(j, p) = <<b>>
      BY <2>3
    <3> HIDE DEF part, seqs, b
    <3>2. <<b>> \in Seq(Part) /\ Len(<<b>>) = 1 /\ <<b>>[1] = b
      BY <2>1
    <3> QED BY <2>1, <2>3, <3>1, <3>2
  <2>4. CASE b.kind = "result" /\ Before(messages, j, p, b.id)
    <3>1. part(j, p) = none
      BY <2>4
    <3> HIDE DEF part, seqs, none, b
    <3> QED BY <2>1, <2>2, <3>1
  <2>5. CASE b.kind = "result" /\ ~Before(messages, j, p, b.id)
    <3>1. part(j, p) = <<f>>
      BY <2>5
    <3>2. b \in ResultParts
      BY <2>1, <2>5 DEF ResultParts
    <3>3. f \in ResultParts /\ f.id = b.id
      <4> HIDE DEF b
      <4> QED BY <1>2, <3>2, FirstIsResult
    <3> HIDE DEF part, seqs, f
    <3>4. <<f>> \in Seq(Part) /\ Len(<<f>>) = 1 /\ <<f>>[1] = f
      <4>1. f \in Part
        BY <3>3 DEF ResultParts
      <4> QED BY <4>1
    <3> HIDE DEF b
    <3>5. b.id = f.id /\ b.kind = "result" /\ ~Before(messages, j, p, b.id)
      BY <2>5, <3>3
    <3>6. seqs[p] = <<f>>
      BY <2>1, <3>1
    <3> QED BY <3>4, <3>5, <3>6 DEF b
  <2> QED BY <2>3, <2>4, <2>5
<1>6. seqs = [p \in 1..Len(s) |-> seqs[p]]
  BY <1>4
<1> HIDE DEF part, lists, seqs, deduped
<1>7. \E at : InOrder(list, seqs, Len(s), at)
  <2> HIDE DEF list
  <2>1. list = FlattenSeq(seqs)
    BY DEF list
  <2>2. \A p \in 1..Len(s) : seqs[p] \in Seq(Part) /\ Len(seqs[p]) <= 1
    BY <1>5
  <2> DEFINE n == Len(s)
  <2>3. n \in Nat /\ seqs = [p \in 1..n |-> seqs[p]] /\ \A p \in 1..n : seqs[p] \in Seq(Part) /\ Len(seqs[p]) <= 1
    BY <1>4, <1>6, <2>2
  <2> HIDE DEF n
  <2>4. \E at : InOrder(list, seqs, n, at)
    BY <2>1, <2>3, OneEachInOrder
  <2> QED BY <2>4 DEF n
<1> HIDE DEF list
<1>8. PICK at : InOrder(list, seqs, Len(s), at)
  BY <1>7
<1>9. out[j].parts = list
  BY <1>1, <1>3 DEF Message
<1>10. ASSUME NEW x \in 1..Len(list), list[x].kind = "result"
      PROVE  /\ s[at[x]].kind = "result" /\ s[at[x]].id = list[x].id
             /\ ~Before(messages, j, at[x], list[x].id)
  <2>1. at[x] \in 1..Len(s) /\ Len(seqs[at[x]]) = 1 /\ list[x] = seqs[at[x]][1]
    BY <1>8 DEF InOrder
  <2> QED BY <1>5, <1>10, <2>1
<1>11. /\ at \in [1..Len(list) -> 1..Len(s)]
       /\ \A x, y \in 1..Len(list) : x < y => at[x] < at[y]
  BY <1>8 DEF InOrder
<1>12. SourcesOf(messages, out, j, at)
  BY <1>9, <1>10, <1>11 DEF SourcesOf
<1> QED BY <1>12

\* A result that comes before part q of message k.
LEMMA EarlierIsBefore ==
  ASSUME NEW messages \in Seq(ProperMessage),
         NEW j \in 1..Len(messages), NEW p \in 1..Len(messages[j].parts), NEW i,
         messages[j].parts[p].kind = "result", messages[j].parts[p].id = i,
         NEW k \in 1..Len(messages), NEW q \in 1..Len(messages[k].parts),
         j < k \/ (j = k /\ p < q)
  PROVE  Before(messages, k, q, i)
<1> DEFINE s == messages[j].parts
           prefix == SubSeq(s, 1, q - 1)
<1>1. s \in Seq(Part) /\ DOMAIN s = 1..Len(s) /\ Len(s) \in Nat
  BY EveryProper
<1>2. CASE j < k
  <2>1. i \in Ids("result", s)
    <3>1. s[p] \in ToSet(s) /\ s[p].kind = "result" /\ s[p].id = i
      BY <1>1 DEF ToSet
    <3> HIDE DEF s
    <3> QED BY <3>1 DEF Ids
  <2>2. j \in 1..(k - 1)
    BY <1>2
  <2> QED BY <2>1, <2>2 DEF Before
<1>3. CASE j = k /\ p < q
  <2>1. q \in 1..Len(s) /\ p \in 1..(q - 1) /\ s[p].kind = "result" /\ s[p].id = i
    BY <1>1, <1>3
  <2> HIDE DEF s
  <2>2. DOMAIN prefix = 1..(q - 1) /\ prefix[p] = s[p]
    BY <1>1, <2>1
  <2> HIDE DEF prefix
  <2>3. s[p] \in ToSet(prefix)
    BY <2>1, <2>2 DEF ToSet
  <2>4. i \in Ids("result", prefix)
    BY <2>1, <2>3 DEF Ids
  <2> QED BY <1>3, <2>4 DEF Before, prefix, s
<1> QED BY <1>2, <1>3

LEMMA DedupedOnce ==
  ASSUME NEW messages \in Seq(ProperMessage), NEW out, out = DedupeToolResults(messages)
  PROVE  AnsweredOnce(out)
<1>1. /\ out \in Seq(ProperMessage) /\ Len(out) = Len(messages)
      /\ DOMAIN out = 1..Len(messages) /\ Len(messages) \in Nat
  BY DedupeProper
<1>2. ASSUME NEW j \in 1..Len(messages) PROVE DOMAIN out[j].parts = 1..Len(out[j].parts)
  BY <1>1, EveryProper
<1>3. ASSUME NEW j \in 1..Len(messages) PROVE \E at : SourcesOf(messages, out, j, at)
  BY DedupedParts
<1>4. ASSUME NEW j \in 1..Len(messages), NEW k \in 1..Len(messages),
             NEW x \in 1..Len(out[j].parts), NEW y \in 1..Len(out[k].parts),
             out[j].parts[x].kind = "result", out[k].parts[y].kind = "result",
             out[j].parts[x].id = out[k].parts[y].id,
             j < k \/ (j = k /\ x < y)
      PROVE  FALSE
  <2> DEFINE i == out[k].parts[y].id
  <2>1. PICK from : SourcesOf(messages, out, k, from)
    BY <1>3
  <2>2. from[y] \in 1..Len(messages[k].parts) /\ ~Before(messages, k, from[y], i)
    BY <1>4, <2>1 DEF SourcesOf
  <2>3. CASE j = k /\ x < y
    <3>1. /\ from[x] \in 1..Len(messages[j].parts) /\ from[x] < from[y]
          /\ messages[j].parts[from[x]].kind = "result" /\ messages[j].parts[from[x]].id = i
      BY <1>4, <2>1, <2>3 DEF SourcesOf
    <3> HIDE DEF i
    <3> QED BY <2>2, <2>3, <3>1, EarlierIsBefore
  <2>4. CASE j < k
    <3>1. PICK at : SourcesOf(messages, out, j, at)
      BY <1>3
    <3>2. /\ at[x] \in 1..Len(messages[j].parts)
          /\ messages[j].parts[at[x]].kind = "result" /\ messages[j].parts[at[x]].id = i
      BY <1>4, <3>1 DEF SourcesOf
    <3> HIDE DEF i
    <3> QED BY <2>2, <2>4, <3>2, EarlierIsBefore
  <2> QED BY <1>4, <2>3, <2>4
<1>5. ASSUME NEW j \in 1..Len(messages), NEW k \in 1..Len(messages),
             NEW x \in 1..Len(out[j].parts), NEW y \in 1..Len(out[k].parts),
             out[j].parts[x].kind = "result", out[k].parts[y].kind = "result",
             out[j].parts[x].id = out[k].parts[y].id
      PROVE  j = k /\ x = y
  <2>1. x \in Int /\ y \in Int /\ j \in Int /\ k \in Int
    OBVIOUS
  <2>2. ~(j < k \/ (j = k /\ x < y))
    BY <1>4, <1>5
  <2>3. ~(k < j \/ (k = j /\ y < x))
    BY <1>4, <1>5
  <2> QED BY <2>1, <2>2, <2>3
<1>6. ASSUME NEW j \in DOMAIN out, NEW k \in DOMAIN out,
             NEW x \in DOMAIN out[j].parts, NEW y \in DOMAIN out[k].parts,
             out[j].parts[x].kind = "result", out[k].parts[y].kind = "result",
             out[j].parts[x].id = out[k].parts[y].id
      PROVE  j = k /\ x = y
  <2>1. j \in 1..Len(messages) /\ k \in 1..Len(messages)
    BY <1>1
  <2>2. x \in 1..Len(out[j].parts) /\ y \in 1..Len(out[k].parts)
    BY <1>2, <2>1
  <2> QED BY <1>5, <1>6, <2>1, <2>2
<1> QED BY <1>6 DEF AnsweredOnce

LEMMA OrderingProper ==
  ASSUME NEW messages \in Seq(ProperMessage), NEW out, out = FixToolUseOrdering(messages)
  PROVE  out \in Seq(ProperMessage) /\ Differ(out) /\ (Len(out) > 1 => AnsweredOnce(out))
<1>1. CASE Len(messages) <= 1
  <2>1. 1..(Len(messages) - 1) = {}
    BY <1>1
  <2>2. out = messages
    BY <1>1 DEF FixToolUseOrdering
  <2> QED BY <1>1, <2>1, <2>2 DEF Differ
<1>2. CASE ~(Len(messages) <= 1)
  <2> DEFINE trimmed == [j \in DOMAIN messages |-> NoTextAfterCalls(messages[j])]
             merged == MergeRoles(trimmed)
  <2>1. out = DedupeToolResults(merged)
    BY <1>2 DEF FixToolUseOrdering
  <2>2. trimmed = [j \in 1..Len(messages) |-> trimmed[j]]
    OBVIOUS
  <2>3. \A j \in 1..Len(messages) : trimmed[j] \in ProperMessage
    BY NoTextAfterCallsProper
  <2> HIDE DEF trimmed
  <2>4. trimmed \in Seq(ProperMessage)
    BY <2>2, <2>3, ListOf
  <2>5. merged \in Seq(ProperMessage) /\ Differ(merged)
    BY <2>4, MergeRolesProper
  <2> HIDE DEF merged
  <2>6. /\ out \in Seq(ProperMessage) /\ Len(out) = Len(merged)
        /\ \A j \in 1..Len(merged) : out[j].role = merged[j].role
    BY <2>1, <2>5, DedupeProper
  <2>7. \A j \in 1..(Len(merged) - 1) : j \in 1..Len(merged) /\ j + 1 \in 1..Len(merged)
    BY <2>5
  <2>8. AnsweredOnce(out)
    BY <2>1, <2>5, DedupedOnce
  <2> QED BY <2>5, <2>6, <2>7, <2>8 DEF Differ
<1> QED BY <1>1, <1>2

-----------------------------------------------------------------------------
(* Thoughts.                                                                  *)
Signed(parts) == 0 \notin Ids("thought", parts)

Handling == {"claude", "compatible", "deepseek"}

\* The parts whose thoughts, if any, the provider does not reject.
Fitting(provider) == {b \in Part : provider # "deepseek" => b.kind # "thought" \/ b.id = 1}

LEMMA KeptThoughtsFit ==
  ASSUME NEW role, NEW parts \in Seq(Spoken(role)), Spoken(role) \in SUBSET Part,
         NEW provider \in Handling, NEW kept, kept = KeptThoughts(provider, parts)
  PROVE  kept \in Seq(Spoken(role) \cap Fitting(provider))
<1> DEFINE C == Fitting(provider)
<1>0. /\ DOMAIN parts = 1..Len(parts) /\ Len(parts) \in Nat
      /\ \A p \in 1..Len(parts) : parts[p] \in Spoken(role) /\ parts[p] \in Part
  OBVIOUS
<1>1. CASE provider = "claude"
  <2>1. kept = Where(parts, LAMBDA b : b.kind = "thought" => b.id = 1)
    BY <1>1 DEF KeptThoughts
  <2>2. [j \in DOMAIN parts |-> IF parts[j].kind = "thought" => parts[j].id = 1
                                THEN <<parts[j]>> ELSE <<>>]
          = [j \in DOMAIN parts |-> IF parts[j] \in C THEN <<parts[j]>> ELSE <<>>]
    BY <1>0, <1>1 DEF Fitting
  <2> HIDE DEF C
  <2>3. kept = Sieve(parts, C)
    BY <2>1, <2>2 DEF Where, Sieve
  <2>4. kept \in Seq(Spoken(role)) /\ kept \in Seq(C)
    BY <2>3, SieveFacts
  <2> QED BY <2>4 DEF C
<1>2. CASE provider = "compatible"
  <2>1. kept = [p \in 1..Len(parts) |-> IF parts[p].kind = "thought" THEN ThoughtPart(1) ELSE parts[p]]
    BY <1>0, <1>2 DEF KeptThoughts
  <2>2. ASSUME NEW p \in 1..Len(parts) PROVE kept[p] \in Spoken(role) \cap C
    <3>1. CASE parts[p].kind = "thought"
      <4>1. kept[p] = ThoughtPart(1)
        BY <2>1, <3>1
      <4>2. ThoughtPart(1) \in Spoken(role)
        BY <1>0, <3>1 DEF ThoughtPart, Spoken, Part, Kinds, Blank
      <4>3. ThoughtPart(1) \in C
        BY <1>2 DEF ThoughtPart, Fitting, Part, Kinds, Blank
      <4> QED BY <4>1, <4>2, <4>3
    <3>2. CASE parts[p].kind # "thought"
      BY <1>0, <2>1, <3>2 DEF Fitting
    <3> QED BY <3>1, <3>2
  <2>3. kept = [p \in 1..Len(parts) |-> kept[p]]
    BY <2>1
  <2> HIDE DEF C
  <2> DEFINE T == Spoken(role) \cap C
  <2>4. \A p \in 1..Len(parts) : kept[p] \in T
    BY <2>2
  <2> HIDE DEF T
  <2>5. kept \in Seq(T)
    BY <1>0, <2>3, <2>4, ListOf
  <2> QED BY <2>5 DEF T, C
<1>3. CASE provider = "deepseek"
  <2>1. kept = parts
    BY <1>3 DEF KeptThoughts
  <2>2. Part \subseteq C
    BY <1>3 DEF Fitting
  <2>3. Spoken(role) = Spoken(role) \cap C
    BY <2>2
  <2> QED BY <2>1, <2>3 DEF C
<1> QED BY <1>1, <1>2, <1>3 DEF Handling

LEMMA HandleThoughtsProper ==
  ASSUME NEW m \in ProperMessage, NEW provider \in Handling, NEW thinks, NEW out,
         out = HandleThoughts(provider, m, thinks)
  PROVE  /\ out \in ProperMessage /\ out.role = m.role
         /\ provider # "deepseek" => Signed(out.parts)
         /\ thinks /\ HasPart("call", out.parts) => HasPart("thought", out.parts)
<1> DEFINE C == Fitting(provider)
           kept == KeptThoughts(provider, m.parts)
           first == Placeholder(provider)
<1>0. /\ m \in Message /\ m.parts \in Seq(Spoken(m.role)) /\ m.parts \in Seq(Part)
      /\ Leads(m.parts) /\ Spoken(m.role) \in SUBSET Part
  BY EveryProper
<1>1. CASE m.role # "assistant"
  <2>1. out = m
    BY <1>1 DEF HandleThoughts
  <2>2. \A p \in 1..Len(m.parts) : m.parts[p].kind \in {"text", "result"}
    BY <1>0, <1>1 DEF Spoken
  <2>3. DOMAIN m.parts = 1..Len(m.parts)
    BY <1>0
  <2>4. Signed(m.parts)
    BY <2>2, <2>3 DEF Signed, Ids, ToSet
  <2>5. ~HasPart("call", m.parts)
    BY <2>2, <2>3 DEF HasPart
  <2> QED BY <2>1, <2>4, <2>5
<1>2. CASE m.role = "assistant"
  <2> DEFINE list == IF thinks /\ HasPart("call", kept) /\ ~HasPart("thought", kept)
                     THEN <<first>> \o kept ELSE kept
  <2>1. out = [m EXCEPT !.parts = list]
    BY <1>2 DEF HandleThoughts
  <2>5. kept \in Seq(Spoken(m.role) \cap C)
    BY <1>0, KeptThoughtsFit
  <2>6. first \in Spoken(m.role) \cap C /\ first.kind = "thought"
    BY <1>2 DEF Placeholder, ThoughtPart, Spoken, Part, Kinds, Fitting, Blank
  <2> HIDE DEF kept, C, first
  <2>7. list \in Seq(Spoken(m.role) \cap C)
    <3> DEFINE T == Spoken(m.role) \cap C
    <3>1. kept \in Seq(T) /\ first \in T
      BY <2>5, <2>6
    <3> HIDE DEF T
    <3>2. <<first>> \o kept \in Seq(T)
      BY <3>1
    <3> QED BY <3>1, <3>2 DEF T
  <2>8. thinks /\ HasPart("call", list) => HasPart("thought", list)
    <3> SUFFICES ASSUME thinks, HasPart("call", list) PROVE HasPart("thought", list)
      OBVIOUS
    <3>1. CASE HasPart("call", kept) /\ ~HasPart("thought", kept)
      <4> DEFINE whole == <<first>> \o kept
      <4>1. list = whole
        BY <3>1
      <4>2. 1 \in DOMAIN whole /\ whole[1] = first
        BY <2>5
      <4> HIDE DEF whole
      <4>3. HasPart("thought", whole)
        BY <2>6, <4>2 DEF HasPart
      <4> QED BY <4>1, <4>3
    <3>2. CASE ~(HasPart("call", kept) /\ ~HasPart("thought", kept))
      <4>1. list = kept
        BY <3>2
      <4> QED BY <3>2, <4>1
    <3> QED BY <3>1, <3>2
  <2> HIDE DEF list
  <2>9. \A p \in 1..Len(list) : list[p] \in Spoken(m.role) /\ list[p] \in C
    BY <2>7
  <2>10. list \in Seq(Spoken(m.role)) /\ DOMAIN list = 1..Len(list)
    BY <2>7
  <2>11. Leads(list)
    BY <1>2, <2>9 DEF Leads, Spoken
  <2>12. provider # "deepseek" => Signed(list)
    BY <2>9, <2>10 DEF Signed, Ids, ToSet, C, Fitting
  <2>13. out \in ProperMessage /\ out.role = m.role
    BY <2>1, <2>10, <2>11, WithParts
  <2>14. out.parts = list
    BY <1>0, <2>1 DEF Message
  <2> QED BY <2>8, <2>12, <2>13, <2>14
<1> QED BY <1>1, <1>2

LEMMA PrepareProper ==
  ASSUME NEW messages \in Seq(ProperMessage), NEW system, NEW provider, NEW thinking,
         NEW out, out = PrepareClaudeRequest(Body(system, messages), provider, thinking).messages
  PROVE  /\ out \in Seq(ProperMessage) /\ Differ(out)
         /\ ~HandlesThoughts(provider) /\ Len(out) > 1 => AnsweredOnce(out)
         /\ HandlesThoughts(provider) /\ thinking =>
              \A j \in 1..Len(out) :
                /\ provider # "deepseek" => Signed(out[j].parts)
                /\ HasPart("call", out[j].parts) /\ Last(out).role = "user" => HasPart("thought", out[j].parts)
<1> DEFINE fixed == FixToolUseOrdering(WithContent(messages))
           thinks == thinking /\ fixed # <<>> /\ Last(fixed).role = "user"
<1>1. fixed \in Seq(ProperMessage) /\ Differ(fixed) /\ (Len(fixed) > 1 => AnsweredOnce(fixed))
  BY WithContentProper, OrderingProper
<1>2. out = IF HandlesThoughts(provider)
            THEN [j \in DOMAIN fixed |-> HandleThoughts(provider, fixed[j], thinks)] ELSE fixed
  BY DEF PrepareClaudeRequest, Body
<1> HIDE DEF fixed
<1>3. CASE ~HandlesThoughts(provider)
  BY <1>1, <1>2, <1>3
<1>4. CASE HandlesThoughts(provider)
  <2>0. provider \in Handling
    BY <1>4 DEF HandlesThoughts, Handling
  <2>1. out = [j \in 1..Len(fixed) |-> HandleThoughts(provider, fixed[j], thinks)]
    BY <1>1, <1>2, <1>4
  <2> HIDE DEF thinks
  <2>2. ASSUME NEW j \in 1..Len(fixed)
        PROVE  /\ out[j] \in ProperMessage /\ out[j].role = fixed[j].role
               /\ provider # "deepseek" => Signed(out[j].parts)
               /\ thinks /\ HasPart("call", out[j].parts) => HasPart("thought", out[j].parts)
    <3> DEFINE m == fixed[j]
               o == out[j]
    <3>1. m \in ProperMessage /\ o = HandleThoughts(provider, m, thinks)
      BY <1>1, <2>1
    <3> HIDE DEF m, o
    <3>2. /\ o \in ProperMessage /\ o.role = m.role
          /\ provider # "deepseek" => Signed(o.parts)
          /\ thinks /\ HasPart("call", o.parts) => HasPart("thought", o.parts)
      BY <3>1, <2>0, HandleThoughtsProper
    <3> QED BY <3>2 DEF m, o
  <2>3. out = [j \in 1..Len(fixed) |-> out[j]]
    BY <2>1
  <2>4. out \in Seq(ProperMessage) /\ Len(out) = Len(fixed)
    BY <1>1, <2>2, <2>3, ListOf
  <2>5. Differ(out)
    <3>1. \A j \in 1..(Len(fixed) - 1) : j \in 1..Len(fixed) /\ j + 1 \in 1..Len(fixed)
      BY <1>1
    <3> QED BY <1>1, <2>2, <2>4, <3>1 DEF Differ
  <2>6. ASSUME thinking, NEW j \in 1..Len(out), HasPart("call", out[j].parts), Last(out).role = "user"
        PROVE  HasPart("thought", out[j].parts)
    <3>1. Len(fixed) \in 1..Len(fixed) /\ fixed # <<>>
      BY <1>1, <2>4, <2>6
    <3>2. Last(out).role = Last(fixed).role
      BY <2>2, <2>4, <3>1 DEF Last
    <3>3. thinks
      BY <2>6, <3>1, <3>2 DEF thinks
    <3> QED BY <2>2, <2>4, <2>6, <3>3
  <2> QED BY <1>4, <2>2, <2>4, <2>5, <2>6
<1> QED BY <1>3, <1>4

-----------------------------------------------------------------------------
(* Gemini's contents.                                                         *)
FullMessage == {m \in Message : m.parts # <<>>}

MergePlain(all, m) == Merge(all, m, LAMBDA parts : parts)
PlainMerges == INSTANCE FoldSteps WITH Op <- MergePlain

LEMMA PlainMergesIs ==
  ASSUME NEW base, NEW full \in Seq(FullMessage)
  PROVE  FoldLeft(MergePlain, base, full) = PlainMerges!Result(base, full, Len(full))
<1>1. DOMAIN full = 1..Len(full)
  OBVIOUS
<1> QED
  BY <1>1 DEF FoldLeft, MapThenFoldSet, Max,
              PlainMerges!Result, PlainMerges!FoldOf, PlainMerges!Max

FullOf(contents) == Where(contents, LAMBDA m : m.parts # <<>>)

LEMMA NormalizeIs ==
  ASSUME NEW contents
  PROVE  NormalizeGeminiContents(contents) = FoldLeft(MergePlain, <<>>, FullOf(contents))
BY DEF NormalizeGeminiContents, MergePlain, Merge, FullOf, Where, FoldLeft, MapThenFoldSet

LEMMA MergePlainFull ==
  ASSUME NEW all \in Seq(FullMessage), Differ(all), NEW m \in FullMessage
  PROVE  MergePlain(all, m) \in Seq(FullMessage) /\ Differ(MergePlain(all, m))
<1> DEFINE x == all[Len(all)].parts \o m.parts
<1>1. MergePlain(all, m)
        = IF all # <<>> /\ Last(all).role = m.role THEN Enlarged(all, x) ELSE Append(all, m)
  BY DEF MergePlain, Merge, Enlarged
<1>2. ASSUME all # <<>>, Last(all).role = m.role PROVE [Last(all) EXCEPT !.parts = x] \in FullMessage
  <2> DEFINE l == all[Len(all)]
  <2>1. Last(all) = l /\ l \in FullMessage
    BY <1>2 DEF Last
  <2>2. x = l.parts \o m.parts
    OBVIOUS
  <2> HIDE DEF l, x
  <2>3. l.parts \in Seq(Part) /\ m.parts \in Seq(Part) /\ l.parts # <<>> /\ l \in Message
    BY <2>1 DEF FullMessage, Message
  <2>4. x \in Seq(Part) /\ x # <<>>
    BY <2>2, <2>3
  <2> QED BY <2>1, <2>3, <2>4 DEF FullMessage, Message
<1> HIDE DEF x
<1>3. FullMessage \in SUBSET Message
  BY DEF FullMessage
<1> QED BY <1>1, <1>2, <1>3, MergeStep

LEMMA NormalizeFull ==
  ASSUME NEW contents \in Seq(Message), NEW out, out = NormalizeGeminiContents(contents)
  PROVE  out \in Seq(FullMessage) /\ Differ(out)
<1> DEFINE full == FullOf(contents)
           n == Len(full)
<1>1. full \in Seq(FullMessage)
  <2>1. [j \in DOMAIN contents |-> IF contents[j].parts # <<>> THEN <<contents[j]>> ELSE <<>>]
          = [j \in DOMAIN contents |-> IF contents[j] \in FullMessage THEN <<contents[j]>> ELSE <<>>]
    <3>1. \A j \in DOMAIN contents : contents[j].parts # <<>> <=> contents[j] \in FullMessage
      BY DEF FullMessage
    <3> QED BY <3>1
  <2>2. full = Sieve(contents, FullMessage)
    BY <2>1 DEF FullOf, Where, Sieve
  <2> QED BY <2>2, SieveFacts
<1>2. out = PlainMerges!Result(<<>>, full, n)
  BY <1>1, NormalizeIs, PlainMergesIs
<1> HIDE DEF full
<1>3. n \in Nat /\ \A k \in 1..n : full[k] \in FullMessage
  BY <1>1
<1>4. PICK h : /\ h[0] = <<>>
               /\ \A k \in 1..n : h[k] = MergePlain(h[k - 1], full[k])
               /\ PlainMerges!Result(<<>>, full, n) = h[n]
  BY <1>3, PlainMerges!Steps
<1> DEFINE P(k) == k <= n => h[k] \in Seq(FullMessage) /\ Differ(h[k])
           G == {k \in Nat : P(k)}
<1>5. P(0)
  BY <1>4 DEF Differ
<1>6. ASSUME NEW k \in Nat, P(k) PROVE P(k + 1)
  <2> SUFFICES ASSUME k + 1 <= n PROVE h[k + 1] \in Seq(FullMessage) /\ Differ(h[k + 1])
    OBVIOUS
  <2>1. k <= n /\ k + 1 \in 1..n /\ (k + 1) - 1 = k
    BY <1>3
  <2>2. h[k + 1] = MergePlain(h[k], full[k + 1]) /\ full[k + 1] \in FullMessage
    BY <1>3, <1>4, <2>1
  <2> QED BY <1>6, <2>1, <2>2, MergePlainFull
<1>7. 0 \in G /\ \A k \in Nat : k \in G => k + 1 \in G
  <2> HIDE DEF P
  <2> QED BY <1>5, <1>6
<1> HIDE DEF G
<1>8. n \in G
  BY <1>3, <1>7, Climb
<1> QED BY <1>2, <1>3, <1>4, <1>8 DEF G

-----------------------------------------------------------------------------
(* Claude's messages, collected from OpenAI's.                                *)
Collects == INSTANCE FoldSteps WITH Op <- Collect

\* What may be collected for a message: results are a message of their own.
Uttered(role) == {b \in Spoken(role) : b.kind # "result"}

\* What is being collected.
Collected(s) ==
  /\ s \in [messages : Seq(ProperMessage), role : {"none", "user", "assistant"}, parts : Seq(Part)]
  /\ s.parts # <<>> => s.role # "none"
  /\ s.parts \in Seq(Uttered(s.role))

LEMMA CollectIs ==
  ASSUME NEW base, NEW messages \in Seq(OpenAiMessage)
  PROVE  FoldLeft(Collect, base, messages) = Collects!Result(base, messages, Len(messages))
<1>1. DOMAIN messages = 1..Len(messages)
  OBVIOUS
<1> QED
  BY <1>1 DEF FoldLeft, MapThenFoldSet, Max, Collects!Result, Collects!FoldOf, Collects!Max

LEMMA FlushCollected ==
  ASSUME NEW s, Collected(s), NEW f, f = FlushCurrentMessage(s)
  PROVE  Collected(f) /\ f.parts = <<>> /\ f.role = s.role
<1> DEFINE m == Turn(s.role, s.parts)
           list == Append(s.messages, m)
<1>1. CASE s.parts = <<>>
  BY <1>1 DEF FlushCurrentMessage
<1>2. CASE s.parts # <<>>
  <2>1. m.role = s.role /\ m.parts = s.parts /\ m \in Message
    BY <1>2 DEF Collected, Turn, Message, Roles
  <2>2. s.parts \in Seq(Spoken(s.role))
    BY DEF Collected, Uttered
  <2>3. Leads(s.parts)
    <3>1. \A p \in 1..Len(s.parts) : s.parts[p].kind # "result"
      BY DEF Collected, Uttered
    <3> QED BY <3>1 DEF Leads
  <2>4. m \in ProperMessage
    BY <2>1, <2>2, <2>3 DEF ProperMessage
  <2> HIDE DEF m
  <2>5. list \in Seq(ProperMessage)
    BY <2>4 DEF Collected
  <2>6. f = [s EXCEPT !.messages = list, !.parts = <<>>]
    BY <1>2 DEF FlushCurrentMessage, m
  <2> HIDE DEF list
  <2>8. s \in [messages : Seq(ProperMessage), role : {"none", "user", "assistant"}, parts : Seq(Part)]
    BY DEF Collected
  <2>9. f.parts = <<>> /\ f.role = s.role
    BY <2>6, <2>8
  <2>7. f \in [messages : Seq(ProperMessage), role : {"none", "user", "assistant"}, parts : Seq(Part)]
    <3>1. <<>> \in Seq(Part)
      OBVIOUS
    <3> QED BY <2>5, <2>6, <2>8, <3>1
  <2> QED BY <2>7, <2>9 DEF Collected
<1> QED BY <1>1, <1>2

LEMMA BlocksCollected ==
  ASSUME NEW m \in OpenAiMessage, m.role # "tool"
  PROVE  /\ ClaudeRole(m) \in {"user", "assistant"}
         /\ ContentBlocks(m) \in Seq(Uttered(ClaudeRole(m)))
<1> DEFINE T == Uttered(ClaudeRole(m))
           words == Wordy(m.parts)
           calls == Of("call", m.parts)
<1>1. m \in Message /\ m.parts \in Seq(Part) /\ Part \in SUBSET Part
  BY DEF OpenAiMessage, Message
<1>2. words \in Seq({b \in Part : b.kind = "text"}) /\ calls \in Seq({b \in Part : b.kind = "call"})
  BY <1>1, PartKeepers
<1>3. {b \in Part : b.kind = "text"} \subseteq T
  BY DEF Spoken, Uttered
<1>4. words \in Seq(T)
  BY <1>2, <1>3
<1>5. ClaudeRole(m) \in {"user", "assistant"}
  BY DEF ClaudeRole
<1>6. CASE m.role = "user"
  <2>1. ContentBlocks(m) = words
    BY <1>6 DEF ContentBlocks
  <2> QED BY <1>4, <1>5, <2>1
<1>7. CASE m.role = "assistant"
  <2>1. ContentBlocks(m) = words \o calls
    BY <1>7 DEF ContentBlocks
  <2>2. {b \in Part : b.kind = "call"} \subseteq T
    BY <1>7 DEF Spoken, Uttered, ClaudeRole
  <2>3. calls \in Seq(T)
    BY <1>2, <2>2
  <2> HIDE DEF T, words, calls
  <2>4. ContentBlocks(m) \in Seq(T)
    BY <1>4, <2>1, <2>3
  <2> QED BY <1>5, <2>4 DEF T
<1>8. CASE m.role \notin {"user", "assistant"}
  <2>1. ContentBlocks(m) = <<>>
    BY <1>8 DEF ContentBlocks
  <2> QED BY <1>5, <2>1
<1> QED BY <1>6, <1>7, <1>8

LEMMA CollectedFields ==
  ASSUME NEW s, Collected(s), NEW r \in {"user", "assistant"},
         NEW x \in Seq(Uttered(r)),
         NEW u, u = [messages |-> s.messages, role |-> r, parts |-> x]
  PROVE  Collected(u) /\ u.role = r
<1> DEFINE R == {"none", "user", "assistant"}
           M == Seq(ProperMessage)
           Q == Seq(Part)
<1>1. s \in [messages : M, role : R, parts : Q]
  BY DEF Collected
<1>2. x \in Q /\ r \in R
  BY DEF Spoken, Uttered
<1> HIDE DEF R, M, Q
<1>3. u \in [messages : M, role : R, parts : Q] /\ u.role = r /\ u.parts = x /\ u.messages = s.messages
  BY <1>1, <1>2
<1> QED BY <1>3 DEF Collected, R, M, Q

LEMMA CollectStep ==
  ASSUME NEW s, Collected(s), NEW m \in OpenAiMessage, NEW next, next = Collect(s, m)
  PROVE  Collected(next)
<1> DEFINE r == ClaudeRole(m)
           blocks == ContentBlocks(m)
           f == FlushCurrentMessage(s)
           t == IF s.role # r THEN [f EXCEPT !.role = r] ELSE s
           u == [t EXCEPT !.parts = @ \o blocks]
           T == Uttered(r)
<1>1. next = IF m.role = "tool" THEN [f EXCEPT !.messages = Append(@, Turn("user", m.parts))]
             ELSE IF HasPart("call", blocks) THEN FlushCurrentMessage(u) ELSE u
  BY DEF Collect
<1>2. Collected(f) /\ f.parts = <<>> /\ f.role = s.role
  BY FlushCollected
<1>3. CASE m.role = "tool"
  <2> DEFINE x == Turn("user", m.parts)
             list == Append(f.messages, x)
  <2>1. /\ m.parts \in Seq(Part) /\ \A p \in 1..Len(m.parts) : m.parts[p].kind = "result"
    BY <1>3 DEF OpenAiMessage, Message
  <2>2. \A p \in 1..Len(m.parts) : m.parts[p] \in Spoken("user")
    BY <2>1 DEF Spoken
  <2>3. m.parts \in Seq(Spoken("user"))
    BY <2>1, <2>2
  <2>4. Leads(m.parts)
    BY <2>1 DEF Leads
  <2>5. x \in ProperMessage
    BY <2>1, <2>3, <2>4 DEF ProperMessage, Message, Turn, Roles
  <2> HIDE DEF x
  <2>6. next = [f EXCEPT !.messages = list]
    BY <1>1, <1>3 DEF x
  <2> HIDE DEF f
  <2>7. list \in Seq(ProperMessage)
    BY <1>2, <2>5 DEF Collected
  <2> HIDE DEF list
  <2> DEFINE M == Seq(ProperMessage)
             R == {"none", "user", "assistant"}
             Q == Seq(Part)
  <2>8. f \in [messages : M, role : R, parts : Q]
    BY <1>2 DEF Collected
  <2>9. /\ next \in [messages : M, role : R, parts : Q]
        /\ next.role = f.role /\ next.parts = f.parts
    <3> HIDE DEF M, R, Q
    <3>1. list \in M
      BY <2>7 DEF M
    <3> QED BY <2>6, <2>8, <3>1
  <2> QED BY <1>2, <2>9 DEF Collected
<1>4. CASE m.role # "tool"
  <2>1. r \in {"user", "assistant"} /\ blocks \in Seq(T)
    BY <1>4, BlocksCollected
  <2> HIDE DEF r, blocks
  <2>2. Collected(t) /\ t.role = r
    <3>1. CASE s.role = r
      BY <3>1
    <3>2. CASE s.role # r
      <4>1. t = [f EXCEPT !.role = r]
        BY <3>2
      <4> HIDE DEF f
      <4> DEFINE none == <<>>
      <4>2. t = [messages |-> f.messages, role |-> r, parts |-> none]
        BY <1>2, <4>1 DEF Collected
      <4>3. none \in Seq(Uttered(r))
        OBVIOUS
      <4>4. Collected(f)
        BY <1>2
      <4> HIDE DEF t, f, T, u, none
      <4> QED BY <2>1, <4>2, <4>3, <4>4, CollectedFields
    <3> QED BY <3>1, <3>2
  <2> HIDE DEF t
  <2>3. t.parts \in Seq(T)
    BY <2>2 DEF Collected
  <2> DEFINE x == t.parts \o blocks
             M == Seq(ProperMessage)
             R == {"none", "user", "assistant"}
             Q == Seq(Part)
  <2>8. t \in [messages : M, role : R, parts : Q]
    BY <2>2 DEF Collected
  <2>4. x \in Seq(T)
    <3> HIDE DEF T
    <3> QED BY <2>1, <2>3
  <2>5. u = [messages |-> t.messages, role |-> r, parts |-> x]
    <3> HIDE DEF M, R, Q
    <3> QED BY <2>2, <2>8
  <2> HIDE DEF x, u
  <2>6. Collected(u)
    BY <2>1, <2>2, <2>4, <2>5, CollectedFields
  <2>7. Collected(FlushCurrentMessage(u))
    BY <2>6, FlushCollected
  <2> QED BY <1>1, <1>4, <2>6, <2>7
<1> QED BY <1>3, <1>4

LEMMA DialogueOf ==
  ASSUME NEW T \in SUBSET Message, NEW messages \in Seq(T), NEW roles
  PROVE  Dialogue(messages, roles) \in Seq(T)
<1> DEFINE C == {m \in T : m.role \notin roles}
<1>1. [j \in DOMAIN messages |-> IF messages[j].role \notin roles THEN <<messages[j]>> ELSE <<>>]
        = [j \in DOMAIN messages |-> IF messages[j] \in C THEN <<messages[j]>> ELSE <<>>]
  OBVIOUS
<1> HIDE DEF C
<1>2. Dialogue(messages, roles) = Sieve(messages, C)
  BY <1>1 DEF Dialogue, Where, Sieve
<1> QED BY <1>2, SieveFacts

LEMMA OpenAiToClaudeProper ==
  ASSUME NEW messages \in Seq(OpenAiMessage), NEW out, out = OpenAiToClaudeRequest(messages)
  PROVE  out.messages \in Seq(ProperMessage) /\ out = Body(out.system, out.messages)
<1> DEFINE d == Dialogue(messages, {"system"})
           n == Len(d)
           base == [messages |-> <<>>, role |-> "none", parts |-> <<>>]
           end == FoldLeft(Collect, base, d)
<1>1. d \in Seq(OpenAiMessage)
  <2>1. OpenAiMessage \in SUBSET Message
    BY DEF OpenAiMessage
  <2> QED BY <2>1, DialogueOf
<1> HIDE DEF d, base
<1>2. n \in Nat /\ \A k \in 1..n : d[k] \in OpenAiMessage
  BY <1>1
<1>3. PICK h : /\ h[0] = base
               /\ \A k \in 1..n : h[k] = Collect(h[k - 1], d[k])
               /\ Collects!Result(base, d, n) = h[n]
  BY <1>2, Collects!Steps
<1>4. end = h[n]
  BY <1>1, <1>3, CollectIs
<1> DEFINE P(k) == k <= n => Collected(h[k])
           G == {k \in Nat : P(k)}
<1>5. P(0)
  <2>1. Collected(base)
    BY DEF Collected, base
  <2> QED BY <1>3, <2>1
<1>6. ASSUME NEW k \in Nat, P(k) PROVE P(k + 1)
  <2> SUFFICES ASSUME k + 1 <= n PROVE Collected(h[k + 1])
    OBVIOUS
  <2>1. k <= n /\ k + 1 \in 1..n /\ (k + 1) - 1 = k
    BY <1>2
  <2>2. h[k + 1] = Collect(h[k], d[k + 1]) /\ d[k + 1] \in OpenAiMessage
    BY <1>2, <1>3, <2>1
  <2> QED BY <1>6, <2>1, <2>2, CollectStep
<1>7. 0 \in G /\ \A k \in Nat : k \in G => k + 1 \in G
  <2> HIDE DEF P
  <2> QED BY <1>5, <1>6
<1> HIDE DEF G
<1>8. n \in G
  BY <1>2, <1>7, Climb
<1>9. Collected(end)
  BY <1>2, <1>4, <1>8 DEF G
<1>10. out = Body(Instructions(messages, {"system"}), FlushCurrentMessage(end).messages)
  BY DEF OpenAiToClaudeRequest, d, base
<1> HIDE DEF end
<1>11. FlushCurrentMessage(end).messages \in Seq(ProperMessage)
  BY <1>9, FlushCollected DEF Collected
<1> QED BY <1>10, <1>11 DEF Body

-----------------------------------------------------------------------------
(* OpenAI's messages, from every client's.                                    *)

\* What a client of any format may send, and the router after it.
EitherMessage == ProperMessage \cap OpenAiMessage

LEMMA FlattenedTo ==
  ASSUME NEW T, NEW n \in Nat, NEW seqs, seqs = [j \in 1..n |-> seqs[j]],
         \A j \in 1..n : seqs[j] \in Seq(T)
  PROVE  FlattenSeq(seqs) \in Seq(T)
<1>1. seqs \in Seq(Seq(T))
  BY ListOf
<1> QED BY <1>1, FlattenFrom

LEMMA ToolMessageFits ==
  ASSUME NEW i \in Int, NEW w \in Int
  PROVE  ToolMessage(i, w) \in EitherMessage
<1> DEFINE m == ToolMessage(i, w)
<1>1. ResultPart(i, w) \in Part /\ ResultPart(i, w).kind = "result"
  BY DEF ResultPart, Part, Kinds
<1> DEFINE b == ResultPart(i, w)
<1>2. m = [role |-> "tool", parts |-> <<b>>]
  BY DEF ToolMessage, Turn
<1> HIDE DEF b
<1>3. b \in Part /\ b.kind = "result" /\ b \in Spoken("tool")
  BY <1>1 DEF b, Spoken
<1> HIDE DEF m
<1>4. m \in Message /\ m.role = "tool" /\ m.parts = <<b>>
  BY <1>2, <1>3 DEF Message, Roles
<1>5. <<b>> \in Seq(Spoken("tool")) /\ \A p \in 1..Len(<<b>>) : <<b>>[p].kind = "result"
  BY <1>3
<1>6. Len(<<b>>) > 0
  OBVIOUS
<1>7. m \in ProperMessage
  BY <1>4, <1>5 DEF ProperMessage, Leads
<1>8. m \in OpenAiMessage
  BY <1>4, <1>5, <1>6 DEF OpenAiMessage
<1> QED BY <1>7, <1>8 DEF m, EitherMessage

LEMMA EveryEither ==
  ASSUME NEW m \in EitherMessage
  PROVE  m \in ProperMessage /\ m \in OpenAiMessage /\ m \in Message
         /\ m.parts \in Seq(Part) /\ m.role \in Roles
BY DEF EitherMessage, OpenAiMessage, Message

LEMMA TurnsAreMessages ==
  ASSUME NEW role \in Roles \ {"tool"}, NEW parts \in Seq(Part)
  PROVE  Turn(role, parts) \in OpenAiMessage
BY DEF Turn, OpenAiMessage, Message

\* Answers put in for calls.
LEMMA Answered ==
  ASSUME NEW calls \in Seq(Part), NEW w \in Int
  PROVE  [c \in DOMAIN calls |-> ToolMessage(calls[c].id, w)] \in Seq(EitherMessage)
<1> DEFINE out == [c \in DOMAIN calls |-> ToolMessage(calls[c].id, w)]
<1>1. DOMAIN calls = 1..Len(calls) /\ Len(calls) \in Nat
  OBVIOUS
<1>2. out = [c \in 1..Len(calls) |-> out[c]]
  BY <1>1
<1>3. ASSUME NEW c \in 1..Len(calls) PROVE out[c] \in EitherMessage
  <2>1. calls[c].id \in Int
    <3>1. calls[c] \in Part
      OBVIOUS
    <3> QED BY <3>1 DEF Part
  <2> QED BY <1>1, <2>1, ToolMessageFits
<1> HIDE DEF out
<1>4. out \in Seq(EitherMessage)
  BY <1>1, <1>2, <1>3, ListOf
<1> QED BY <1>4 DEF out

LEMMA FixMissingEither ==
  ASSUME NEW messages \in Seq(EitherMessage)
  PROVE  FixMissingToolResponses(messages) \in Seq(EitherMessage)
<1> DEFINE asked(j) == Of("call", messages[j].parts)
           put(j) == [c \in DOMAIN asked(j) |-> ToolMessage(asked(j)[c].id, Blank)]
           seqs == [j \in DOMAIN messages |->
                      IF ~Unanswered(messages, j) THEN <<messages[j]>> ELSE <<messages[j]>> \o put(j)]
           n == Len(messages)
<1>1. FixMissingToolResponses(messages) = FlattenSeq(seqs)
  BY DEF FixMissingToolResponses
<1>2. ASSUME NEW j \in 1..n PROVE seqs[j] \in Seq(EitherMessage)
  <2>1. messages[j] \in EitherMessage /\ messages[j].parts \in Seq(Part) /\ Part \in SUBSET Part
    BY EveryEither
  <2>2. asked(j) \in Seq({b \in Part : b.kind = "call"})
    BY <2>1, PartKeepers
  <2>3. asked(j) \in Seq(Part)
    BY <2>2
  <2>4. Blank \in Int
    BY DEF Blank
  <2> HIDE DEF asked
  <2>5. put(j) \in Seq(EitherMessage)
    BY <2>3, <2>4, Answered
  <2> HIDE DEF put
  <2>6. <<messages[j]>> \in Seq(EitherMessage) /\ <<messages[j]>> \o put(j) \in Seq(EitherMessage)
    BY <2>1, <2>5
  <2> QED BY <2>6
<1>3. n \in Nat /\ seqs = [j \in 1..n |-> seqs[j]]
  OBVIOUS
<1> HIDE DEF seqs, n
<1> QED BY <1>1, <1>2, <1>3, FlattenedTo

LEMMA MaxMember ==
  ASSUME NEW n \in Nat, NEW S \in SUBSET (0..n), S # {}
  PROVE  Max(S) \in S
<1> DEFINE D == {d \in Nat : n - d \in S}
<1>1. PICK x \in S : TRUE
  OBVIOUS
<1>2. n - x \in D
  BY <1>1
<1>3. PICK m \in D : \A k \in D : m <= k
  <2>1. D \in SUBSET Nat /\ D # {}
    BY <1>2
  <2> HIDE DEF D
  <2> QED BY <2>1, Joins!LeastNatural
<1>4. n - m \in S
  BY <1>3
<1>5. \A y \in S : n - m >= y
  <2> TAKE y \in S
  <2>1. n - y \in Nat /\ n - (n - y) = y
    OBVIOUS
  <2>2. n - y \in D
    BY <2>1
  <2> QED BY <1>3, <2>1, <2>2
<1> QED BY <1>4, <1>5 DEF Max

LEMMA MissingParts ==
  ASSUME NEW messages \in Seq(OpenAiMessage), NEW j \in 1..Len(messages)
  PROVE  MissingAfter(messages, j) \in Seq(Part)
<1> DEFINE S == {0} \cup {k \in 1..j : messages[k].role # "tool"}
           asker == Max(S)
           run == SubSeq(messages, asker + 1, j)
           calls == Of("call", messages[asker].parts)
           left == Where(calls, LAMBDA c : \A k \in DOMAIN run : run[k].parts[1].id # c.id)
           C == {c \in Part : \A k \in DOMAIN run : run[k].parts[1].id # c.id}
<1>1. MissingAfter(messages, j)
        = IF asker = 0 \/ messages[asker].role # "assistant"
             \/ (j < Len(messages) /\ messages[j + 1].role = "tool")
          THEN <<>> ELSE left
  BY DEF MissingAfter
<1>2. asker \in 0..j
  <2>1. j \in Nat /\ S \in SUBSET (0..j) /\ S # {}
    OBVIOUS
  <2> HIDE DEF S
  <2> QED BY <2>1, MaxMember
<1> HIDE DEF asker
<1>3. CASE asker = 0
  BY <1>1, <1>3
<1>4. CASE asker # 0
  <2>1. asker \in 1..Len(messages)
    BY <1>2, <1>4
  <2>2. messages[asker].parts \in Seq(Part) /\ Part \in SUBSET Part
    BY <2>1 DEF OpenAiMessage, Message
  <2>3. calls \in Seq({b \in Part : b.kind = "call"})
    BY <2>2, PartKeepers
  <2>4. calls \in Seq(Part)
    BY <2>3
  <2> HIDE DEF calls, run
  <2>5. [i \in DOMAIN calls |-> IF \A k \in DOMAIN run : run[k].parts[1].id # calls[i].id
                                THEN <<calls[i]>> ELSE <<>>]
          = [i \in DOMAIN calls |-> IF calls[i] \in C THEN <<calls[i]>> ELSE <<>>]
    <3>1. \A i \in DOMAIN calls : calls[i] \in Part
      BY <2>4
    <3> QED BY <3>1
  <2> HIDE DEF C
  <2>6. left = Sieve(calls, C)
    BY <2>5 DEF Where, Sieve
  <2> HIDE DEF left
  <2>7. left \in Seq(Part)
    BY <2>4, <2>6, SieveFacts
  <2> QED BY <1>1, <2>7
<1> QED BY <1>3, <1>4

LEMMA FixMissingOpenAi ==
  ASSUME NEW messages \in Seq(OpenAiMessage)
  PROVE  FixMissingToolResponsesOpenAI(messages) \in Seq(OpenAiMessage)
<1> DEFINE missing(j) == MissingAfter(messages, j)
           put(j) == [c \in DOMAIN missing(j) |-> ToolMessage(missing(j)[c].id, MadeUp)]
           seqs == [j \in DOMAIN messages |-> <<messages[j]>> \o put(j)]
           n == Len(messages)
<1>1. FixMissingToolResponsesOpenAI(messages) = FlattenSeq(seqs)
  BY DEF FixMissingToolResponsesOpenAI
<1>2. ASSUME NEW j \in 1..n PROVE seqs[j] \in Seq(OpenAiMessage)
  <2>1. missing(j) \in Seq(Part)
    BY MissingParts
  <2>2. MadeUp \in Int
    BY DEF MadeUp
  <2> HIDE DEF missing
  <2>3. put(j) \in Seq(EitherMessage)
    BY <2>1, <2>2, Answered
  <2> HIDE DEF put
  <2>4. put(j) \in Seq(OpenAiMessage)
    BY <2>3 DEF EitherMessage
  <2> QED BY <2>4
<1>3. n \in Nat /\ seqs = [j \in 1..n |-> seqs[j]]
  OBVIOUS
<1> HIDE DEF seqs, n
<1> QED BY <1>1, <1>2, <1>3, FlattenedTo

LEMMA PartsOf ==
  ASSUME NEW parts \in Seq(Part)
  PROVE  /\ \A kind \in Kinds : Of(kind, parts) \in Seq(Part)
         /\ Wordy(parts) \in Seq(Part)
         /\ \A kind \in Kinds : HasPart(kind, parts) => Len(Of(kind, parts)) > 0
<1>1. Part \in SUBSET Part
  OBVIOUS
<1>2. ASSUME NEW kind \in Kinds
      PROVE  Of(kind, parts) \in Seq(Part) /\ (HasPart(kind, parts) => Len(Of(kind, parts)) > 0)
  <2>1. /\ Of(kind, parts) \in Seq({b \in Part : b.kind = kind})
        /\ HasPart(kind, parts) => Len(Of(kind, parts)) > 0
    BY <1>1, PartKeepers
  <2> QED BY <2>1
<1>3. Wordy(parts) \in Seq(Part)
  <2>1. Wordy(parts) \in Seq({b \in Part : b.kind = "text"})
    BY <1>1, PartKeepers
  <2> QED BY <2>1
<1> QED BY <1>2, <1>3

LEMMA InstructedIs ==
  ASSUME NEW system \in Int
  PROVE  Instructed(system) \in Seq(OpenAiMessage)
<1>1. <<TextPart(system)>> \in Seq(Part)
  BY DEF TextPart, Part, Kinds
<1>2. Turn("system", <<TextPart(system)>>) \in OpenAiMessage
  BY <1>1, TurnsAreMessages DEF Roles
<1> QED BY <1>2 DEF Instructed

LEMMA ToolMessagesAre ==
  ASSUME NEW parts \in Seq(Part)
  PROVE  ToolMessages(parts) \in Seq(OpenAiMessage)
<1> DEFINE results == Of("result", parts)
           out == ToolMessages(parts)
<1>1. results \in Seq(Part)
  BY PartsOf DEF Kinds
<1>2. out = [r \in DOMAIN results |-> ToolMessage(results[r].id, results[r].word)]
  BY DEF ToolMessages
<1> HIDE DEF results, out
<1>3. \A r \in 1..Len(results) : results[r] \in Part
  BY <1>1
<1>4. \A r \in 1..Len(results) : results[r].id \in Int /\ results[r].word \in Int
  BY <1>3 DEF Part
<1>5. \A r \in 1..Len(results) : ToolMessage(results[r].id, results[r].word) \in OpenAiMessage
  BY <1>4, ToolMessageFits DEF EitherMessage
<1>6. out = [r \in 1..Len(results) |-> out[r]] /\ \A r \in 1..Len(results) : out[r] \in OpenAiMessage
  BY <1>1, <1>2, <1>5
<1>7. out \in Seq(OpenAiMessage)
  BY <1>1, <1>6, ListOf
<1> QED BY <1>7 DEF out

LEMMA UserAfterIs ==
  ASSUME NEW parts \in Seq(Part)
  PROVE  UserAfter(parts) \in Seq(OpenAiMessage)
<1>1. Turn("user", parts) \in OpenAiMessage
  BY TurnsAreMessages DEF Roles
<1> QED BY <1>1 DEF UserAfter

LEMMA ClaudeMessageConverted ==
  ASSUME NEW m \in EitherMessage
  PROVE  ConvertClaudeMessage(m) \in Seq(OpenAiMessage)
<1> DEFINE words == Of("text", m.parts)
           calls == Of("call", m.parts)
           said == Wordy(m.parts)
<1>1. m.parts \in Seq(Part) /\ m.role \in Roles
  BY EveryEither
<1>2. words \in Seq(Part) /\ calls \in Seq(Part) /\ said \in Seq(Part)
  BY <1>1, PartsOf DEF Kinds
<1>3. CASE m.role = "system"
  <2>1. ConvertClaudeMessage(m) = UserAfter(said)
    BY <1>3 DEF ConvertClaudeMessage
  <2> QED BY <1>2, <2>1, UserAfterIs
<1>4. CASE m.role = "tool"
  <2>1. ConvertClaudeMessage(m) = <<Turn("user", <<TextPart(Blank)>>)>>
    BY <1>4 DEF ConvertClaudeMessage
  <2>2. <<TextPart(Blank)>> \in Seq(Part)
    BY DEF TextPart, Part, Kinds, Blank
  <2>3. Turn("user", <<TextPart(Blank)>>) \in OpenAiMessage
    BY <2>2, TurnsAreMessages DEF Roles
  <2> QED BY <2>1, <2>3
<1>5. CASE m.role \notin {"system", "tool"} /\ HasPart("result", m.parts)
  <2>1. ConvertClaudeMessage(m) = ToolMessages(m.parts) \o UserAfter(words)
    BY <1>5 DEF ConvertClaudeMessage, ResultsAndWords
  <2> HIDE DEF words
  <2>2. ToolMessages(m.parts) \in Seq(OpenAiMessage) /\ UserAfter(words) \in Seq(OpenAiMessage)
    BY <1>1, <1>2, ToolMessagesAre, UserAfterIs
  <2> QED BY <2>1, <2>2
<1>6. CASE m.role \notin {"system", "tool"} /\ ~HasPart("result", m.parts)
  <2>1. ConvertClaudeMessage(m) = IF calls # <<>> THEN <<Turn("assistant", words \o calls)>>
                                  ELSE IF words # <<>> THEN <<Turn(m.role, words)>>
                                  ELSE <<>>
    BY <1>6 DEF ConvertClaudeMessage
  <2> HIDE DEF words, calls
  <2>2. words \o calls \in Seq(Part)
    BY <1>2
  <2>3. Turn("assistant", words \o calls) \in OpenAiMessage
    BY <2>2, TurnsAreMessages DEF Roles
  <2>4. Turn(m.role, words) \in OpenAiMessage
    BY <1>1, <1>2, <1>6, TurnsAreMessages
  <2> QED BY <2>1, <2>3, <2>4
<1> QED BY <1>3, <1>4, <1>5, <1>6

LEMMA AsJsonIs ==
  ASSUME NEW r \in Part
  PROVE  AsJson(r) \in OpenAiMessage
<1>1. r.id \in Int /\ (IF r.word = Blank THEN MadeUp ELSE r.word) \in Int
  BY DEF Part, MadeUp
<1> QED BY <1>1, ToolMessageFits DEF AsJson, EitherMessage

LEMMA GeminiContentConverted ==
  ASSUME NEW m \in EitherMessage, m.role # "tool"
  PROVE  ConvertGeminiContent(m) \in Seq(OpenAiMessage)
<1> DEFINE words == Of("text", m.parts)
           calls == Of("call", m.parts)
           results == Of("result", m.parts)
<1>1. m.parts \in Seq(Part) /\ m.role \in Roles \ {"tool"}
  BY EveryEither
<1>2. /\ words \in Seq(Part) /\ calls \in Seq(Part) /\ results \in Seq(Part)
      /\ HasPart("result", m.parts) => Len(results) > 0
  BY <1>1, PartsOf DEF Kinds
<1>3. ConvertGeminiContent(m) =
        IF HasPart("result", m.parts) THEN <<AsJson(results[1])>>
        ELSE IF calls # <<>> THEN <<Turn("assistant", words \o calls)>>
        ELSE IF words # <<>> THEN <<Turn(m.role, words)>>
        ELSE <<>>
  BY DEF ConvertGeminiContent
<1> HIDE DEF words, calls, results
<1>4. HasPart("result", m.parts) => results[1] \in Part
  BY <1>2
<1>5. HasPart("result", m.parts) => AsJson(results[1]) \in OpenAiMessage
  BY <1>4, AsJsonIs
<1>6. words \o calls \in Seq(Part)
  BY <1>2
<1>7. Turn("assistant", words \o calls) \in OpenAiMessage
  BY <1>6, TurnsAreMessages DEF Roles
<1>8. Turn(m.role, words) \in OpenAiMessage
  BY <1>1, <1>2, TurnsAreMessages
<1> QED BY <1>3, <1>5, <1>7, <1>8

LEMMA ContentConverted ==
  ASSUME NEW m \in EitherMessage, m.role # "tool"
  PROVE  ConvertContent(m) \in Seq(OpenAiMessage)
<1> DEFINE thoughts == Of("thought", m.parts)
           said == Wordy(m.parts)
           calls == Of("call", m.parts)
           results == Of("result", m.parts)
           rest == thoughts \o said \o calls
           role == IF results # <<>> \/ HasPart("call", m.parts) THEN "assistant" ELSE m.role
           out == [r \in DOMAIN results |-> AsJson(results[r])]
           after == IF rest = <<>> THEN <<>> ELSE <<Turn(role, rest)>>
<1>1. m.parts \in Seq(Part) /\ m.role \in Roles \ {"tool"}
  BY EveryEither
<1>2. /\ thoughts \in Seq(Part) /\ said \in Seq(Part)
      /\ calls \in Seq(Part) /\ results \in Seq(Part)
  BY <1>1, PartsOf DEF Kinds
<1>3. ConvertContent(m) = out \o after
  BY DEF ConvertContent
<1>4. role \in Roles \ {"tool"}
  BY <1>1 DEF Roles
<1> HIDE DEF thoughts, said, calls, results
<1>5. rest \in Seq(Part)
  BY <1>2
<1> HIDE DEF role, rest
<1>6. after \in Seq(OpenAiMessage)
  <2>1. Turn(role, rest) \in OpenAiMessage
    BY <1>4, <1>5, TurnsAreMessages
  <2> QED BY <2>1
<1>7. out \in Seq(OpenAiMessage)
  <2>1. \A r \in 1..Len(results) : results[r] \in Part
    BY <1>2
  <2>2. \A r \in 1..Len(results) : AsJson(results[r]) \in OpenAiMessage
    BY <2>1, AsJsonIs
  <2>3. out = [r \in 1..Len(results) |-> out[r]] /\ \A r \in 1..Len(results) : out[r] \in OpenAiMessage
    BY <1>2, <2>2
  <2> HIDE DEF out
  <2> QED BY <1>2, <2>3, ListOf
<1> HIDE DEF out, after
<1> QED BY <1>3, <1>6, <1>7

LEMMA ClaudeConverted ==
  ASSUME NEW b, b.system \in Int, b.messages \in Seq(EitherMessage)
  PROVE  ClaudeToOpenAiRequest(b) \in Seq(OpenAiMessage)
<1> DEFINE ms == b.messages
           n == Len(ms)
           seqs == [j \in DOMAIN ms |-> ConvertClaudeMessage(ms[j])]
           ins == Instructed(b.system)
           flat == FlattenSeq(seqs)
<1>1. ClaudeToOpenAiRequest(b) = FixMissingToolResponsesOpenAI(ins \o flat)
  BY DEF ClaudeToOpenAiRequest, FlatMap
<1>2. n \in Nat /\ seqs = [j \in 1..n |-> seqs[j]]
  OBVIOUS
<1>3. \A j \in 1..n : seqs[j] \in Seq(OpenAiMessage)
  <2>1. \A j \in 1..n : ms[j] \in EitherMessage
    OBVIOUS
  <2> QED BY <2>1, ClaudeMessageConverted
<1>4. ins \in Seq(OpenAiMessage)
  BY InstructedIs
<1> HIDE DEF seqs, n, ins
<1>5. flat \in Seq(OpenAiMessage)
  BY <1>2, <1>3, FlattenedTo
<1> HIDE DEF flat
<1>6. ins \o flat \in Seq(OpenAiMessage)
  BY <1>4, <1>5
<1> QED BY <1>1, <1>6, FixMissingOpenAi

LEMMA GeminiConverted ==
  ASSUME NEW b, b.system \in Int, b.messages \in Seq(EitherMessage),
         \A j \in 1..Len(b.messages) : b.messages[j].role # "tool"
  PROVE  GeminiToOpenAiRequest(b) \in Seq(OpenAiMessage)
<1> DEFINE ms == b.messages
           n == Len(ms)
           seqs == [j \in DOMAIN ms |-> ConvertGeminiContent(ms[j])]
           ins == Instructed(b.system)
           flat == FlattenSeq(seqs)
<1>1. GeminiToOpenAiRequest(b) = ins \o flat
  BY DEF GeminiToOpenAiRequest, FlatMap
<1>2. n \in Nat /\ seqs = [j \in 1..n |-> seqs[j]]
  OBVIOUS
<1>3. \A j \in 1..n : seqs[j] \in Seq(OpenAiMessage)
  <2>1. \A j \in 1..n : ms[j] \in EitherMessage
    OBVIOUS
  <2> QED BY <2>1, GeminiContentConverted
<1>4. ins \in Seq(OpenAiMessage)
  BY InstructedIs
<1> HIDE DEF seqs, n, ins
<1>5. flat \in Seq(OpenAiMessage)
  BY <1>2, <1>3, FlattenedTo
<1> HIDE DEF flat
<1> QED BY <1>1, <1>4, <1>5

LEMMA AntigravityConverted ==
  ASSUME NEW b, b.system \in Int, b.messages \in Seq(EitherMessage),
         \A j \in 1..Len(b.messages) : b.messages[j].role # "tool"
  PROVE  AntigravityToOpenAiRequest(b) \in Seq(OpenAiMessage)
<1> DEFINE ms == b.messages
           n == Len(ms)
           seqs == [j \in DOMAIN ms |-> ConvertContent(ms[j])]
           ins == Instructed(b.system)
           flat == FlattenSeq(seqs)
<1>1. AntigravityToOpenAiRequest(b) = ins \o flat
  BY DEF AntigravityToOpenAiRequest, FlatMap
<1>2. n \in Nat /\ seqs = [j \in 1..n |-> seqs[j]]
  OBVIOUS
<1>3. \A j \in 1..n : seqs[j] \in Seq(OpenAiMessage)
  <2>1. \A j \in 1..n : ms[j] \in EitherMessage
    OBVIOUS
  <2> QED BY <2>1, ContentConverted
<1>4. ins \in Seq(OpenAiMessage)
  BY InstructedIs
<1> HIDE DEF seqs, n, ins
<1>5. flat \in Seq(OpenAiMessage)
  BY <1>2, <1>3, FlattenedTo
<1> HIDE DEF flat
<1> QED BY <1>1, <1>4, <1>5

-----------------------------------------------------------------------------
(* Responses items.                                                           *)
Items == INSTANCE FoldSteps WITH Op <- ResponsesItem

AssistantMessage == {m \in Message : m.role = "assistant"}
ItemMessage == {m \in EitherMessage : m.parts # <<>>}

\* What is known of the items so far.
Gathered == [messages : Seq(OpenAiMessage), calls : Seq(AssistantMessage), thought : Seq(Part)]

LEMMA ItemsIs ==
  ASSUME NEW base, NEW items \in Seq(ItemMessage)
  PROVE  FoldLeft(ResponsesItem, base, items) = Items!Result(base, items, Len(items))
<1>1. DOMAIN items = 1..Len(items)
  OBVIOUS
<1> QED
  BY <1>1 DEF FoldLeft, MapThenFoldSet, Max, Items!Result, Items!FoldOf, Items!Max

LEMMA FlushGathered ==
  ASSUME NEW s \in Gathered, NEW t, t = FlushCalls(s)
  PROVE  t \in Gathered /\ t.thought = s.thought
<1> DEFINE M == Seq(OpenAiMessage)
           A == Seq(AssistantMessage)
           Q == Seq(Part)
           x == s.messages \o s.calls
<1>1. s \in [messages : M, calls : A, thought : Q]
  BY DEF Gathered
<1>2. x \in M
  <2>1. Seq(AssistantMessage) \subseteq Seq(OpenAiMessage)
    BY DEF AssistantMessage, OpenAiMessage
  <2>2. s.messages \in Seq(OpenAiMessage) /\ s.calls \in Seq(OpenAiMessage)
    BY <1>1, <2>1
  <2> QED BY <2>2
<1>3. <<>> \in A
  OBVIOUS
<1> DEFINE r == [s EXCEPT !.messages = x]
<1>4. t = [r EXCEPT !.calls = <<>>]
  BY DEF FlushCalls
<1> HIDE DEF x, M, A, Q
<1>5. r \in [messages : M, calls : A, thought : Q] /\ r.thought = s.thought
  BY <1>1, <1>2
<1> HIDE DEF r
<1>6. t \in [messages : M, calls : A, thought : Q] /\ t.thought = s.thought
  BY <1>3, <1>4, <1>5
<1> QED BY <1>6 DEF Gathered, M, A, Q

\* The state after a message.
LEMMA GatheredMessage ==
  ASSUME NEW t \in Gathered, NEW m \in OpenAiMessage
  PROVE  [t EXCEPT !.messages = Append(@, m)] \in Gathered
<1> DEFINE M == Seq(OpenAiMessage)
           A == Seq(AssistantMessage)
           Q == Seq(Part)
           x == Append(t.messages, m)
<1>1. t \in [messages : M, calls : A, thought : Q]
  BY DEF Gathered
<1>2. x \in M
  BY <1>1
<1> HIDE DEF x, M, A, Q
<1>3. [t EXCEPT !.messages = x] \in [messages : M, calls : A, thought : Q]
  BY <1>1, <1>2
<1> QED BY <1>3 DEF Gathered, M, A, Q, x

LEMMA GatheredFields ==
  ASSUME NEW t \in Gathered, NEW calls \in Seq(AssistantMessage), NEW thought \in Seq(Part)
  PROVE  /\ [t EXCEPT !.calls = calls] \in Gathered
         /\ [t EXCEPT !.thought = thought] \in Gathered
         /\ [t EXCEPT !.calls = calls, !.thought = thought] \in Gathered
<1> DEFINE M == Seq(OpenAiMessage)
           A == Seq(AssistantMessage)
           Q == Seq(Part)
<1>1. t \in [messages : M, calls : A, thought : Q] /\ calls \in A /\ thought \in Q
  BY DEF Gathered
<1> HIDE DEF M, A, Q
<1>2. [t EXCEPT !.calls = calls] \in [messages : M, calls : A, thought : Q]
  BY <1>1
<1>3. [t EXCEPT !.thought = thought] \in [messages : M, calls : A, thought : Q]
  BY <1>1
<1> DEFINE u == [t EXCEPT !.calls = calls]
<1>4. [u EXCEPT !.thought = thought] \in [messages : M, calls : A, thought : Q]
  <2> HIDE DEF u
  <2>1. u \in [messages : M, calls : A, thought : Q]
    BY <1>2 DEF u
  <2> QED BY <1>1, <2>1
<1> QED BY <1>2, <1>3, <1>4 DEF Gathered, M, A, Q

LEMMA ItemStep ==
  ASSUME NEW s \in Gathered, NEW item \in ItemMessage, NEW next, next = ResponsesItem(s, item)
  PROVE  next \in Gathered
<1> DEFINE ps == item.parts
           has(kind) == HasPart(kind, ps)
           t == FlushCalls(s)
<1>1. /\ item \in EitherMessage /\ item \in OpenAiMessage /\ item \in Message
      /\ ps \in Seq(Part) /\ ps # <<>> /\ item.role \in Roles
  BY EveryEither DEF ItemMessage
<1>2. /\ s.messages \in Seq(OpenAiMessage) /\ s.calls \in Seq(AssistantMessage)
      /\ s.thought \in Seq(Part)
  BY DEF Gathered
<1>3. t \in Gathered
  BY FlushGathered
<1>4. has("thought") \/ has("result") \/ has("call") \/ has("text")
  <2>1. 1 \in DOMAIN ps /\ ps[1] \in Part
    BY <1>1
  <2>2. ps[1].kind \in Kinds
    BY <2>1 DEF Part
  <2> HIDE DEF ps
  <2> QED BY <2>1, <2>2 DEF HasPart, Kinds
<1> DEFINE thoughtful == [s EXCEPT !.thought = ps]
           resulting == [t EXCEPT !.messages = Append(@, item)]
           called == Turn("assistant", s.thought \o ps)
           calling == IF s.calls = <<>>
                      THEN [s EXCEPT !.calls = <<called>>, !.thought = <<>>]
                      ELSE [s EXCEPT !.calls[1].parts = @ \o ps]
           thought == IF item.role = "assistant" THEN s.thought ELSE <<>>
           said == Turn(item.role, thought \o ps)
           saying == [t EXCEPT !.messages = Append(@, said), !.thought = <<>>]
<1>5. next = CASE has("thought") -> thoughtful
               [] has("result") -> resulting
               [] has("call") -> calling
               [] has("text") -> saying
  BY DEF ResponsesItem, FlushBeforeOutput
<1>6. thoughtful \in Gathered
  BY <1>1, <1>2, GatheredFields
<1>7. resulting \in Gathered
  BY <1>1, <1>3, GatheredMessage
<1>8. calling \in Gathered
  <2>1. CASE s.calls = <<>>
    <3>1. s.thought \o ps \in Seq(Part)
      BY <1>1, <1>2
    <3>2. called \in AssistantMessage
      BY <3>1 DEF AssistantMessage, Message, Turn, Roles
    <3>3. <<called>> \in Seq(AssistantMessage) /\ <<>> \in Seq(Part)
      BY <3>2
    <3>4. calling = [s EXCEPT !.calls = <<called>>, !.thought = <<>>]
      BY <2>1
    <3> DEFINE cs == <<called>>
               none == <<>>
    <3>5. cs \in Seq(AssistantMessage) /\ none \in Seq(Part)
      BY <3>3
    <3> HIDE DEF cs, none
    <3>6. [s EXCEPT !.calls = cs, !.thought = none] \in Gathered
      BY <3>5, GatheredFields
    <3> QED BY <3>4, <3>6 DEF cs, none
  <2>2. CASE s.calls # <<>>
    <3> DEFINE c == s.calls[1]
               x == [c EXCEPT !.parts = c.parts \o ps]
               cs == [s.calls EXCEPT ![1] = x]
    <3>1. c \in AssistantMessage /\ 1 \in 1..Len(s.calls)
      BY <1>2, <2>2
    <3>2. c \in Message /\ c.role = "assistant" /\ c.parts \in Seq(Part)
      BY <3>1 DEF AssistantMessage, Message
    <3>3. c.parts \o ps \in Seq(Part)
      BY <1>1, <3>2
    <3>4. x \in AssistantMessage
      <4> HIDE DEF c
      <4> QED BY <3>2, <3>3 DEF AssistantMessage, Message
    <3>5. calling = [s EXCEPT !.calls = cs]
      BY <2>2
    <3> HIDE DEF x
    <3>6. cs \in Seq(AssistantMessage)
      BY <1>2, <3>1, <3>4
    <3> HIDE DEF cs
    <3>7. [s EXCEPT !.calls = cs] \in Gathered
      BY <1>2, <3>6, GatheredFields
    <3> QED BY <3>5, <3>7
  <2> QED BY <2>1, <2>2
<1>9. ASSUME has("text") PROVE saying \in Gathered
  <2>1. thought \in Seq(Part)
    BY <1>2
  <2>2. thought \o ps \in Seq(Part)
    <3> HIDE DEF thought
    <3> QED BY <1>1, <2>1
  <2>3. item.role # "tool"
    <3>1. PICK p \in DOMAIN ps : ps[p].kind = "text"
      BY <1>9 DEF HasPart
    <3>2. p \in 1..Len(ps)
      BY <1>1, <3>1
    <3> QED BY <1>1, <3>1, <3>2 DEF OpenAiMessage
  <2> HIDE DEF thought
  <2>4. said \in OpenAiMessage
    BY <1>1, <2>2, <2>3, TurnsAreMessages
  <2> DEFINE u == [t EXCEPT !.messages = Append(@, said)]
             none == <<>>
  <2> HIDE DEF said, t
  <2>5. u \in Gathered
    BY <1>3, <2>4, GatheredMessage
  <2>6. none \in Seq(Part) /\ saying = [u EXCEPT !.thought = none]
    OBVIOUS
  <2> HIDE DEF u, none
  <2>7. [u EXCEPT !.thought = none] \in Gathered
    BY <1>2, <2>5, <2>6, GatheredFields
  <2> QED BY <2>6, <2>7
<1> HIDE DEF thoughtful, resulting, calling, saying, has
<1> QED BY <1>4, <1>5, <1>6, <1>7, <1>8, <1>9

LEMMA ResponsesConverted ==
  ASSUME NEW b, b.system \in Int, b.messages \in Seq(ItemMessage)
  PROVE  ResponsesToOpenAiRequest(b) \in Seq(OpenAiMessage)
<1> DEFINE items == NormalizeResponsesInput(b.messages)
           n == Len(items)
           base == [messages |-> Instructed(b.system), calls |-> <<>>, thought |-> <<>>]
           end == FoldLeft(ResponsesItem, base, items)
<1>1. items \in Seq(ItemMessage)
  <2> DEFINE w == TextPart(MadeUp)
             m == Turn("user", <<w>>)
  <2>1. w \in Part /\ w.kind = "text"
    BY DEF TextPart, Part, Kinds, MadeUp
  <2> HIDE DEF w
  <2>2. w \in Spoken("user")
    BY <2>1 DEF Spoken
  <2> DEFINE ws == <<w>>
  <2>3. ws \in Seq(Part) /\ ws \in Seq(Spoken("user")) /\ ws # <<>> /\ Leads(ws)
    BY <2>1, <2>2 DEF Leads
  <2>4. m = [role |-> "user", parts |-> ws]
    BY DEF Turn
  <2> HIDE DEF ws, m
  <2>5. m \in ItemMessage
    BY <2>3, <2>4 DEF ItemMessage, EitherMessage, OpenAiMessage, ProperMessage, Message, Roles
  <2>6. items = IF b.messages = <<>> THEN <<m>> ELSE b.messages
    BY DEF NormalizeResponsesInput, m, ws, w
  <2> QED BY <2>5, <2>6
<1> HIDE DEF items
<1>2. n \in Nat /\ \A k \in 1..n : items[k] \in ItemMessage
  BY <1>1
<1>3. base \in Gathered
  <2> DEFINE ins == Instructed(b.system)
             M == Seq(OpenAiMessage)
             A == Seq(AssistantMessage)
             Q == Seq(Part)
  <2>1. ins \in M /\ <<>> \in A /\ <<>> \in Q
    BY InstructedIs
  <2> HIDE DEF ins, M, A, Q
  <2>2. [messages |-> ins, calls |-> <<>>, thought |-> <<>>] \in [messages : M, calls : A, thought : Q]
    BY <2>1
  <2> QED BY <2>2 DEF Gathered, ins, M, A, Q
<1> HIDE DEF base
<1>4. PICK h : /\ h[0] = base
               /\ \A k \in 1..n : h[k] = ResponsesItem(h[k - 1], items[k])
               /\ Items!Result(base, items, n) = h[n]
  BY <1>2, Items!Steps
<1>5. end = h[n]
  BY <1>1, <1>4, ItemsIs
<1> DEFINE P(k) == k <= n => h[k] \in Gathered
           G == {k \in Nat : P(k)}
<1>6. P(0)
  BY <1>3, <1>4
<1>7. ASSUME NEW k \in Nat, P(k) PROVE P(k + 1)
  <2> SUFFICES ASSUME k + 1 <= n PROVE h[k + 1] \in Gathered
    OBVIOUS
  <2>1. k <= n /\ k + 1 \in 1..n /\ (k + 1) - 1 = k
    BY <1>2
  <2>2. h[k + 1] = ResponsesItem(h[k], items[k + 1]) /\ items[k + 1] \in ItemMessage
    BY <1>2, <1>4, <2>1
  <2> QED BY <1>7, <2>1, <2>2, ItemStep
<1>8. 0 \in G /\ \A k \in Nat : k \in G => k + 1 \in G
  <2> HIDE DEF P
  <2> QED BY <1>6, <1>7
<1> HIDE DEF G
<1>9. n \in G
  BY <1>2, <1>8, Climb
<1>10. end \in Gathered
  BY <1>2, <1>5, <1>9 DEF G
<1>11. ResponsesToOpenAiRequest(b) = FlushCalls(end).messages
  BY DEF ResponsesToOpenAiRequest, items, base
<1> HIDE DEF end
<1>12. FlushCalls(end) \in Gathered
  BY <1>10, FlushGathered
<1> QED BY <1>11, <1>12 DEF Gathered

-----------------------------------------------------------------------------
(* A client's body.                                                           *)
OneMessageEach == {"openai", "responses"}

ClientBody(src, b) ==
  /\ b \in [system : Int, messages : Seq(ItemMessage)]
  /\ src \notin OneMessageEach => \A j \in 1..Len(b.messages) : b.messages[j].role # "tool"

Formats == {"openai", "claude", "gemini", "antigravity", "responses"}

\* The body with answers put in.
FixedBody(src, b) ==
  IF src \in {"openai", "claude"} THEN [b EXCEPT !.messages = FixMissingToolResponses(@)] ELSE b

LEMMA FixedIs ==
  ASSUME NEW src \in Formats, NEW b, ClientBody(src, b)
  PROVE  LET f == FixedBody(src, b)
         IN  /\ f.system \in Int /\ f.messages \in Seq(EitherMessage)
             /\ RequestToOpenAi(src, f) \in Seq(OpenAiMessage)
<1> DEFINE f == FixedBody(src, b)
           I == Seq(ItemMessage)
<1>1. b \in [system : Int, messages : I]
  BY DEF ClientBody
<1>2. b.messages \in Seq(ItemMessage) /\ b.messages \in Seq(EitherMessage) /\ b.system \in Int
  <2>1. Seq(ItemMessage) \subseteq Seq(EitherMessage)
    BY DEF ItemMessage
  <2> HIDE DEF I
  <2>2. b.messages \in I /\ b.system \in Int
    BY <1>1
  <2> QED BY <2>1, <2>2 DEF I
<1>3. CASE src \in {"openai", "claude"}
  <2> DEFINE x == FixMissingToolResponses(b.messages)
  <2>1. f = [b EXCEPT !.messages = x]
    BY <1>3 DEF FixedBody
  <2>2. x \in Seq(EitherMessage)
    BY <1>2, FixMissingEither
  <2> HIDE DEF x, f, I
  <2>3. f.system \in Int /\ f.messages = x
    BY <1>1, <2>1
  <2>4. CASE src = "openai"
    <3>1. RequestToOpenAi(src, f) = x
      BY <2>3, <2>4 DEF RequestToOpenAi
    <3>2. x \in Seq(OpenAiMessage)
      BY <2>2 DEF EitherMessage
    <3> QED BY <2>2, <2>3, <3>1, <3>2 DEF f
  <2>5. CASE src = "claude"
    <3>1. RequestToOpenAi(src, f) = ClaudeToOpenAiRequest(f)
      BY <2>5 DEF RequestToOpenAi
    <3>2. ClaudeToOpenAiRequest(f) \in Seq(OpenAiMessage)
      BY <2>2, <2>3, ClaudeConverted
    <3> QED BY <2>2, <2>3, <3>1, <3>2 DEF f
  <2> QED BY <1>3, <2>4, <2>5
<1>4. CASE src \notin {"openai", "claude"}
  <2>1. f = b
    BY <1>4 DEF FixedBody
  <2>2. CASE src = "gemini"
    <3>1. RequestToOpenAi(src, b) = GeminiToOpenAiRequest(b)
      BY <2>2 DEF RequestToOpenAi
    <3>2. \A j \in 1..Len(b.messages) : b.messages[j].role # "tool"
      BY <2>2 DEF ClientBody, OneMessageEach
    <3>3. GeminiToOpenAiRequest(b) \in Seq(OpenAiMessage)
      BY <1>2, <3>2, GeminiConverted
    <3> QED BY <1>2, <2>1, <3>1, <3>3
  <2>3. CASE src = "antigravity"
    <3>1. RequestToOpenAi(src, b) = AntigravityToOpenAiRequest(b)
      BY <2>3 DEF RequestToOpenAi
    <3>2. \A j \in 1..Len(b.messages) : b.messages[j].role # "tool"
      BY <2>3 DEF ClientBody, OneMessageEach
    <3>3. AntigravityToOpenAiRequest(b) \in Seq(OpenAiMessage)
      BY <1>2, <3>2, AntigravityConverted
    <3> QED BY <1>2, <2>1, <3>1, <3>3
  <2>4. CASE src = "responses"
    <3>1. RequestToOpenAi(src, b) = ResponsesToOpenAiRequest(b)
      BY <2>4 DEF RequestToOpenAi
    <3>2. ResponsesToOpenAiRequest(b) \in Seq(OpenAiMessage)
      BY <1>2, ResponsesConverted
    <3> QED BY <1>2, <2>1, <3>1, <3>2
  <2> QED BY <1>4, <2>2, <2>3, <2>4 DEF Formats
<1> QED BY <1>3, <1>4

-----------------------------------------------------------------------------
(* What providers get.                                                        *)
LEMMA LastResultIs ==
  ASSUME NEW messages \in Seq(OpenAiMessage), NEW i
  PROVE  LastResult(messages, i) \in Int
<1> DEFINE C == {m \in OpenAiMessage : m.role = "tool" /\ m.parts[1].id = i}
           results == Where(messages, LAMBDA m : m.role = "tool" /\ m.parts[1].id = i)
<1>1. LastResult(messages, i) = IF results = <<>> THEN Blank ELSE Last(results).parts[1].word
  BY DEF LastResult
<1>2. [j \in DOMAIN messages |-> IF messages[j].role = "tool" /\ messages[j].parts[1].id = i
                                 THEN <<messages[j]>> ELSE <<>>]
        = [j \in DOMAIN messages |-> IF messages[j] \in C THEN <<messages[j]>> ELSE <<>>]
  <2>1. \A j \in DOMAIN messages : messages[j] \in OpenAiMessage
    OBVIOUS
  <2> QED BY <2>1
<1> HIDE DEF C
<1>3. results = Sieve(messages, C)
  BY <1>2 DEF Where, Sieve
<1> HIDE DEF results
<1>4. results \in Seq(C)
  BY <1>3, SieveFacts
<1>5. ASSUME results # <<>> PROVE Last(results).parts[1].word \in Int
  <2>1. Last(results) \in C
    BY <1>4, <1>5 DEF Last
  <2> DEFINE m == Last(results)
  <2>2. m \in OpenAiMessage /\ m.role = "tool"
    BY <2>1 DEF C
  <2> HIDE DEF m
  <2>3. m.parts \in Seq(Part) /\ Len(m.parts) > 0
    BY <2>2 DEF OpenAiMessage, Message
  <2>4. m.parts[1] \in Part
    BY <2>3
  <2> QED BY <2>4 DEF Part, m
<1> QED BY <1>1, <1>5 DEF Blank

LEMMA ResponsesAre ==
  ASSUME NEW messages \in Seq(OpenAiMessage), NEW calls \in Seq(Part)
  PROVE  Responses(messages, calls) \in Seq(Part)
<1> DEFINE C == {c \in Part : LastResult(messages, c.id) # Blank}
           answered == Where(calls, LAMBDA c : LastResult(messages, c.id) # Blank)
           out == Responses(messages, calls)
<1>1. out = [r \in DOMAIN answered |-> ResultPart(answered[r].id, LastResult(messages, answered[r].id))]
  BY DEF Responses
<1>2. [j \in DOMAIN calls |-> IF LastResult(messages, calls[j].id) # Blank THEN <<calls[j]>> ELSE <<>>]
        = [j \in DOMAIN calls |-> IF calls[j] \in C THEN <<calls[j]>> ELSE <<>>]
  <2>1. \A j \in DOMAIN calls : calls[j] \in Part
    OBVIOUS
  <2> QED BY <2>1
<1> HIDE DEF C
<1>3. answered = Sieve(calls, C)
  BY <1>2 DEF Where, Sieve
<1> HIDE DEF answered, out
<1>4. answered \in Seq(Part)
  BY <1>3, SieveFacts
<1>5. ASSUME NEW r \in 1..Len(answered) PROVE out[r] \in Part
  <2>1. answered[r] \in Part
    BY <1>4
  <2>2. answered[r].id \in Int /\ LastResult(messages, answered[r].id) \in Int
    BY <2>1, LastResultIs DEF Part
  <2>3. out[r] = ResultPart(answered[r].id, LastResult(messages, answered[r].id))
    BY <1>1, <1>4
  <2> QED BY <2>2, <2>3 DEF ResultPart, Part, Kinds
<1>6. out = [r \in 1..Len(answered) |-> out[r]]
  BY <1>1, <1>4
<1>7. out \in Seq(Part)
  BY <1>4, <1>5, <1>6, ListOf
<1> QED BY <1>7 DEF out

LEMMA TurnIs ==
  ASSUME NEW role \in Roles, NEW parts \in Seq(Part)
  PROVE  Turn(role, parts) \in Message
BY DEF Turn, Message

LEMMA GeminiContentsAre ==
  ASSUME NEW messages \in Seq(OpenAiMessage), NEW m \in OpenAiMessage
  PROVE  GeminiContents(messages, m) \in Seq(Message)
<1> DEFINE calls == Of("call", m.parts)
           thoughts == Of("thought", m.parts)
           words == Wordy(m.parts)
           said == thoughts \o words \o calls
           answers == Responses(messages, calls)
<1>1. m.parts \in Seq(Part)
  BY DEF OpenAiMessage, Message
<1>2. calls \in Seq(Part) /\ thoughts \in Seq(Part) /\ words \in Seq(Part)
  BY <1>1, PartsOf DEF Kinds
<1>3. CASE m.role = "user" \/ (m.role = "system" /\ Len(messages) = 1)
  <2>1. GeminiContents(messages, m) = <<Turn("user", m.parts)>>
    BY <1>3 DEF GeminiContents
  <2>2. Turn("user", m.parts) \in Message
    BY <1>1, TurnIs DEF Roles
  <2> QED BY <2>1, <2>2
<1>4. CASE m.role = "assistant"
  <2>1. GeminiContents(messages, m) = <<Turn("assistant", said), Turn("user", answers)>>
    BY <1>4 DEF GeminiContents
  <2> HIDE DEF calls, thoughts, words
  <2>2. said \in Seq(Part) /\ answers \in Seq(Part)
    BY <1>2, ResponsesAre
  <2> HIDE DEF said, answers
  <2>3. Turn("assistant", said) \in Message /\ Turn("user", answers) \in Message
    BY <2>2, TurnIs DEF Roles
  <2> QED BY <2>1, <2>3
<1>5. CASE ~(m.role = "user" \/ (m.role = "system" /\ Len(messages) = 1)) /\ m.role # "assistant"
  <2>1. GeminiContents(messages, m) = <<>>
    BY <1>5 DEF GeminiContents
  <2> QED BY <2>1
<1> QED BY <1>3, <1>4, <1>5

LEMMA GeminiProper ==
  ASSUME NEW messages \in Seq(OpenAiMessage), NEW out,
         out = OpenAiToGeminiRequest(messages).messages
  PROVE  out \in Seq(FullMessage) /\ Differ(out)
<1> DEFINE n == Len(messages)
           seqs == [j \in DOMAIN messages |-> GeminiContents(messages, messages[j])]
           flat == FlattenSeq(seqs)
<1>1. out = NormalizeGeminiContents(flat)
  BY DEF OpenAiToGeminiRequest, Body, FlatMap
<1>2. n \in Nat /\ seqs = [j \in 1..n |-> seqs[j]]
  OBVIOUS
<1>3. \A j \in 1..n : seqs[j] \in Seq(Message)
  <2>1. \A j \in 1..n : messages[j] \in OpenAiMessage
    OBVIOUS
  <2> QED BY <2>1, GeminiContentsAre
<1> HIDE DEF seqs, n
<1>4. flat \in Seq(Message)
  BY <1>2, <1>3, FlattenedTo
<1> HIDE DEF flat
<1> QED BY <1>1, <1>4, NormalizeFull

LEMMA AntigravityProper ==
  ASSUME NEW messages \in Seq(OpenAiMessage), NEW out,
         out = OpenAiToAntigravityRequest(messages).messages
  PROVE  out \in Seq(FullMessage) /\ Differ(out)
<1> DEFINE claude == OpenAiToClaudeRequest(messages)
<1>1. out = NormalizeGeminiContents(claude.messages)
  BY DEF OpenAiToAntigravityRequest, Body
<1>2. claude.messages \in Seq(ProperMessage)
  BY OpenAiToClaudeProper
<1>3. claude.messages \in Seq(Message)
  <2> HIDE DEF claude
  <2> QED BY <1>2 DEF ProperMessage
<1> HIDE DEF claude
<1> QED BY <1>1, <1>3, NormalizeFull

\* What the provider of a Claude model and a Gemini model get of a client.
LEMMA ClaudeTarget ==
  ASSUME NEW src \in Formats, NEW b, ClientBody(src, b), NEW provider, NEW thinking,
         NEW out, out = TranslateRequest(src, "claude", b, provider, thinking).messages
  PROVE  /\ out \in Seq(ProperMessage) /\ Differ(out)
         /\ ~HandlesThoughts(provider) /\ Len(out) > 1 => AnsweredOnce(out)
         /\ HandlesThoughts(provider) /\ thinking =>
              \A j \in 1..Len(out) :
                /\ provider # "deepseek" => Signed(out[j].parts)
                /\ HasPart("call", out[j].parts) /\ Last(out).role = "user" => HasPart("thought", out[j].parts)
<1> DEFINE f == FixedBody(src, b)
           openai == RequestToOpenAi(src, f)
           claude == IF src = "claude" THEN Received(f) ELSE OpenAiToClaudeRequest(openai)
<1>1. out = PrepareClaudeRequest(claude, provider, thinking).messages
  BY DEF TranslateRequest, FixedBody
<1>2. f.messages \in Seq(EitherMessage) /\ openai \in Seq(OpenAiMessage)
  BY FixedIs
<1> HIDE DEF f, openai
<1>3. claude.messages \in Seq(ProperMessage) /\ claude = Body(claude.system, claude.messages)
  <2>1. CASE src = "claude"
    <3>1. claude = Received(f)
      BY <2>1
    <3>2. claude.messages = f.messages /\ claude = Body(claude.system, claude.messages)
      BY <3>1 DEF Received, Body
    <3>3. f.messages \in Seq(ProperMessage)
      BY <1>2 DEF EitherMessage
    <3> QED BY <3>2, <3>3
  <2>2. CASE src # "claude"
    <3>1. claude = OpenAiToClaudeRequest(openai)
      BY <2>2
    <3> HIDE DEF claude
    <3> QED BY <1>2, <3>1, OpenAiToClaudeProper
  <2> QED BY <2>1, <2>2
<1> HIDE DEF claude
<1>4. out = PrepareClaudeRequest(Body(claude.system, claude.messages), provider, thinking).messages
  BY <1>1, <1>3
<1> QED BY <1>3, <1>4, PrepareProper

LEMMA GeminiTarget ==
  ASSUME NEW src \in Formats, NEW b, ClientBody(src, b), NEW provider, NEW thinking,
         NEW t \in {"gemini", "antigravity"}, t # src,
         NEW out, out = TranslateRequest(src, t, b, provider, thinking).messages
  PROVE  out \in Seq(FullMessage) /\ Differ(out)
<1> DEFINE f == FixedBody(src, b)
           openai == RequestToOpenAi(src, f)
<1>1. out = IF t = "gemini" THEN OpenAiToGeminiRequest(openai).messages
            ELSE OpenAiToAntigravityRequest(openai).messages
  BY DEF TranslateRequest, FixedBody
<1>2. openai \in Seq(OpenAiMessage)
  BY FixedIs
<1> HIDE DEF openai
<1> QED BY <1>1, <1>2, GeminiProper, AntigravityProper

-----------------------------------------------------------------------------
(* What a client has said.                                                    *)
TurnFields == {"calls", "asked", "open", "answers", "left", "reused", "again"}

FiniteIds == {S \in SUBSET Int : IsFiniteSet(S)}

AnswersOk(a) == DOMAIN a \in SUBSET Int /\ \A i \in DOMAIN a : a[i] \in Int

TurnsOk(t) ==
  /\ DOMAIN t = TurnFields
  /\ t.calls \in 0..MaxCalls
  /\ t.open \in FiniteIds
  /\ AnswersOk(t.answers)

RequestInv == source \in Formats /\ ClientBody(source, body) /\ TurnsOk(turns)

LEMMA TurnsWith ==
  ASSUME NEW t, TurnsOk(t), NEW f \in TurnFields, NEW v, NEW u, u = [t EXCEPT ![f] = v],
         f = "calls" => v \in 0..MaxCalls,
         f = "open" => v \in FiniteIds,
         f = "answers" => AnswersOk(v)
  PROVE  TurnsOk(u) /\ u[f] = v /\ \A g \in TurnFields \ {f} : u[g] = t[g]
BY DEF TurnsOk, TurnFields

LEMMA ItemFits ==
  ASSUME NEW role \in Roles \ {"tool"}, NEW parts \in Seq(Spoken(role)), parts # <<>>, Leads(parts)
  PROVE  Turn(role, parts) \in ItemMessage
<1> DEFINE m == Turn(role, parts)
<1>1. parts \in Seq(Part)
  BY DEF Spoken
<1>2. m = [role |-> role, parts |-> parts]
  BY DEF Turn
<1> HIDE DEF m
<1>3. m \in Message /\ m.role = role /\ m.parts = parts
  BY <1>1, <1>2 DEF Message
<1>4. m \in ProperMessage /\ m \in OpenAiMessage
  BY <1>3 DEF ProperMessage, OpenAiMessage
<1> QED BY <1>3, <1>4 DEF ItemMessage, EitherMessage, m

LEMMA OneText ==
  ASSUME NEW role \in Roles \ {"tool"}, NEW w \in Int
  PROVE  Turn(role, <<TextPart(w)>>) \in ItemMessage
<1> DEFINE b == TextPart(w)
           ps == <<b>>
<1>1. b \in Spoken(role) /\ b.kind = "text"
  BY DEF TextPart, Spoken, Part, Kinds
<1> HIDE DEF b
<1>2. ps \in Seq(Spoken(role)) /\ ps # <<>> /\ Leads(ps)
  BY <1>1 DEF Leads
<1> HIDE DEF ps
<1>3. Turn(role, ps) \in ItemMessage
  BY <1>2, ItemFits
<1> QED BY <1>3 DEF ps, b

LEMMA SaidIs ==
  ASSUME RequestInv, NEW m \in ItemMessage, NEW t, TurnsOk(t), Say(m, t),
         m.role = "tool" => source \in OneMessageEach
  PROVE  RequestInv'
<1> DEFINE x == Append(body.messages, m)
           I == Seq(ItemMessage)
<1>1. body' = [body EXCEPT !.messages = x] /\ turns' = t /\ source' = source
  BY DEF Say
<1>2. body \in [system : Int, messages : I]
  BY DEF RequestInv, ClientBody
<1>3. body.messages \in Seq(ItemMessage)
  BY <1>2
<1>4. x \in Seq(ItemMessage) /\ Len(x) = Len(body.messages) + 1 /\ x[Len(x)] = m
      /\ \A j \in 1..Len(body.messages) : x[j] = body.messages[j]
  BY <1>3
<1> HIDE DEF x
<1>5. x \in I
  BY <1>4
<1> HIDE DEF I
<1>6. body' \in [system : Int, messages : I] /\ body'.messages = x
  BY <1>1, <1>2, <1>5
<1>7. ASSUME source \notin OneMessageEach, NEW j \in 1..Len(x) PROVE x[j].role # "tool"
  <2>1. CASE j \in 1..Len(body.messages)
    BY <1>4, <1>7, <2>1 DEF RequestInv, ClientBody
  <2>2. CASE j \notin 1..Len(body.messages)
    <3>1. j = Len(x)
      BY <1>3, <1>4, <2>2
    <3> QED BY <1>4, <1>7, <3>1
  <2> QED BY <2>1, <2>2
<1>8. ClientBody(source, body')
  BY <1>6, <1>7 DEF ClientBody, I
<1> QED BY <1>1, <1>8 DEF RequestInv

LEMMA LeaveOk ==
  ASSUME NEW t, TurnsOk(t)
  PROVE  TurnsOk(Leave(t))
<1>1. CASE t.open = {}
  BY <1>1 DEF Leave
<1>2. CASE t.open # {}
  <2> DEFINE none == {}
             v == t.left \cup {IF t.open = t.asked THEN "all" ELSE "some"}
             r == [t EXCEPT !.open = none]
             u == [r EXCEPT !.left = v]
  <2>1. Leave(t) = u
    BY <1>2 DEF Leave
  <2>2. none \in FiniteIds
    BY FS_EmptySet DEF FiniteIds
  <2> HIDE DEF none, v
  <2>3. TurnsOk(r)
    BY <2>2, TurnsWith DEF TurnFields
  <2> HIDE DEF r
  <2>4. TurnsOk(u)
    BY <2>3, TurnsWith DEF TurnFields
  <2> QED BY <2>1, <2>4
<1> QED BY <1>1, <1>2

LEMMA WordIs ==
  ASSUME RequestInv, NEW n \in Int
  PROVE  Word(n) \in Int
<1>1. body.messages \in Seq(ItemMessage)
  BY DEF RequestInv, ClientBody
<1> QED BY <1>1 DEF Word

LEMMA UserSaysInv ==
  ASSUME RequestInv, Instruct \/ InstructLater \/ UserSays
  PROVE  RequestInv'
<1> USE DEF OneMessageEach
<1>1. CASE Instruct
  <2> DEFINE w == Word(0)
             I == Seq(ItemMessage)
  <2>1. w \in Int
    BY WordIs
  <2> HIDE DEF w
  <2>2. body' = [body EXCEPT !.system = w] /\ source' = source /\ turns' = turns
    BY <1>1 DEF Instruct, w
  <2>3. body \in [system : Int, messages : I]
    BY DEF RequestInv, ClientBody
  <2> HIDE DEF I
  <2>4. body' \in [system : Int, messages : I] /\ body'.messages = body.messages
    BY <2>1, <2>2, <2>3
  <2>5. ClientBody(source, body')
    BY <2>4 DEF RequestInv, ClientBody, I
  <2> QED BY <2>2, <2>5 DEF RequestInv
<1>2. CASE InstructLater
  <2>1. PICK role \in InstructingRoles : Say(Turn(role, <<TextPart(Word(1))>>), Leave(turns))
    BY <1>2 DEF InstructLater
  <2>2. role \in Roles \ {"tool"}
    BY <2>1 DEF InstructingRoles, RequestInv, Formats, Roles
  <2> DEFINE m == Turn(role, <<TextPart(Word(1))>>)
  <2>3. m \in ItemMessage
    BY <2>2, WordIs, OneText
  <2>4. m.role # "tool"
    BY <2>2 DEF Turn
  <2>5. TurnsOk(Leave(turns))
    BY LeaveOk DEF RequestInv
  <2> HIDE DEF m
  <2>6. Say(m, Leave(turns))
    BY <2>1 DEF m
  <2> QED BY <2>3, <2>4, <2>5, <2>6, SaidIs
<1>3. CASE UserSays
  <2>1. PICK w \in {Blank, Word(1)} : Say(Turn("user", <<TextPart(w)>>), Leave(turns))
    BY <1>3 DEF UserSays
  <2>2. w \in Int
    BY <2>1, WordIs DEF Blank
  <2> DEFINE m == Turn("user", <<TextPart(w)>>)
  <2>3. m \in ItemMessage
    BY <2>2, OneText DEF Roles
  <2>4. m.role # "tool"
    BY DEF Turn
  <2>5. TurnsOk(Leave(turns))
    BY LeaveOk DEF RequestInv
  <2> HIDE DEF m
  <2>6. Say(m, Leave(turns))
    BY <2>1 DEF m
  <2> QED BY <2>3, <2>4, <2>5, <2>6, SaidIs
<1> QED BY <1>1, <1>2, <1>3

LEMMA MinOf ==
  ASSUME NEW a \in Int, NEW b \in Int
  PROVE  Min({a, b}) \in Int /\ Min({a, b}) <= a /\ Min({a, b}) <= b
<1>1. CASE a <= b
  <2>1. \A x \in {a, b} : (\A y \in {a, b} : x <= y) => x = a
    BY <1>1
  <2>2. Min({a, b}) = a
    BY <1>1, <2>1 DEF Min
  <2> QED BY <1>1, <2>2
<1>2. CASE ~(a <= b)
  <2>1. \A x \in {a, b} : (\A y \in {a, b} : x <= y) => x = b
    BY <1>2
  <2>2. Min({a, b}) = b
    BY <1>2, <2>1 DEF Min
  <2> QED BY <1>2, <2>2
<1> QED BY <1>1, <1>2

LEMMA IdsOf ==
  ASSUME NEW n \in Nat, NEW ids \in [1..n -> Int]
  PROVE  ToSet(ids) \in FiniteIds
<1>1. IsFiniteSet(1..n)
  BY FS_Interval
<1>2. ids \in Surjection(1..n, ToSet(ids))
  BY DEF Surjection, ToSet
<1>3. IsFiniteSet(ToSet(ids))
  BY <1>1, <1>2, FS_Surjection
<1>4. ToSet(ids) \in SUBSET Int
  BY DEF ToSet
<1> QED BY <1>3, <1>4 DEF FiniteIds

LEMMA TwoIds ==
  ASSUME NEW A \in FiniteIds, NEW B \in FiniteIds
  PROVE  A \cup B \in FiniteIds /\ A \ B \in FiniteIds
BY FS_Union, FS_Difference DEF FiniteIds

LEMMA TwoLists ==
  ASSUME NEW U, NEW x \in Seq(U), NEW y \in Seq(U)
  PROVE  x \o y \in Seq(U) /\ (x # <<>> \/ y # <<>> => x \o y # <<>>)
OBVIOUS

LEMMA UtterancesAre ==
  ASSUME RequestInv, NEW n \in Nat, NEW ids \in [1..n -> Int],
         NEW calls, calls = [c \in 1..n |-> CallPart(ids[c])],
         NEW parts \in Utterances(calls)
  PROVE  parts \in Seq(Spoken("assistant")) /\ parts # <<>>
<1> DEFINE U == Spoken("assistant")
           w == TextPart(Word(1))
           words == <<w>>
           plain == <<ThoughtPart(0)>>
           own == <<ThoughtPart(1)>>
<1>1. calls \in Seq(U)
  <2>1. \A c \in 1..n : calls[c] \in U
    BY DEF CallPart, Spoken, Part, Kinds, Blank
  <2>2. calls = [c \in 1..n |-> calls[c]]
    OBVIOUS
  <2> HIDE DEF U
  <2> QED BY <2>1, <2>2, ListOf
<1>2. w \in U
  <2>1. Word(1) \in Int
    BY WordIs
  <2> QED BY <2>1 DEF TextPart, Spoken, Part, Kinds
<1>3. plain \in Seq(U) /\ plain # <<>> /\ own \in Seq(U) /\ own # <<>>
  BY DEF ThoughtPart, Spoken, Part, Kinds, Blank
<1> HIDE DEF U, w, plain, own
<1>4. words \in Seq(U) /\ words # <<>>
  BY <1>2
<1> HIDE DEF words
<1>5. \/ (parts = calls /\ calls # <<>>) \/ parts = words \/ parts = plain
      \/ parts = words \o calls \/ parts = calls \o words
      \/ parts = plain \o calls \/ parts = own \o calls
  BY DEF Utterances, words, w, plain, own
<1>6. /\ words \o calls \in Seq(U) /\ words \o calls # <<>>
      /\ calls \o words \in Seq(U) /\ calls \o words # <<>>
  BY <1>1, <1>4, TwoLists
<1>7. /\ plain \o calls \in Seq(U) /\ plain \o calls # <<>>
      /\ own \o calls \in Seq(U) /\ own \o calls # <<>>
  BY <1>1, <1>3, TwoLists
<1>8. parts \in Seq(U) /\ parts # <<>>
  BY <1>1, <1>3, <1>4, <1>5, <1>6, <1>7
<1> QED BY <1>8 DEF U

LEMMA AssistantSaysInv ==
  ASSUME RequestInv, AssistantSays
  PROVE  RequestInv'
<1>0. turns.calls \in Nat /\ turns.calls \in 0..MaxCalls /\ MaxCalls \in Nat /\ TurnsOk(turns)
  BY RequestAssumption DEF RequestInv, TurnsOk
<1> DEFINE left == MaxCalls - turns.calls
<1>1. PICK n \in 0..Min({2, left}) :
        \E ids \in NewCalls(n) : \E parts \in Utterances([c \in 1..n |-> CallPart(ids[c])]) :
          LET t   == IF GoesOn THEN turns ELSE [Leave(turns) EXCEPT !.asked = {}]
              new == ToSet(ids)
          IN  /\ source = "responses" => n <= 1
              /\ Say(Turn("assistant", parts),
                     [t EXCEPT
                        !.calls = @ + n,
                        !.asked = @ \cup new,
                        !.open = @ \cup new,
                        !.reused = @ \/ Cardinality(new) < n \/ new \cap DOMAIN t.answers # {},
                        !.left = @ \cup IF GoesOn /\ t.open # {} /\ HasPart("text", parts) THEN {"between"} ELSE {}])
  BY DEF AssistantSays
<1>2. n \in Nat /\ n <= left
  <2>2. left \in Int
    BY <1>0
  <2>3. n \in 0..Min({2, left})
    BY <1>1
  <2> HIDE DEF left
  <2>1. Min({2, left}) \in Int /\ Min({2, left}) <= left
    BY <2>2, MinOf
  <2> DEFINE top == Min({2, left})
  <2>4. n \in 0..top /\ top \in Int /\ top <= left
    BY <2>1, <2>3
  <2> HIDE DEF top
  <2> QED BY <2>2, <2>4
<1>3. PICK ids \in NewCalls(n) :
        \E parts \in Utterances([c \in 1..n |-> CallPart(ids[c])]) :
          LET t   == IF GoesOn THEN turns ELSE [Leave(turns) EXCEPT !.asked = {}]
              new == ToSet(ids)
          IN  Say(Turn("assistant", parts),
                     [t EXCEPT
                        !.calls = @ + n,
                        !.asked = @ \cup new,
                        !.open = @ \cup new,
                        !.reused = @ \/ Cardinality(new) < n \/ new \cap DOMAIN t.answers # {},
                        !.left = @ \cup IF GoesOn /\ t.open # {} /\ HasPart("text", parts) THEN {"between"} ELSE {}])
  BY <1>1
<1>4. ids \in [1..n -> Int]
  BY <1>0, <1>2, <1>3 DEF NewCalls
<1> DEFINE calls == [c \in 1..n |-> CallPart(ids[c])]
           t == IF GoesOn THEN turns ELSE [Leave(turns) EXCEPT !.asked = {}]
           new == ToSet(ids)
<1>5. PICK parts \in Utterances(calls) :
        Say(Turn("assistant", parts),
            [t EXCEPT
               !.calls = @ + n,
               !.asked = @ \cup new,
               !.open = @ \cup new,
               !.reused = @ \/ Cardinality(new) < n \/ new \cap DOMAIN t.answers # {},
               !.left = @ \cup IF GoesOn /\ t.open # {} /\ HasPart("text", parts) THEN {"between"} ELSE {}])
  BY <1>3
<1>6. parts \in Seq(Spoken("assistant")) /\ parts # <<>>
  <2> HIDE DEF calls
  <2>1. calls = [c \in 1..n |-> CallPart(ids[c])]
    BY DEF calls
  <2> QED BY <1>2, <1>4, <1>5, <2>1, UtterancesAre
<1> DEFINE m == Turn("assistant", parts)
<1>7. m \in ItemMessage /\ m.role # "tool"
  <2>1. Leads(parts)
    <3>1. \A p \in 1..Len(parts) : parts[p] \in Spoken("assistant")
      BY <1>6
    <3> QED BY <3>1 DEF Leads, Spoken
  <2>2. m \in ItemMessage
    BY <1>6, <2>1, ItemFits DEF Roles
  <2>3. m.role = "assistant"
    BY DEF Turn
  <2> QED BY <2>2, <2>3
<1>8. TurnsOk(t) /\ t.calls = turns.calls
  <2>1. TurnsOk(Leave(turns)) /\ Leave(turns).calls = turns.calls
    <3>1. TurnsOk(Leave(turns))
      BY <1>0, LeaveOk
    <3> QED BY <1>0, <3>1 DEF Leave, TurnsOk, TurnFields
  <2> DEFINE l == Leave(turns)
             none == {}
  <2>2. CASE GoesOn
    BY <1>0, <2>2
  <2>3. CASE ~GoesOn
    <3>1. t = [l EXCEPT !.asked = none]
      BY <2>3
    <3> HIDE DEF t, l, none
    <3>2. TurnsOk(l) /\ l.calls = turns.calls
      BY <2>1 DEF l
    <3>3. TurnsOk(t)
      BY <3>1, <3>2, TurnsWith DEF TurnFields
    <3>4. t.calls = l.calls
      BY <3>1, <3>2 DEF TurnsOk, TurnFields
    <3> QED BY <3>2, <3>3, <3>4
  <2> QED BY <2>2, <2>3
<1>9. new \in FiniteIds
  BY <1>2, <1>4, IdsOf
<1> DEFINE u1 == [t EXCEPT !.calls = @ + n]
           u2 == [u1 EXCEPT !.asked = @ \cup new]
           u3 == [u2 EXCEPT !.open = @ \cup new]
           v4 == t.reused \/ Cardinality(new) < n \/ new \cap DOMAIN t.answers # {}
           v5 == IF GoesOn /\ t.open # {} /\ HasPart("text", parts) THEN {"between"} ELSE {}
           u4 == [u3 EXCEPT !.reused = v4]
           u5 == [u4 EXCEPT !.left = @ \cup v5]
<1>10. Say(m, u5)
  BY <1>5
<1> HIDE DEF t, new, m, v4, v5
<1>11. TurnsOk(u1) /\ u1.open = t.open
  <2>1. t.calls + n \in 0..MaxCalls
    BY <1>0, <1>2, <1>8
  <2> QED BY <1>8, <2>1, TurnsWith DEF TurnFields
<1> HIDE DEF u1
<1>12. TurnsOk(u2)
  BY <1>11, TurnsWith DEF TurnFields
<1> HIDE DEF u2
<1>13. TurnsOk(u3)
  <2>1. u2.open \cup new \in FiniteIds
    BY <1>9, <1>12, TwoIds DEF TurnsOk
  <2> QED BY <1>12, <2>1, TurnsWith DEF TurnFields
<1> HIDE DEF u3
<1>14. TurnsOk(u4)
  BY <1>13, TurnsWith DEF TurnFields
<1> HIDE DEF u4
<1>15. TurnsOk(u5)
  BY <1>14, TurnsWith DEF TurnFields
<1> HIDE DEF u5
<1> QED BY <1>7, <1>10, <1>15, SaidIs

LEMMA AnswersAre ==
  ASSUME RequestInv, NEW results \in Answers
  PROVE  results \in Seq(ResultParts) /\ results # <<>>
<1>0. TurnsOk(turns)
  BY DEF RequestInv
<1>1. turns.open \in SUBSET Int /\ IsFiniteSet(turns.open) /\ AnswersOk(turns.answers)
  BY <1>0 DEF TurnsOk, FiniteIds
<1>2. ASSUME NEW i \in turns.open \cup Repeatable, NEW w \in {Blank, Word(1)},
             results = <<ResultPart(i, Answer(i, w))>>
      PROVE  results \in Seq(ResultParts) /\ results # <<>>
  <2>1. i \in Int
    BY <1>1, <1>2 DEF Repeatable, AnswersOk
  <2>2. w \in Int
    BY <1>2, WordIs DEF Blank
  <2>3. Answer(i, w) \in Int
    BY <1>1, <2>2 DEF Answer, AnswersOk
  <2> DEFINE b == ResultPart(i, Answer(i, w))
  <2>4. b \in ResultParts
    BY <2>1, <2>3 DEF ResultPart, ResultParts, Part, Kinds
  <2> HIDE DEF b
  <2>5. results = <<b>>
    BY <1>2 DEF b
  <2> QED BY <2>4, <2>5
<1>3. ASSUME turns.open # {}, NEW s \in SetToSeqs(turns.open),
             results = [r \in DOMAIN s |-> ResultPart(s[r], Word(r))]
      PROVE  results \in Seq(ResultParts) /\ results # <<>>
  <2> DEFINE n == Cardinality(turns.open)
  <2>1. n \in Nat /\ n # 0
    BY <1>1, <1>3, FS_CardinalityType, FS_EmptySet
  <2>2. s \in [1..n -> turns.open]
    BY <1>3 DEF SetToSeqs
  <2> HIDE DEF n
  <2>3. ASSUME NEW r \in 1..n PROVE results[r] \in ResultParts
    <3>1. s[r] \in Int /\ Word(r) \in Int
      BY <1>1, <2>2, WordIs
    <3>2. results[r] = ResultPart(s[r], Word(r))
      BY <1>3, <2>2
    <3> QED BY <3>1, <3>2 DEF ResultPart, ResultParts, Part, Kinds
  <2>4. results = [r \in 1..n |-> results[r]]
    BY <1>3, <2>2
  <2>5. results \in Seq(ResultParts) /\ Len(results) = n
    BY <2>1, <2>3, <2>4, ListOf
  <2> QED BY <2>1, <2>5
<1>4. \/ \E i \in turns.open \cup Repeatable, w \in {Blank, Word(1)} :
           results = <<ResultPart(i, Answer(i, w))>>
      \/ turns.open # {} /\ \E s \in SetToSeqs(turns.open) :
           results = [r \in DOMAIN s |-> ResultPart(s[r], Word(r))]
  BY DEF Answers
<1> QED BY <1>2, <1>3, <1>4

LEMMA ResultIds ==
  ASSUME NEW results \in Seq(ResultParts)
  PROVE  /\ Ids("result", results) \in SUBSET Int
         /\ \A i \in Ids("result", results) :
              results[Min({r \in DOMAIN results : results[r].id = i})].word \in Int
<1> DEFINE n == Len(results)
<1>1. /\ DOMAIN results = 1..n /\ n \in Nat
      /\ \A r \in 1..n : results[r].id \in Int /\ results[r].word \in Int
  <2>1. \A r \in 1..n : results[r] \in ResultParts
    OBVIOUS
  <2> QED BY <2>1 DEF ResultParts, Part
<1>2. \A i \in Ids("result", results) : \E r \in 1..n : results[r].id = i
  BY <1>1 DEF Ids, ToSet
<1>3. Ids("result", results) \in SUBSET Int
  BY <1>1, <1>2
<1>4. ASSUME NEW i \in Ids("result", results)
      PROVE  results[Min({r \in DOMAIN results : results[r].id = i})].word \in Int
  <2> DEFINE S == {r \in DOMAIN results : results[r].id = i}
  <2>1. S \in SUBSET Nat /\ S # {}
    BY <1>1, <1>2
  <2>2. S \subseteq 1..n
    BY <1>1
  <2> HIDE DEF S
  <2>3. PICK m \in S : \A k \in S : m <= k
    BY <2>1, Joins!LeastNatural
  <2>4. Min(S) \in S
    BY <2>3 DEF Min
  <2>5. results[Min(S)].word \in Int
    BY <1>1, <2>2, <2>4
  <2> QED BY <2>5 DEF S
<1> QED BY <1>3, <1>4

LEMMA AnswersThenWords ==
  ASSUME NEW results \in Seq(ResultParts), results # <<>>, NEW words,
         words = <<>> \/ \E w \in Int : words = <<TextPart(w)>>
  PROVE  Turn("user", results \o words) \in ItemMessage
<1> DEFINE U == Spoken("user")
           ps == results \o words
           k == Len(results)
           l == Len(words)
<1>1. ResultParts \subseteq U /\ \A w \in Int : TextPart(w) \in U
  BY DEF ResultParts, Spoken, TextPart, Part, Kinds
<1>2. words \in Seq(U)
  <2>1. CASE words = <<>>
    BY <2>1
  <2>2. CASE \E w \in Int : words = <<TextPart(w)>>
    <3>1. PICK w \in Int : words = <<TextPart(w)>>
      BY <2>2
    <3> DEFINE b == TextPart(w)
    <3>2. b \in U /\ words = <<b>>
      BY <1>1, <3>1
    <3> HIDE DEF b, U
    <3> QED BY <3>2
  <2> QED BY <2>1, <2>2
<1>3. results \in Seq(U) /\ k \in Nat /\ \A p \in 1..k : results[p].kind = "result"
  <2>1. \A p \in 1..k : results[p] \in ResultParts
    OBVIOUS
  <2> QED BY <1>1, <2>1 DEF ResultParts
<1>4. \A p \in 1..l : words[p].kind # "result"
  <2>1. CASE words = <<>>
    BY <2>1
  <2>2. CASE \E w \in Int : words = <<TextPart(w)>>
    <3>1. PICK w \in Int : words = <<TextPart(w)>>
      BY <2>2
    <3>2. l = 1 /\ words[1] = TextPart(w)
      BY <3>1
    <3> HIDE DEF l
    <3> QED BY <3>2 DEF TextPart
  <2> QED BY <2>1, <2>2
<1> HIDE DEF U
<1>5. ps \in Seq(U) /\ ps # <<>>
  BY <1>2, <1>3, TwoLists
<1>6. Leads(ps)
  <2> SUFFICES ASSUME NEW p \in 1..Len(ps), NEW q \in 1..Len(ps),
                      ps[p].kind = "result", ps[q].kind # "result"
               PROVE  p < q
    BY DEF Leads
  <2>1. /\ Len(ps) = k + l /\ l \in Nat
        /\ \A j \in 1..(k + l) : ps[j] = IF j <= k THEN results[j] ELSE words[j - k]
    BY <1>2, <1>3
  <2> HIDE DEF ps, k, l
  <2>2. p <= k
    <3> SUFFICES ASSUME ~(p <= k) PROVE FALSE
      OBVIOUS
    <3>1. p - k \in 1..l
      BY <1>3, <2>1
    <3> QED BY <1>4, <2>1, <3>1
  <2>3. ~(q <= k)
    <3> SUFFICES ASSUME q <= k PROVE FALSE
      OBVIOUS
    <3>1. q \in 1..k
      BY <1>3, <2>1
    <3> QED BY <1>3, <2>1, <3>1
  <2> QED BY <1>3, <2>2, <2>3
<1> HIDE DEF ps
<1>7. Turn("user", ps) \in ItemMessage
  BY <1>5, <1>6, ItemFits DEF U, Roles
<1> QED BY <1>7 DEF ps

LEMMA ToolItem ==
  ASSUME NEW results \in Seq(ResultParts), results # <<>>
  PROVE  Turn("tool", results) \in ItemMessage
<1> DEFINE m == Turn("tool", results)
<1>1. /\ results \in Seq(Part) /\ results \in Seq(Spoken("tool"))
      /\ \A p \in 1..Len(results) : results[p].kind = "result"
  <2>1. ResultParts \subseteq Spoken("tool") /\ ResultParts \subseteq Part
    BY DEF ResultParts, Spoken
  <2>2. \A p \in 1..Len(results) : results[p] \in ResultParts
    OBVIOUS
  <2> QED BY <2>1, <2>2 DEF ResultParts
<1>2. Leads(results) /\ Len(results) > 0
  BY <1>1 DEF Leads
<1>3. m = [role |-> "tool", parts |-> results]
  BY DEF Turn
<1> HIDE DEF m
<1>4. m \in Message /\ m.role = "tool" /\ m.parts = results
  BY <1>1, <1>3 DEF Message, Roles
<1>5. m \in ProperMessage /\ m \in OpenAiMessage
  BY <1>1, <1>2, <1>4 DEF ProperMessage, OpenAiMessage
<1> QED BY <1>4, <1>5 DEF ItemMessage, EitherMessage, m

LEMMA ToolsAnswerInv ==
  ASSUME RequestInv, ToolsAnswer
  PROVE  RequestInv'
<1>1. PICK results \in Answers :
        \E words \in {<<>>} \cup IF OneEach THEN {} ELSE {<<TextPart(Word(3))>>} :
          LET ids   == Ids("result", results)
              given == [i \in ids |-> results[Min({r \in DOMAIN results : results[r].id = i})].word]
          IN  Say(Turn(IF OneEach THEN "tool" ELSE "user", results \o words),
                  [(IF words = <<>> THEN turns ELSE Leave([turns EXCEPT !.open = @ \ ids])) EXCEPT
                     !.open = @ \ ids,
                     !.answers = [i \in ids \cup DOMAIN @ |-> IF i \in ids THEN given[i] ELSE @[i]],
                     !.again = @ \/ ids \ turns.open # {}])
  BY DEF ToolsAnswer
<1> DEFINE ids   == Ids("result", results)
           given == [i \in ids |-> results[Min({r \in DOMAIN results : results[r].id = i})].word]
<1>2. PICK words \in {<<>>} \cup IF OneEach THEN {} ELSE {<<TextPart(Word(3))>>} :
        Say(Turn(IF OneEach THEN "tool" ELSE "user", results \o words),
            [(IF words = <<>> THEN turns ELSE Leave([turns EXCEPT !.open = @ \ ids])) EXCEPT
               !.open = @ \ ids,
               !.answers = [i \in ids \cup DOMAIN @ |-> IF i \in ids THEN given[i] ELSE @[i]],
               !.again = @ \/ ids \ turns.open # {}])
  BY <1>1
<1>3. results \in Seq(ResultParts) /\ results # <<>>
  BY AnswersAre
<1>4. ids \in SUBSET Int /\ \A i \in ids : given[i] \in Int
  BY <1>3, ResultIds
<1>5. TurnsOk(turns)
  BY DEF RequestInv
<1> DEFINE m == Turn(IF OneEach THEN "tool" ELSE "user", results \o words)
           t == IF words = <<>> THEN turns ELSE Leave([turns EXCEPT !.open = @ \ ids])
           v == [i \in ids \cup DOMAIN t.answers |-> IF i \in ids THEN given[i] ELSE t.answers[i]]
           a == t.again \/ ids \ turns.open # {}
           u1 == [t EXCEPT !.open = @ \ ids]
           u2 == [u1 EXCEPT !.answers = v]
           u3 == [u2 EXCEPT !.again = a]
<1>6. m \in ItemMessage /\ (m.role = "tool" => source \in OneMessageEach)
  <2>1. CASE OneEach
    <3>1. words = <<>> /\ results \o words = results
      BY <1>2, <1>3, <2>1
    <3>2. m = Turn("tool", results)
      BY <2>1, <3>1
    <3>3. source \in OneMessageEach
      BY <2>1 DEF OneEach, OneMessageEach
    <3> HIDE DEF m
    <3> QED BY <1>3, <3>2, <3>3, ToolItem
  <2>2. CASE ~OneEach
    <3>1. words = <<>> \/ \E w \in Int : words = <<TextPart(w)>>
      <4>1. Word(3) \in Int
        BY WordIs
      <4> QED BY <1>2, <4>1
    <3>2. m = Turn("user", results \o words)
      BY <2>2
    <3>3. Turn("user", results \o words) \in ItemMessage
      BY <1>3, <3>1, AnswersThenWords
    <3>4. m.role = "user"
      BY <3>2 DEF Turn
    <3> HIDE DEF m
    <3> QED BY <3>2, <3>3, <3>4
  <2> QED BY <2>1, <2>2
<1> HIDE DEF given
<1>7. TurnsOk(t)
  <2>1. turns.open \in FiniteIds
    BY <1>5 DEF TurnsOk
  <2> DEFINE less == turns.open \ ids
             r == [turns EXCEPT !.open = less]
  <2>2. less \in FiniteIds
    BY <2>1, FS_Difference DEF FiniteIds
  <2>3. t = IF words = <<>> THEN turns ELSE Leave(r)
    OBVIOUS
  <2> HIDE DEF less, t, ids
  <2>4. TurnsOk(r)
    BY <1>5, <2>2, TurnsWith DEF TurnFields
  <2> HIDE DEF r
  <2>5. TurnsOk(Leave(r))
    BY <2>4, LeaveOk
  <2> QED BY <1>5, <2>3, <2>5
<1>8. Say(m, u3)
  BY <1>2
<1> HIDE DEF m, t, a, ids
<1>9. TurnsOk(u1) /\ u1.answers = t.answers
  <2> DEFINE less == t.open \ ids
  <2>1. less \in FiniteIds
    BY <1>7, FS_Difference DEF TurnsOk, FiniteIds
  <2>2. u1 = [t EXCEPT !.open = less]
    OBVIOUS
  <2> HIDE DEF less, u1
  <2> QED BY <1>7, <2>1, <2>2, TurnsWith DEF TurnFields
<1>10. AnswersOk(v)
  BY <1>4, <1>7 DEF TurnsOk, AnswersOk
<1> HIDE DEF u1, v
<1>11. TurnsOk(u2)
  BY <1>9, <1>10, TurnsWith DEF TurnFields
<1> HIDE DEF u2
<1>12. TurnsOk(u3)
  BY <1>11, TurnsWith DEF TurnFields
<1> HIDE DEF u3
<1> QED BY <1>6, <1>8, <1>12, SaidIs

LEMMA RequestInvStep == RequestInv /\ [RequestNext]_requestVars => RequestInv'
<1> SUFFICES ASSUME RequestInv, [RequestNext]_requestVars PROVE RequestInv'
  OBVIOUS
<1>1. CASE UNCHANGED requestVars
  BY <1>1 DEF requestVars, RequestInv, ClientBody, TurnsOk
<1>2. CASE RequestNext
  BY <1>2, UserSaysInv, AssistantSaysInv, ToolsAnswerInv DEF RequestNext
<1> QED BY <1>1, <1>2

LEMMA RequestInvInit == RequestInit => RequestInv
<1> SUFFICES ASSUME RequestInit PROVE RequestInv
  OBVIOUS
<1>1. source \in Formats
  BY RequestAssumption DEF RequestInit, Formats
<1>2. ClientBody(source, body)
  <2> DEFINE I == Seq(ItemMessage)
             none == <<>>
  <2>1. none \in I /\ Blank \in Int
    BY DEF Blank
  <2> HIDE DEF I, none
  <2>2. body = [system |-> Blank, messages |-> none]
    BY DEF RequestInit, none
  <2>3. body \in [system : Int, messages : I] /\ body.messages = none
    BY <2>1, <2>2
  <2>4. 1..Len(none) = {}
    BY DEF none
  <2> QED BY <2>3, <2>4 DEF ClientBody, I
<1>3. TurnsOk(turns)
  <2>1. {} \in FiniteIds
    BY FS_EmptySet DEF FiniteIds
  <2>2. AnswersOk(<< >>)
    BY DEF AnswersOk
  <2>3. 0 \in 0..MaxCalls
    BY RequestAssumption
  <2> QED BY <2>1, <2>2, <2>3 DEF RequestInit, TurnsOk, TurnFields
<1> QED BY <1>1, <1>2, <1>3 DEF RequestInv

LEMMA RequestInvHolds == RequestSpec => []RequestInv
BY RequestInvInit, RequestInvStep, PTL DEF RequestSpec

-----------------------------------------------------------------------------
(* What every request is like.                                                *)

(* For a Claude model the roles of neighbouring messages differ, results come *)
(* first and once, and providers that handle thoughts find none that is not   *)
(* signed (DeepSeek does not look) and, when the model is to think about what *)
(* the user says, one with every message that calls.  For a Gemini model the  *)
(* roles of neighbouring contents differ and no content is empty.             *)
WellFormed(t) ==
  /\ t \in TakeTurns /\ Translated(t) => Alternate(Sent(t).messages)
  /\ t \in {"gemini", "antigravity"} /\ Translated(t) =>
       \A j \in DOMAIN Sent(t).messages : Sent(t).messages[j].parts # <<>>
  /\ ResultsComeFirst(t, Sent(t).messages) /\ ResultsAreSingle(t, Sent(t).messages)
  /\ ThoughtsAreSigned(t)

LEMMA DifferAlternate ==
  ASSUME NEW messages, Differ(messages)
  PROVE  Alternate(messages)
BY DEF Differ, Alternate

LEMMA InvWellFormed ==
  ASSUME RequestInv, NEW t
  PROVE  WellFormed(t)
<1>0. source \in Formats /\ ClientBody(source, body)
  BY DEF RequestInv
<1> DEFINE out == Sent(t).messages
<1>1. CASE t = "claude"
  <2>1. out = TranslateRequest(source, "claude", body, "other", FALSE).messages
    BY <1>1 DEF Sent
  <2> HIDE DEF out
  <2> DEFINE no == FALSE
  <2>10. /\ ~HandlesThoughts("other")
         /\ out = TranslateRequest(source, "claude", body, "other", no).messages
    BY <2>1 DEF HandlesThoughts
  <2> HIDE DEF no
  <2>3. out \in Seq(ProperMessage) /\ Differ(out) /\ (Len(out) > 1 => AnsweredOnce(out))
    BY <1>0, <2>10, ClaudeTarget
  <2>11. ResultsAreSingle(t, out)
    <3> SUFFICES ASSUME AnsweredOnce(out), NEW j \in DOMAIN out, NEW k \in 1..j PROVE k \in DOMAIN out
      BY <2>3 DEF ResultsAreSingle, AnsweredOnce
    <3> QED BY <2>3
  <2> DEFINE yes == TRUE
  <2>4. yes
    OBVIOUS
  <2> HIDE DEF yes
  <2>5. ASSUME NEW provider \in {"claude", "compatible", "deepseek"}
        PROVE  ThoughtsFit(provider, TranslateRequest(source, "claude", body, provider, yes).messages)
    <3> DEFINE received == TranslateRequest(source, "claude", body, provider, yes).messages
    <3>1. HandlesThoughts(provider)
      BY DEF HandlesThoughts
    <3>2. /\ received \in Seq(ProperMessage)
          /\ \A j \in 1..Len(received) :
               /\ provider # "deepseek" => Signed(received[j].parts)
               /\ HasPart("call", received[j].parts) /\ Last(received).role = "user"
                  => HasPart("thought", received[j].parts)
      BY <1>0, <2>4, <3>1, ClaudeTarget
    <3> HIDE DEF received
    <3>3. DOMAIN received = 1..Len(received)
      BY <3>2
    <3>4. ThoughtsFit(provider, received)
      BY <3>2, <3>3 DEF ThoughtsFit, Signed
    <3> QED BY <3>4 DEF received
  <2>6. Alternate(out)
    BY <2>3, DifferAlternate
  <2>7. ResultsComeFirst(t, out)
    <3>1. \A j \in DOMAIN out : Leads(out[j].parts) /\ DOMAIN out[j].parts = 1..Len(out[j].parts)
      <4>1. \A j \in DOMAIN out : out[j] \in ProperMessage
        BY <2>3
      <4>2. \A j \in DOMAIN out : out[j].parts \in Seq(Part) /\ Leads(out[j].parts)
        BY <4>1, EveryProper
      <4> QED BY <4>2
    <3> QED BY <3>1 DEF ResultsComeFirst, Leads
  <2>9. ThoughtsAreSigned(t)
    BY <1>1, <2>5 DEF ThoughtsAreSigned, yes
  <2> QED BY <1>1, <2>6, <2>7, <2>9, <2>11 DEF WellFormed, out
<1>2. CASE t \in {"gemini", "antigravity"}
  <2>1. t # "claude"
    BY <1>2
  <2>2. ResultsComeFirst(t, out) /\ ResultsAreSingle(t, out) /\ ThoughtsAreSigned(t)
    BY <2>1 DEF ResultsComeFirst, ResultsAreSingle, ThoughtsAreSigned
  <2>3. ASSUME Translated(t) PROVE Alternate(out) /\ \A j \in DOMAIN out : out[j].parts # <<>>
    <3>1. t # source
      BY <1>2, <2>3 DEF Translated
    <3>2. out = TranslateRequest(source, t, body, "other", FALSE).messages
      BY DEF Sent
    <3> HIDE DEF out
    <3>3. out \in Seq(FullMessage) /\ Differ(out)
      BY <1>0, <1>2, <3>1, <3>2, GeminiTarget
    <3>4. \A j \in DOMAIN out : out[j].parts # <<>>
      <4>1. \A j \in DOMAIN out : out[j] \in FullMessage
        BY <3>3
      <4> QED BY <4>1 DEF FullMessage
    <3> QED BY <3>3, <3>4, DifferAlternate
  <2> QED BY <2>2, <2>3 DEF WellFormed, out
<1>3. CASE t \notin {"claude", "gemini", "antigravity"}
  BY <1>3 DEF WellFormed, TakeTurns, ResultsComeFirst, ResultsAreSingle, ThoughtsAreSigned
<1> QED BY <1>1, <1>2, <1>3

(* Whatever was said so far, a request translated for Claude or Gemini has    *)
(* the shape of WellFormed: prepareClaudeRequest (formats/claude.js) and      *)
(* normalizeGeminiContents (openai-to-gemini.js), run after any converter on  *)
(* any client's conversation, however long and with whichever calls left or   *)
(* answered, leave no two messages of one role together, no result behind     *)
(* other parts of its message, no call with two results, no thought unsigned  *)
(* and no content empty.                                                      *)
THEOREM RequestsAreWellFormed == RequestSpec => [](\A t \in Targets : WellFormed(t))
<1>1. RequestInv => \A t \in Targets : WellFormed(t)
  BY InvWellFormed
<1> QED BY <1>1, RequestInvHolds, PTL
=============================================================================
