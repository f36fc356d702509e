--------------------------- MODULE TranslatedStream ---------------------------
(***************************************************************************)
(* A translated response stream: the provider's events go through          *)
(* translateResponse one by one, first to OpenAI chunks, then to the       *)
(* client's format, and the client reads what came out.  The provider may  *)
(* stop at any point without finishing.                                    *)
(***************************************************************************)
EXTENDS FromOpenAi

CONSTANTS
  Formats,    \* provider formats looked at
  MaxEvents,  \* bound: MaxEvents[f] events of a provider of format f
  Clients     \* client formats looked at

ASSUME StreamAssumption ==
  /\ MaxEvents \in [Formats -> Nat]
  /\ Formats \subseteq {"openai", "claude", "gemini", "ollama", "responses"}
  /\ Clients \subseteq {"openai", "claude", "responses"}

VARIABLES
  format,  \* of the provider
  client,  \* format of the client
  state,   \* of the translators, and what they have emitted
  said,    \* what the provider has said so far
  view     \* what the client has read

vars == <<format, client, state, said, view>>

\* A stream between equal formats is passed on, not translated.
Init ==
  /\ format \in Formats /\ client \in Clients /\ format # client
  /\ state = Both([out |-> <<>>], Both(ToOpenAiState, Both(ToClaudeState, ToResponsesState)))
  /\ said = [events |-> 0, text |-> 0, think |-> 0, calls |-> 0, block |-> "none",
             number |-> 0, stage |-> "new", cut |-> "no", left |-> {}, resumed |-> FALSE,
             marked |-> FALSE, buried |-> FALSE]
  /\ view = [status |-> "waiting", ends |-> 0, parts |-> << >>, text |-> 0, think |-> 0,
             stray |-> FALSE]

-----------------------------------------------------------------------------
(* What the providers send.  Stages of a stream: new, body, delta (a Claude   *)
(* message_delta), finished, over (the connection is at its end).             *)
E(type, n, parts, finish) == [type |-> type, n |-> n, parts |-> parts, finish |-> finish]

Parts == {<<"think">>, <<"text">>, <<"call">>, <<"text", "call">>, <<"call", "call">>}

(* OpenAI-compatible providers: chunks that combine thought, text and call,   *)
(* arguments sent in pieces, thinking between markers, a finish that is       *)
(* repeated or comes with the last words.                                     *)
OpenAiEvents ==
  [type : {"chunk"}, n : {said.calls},
   parts : {<<>>, <<"think">>, <<"text">>, <<"<think>">>, <<"</think>">>, <<"call">>,
            <<"think", "text">>, <<"text", "call">>},
   finish : BOOLEAN]
  \cup [type : {"chunk"}, n : 0..(said.calls - 1), parts : {<<"args">>}, finish : {FALSE}]

(* Claude: blocks one after the other.                                        *)
ClaudeEvents ==
  CASE said.stage = "new" -> {E("message_start", 0, <<>>, FALSE)}
    [] said.stage = "body" /\ said.block = "none" ->
         {E(t, said.number, IF t = "call_start" THEN <<"call">> ELSE <<>>, FALSE) :
             t \in {"text_start", "think_start", "call_start", "server_start"}}
         \cup {E("message_delta", 0, <<>>, f) : f \in BOOLEAN}
    [] said.stage = "body" /\ said.block # "none" ->
         {E("stop", said.number, IF said.block = "think" THEN <<"</think>">> ELSE <<>>, FALSE),
          E("delta", said.number,
            CASE said.block = "call" -> <<"args">>
              [] said.block = "server" -> <<>>
              [] OTHER -> <<said.block>>, FALSE)}
    [] said.stage = "delta" -> {E("message_stop", 0, <<>>, TRUE)}
    [] OTHER -> {}

(* Gemini: chunks of parts, any of which may name a finish reason.            *)
GeminiEvents == {E("candidate", 0, p, f) : p \in Parts \cup {<<>>}, f \in BOOLEAN}

(* Ollama: messages until one is done.                                        *)
OllamaEvents ==
  IF said.stage = "finished" THEN {}
  ELSE {E("message", 0, p, FALSE) : p \in Parts} \cup {E("message", 0, <<>>, TRUE)}

(* Responses: items one after the other; an error is followed by              *)
(* response.failed, and what it says is text.                                 *)
ResponsesEvents ==
  IF said.stage = "finished" THEN {E("failed", 0, <<>>, TRUE), E("completed", 0, <<>>, TRUE)}
  ELSE IF said.block = "call"
  THEN {E("args", 0, <<"args">>, FALSE), E("item_done", 0, <<>>, FALSE)}
  ELSE {E("text", 0, <<"text">>, FALSE), E("think", 0, <<"think">>, FALSE),
        E("item_added", 0, <<"call">>, FALSE), E("completed", 0, <<>>, TRUE),
        E("failed", 0, <<"text">>, TRUE)}

Events ==
  CASE format = "openai" -> OpenAiEvents
    [] format = "claude" -> ClaudeEvents
    [] format = "gemini" -> GeminiEvents
    [] format = "ollama" -> OllamaEvents
    [] format = "responses" -> ResponsesEvents

(* The record of what was said, kept up to the first finish.  A provider that *)
(* returns to text after a tool call, to thinking it had closed, or to        *)
(* anything after its finish resumes what it had left; a call that shares a   *)
(* chunk with words between the markers is buried.                            *)
Leaves(p) ==
  CASE p = "call" -> {"text"}
    [] p = "</think>" -> {"think", "<think>"}
    [] OTHER -> {}

SayPart(t, p) ==
  [t EXCEPT !.text = IF p \in {"text", "<think>", "</think>"} THEN @ + 1 ELSE @,
            !.think = IF p = "think" THEN @ + 1 ELSE @,
            !.calls = IF p = "call" THEN @ + 1 ELSE @,
            !.resumed = @ \/ p \in t.left,
            !.marked = IF p = "<think>" THEN TRUE ELSE IF p = "</think>" THEN FALSE ELSE @,
            !.left = @ \cup Leaves(p)]

OpensBlock(e) == e.type \in {"text_start", "think_start", "call_start", "server_start", "item_added"}

Said(e) ==
  LET t == IF said.stage # "finished" THEN FoldLeft(SayPart, said, e.parts)
           ELSE [said EXCEPT !.resumed = @ \/ e.parts # <<>>]
  IN  [t EXCEPT
         !.events = @ + 1,
         !.buried = @ \/ (said.marked /\ e.parts = <<"text", "call">>),
         !.number = IF e.type = "stop" THEN @ + 1 ELSE @,
         !.block = CASE OpensBlock(e) -> (CASE e.type = "text_start" -> "text"
                                            [] e.type = "think_start" -> "think"
                                            [] e.type = "server_start" -> "server"
                                            [] OTHER -> "call")
                     [] e.type \in {"stop", "item_done"} -> "none"
                     [] OTHER -> @,
         !.stage = IF e.type = "message_delta" THEN "delta"
                   ELSE IF e.finish THEN "finished"
                   ELSE IF @ = "new" THEN "body" ELSE @]

-----------------------------------------------------------------------------
(* translateResponse: every chunk of the first translator goes through the    *)
(* second one; nothing from the first means nothing for the second.           *)
Translate(y) == FoldLeft(LAMBDA s, c : FromOpenAi(client, c, s), y.state, y.chunks)

Provide ==
  /\ state.out = <<>> /\ said.stage # "over" /\ said.events < MaxEvents[format]
  /\ \E e \in Events :
       /\ state' = Translate(ToOpenAi(format, e, state))
       /\ said' = Said(e)
  /\ UNCHANGED <<format, client, view>>

\* Mutant: the end of the stream is not translated.
AtEndNothing == state

(* The flush at the end of the stream: a null chunk takes the same way, so it *)
(* reaches the second translator only where there is no first one.            *)
AtEnd ==
  IF format = "openai" /\ client = "responses" THEN FlushResponses(state)
  ELSE Translate(FlushToOpenAi(format, state))

EndOfStream ==
  /\ state.out = <<>> /\ said.stage # "over"
  /\ state' = AtEnd
  /\ said' = [said EXCEPT !.stage = "over", !.cut = said.stage]
  /\ UNCHANGED <<format, client, view>>

(* What a client c with view v has read after one more event.                  *)
Part(c, ev) == [kind |-> IF c = "claude" THEN "block" ELSE ev.kind, n |-> ev.n]

Hits(c, v, ev) == v.status = "open" /\ Part(c, ev) \in DOMAIN v.parts
                  /\ v.parts[Part(c, ev)].state # "closed"

InPlace(c, v, ev) ==
  CASE ev.type = "start" -> v.status = "waiting"
    [] ev.type = "end" -> v.status = "open"
    [] ev.type = "open" -> v.status = "open" /\ Part(c, ev) \notin DOMAIN v.parts
    [] ev.type \in {"delta", "args", "close"} -> Hits(c, v, ev)

Opened(c, v, ev) ==
  [p \in DOMAIN v.parts \cup {Part(c, ev)} |->
     IF p = Part(c, ev) THEN [kind |-> ev.kind, state |-> "open"] ELSE v.parts[p]]

Mark(c, v, ev, st) ==
  IF Part(c, ev) \in DOMAIN v.parts THEN [v.parts EXCEPT ![Part(c, ev)].state = st]
  ELSE v.parts

Seen(c, v, ev) ==
  [status |-> CASE ev.type = "start" -> "open" [] ev.type = "end" -> "ended" [] OTHER -> v.status,
   ends   |-> IF ev.type = "end" THEN v.ends + 1 ELSE v.ends,
   parts  |-> CASE ev.type = "open" -> Opened(c, v, ev)
                [] ev.type = "args" -> Mark(c, v, ev, "filled")
                [] ev.type = "close" -> Mark(c, v, ev, "closed")
                [] OTHER -> v.parts,
   text   |-> IF ev.type = "delta" /\ ev.kind = "text" THEN v.text + 1 ELSE v.text,
   think  |-> IF ev.type = "delta" /\ ev.kind = "think" THEN v.think + 1 ELSE v.think,
   stray  |-> v.stray \/ (c # "openai" /\ ~InPlace(c, v, ev))]

Read ==
  /\ state.out # <<>>
  /\ state' = [state EXCEPT !.out = Tail(@)]
  /\ view' = Seen(client, view, Head(state.out))
  /\ UNCHANGED <<format, client, said>>

Next == Provide \/ EndOfStream \/ Read

Spec == Init /\ [][Next]_vars

-----------------------------------------------------------------------------
TypeOK ==
  /\ state.toolArgBuffers \subseteq {state.toolCalls[j].key : j \in DOMAIN state.toolCalls}
  /\ state.done \subseteq state.added
  /\ {state.msgItem, state.reasoning} \subseteq {"none", "added", "done"}
  /\ \A j \in DOMAIN state.out : state.out[j] \in
       [type : {"start", "open", "delta", "args", "close", "end"},
        kind : {"none", "text", "think", "call"}, n : Nat]

\* Whatever was said has been translated and read.
Caught == state.out = <<>>

(* A Claude client gets a proper Claude message from every provider, whatever *)
(* the provider mixes, repeats or leaves open: blocks numbered one by one,    *)
(* the arguments of a tool once, every block closed before the end, nothing   *)
(* opened after it.                                                           *)
messageStatus == IF client = "claude" THEN view.status ELSE "waiting"
messageBlocks ==
  IF client = "claude"
  THEN [n \in {p.n : p \in DOMAIN view.parts} |-> view.parts[[kind |-> "block", n |-> n]]]
  ELSE << >>

Message == INSTANCE ClaudeMessage WITH status <- messageStatus, blocks <- messageBlocks
ClaudeMessages == Message!Spec

(* A Claude client reads all the words said up to the finish, those that share *)
(* a chunk with a thought, a call or the finish too.                           *)
WordsArrive ==
  Caught /\ client = "claude" => view.text = said.text /\ view.think = said.think

(* A tool call is a part of its own at the client, and done at the end, with  *)
(* one exception: Ollama calls of different messages share their numbers.     *)
CallParts == {p \in DOMAIN view.parts : view.parts[p].kind = "call"}
CallsArriveWhole ==
  Caught /\ client # "openai" /\ format # "ollama" /\ view.status = "ended" /\ ~said.resumed /\ ~said.buried
    => /\ Cardinality(CallParts) = said.calls
       /\ \A p \in CallParts : view.parts[p].state = "closed"

(* A client is never told of something it cannot place: a delta for a part    *)
(* that is not open, a part opened or closed twice, anything before the start *)
(* or after the end.  The exceptions are Responses clients of a provider that *)
(* has resumed what it had left, or that closed without an event.             *)
StraysAreResumed ==
  view.stray => client = "responses" /\ (said.resumed \/ said.events = 0)

(* When a Responses client is told that the response is completed, every item *)
(* it was told of is done.                                                    *)
CompletedIsComplete ==
  client = "responses" /\ view.status = "ended" /\ ~said.resumed
    => \A p \in DOMAIN view.parts : view.parts[p].state = "closed"

(* From Claude and Responses providers the client gets one end, however the   *)
(* provider words its own: message_delta with or without a stop reason,       *)
(* completed, an error and then response.failed.                              *)
OneEnd == format \in {"claude", "responses"} => view.ends <= 1

(* A client learns of the end: when the provider has finished, and where the  *)
(* flush reaches the last translator also when it has not.                    *)
EndIsTold ==
  (/\ Caught /\ said.stage = "over"
   /\ \/ said.cut = "finished"
      \/ said.cut # "new" /\ format = "responses"
      \/ said.cut # "new" /\ format = "openai" /\ client = "responses")
  => view.ends >= 1

(* What the provider said reaches the client, words and calls. *)
NothingSaidIsLost == WordsArrive /\ CallsArriveWhole

(* What the client reads is one message: nothing stray, and one end, when     *)
(* there is one, with everything done.                                        *)
ReadsAsOneMessage == StraysAreResumed /\ CompletedIsComplete /\ OneEnd /\ EndIsTold

(* The client reads what the provider said, as one message.                   *)
ClientReadsWhatWasSaid == NothingSaidIsLost /\ ReadsAsOneMessage
===============================================================================
