------------------------------ MODULE ToOpenAi ------------------------------
(***************************************************************************)
(* The provider's side of the response translation: the events of a        *)
(* Claude, Gemini, Ollama or Responses stream as OpenAI chunks.            *)
(*                                                                         *)
(* A provider's event is [type, n, parts, finish]: parts lists what it     *)
(* carries, in order, "think", "text", "call" (a new tool call), "args";   *)
(* "<think>" and "</think>" are text that is just such a marker; n is the   *)
(* number the event names, of a block, an item or a call.  A chunk has at   *)
(* most one thought, one text and some calls, and may finish; a call may   *)
(* name its id and bring arguments.                                        *)
(*                                                                         *)
(* state is the translator state of the stream, one object that both       *)
(* translators of a request write; toolCalls is a Map in insertion order.  *)
(***************************************************************************)
EXTENDS Integers, Sequences, SequencesExt

None == -1  \* no block

Empty == [think |-> FALSE, text |-> "none", calls |-> <<>>, finish |-> FALSE]
Thought == [Empty EXCEPT !.think = TRUE]
Text(w) == [Empty EXCEPT !.text = w]
Call(i, id, args) == [Empty EXCEPT !.calls = <<[index |-> i, id |-> id, args |-> args]>>]
Finish == [Empty EXCEPT !.finish = TRUE]

ToOpenAiState ==
  [toolCalls |-> <<>>, toolCallIndex |-> 0, serverTool |-> None, thinkingBlock |-> None,
   finishReasonSent |-> FALSE, functionIndex |-> 0, begun |-> FALSE]

Has(map, k) == \E j \in DOMAIN map : map[j].key = k
Get(map, k) == map[CHOOSE j \in DOMAIN map : map[j].key = k].value
Put(map, k, v) ==
  IF Has(map, k) THEN [j \in DOMAIN map |-> IF map[j].key = k THEN [map[j] EXCEPT !.value = v] ELSE map[j]]
  ELSE Append(map, [key |-> k, value |-> v])

\* What a handler returns: the chunks and the state it leaves.
Yield(chunks, s) == [chunks |-> chunks, state |-> s]
FinishOnce(s) ==
  IF s.finishReasonSent THEN Yield(<<>>, s)
  ELSE Yield(<<Finish>>, [s EXCEPT !.finishReasonSent = TRUE])

-----------------------------------------------------------------------------
\* Mutant: message_delta leaves the finish to message_stop as well.
ClaudeFinishesTwice(e, s) ==
  CASE e.type = "message_start" -> Yield(<<Empty>>, s)
    [] e.type = "message_delta" -> Yield(IF e.finish THEN <<Finish>> ELSE <<>>, s)
    [] e.type = "message_stop" -> FinishOnce(s)
    [] OTHER -> Yield(<<>>, s)

(* claudeToOpenAIResponse.  Thinking is put between markers; a block of a     *)
(* server tool is not passed on.                                              *)
ClaudeToOpenAi(e, s) ==
  CASE e.type = "message_start" ->
         Yield(<<Empty>>, [s EXCEPT !.toolCallIndex = 0])
    [] e.type = "server_start" -> Yield(<<>>, [s EXCEPT !.serverTool = e.n])
    [] e.type = "text_start" -> Yield(<<>>, s)
    [] e.type = "think_start" -> Yield(<<Text("<think>")>>, [s EXCEPT !.thinkingBlock = e.n])
    [] e.type = "call_start" ->
         Yield(<<Call(s.toolCallIndex, TRUE, FALSE)>>,
               [s EXCEPT !.toolCallIndex = @ + 1,
                         !.toolCalls = Put(@, e.n, s.toolCallIndex)])
    [] e.type = "delta" /\ e.n = s.serverTool -> Yield(<<>>, s)
    [] e.type = "delta" /\ e.n # s.serverTool ->
         Yield(CASE e.parts = <<"text">> -> <<Text("text")>>
                 [] e.parts = <<"think">> -> <<Thought>>
                 [] OTHER -> IF Has(s.toolCalls, e.n)
                             THEN <<Call(Get(s.toolCalls, e.n), TRUE, TRUE)>> ELSE <<>>, s)
    [] e.type = "stop" ->
         IF e.n = s.serverTool THEN Yield(<<>>, [s EXCEPT !.serverTool = None])
         ELSE IF e.n = s.thinkingBlock
         THEN Yield(<<Text("</think>")>>, [s EXCEPT !.thinkingBlock = None])
         ELSE Yield(<<>>, s)
    [] e.type = "message_delta" ->
         IF e.finish THEN Yield(<<Finish>>, [s EXCEPT !.finishReasonSent = TRUE])
         ELSE Yield(<<>>, s)
    [] e.type = "message_stop" -> FinishOnce(s)

(* geminiToOpenAIResponse: one chunk per part, and a final one whenever the   *)
(* candidate names a finish reason.                                           *)
GeminiPart(y, part) ==
  IF part = "call"
  THEN Yield(Append(y.chunks, Call(y.state.functionIndex, TRUE, TRUE)),
             [y.state EXCEPT !.functionIndex = @ + 1])
  ELSE Yield(Append(y.chunks, IF part = "think" THEN Thought ELSE Text("text")), y.state)

GeminiToOpenAi(e, s) ==
  LET begin == Yield(IF s.begun THEN <<>> ELSE <<Empty>>, [s EXCEPT !.begun = TRUE])
      body == FoldLeft(GeminiPart, begin, e.parts)
  IN  IF e.finish THEN Yield(Append(body.chunks, Finish), body.state) ELSE body

(* ollamaToOpenAIResponse: the calls of a message are numbered from zero,     *)
(* those of the next message again.                                           *)
OllamaToOpenAi(e, s) ==
  LET calls == {j \in DOMAIN e.parts : e.parts[j] = "call"}
  IN  Yield(IF e.finish THEN <<Finish>>
            ELSE <<[think |-> Contains(e.parts, "think"),
                    text |-> IF Contains(e.parts, "text") THEN "text" ELSE "none",
                    calls |-> [k \in 1..Cardinality(calls) |-> [index |-> k - 1, id |-> TRUE, args |-> TRUE]],
                    finish |-> FALSE]>>, s)

\* Mutant: the number moves on when the item is added.
ResponsesCountsEarly(e, s0) ==
  LET s == [s0 EXCEPT !.begun = TRUE]
  IN  CASE e.type = "item_added" ->
             Yield(<<Call(s.toolCallIndex, TRUE, FALSE)>>, [s EXCEPT !.toolCallIndex = @ + 1])
        [] e.type = "args" -> Yield(<<Call(s.toolCallIndex, FALSE, TRUE)>>, s)
        [] e.type = "completed" -> FinishOnce(s)
        [] OTHER -> Yield(<<>>, s)

(* openaiResponsesToOpenAIResponse: a call's arguments belong to the item     *)
(* that was added last; the first terminal event counts.                      *)
ResponsesToOpenAi(e, s0) ==
  LET s == [s0 EXCEPT !.begun = TRUE]
  IN  CASE e.type = "text" -> Yield(<<Text("text")>>, s)
        [] e.type = "think" -> Yield(<<Thought>>, s)
        [] e.type = "item_added" -> Yield(<<Call(s.toolCallIndex, TRUE, FALSE)>>, s)
        [] e.type = "args" -> Yield(<<Call(s.toolCallIndex, FALSE, TRUE)>>, s)
        [] e.type = "item_done" -> Yield(<<>>, [s EXCEPT !.toolCallIndex = @ + 1])
        [] e.type = "completed" -> FinishOnce(s)
        [] e.type = "failed" ->
             IF s.finishReasonSent THEN Yield(<<>>, s)
             ELSE Yield(<<[Text("text") EXCEPT !.finish = TRUE]>>,
                        [s EXCEPT !.finishReasonSent = TRUE])

(* An OpenAI stream needs no first translator; only a call's first piece has   *)
(* its id.                                                                    *)
AsChunk(e) ==
  LET words == {w \in {"text", "<think>", "</think>"} : Contains(e.parts, w)}
      new   == Contains(e.parts, "call")
  IN  [think |-> Contains(e.parts, "think"),
       text |-> IF words = {} THEN "none" ELSE CHOOSE w \in words : TRUE,
       calls |-> IF new \/ Contains(e.parts, "args")
                 THEN <<[index |-> e.n, id |-> new, args |-> TRUE]>> ELSE <<>>,
       finish |-> e.finish]

ToOpenAi(format, e, s) ==
  CASE format = "openai" -> Yield(<<AsChunk(e)>>, s)
    [] format = "claude" -> ClaudeToOpenAi(e, s)
    [] format = "gemini" -> GeminiToOpenAi(e, s)
    [] format = "ollama" -> OllamaToOpenAi(e, s)
    [] format = "responses" -> ResponsesToOpenAi(e, s)

(* The end of the stream: only the Responses translator has something left.   *)
FlushToOpenAi(format, s) ==
  IF format = "responses" /\ s.begun THEN FinishOnce(s) ELSE Yield(<<>>, s)
=============================================================================
