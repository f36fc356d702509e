----------------------------- MODULE FromOpenAi -----------------------------
(***************************************************************************)
(* The client's side of the response translation: OpenAI chunks as the     *)
(* events of a Claude message or of a Responses stream.  Each handler runs *)
(* through a chunk in a fixed order, thought, text, tool calls, finish,    *)
(* and appends what it emits to state.out.                                 *)
(*                                                                         *)
(* An event is [type, kind, n]: n numbers a Claude block or an OpenAI tool *)
(* call.  The text of a Responses item goes with the item: its content     *)
(* part and summary part are opened and closed with it.                    *)
(***************************************************************************)
EXTENDS ToOpenAi

Event(type, kind, n) == [type |-> type, kind |-> kind, n |-> n]
Emit(s, type, kind, n) == [s EXCEPT !.out = Append(@, Event(type, kind, n))]

Both(f, g) == [x \in DOMAIN f \cup DOMAIN g |-> IF x \in DOMAIN f THEN f[x] ELSE g[x]]

-----------------------------------------------------------------------------
(* openaiToClaudeResponse.                                                    *)
ToClaudeState ==
  [messageStartSent |-> FALSE, nextBlockIndex |-> 0, thinkingBlockIndex |-> None,
   textBlockIndex |-> None, toolArgBuffers |-> {}, responseFinished |-> FALSE]

MessageStart(s) ==
  IF s.messageStartSent THEN s
  ELSE Emit([s EXCEPT !.messageStartSent = TRUE, !.nextBlockIndex = 0], "start", "none", 0)

StopThinkingBlock(s) ==
  IF s.thinkingBlockIndex = None THEN s
  ELSE [Emit(s, "close", "think", s.thinkingBlockIndex) EXCEPT !.thinkingBlockIndex = None]

StopTextBlock(s) ==
  IF s.textBlockIndex = None THEN s
  ELSE [Emit(s, "close", "text", s.textBlockIndex) EXCEPT !.textBlockIndex = None]

StartThinkingBlock(s) ==
  IF s.thinkingBlockIndex # None THEN s
  ELSE [Emit(s, "open", "think", s.nextBlockIndex)
          EXCEPT !.thinkingBlockIndex = s.nextBlockIndex, !.nextBlockIndex = @ + 1]

StartTextBlock(s) ==
  IF s.textBlockIndex # None THEN s
  ELSE [Emit(s, "open", "text", s.nextBlockIndex)
          EXCEPT !.textBlockIndex = s.nextBlockIndex, !.nextBlockIndex = @ + 1]

ClaudeThought(s) ==
  LET t == StartThinkingBlock(StopTextBlock(s))
  IN  Emit(t, "delta", "think", t.thinkingBlockIndex)

ClaudeText(s) ==
  LET t == StartTextBlock(StopThinkingBlock(s))
  IN  Emit(t, "delta", "text", t.textBlockIndex)

\* Mutant: the text block stays open beside the call.
StartToolBlockBeside(s, i) ==
  IF Has(s.toolCalls, i) THEN s
  ELSE LET t == StopThinkingBlock(s)
       IN  [Emit(t, "open", "call", t.nextBlockIndex)
              EXCEPT !.toolCalls = Put(@, i, t.nextBlockIndex), !.nextBlockIndex = @ + 1]

StartToolBlock(s, i) ==
  IF Has(s.toolCalls, i) THEN s
  ELSE LET t == StopTextBlock(StopThinkingBlock(s))
       IN  [Emit(t, "open", "call", t.nextBlockIndex)
              EXCEPT !.toolCalls = Put(@, i, t.nextBlockIndex), !.nextBlockIndex = @ + 1]

\* The arguments are kept back until the end.
ClaudeCall(s, call) ==
  LET t == StartToolBlock(s, call.index)
  IN  IF call.args THEN [t EXCEPT !.toolArgBuffers = @ \cup {call.index}] ELSE t

StopToolBlock(s, entry) ==
  Emit(IF entry.key \in s.toolArgBuffers THEN Emit(s, "args", "call", entry.value) ELSE s,
       "close", "call", entry.value)

ClaudeFinish(s) ==
  LET t == StopTextBlock(StopThinkingBlock([s EXCEPT !.responseFinished = TRUE]))
  IN  Emit(FoldLeft(StopToolBlock, t, t.toolCalls), "end", "none", 0)

\* Mutant: a chunk that finishes is looked at for its finish only.
OpenAiToClaudeFinishFirst(chunk, s) ==
  IF s.responseFinished THEN s
  ELSE LET started == MessageStart(s)
           text == IF chunk.text # "none" THEN ClaudeText(started) ELSE started
       IN  IF chunk.finish THEN ClaudeFinish(started)
           ELSE FoldLeft(ClaudeCall, text, chunk.calls)

OpenAiToClaude(chunk, s) ==
  IF s.responseFinished THEN s
  ELSE LET started == MessageStart(s)
           thought == IF chunk.think THEN ClaudeThought(started) ELSE started
           text == IF chunk.text # "none" THEN ClaudeText(thought) ELSE thought
           calls == FoldLeft(ClaudeCall, text, chunk.calls)
       IN  IF chunk.finish THEN ClaudeFinish(calls) ELSE calls

-----------------------------------------------------------------------------
(* openaiToOpenAIResponsesResponse.  There is one message item, one reasoning *)
(* item, and an item per tool call, each added and done once.                 *)
ToResponsesState ==
  [started |-> FALSE, msgItem |-> "none", reasoning |-> "none", inThinking |-> FALSE,
   added |-> {}, done |-> {}, completedSent |-> FALSE]

Created(s) ==
  IF s.started THEN s ELSE Emit([s EXCEPT !.started = TRUE], "start", "none", 0)

StartReasoning(s) ==
  IF s.reasoning # "none" THEN s
  ELSE Emit([s EXCEPT !.reasoning = "added"], "open", "think", 0)

\* Mutant: reasoning without a closing marker is never done.
LeaveReasoning(s) == s

CloseReasoning(s) ==
  IF s.reasoning # "added" THEN s
  ELSE Emit([s EXCEPT !.reasoning = "done"], "close", "think", 0)

CloseMessage(s) ==
  IF s.msgItem # "added" THEN s
  ELSE Emit([s EXCEPT !.msgItem = "done"], "close", "text", 0)

ReasoningDelta(s) == Emit(s, "delta", "think", 0)

EmitTextContent(s) ==
  Emit(IF s.msgItem # "none" THEN s
       ELSE Emit([s EXCEPT !.msgItem = "added"], "open", "text", 0),
       "delta", "text", 0)

ResponsesThought(s) == ReasoningDelta(StartReasoning(s))

ResponsesText(s, w) ==
  CASE w = "<think>" -> StartReasoning([s EXCEPT !.inThinking = TRUE])
    [] w = "</think>" -> CloseReasoning([s EXCEPT !.inThinking = FALSE])
    [] w = "text" -> IF s.inThinking THEN ReasoningDelta(s) ELSE EmitTextContent(s)

\* Mutant: every chunk of a call adds its item.
EmitToolCallAgain(s, call) ==
  LET t == Emit([s EXCEPT !.added = @ \cup {call.index}], "open", "call", call.index)
  IN  IF call.args THEN Emit(t, "args", "call", call.index) ELSE t

\* Without an id nothing is added, and arguments of what was not are dropped.
EmitToolCall(s, call) ==
  LET t == IF call.index \in s.added \/ ~call.id THEN s
           ELSE Emit([s EXCEPT !.added = @ \cup {call.index}], "open", "call", call.index)
  IN  IF call.args /\ call.index \in t.added THEN Emit(t, "args", "call", call.index) ELSE t

CloseToolCall(s, i) ==
  IF i \notin s.added \/ i \in s.done THEN s
  ELSE Emit([s EXCEPT !.done = @ \cup {i}], "close", "call", i)

SendCompleted(s) ==
  IF s.completedSent THEN s
  ELSE Emit([s EXCEPT !.completedSent = TRUE], "end", "none", 0)

\* `for ... in' goes through the numbers of the calls in ascending order.
Upwards(S) == IF S = {} THEN <<>> ELSE [k \in 1..(Max(S) + 1) |-> k - 1]

CloseAll(s) ==
  SendCompleted(FoldLeft(CloseToolCall, CloseReasoning(CloseMessage(s)),
                         Upwards(s.added)))

ResponsesCalls(s, calls) ==
  IF calls = <<>> THEN s ELSE FoldLeft(EmitToolCall, CloseMessage(s), calls)

\* Inside thinking text the rest of the chunk, its finish too, is not looked at.
OpenAiToResponses(chunk, s) ==
  LET started == Created(s)
      thought == IF chunk.think THEN ResponsesThought(started) ELSE started
      text == IF chunk.text # "none" THEN ResponsesText(thought, chunk.text) ELSE thought
      calls == ResponsesCalls(text, chunk.calls)
  IN  IF chunk.text = "text" /\ s.inThinking THEN text
      ELSE IF chunk.finish THEN CloseAll(calls) ELSE calls

\* flushEvents
FlushResponses(s) == IF s.completedSent THEN s ELSE CloseAll(s)

-----------------------------------------------------------------------------
(* An OpenAI client gets the chunks; only their finish is looked at here.     *)
PassChunk(chunk, s) == IF chunk.finish THEN Emit(s, "end", "none", 0) ELSE s

FromOpenAi(client, chunk, s) ==
  CASE client = "openai" -> PassChunk(chunk, s)
    [] client = "claude" -> OpenAiToClaude(chunk, s)
    [] client = "responses" -> OpenAiToResponses(chunk, s)
=============================================================================
