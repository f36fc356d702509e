-------------------------- MODULE RequestTranslation --------------------------
(***************************************************************************)
(* translateRequest: requests of every client format as OpenAI messages,   *)
(* these as requests of every provider format, and what is done at the end *)
(* for OpenAI and Claude providers.  The result is a body: its             *)
(* instructions are a sequence of words, since some formats hold several.  *)
(***************************************************************************)
EXTENDS Conversation

\* What is pushed for the instructions of a body, when they say something.
Instructed(system) == IF system = Blank THEN <<>> ELSE <<Turn("system", <<TextPart(system)>>)>>

-----------------------------------------------------------------------------
(* Claude.  A system message in mid-conversation becomes a user message; a    *)
(* message of role tool is an answer the router put in, and its content is a  *)
(* string, so it is an empty user message.  Thoughts are left behind.         *)
ToolMessages(parts) ==
  LET results == Of("result", parts)
  IN  [r \in DOMAIN results |-> ToolMessage(results[r].id, results[r].word)]

UserAfter(parts) == IF parts = <<>> THEN <<>> ELSE <<Turn("user", parts)>>

\* Mutant: the words beside tool results are dropped.
ResultsAlone(m) == ToolMessages(m.parts)

ResultsAndWords(m) == ToolMessages(m.parts) \o UserAfter(Of("text", m.parts))

ConvertClaudeMessage(m) ==
  LET words == Of("text", m.parts)
      calls == Of("call", m.parts)
  IN  CASE m.role = "system" -> UserAfter(Wordy(m.parts))
        [] m.role = "tool" -> <<Turn("user", <<TextPart(Blank)>>)>>
        [] m.role \notin {"system", "tool"} /\ HasPart("result", m.parts) -> ResultsAndWords(m)
        [] m.role \notin {"system", "tool"} /\ ~HasPart("result", m.parts) ->
             IF calls # <<>> THEN <<Turn("assistant", words \o calls)>>
             ELSE IF words # <<>> THEN <<Turn(m.role, words)>>
             ELSE <<>>

ClaudeToOpenAiRequest(body) ==
  FixMissingToolResponsesOpenAI(
    Instructed(body.system) \o FlatMap(ConvertClaudeMessage, body.messages))

-----------------------------------------------------------------------------
(* Gemini.  A content with function responses becomes one tool message, for   *)
(* the first of them.  A response is sent on as JSON, so an empty one is not  *)
(* empty any more.                                                            *)
AsJson(r) == ToolMessage(r.id, IF r.word = Blank THEN MadeUp ELSE r.word)

ConvertGeminiContent(m) ==
  LET words == Of("text", m.parts)
      calls == Of("call", m.parts)
  IN  IF HasPart("result", m.parts) THEN <<AsJson(Of("result", m.parts)[1])>>
      ELSE IF calls # <<>> THEN <<Turn("assistant", words \o calls)>>
      ELSE IF words # <<>> THEN <<Turn(m.role, words)>>
      ELSE <<>>

GeminiToOpenAiRequest(body) ==
  Instructed(body.system) \o FlatMap(ConvertGeminiContent, body.messages)

(* Antigravity.  Every function response becomes a tool message; the rest of  *)
(* the content follows them as an assistant message.                          *)
ConvertContent(m) ==
  LET results == Of("result", m.parts)
      rest    == Of("thought", m.parts) \o Wordy(m.parts) \o Of("call", m.parts)
      role    == IF results # <<>> \/ HasPart("call", m.parts) THEN "assistant" ELSE m.role
  IN  [r \in DOMAIN results |-> AsJson(results[r])]
      \o (IF rest = <<>> THEN <<>> ELSE <<Turn(role, rest)>>)

AntigravityToOpenAiRequest(body) ==
  Instructed(body.system) \o FlatMap(ConvertContent, body.messages)

-----------------------------------------------------------------------------
(* Responses.  Function calls in a row make one assistant message, which is   *)
(* flushed by the next message or output; a thought is kept for the next      *)
(* message or call of the assistant and forgotten when another speaks.        *)
FlushCalls(s) ==
  [s EXCEPT !.messages = @ \o s.calls, !.calls = <<>>]

\* Mutant: outputs do not flush the calls they answer.
KeepCalls(s) == s

FlushBeforeOutput(s) == FlushCalls(s)

\* One item.  Thoughts in a row become one (and say nothing here): it goes with
\* what the assistant says or calls next.
ResponsesItem(s, item) ==
  CASE HasPart("thought", item.parts) -> [s EXCEPT !.thought = item.parts]
    [] HasPart("result", item.parts) ->
         LET t == FlushBeforeOutput(s) IN [t EXCEPT !.messages = Append(@, item)]
    [] HasPart("call", item.parts) ->
         IF s.calls = <<>>
         THEN [s EXCEPT !.calls = <<Turn("assistant", s.thought \o item.parts)>>, !.thought = <<>>]
         ELSE [s EXCEPT !.calls[1].parts = @ \o item.parts]
    [] HasPart("text", item.parts) ->
         LET t == FlushCalls(s)
             thought == IF item.role = "assistant" THEN s.thought ELSE <<>>
         IN  [t EXCEPT !.messages = Append(@, Turn(item.role, thought \o item.parts)),
                       !.thought = <<>>]

\* Providers want a user message: an empty input becomes one that says "...".
NormalizeResponsesInput(items) ==
  IF items = <<>> THEN <<Turn("user", <<TextPart(MadeUp)>>)>> ELSE items

ResponsesToOpenAiRequest(body) ==
  FlushCalls(FoldLeft(ResponsesItem,
                      [messages |-> Instructed(body.system), calls |-> <<>>, thought |-> <<>>],
                      NormalizeResponsesInput(body.messages))).messages

-----------------------------------------------------------------------------
RequestToOpenAi(source, body) ==
  CASE source = "openai" -> body.messages
    [] source = "claude" -> ClaudeToOpenAiRequest(body)
    [] source = "gemini" -> GeminiToOpenAiRequest(body)
    [] source = "antigravity" -> AntigravityToOpenAiRequest(body)
    [] source = "responses" -> ResponsesToOpenAiRequest(body)

-----------------------------------------------------------------------------
Body(system, messages) == [system |-> system, messages |-> messages]

WordsOf(parts) == LET said == Wordy(parts) IN [j \in DOMAIN said |-> said[j].word]

\* The words of all messages of one of the roles.
Instructions(messages, roles) ==
  FlatMap(LAMBDA m : IF m.role \in roles THEN WordsOf(m.parts) ELSE <<>>, messages)

Dialogue(messages, roles) == Where(messages, LAMBDA m : m.role \notin roles)

Merge(messages, m, parts(_)) ==
  IF messages # <<>> /\ Last(messages).role = m.role
  THEN [messages EXCEPT ![Len(messages)].parts = parts(@ \o m.parts)]
  ELSE Append(messages, m)

-----------------------------------------------------------------------------
(* OpenAI: developer messages are system messages, and what says nothing is   *)
(* dropped, but for tool messages and tool calls.                             *)
FilterToOpenAiFormat(messages) ==
  LET renamed == [j \in DOMAIN messages |->
                    IF messages[j].role = "developer" THEN [messages[j] EXCEPT !.role = "system"]
                    ELSE messages[j]]
  IN  Where(renamed, LAMBDA m : \/ m.role = "tool"
                                \/ m.role = "assistant" /\ HasPart("call", m.parts)
                                \/ Wordy(m.parts) # <<>>
                                \/ ~HasPart("text", m.parts))

-----------------------------------------------------------------------------
(* Claude: messages of one role are collected; a tool result is a message of  *)
(* its own and tool calls end theirs.                                         *)
ContentBlocks(m) ==
  CASE m.role = "tool" -> m.parts
    [] m.role = "user" -> Wordy(m.parts)
    [] m.role = "assistant" -> Wordy(m.parts) \o Of("call", m.parts)
    [] OTHER -> <<>>

ClaudeRole(m) == IF m.role \in {"user", "tool"} THEN "user" ELSE "assistant"

FlushCurrentMessage(s) ==
  IF s.parts = <<>> THEN s
  ELSE [s EXCEPT !.messages = Append(@, Turn(s.role, s.parts)), !.parts = <<>>]

Collect(s, m) ==
  LET t == IF s.role # ClaudeRole(m) THEN [FlushCurrentMessage(s) EXCEPT !.role = ClaudeRole(m)] ELSE s
      u == [t EXCEPT !.parts = @ \o ContentBlocks(m)]
  IN  IF m.role = "tool"
      THEN LET f == FlushCurrentMessage(s)
           IN  [f EXCEPT !.messages = Append(@, Turn("user", m.parts))]
      ELSE IF HasPart("call", ContentBlocks(m)) THEN FlushCurrentMessage(u)
      ELSE u

OpenAiToClaudeRequest(messages) ==
  Body(Instructions(messages, {"system"}),
       FlushCurrentMessage(FoldLeft(Collect, [messages |-> <<>>, role |-> "none", parts |-> <<>>],
                                    Dialogue(messages, {"system"}))).messages)

-----------------------------------------------------------------------------
(* prepareClaudeRequest.  Messages that say nothing are dropped, except a     *)
(* last one of the assistant.                                                 *)
HasValidContent(m) ==
  m.role # "tool" /\ (Wordy(m.parts) # <<>> \/ HasPart("call", m.parts) \/ HasPart("result", m.parts))

WithContent(messages) ==
  LET kept(j) == HasValidContent(messages[j]) \/ (j = Len(messages) /\ messages[j].role = "assistant")
  IN  FlattenSeq([j \in DOMAIN messages |-> IF kept(j) THEN <<messages[j]>> ELSE <<>>])

\* Claude takes no text after a tool call.
NoTextAfterCalls(m) ==
  LET first == Min({j \in DOMAIN m.parts : m.parts[j].kind = "call"})
      kept(j) == m.parts[j].kind # "text" \/ j < first
  IN  IF m.role # "assistant" \/ ~HasPart("call", m.parts) THEN m
      ELSE [m EXCEPT !.parts = FlattenSeq([j \in DOMAIN @ |-> IF kept(j) THEN <<@[j]>> ELSE <<>>])]

\* Mutant: parts are merged in the order they came in.
AsTheyCame(parts) == parts

ResultsFirst(parts) == Of("result", parts) \o But("result", parts)

MergeRoles(messages) ==
  FoldLeft(LAMBDA all, m : Merge(all, m, ResultsFirst), <<>>, messages)

(* One result for every call: the first, with the content of a later one when *)
(* it has none itself.                                                        *)
DedupeToolResults(messages) ==
  LET before(j, p, i) == \/ \E k \in 1..(j - 1) : i \in Ids("result", messages[k].parts)
                         \/ i \in Ids("result", SubSeq(messages[j].parts, 1, p - 1))
      contents(i) == Where(FlatMap(LAMBDA m : Of("result", m.parts), messages),
                           LAMBDA b : b.id = i /\ b.word # Blank)
      first(b) == IF contents(b.id) = <<>> THEN b ELSE contents(b.id)[1]
      part(j, p) == LET b == messages[j].parts[p]
                    IN  CASE b.kind # "result" -> <<b>>
                          [] b.kind = "result" -> IF before(j, p, b.id) THEN <<>> ELSE <<first(b)>>
  IN  [j \in DOMAIN messages |->
         [messages[j] EXCEPT !.parts = FlattenSeq([p \in DOMAIN @ |-> part(j, p)])]]

FixToolUseOrdering(messages) ==
  IF Len(messages) <= 1 THEN messages
  ELSE DedupeToolResults(MergeRoles([j \in DOMAIN messages |-> NoTextAfterCalls(messages[j])]))

\* Mutant: the signature of a thought is not looked at.
AllThoughts(provider, parts) == parts

\* Providers that read Claude's messages: Anthropic itself ("claude") rejects
\* thoughts it has not signed, for others of its protocol ("compatible") every
\* thought gets the router's signature, DeepSeek takes them as they are.
KeptThoughts(provider, parts) ==
  CASE provider = "claude"     -> Where(parts, LAMBDA b : b.kind = "thought" => b.id = 1)
    [] provider = "compatible" -> [p \in DOMAIN parts |->
                                     IF parts[p].kind = "thought" THEN ThoughtPart(1) ELSE parts[p]]
    [] OTHER                   -> parts

\* buildThinkingPlaceholder: only DeepSeek's is not signed.
Placeholder(provider) == ThoughtPart(IF provider = "deepseek" THEN 0 ELSE 1)

\* All three want a thought with a tool call when the model thinks.
HandleThoughts(provider, m, thinks) ==
  LET kept == KeptThoughts(provider, m.parts)
  IN  IF m.role # "assistant" THEN m
      ELSE [m EXCEPT !.parts = IF thinks /\ HasPart("call", kept) /\ ~HasPart("thought", kept)
                               THEN <<Placeholder(provider)>> \o kept ELSE kept]

\* Any other provider is sent the thoughts there are.
HandlesThoughts(provider) == provider \in {"claude", "compatible", "deepseek"}

PrepareClaudeRequest(body, provider, thinking) ==
  LET fixed  == FixToolUseOrdering(WithContent(body.messages))
      thinks == thinking /\ fixed # <<>> /\ Last(fixed).role = "user"
  IN  [body EXCEPT !.messages = IF HandlesThoughts(provider)
                                THEN [j \in DOMAIN fixed |-> HandleThoughts(provider, fixed[j], thinks)]
                                ELSE fixed]

-----------------------------------------------------------------------------
(* Gemini: one system instruction, the last; the results of a message's calls *)
(* follow it wherever they were, the last one of each id, unless it is empty. *)
LastResult(messages, i) ==
  LET results == Where(messages, LAMBDA m : m.role = "tool" /\ m.parts[1].id = i)
  IN  IF results = <<>> THEN Blank ELSE Last(results).parts[1].word

Responses(messages, calls) ==
  LET answered == Where(calls, LAMBDA c : LastResult(messages, c.id) # Blank)
  IN  [r \in DOMAIN answered |-> ResultPart(answered[r].id, LastResult(messages, answered[r].id))]

GeminiContents(messages, m) ==
  LET calls == Of("call", m.parts)
      said  == Of("thought", m.parts) \o Wordy(m.parts) \o calls
  IN  CASE m.role = "user" \/ (m.role = "system" /\ Len(messages) = 1) -> <<Turn("user", m.parts)>>
        [] m.role = "assistant" -> <<Turn("assistant", said), Turn("user", Responses(messages, calls))>>
        [] OTHER -> <<>>

NormalizeGeminiContents(contents) ==
  FoldLeft(LAMBDA all, m : Merge(all, m, LAMBDA parts : parts), <<>>,
           Where(contents, LAMBDA m : m.parts # <<>>))

OpenAiToGeminiRequest(messages) ==
  LET systems == Where(messages, LAMBDA m : m.role = "system")
  IN  Body(IF systems = <<>> \/ Len(messages) = 1 THEN <<>> ELSE WordsOf(Last(systems).parts),
           NormalizeGeminiContents(FlatMap(LAMBDA m : GeminiContents(messages, m), messages)))

(* Antigravity, for a Claude model: a Claude request in Gemini's form.        *)
OpenAiToAntigravityRequest(messages) ==
  LET claude == OpenAiToClaudeRequest(messages)
  IN  Body(claude.system, NormalizeGeminiContents(claude.messages))

-----------------------------------------------------------------------------
(* Responses: the first system or developer message gives the instructions,   *)
(* the others are dropped; thoughts, words, calls and results are items.      *)
Item(role, parts) == IF parts = <<>> THEN <<>> ELSE <<Turn(role, parts)>>

ResponsesItems(m) ==
  IF m.role = "tool" THEN <<m>>
  ELSE LET calls == Of("call", m.parts)
       IN  Item(m.role, Of("thought", m.parts)) \o Item(m.role, Of("text", m.parts))
           \o [c \in DOMAIN calls |-> Turn(m.role, <<calls[c]>>)]

OpenAiToResponsesRequest(messages) ==
  LET systems == Where(messages, LAMBDA m : m.role \in {"system", "developer"})
  IN  Body(IF systems = <<>> THEN <<>> ELSE WordsOf(systems[1].parts),
           FlatMap(ResponsesItems, Dialogue(messages, {"system", "developer"})))

(* Ollama: contents are strings, and what is empty is dropped unless the      *)
(* assistant said it; a result without content goes with it.                  *)
OllamaMessage(m) ==
  CASE m.role = "tool" -> IF m.parts[1].word = Blank THEN <<>> ELSE <<m>>
    [] m.role = "assistant" -> <<Turn(m.role, Wordy(m.parts) \o Of("call", m.parts))>>
    [] OTHER -> Item(m.role, Wordy(m.parts))

OpenAiToOllamaRequest(messages) == Body(<<>>, FlatMap(OllamaMessage, messages))

-----------------------------------------------------------------------------
(* translateRequest.  Nothing is translated between equal formats.            *)
Received(body) == Body(IF body.system = Blank THEN <<>> ELSE <<body.system>>, body.messages)

TranslateRequest(source, target, body, provider, thinking) ==
  LET fixed  == IF source \in {"openai", "claude"}
                THEN [body EXCEPT !.messages = FixMissingToolResponses(@)] ELSE body
      openai == RequestToOpenAi(source, fixed)
      claude == IF source = "claude" THEN Received(fixed) ELSE OpenAiToClaudeRequest(openai)
  IN  CASE target = "openai" -> Body(<<>>, FilterToOpenAiFormat(openai))
        [] target = "claude" -> PrepareClaudeRequest(claude, provider, thinking)
        [] target # source /\ target = "gemini" -> OpenAiToGeminiRequest(openai)
        [] target # source /\ target = "antigravity" -> OpenAiToAntigravityRequest(openai)
        [] target # source /\ target = "responses" -> OpenAiToResponsesRequest(openai)
        [] target # source /\ target = "ollama" -> OpenAiToOllamaRequest(openai)
        [] OTHER -> Received(fixed)
===============================================================================
