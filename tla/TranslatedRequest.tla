-------------------------- MODULE TranslatedRequest --------------------------
(***************************************************************************)
(* A translated request.  A client of some format and its user, assistant  *)
(* and tools take turns, and with every turn the whole conversation so far *)
(* is sent again, translated to the provider's format.  The user may speak *)
(* while calls are unanswered, and a client may send a result twice.       *)
(***************************************************************************)
EXTENDS RequestTranslation, ContextGuard

CONSTANTS
  Sources,      \* client formats looked at
  Targets,      \* provider formats looked at
  MaxMessages,  \* bound: MaxMessages[s] messages of a client of format s
  MaxCalls,     \* bound: tool calls of a conversation
  Windows,      \* what fits in a provider's window, when a request did not
  Outputs       \* limits of the output a request may name, or 0

ASSUME RequestAssumption ==
  /\ Sources \subseteq {"openai", "claude", "gemini", "antigravity", "responses"}
  /\ Targets \subseteq {"openai", "claude", "gemini", "antigravity", "responses", "ollama"}
  /\ MaxMessages \in [Sources -> Nat]
  /\ MaxCalls \in Nat
  /\ Windows \subseteq Nat /\ Outputs \subseteq Nat

VARIABLES
  source,  \* format of the client
  body,    \* the conversation: instructions and messages
  turns    \* what the turns so far amount to: calls made, those of the last turn
           \* and those of them still open, the answers, how turns were left

requestVars == <<source, body, turns>>

RequestInit ==
  /\ source \in Sources
  /\ body = [system |-> Blank, messages |-> <<>>]
  /\ turns = [calls |-> 0, asked |-> {}, open |-> {}, answers |-> << >>,
              left |-> {}, reused |-> FALSE, again |-> FALSE]

\* No two texts or results say the same: the words of the next message.
Word(n) == 4 * (Len(body.messages) + 1) + n

Say(m, t) ==
  /\ Len(body.messages) < MaxMessages[source]
  /\ body' = [body EXCEPT !.messages = Append(@, m)]
  /\ turns' = t
  /\ UNCHANGED source

\* Whoever speaks instead of the tools leaves the open calls unanswered: all of
\* a turn's calls or some of them.
Leave(t) ==
  IF t.open = {} THEN t
  ELSE [t EXCEPT !.open = {}, !.left = @ \cup {IF t.open = t.asked THEN "all" ELSE "some"}]

-----------------------------------------------------------------------------
(* The instructions: beside the messages, or in messages of the roles the     *)
(* format has for them.                                                       *)
Instruct ==
  /\ source # "openai" /\ body.messages = <<>> /\ body.system = Blank
  /\ body' = [body EXCEPT !.system = Word(0)]
  /\ UNCHANGED <<source, turns>>

InstructingRoles ==
  CASE source = "openai" -> {"system", "developer"}
    [] source = "claude" -> {"system"}
    [] source = "responses" -> {"developer"}
    [] OTHER -> {}

InstructLater ==
  \E role \in InstructingRoles : Say(Turn(role, <<TextPart(Word(1))>>), Leave(turns))

UserSays ==
  \E w \in {Blank, Word(1)} : Say(Turn("user", <<TextPart(w)>>), Leave(turns))

(* A call has an id of its own, but for Gemini, where a function's name       *)
(* stands for it.                                                             *)
NewCalls(n) ==
  IF source = "gemini" THEN [1..n -> 1..MaxCalls]
  ELSE {[c \in 1..n |-> turns.calls + c]}

\* What an assistant says with its calls: a Responses item has one part, Claude
\* may think before a call and go on after it.
Utterances(calls) ==
  LET words == <<TextPart(Word(1))>>
  IN  CASE calls = <<>> ->
             {words} \cup (IF source \in {"antigravity", "responses"} THEN {<<ThoughtPart(0)>>} ELSE {})
        [] calls # <<>> /\ source = "responses" -> {calls}
        [] calls # <<>> /\ source = "claude" ->
             {calls, words \o calls, calls \o words, <<ThoughtPart(0)>> \o calls, <<ThoughtPart(1)>> \o calls}
        [] OTHER -> {calls, words \o calls}

\* The items of a Responses turn are messages here; one with words between two
\* calls parts them.
GoesOn == source = "responses" /\ body.messages # <<>> /\ Last(body.messages).role = "assistant"

AssistantSays ==
  \E n \in 0..Min({2, MaxCalls - turns.calls}) : \E ids \in NewCalls(n) :
  \E parts \in Utterances([c \in 1..n |-> CallPart(ids[c])]) :
    LET t   == IF GoesOn THEN turns ELSE [Leave(turns) EXCEPT !.asked = {}]
        new == ToSet(ids)
    IN  /\ source = "responses" => n <= 1
        /\ Say(Turn("assistant", parts),
               [t EXCEPT
                  !.calls = @ + n,
                  !.asked = @ \cup new,
                  !.open = @ \cup new,
                  !.reused = @ \/ Cardinality(new) < n \/ new \cap DOMAIN t.answers # {},
                  !.left = @ \cup IF GoesOn /\ t.open # {} /\ HasPart("text", parts) THEN {"between"} ELSE {}])

(* Results: of calls that are open, or once more of a call that has been      *)
(* answered; in a message each, or in one for all with or without words.      *)
OneEach == source \in {"openai", "responses"}

\* Only an empty result has content the second time, where empty can be told.
Answer(i, w) ==
  IF i \in DOMAIN turns.answers \ turns.open
     /\ (turns.answers[i] # Blank \/ source \in {"gemini", "antigravity"})
  THEN turns.answers[i] ELSE w

\* A client repeats one result of a conversation.
Repeatable == IF turns.again THEN {} ELSE DOMAIN turns.answers

Answers ==
  {<<ResultPart(i, Answer(i, w))>> : i \in turns.open \cup Repeatable, w \in {Blank, Word(1)}}
  \cup IF OneEach \/ turns.open = {} THEN {}
       ELSE {[r \in DOMAIN s |-> ResultPart(s[r], Word(r))] : s \in SetToSeqs(turns.open)}

ToolsAnswer ==
  \E results \in Answers :
  \E words \in {<<>>} \cup IF OneEach THEN {} ELSE {<<TextPart(Word(3))>>} :
    LET ids   == Ids("result", results)
        given == [i \in ids |-> results[Min({r \in DOMAIN results : results[r].id = i})].word]
    IN  Say(Turn(IF OneEach THEN "tool" ELSE "user", results \o words),
            [(IF words = <<>> THEN turns ELSE Leave([turns EXCEPT !.open = @ \ ids])) EXCEPT
               !.open = @ \ ids,
               !.answers = [i \in ids \cup DOMAIN @ |-> IF i \in ids THEN given[i] ELSE @[i]],
               !.again = @ \/ ids \ turns.open # {}])

RequestNext == Instruct \/ InstructLater \/ UserSays \/ AssistantSays \/ ToolsAnswer

RequestSpec == RequestInit /\ [][RequestNext]_requestVars

-----------------------------------------------------------------------------
\* The client sends the conversation when the last word is not the assistant's
\* and its tools have answered, or will not.
Sendable ==
  body.messages # <<>> /\ Last(body.messages).role \in {"user", "tool"} /\ turns.open = {}

\* Bodies between equal formats are only looked at where they are changed.
Translated(t) == t # source \/ t \in {"openai", "claude"}

Sent(t) == TranslateRequest(source, t, body, "other", FALSE)

\* The messages after message j that belong to its calls: those with results,
\* and for Responses providers the other calls and thoughts of the turn.
Reply(messages, j) ==
  LET belongs(m) == \/ HasPart("result", m.parts)
                    \/ Len(m.parts) = 1 /\ m.role = "assistant" /\ ~HasPart("text", m.parts)
  IN  {k \in (j + 1)..Len(messages) : \A h \in (j + 1)..k : belongs(messages[h])}

ResultsIn(messages, ks) ==
  FlattenSeq([j \in DOMAIN messages |-> IF j \in ks THEN Of("result", messages[j].parts) ELSE <<>>])

Paired(messages) ==
  /\ \A j \in DOMAIN messages : \A i \in Ids("call", messages[j].parts) :
       Len(SelectSeq(ResultsIn(messages, Reply(messages, j)), LAMBDA b : b.id = i)) = 1
  /\ \A j \in DOMAIN messages : \A i \in Ids("result", messages[j].parts) :
       \E k \in 1..(j - 1) : i \in Ids("call", messages[k].parts) /\ j \in Reply(messages, k)

\* Calls nobody answered get an answer when they come from Claude, and when all
\* the calls of a turn come from an OpenAI client.
LeftsAreFilled(t) ==
  \/ turns.left = {}
  \/ source = "claude" /\ t # "claude"
  \/ source = "openai" /\ turns.left = {"all"} /\ t \notin {"gemini", "ollama"}

BlanksAreSent(t) ==
  \/ t \notin {"gemini", "ollama"} \/ source \in {"gemini", "antigravity"}
  \/ \A i \in DOMAIN turns.answers : turns.answers[i] # Blank

\* Results sent twice are sorted out for Claude and Gemini.
RepeatsAreSorted(t) == ~turns.again \/ t \in {"claude", "gemini"}

\* A Gemini content may hold only one result if all are to arrive.
ResultsAreAlone ==
  source = "gemini" => \A j \in DOMAIN body.messages : Len(Of("result", body.messages[j].parts)) <= 1

(* Providers refuse a tool call without a result right after it and a result  *)
(* without a call.  Every call in a request has its one result there, those   *)
(* the user spoke over included, as far as the conditions above go.           *)
CallsAreAnswered(t, messages) ==
  LeftsAreFilled(t) /\ BlanksAreSent(t) /\ RepeatsAreSorted(t) /\ ResultsAreAlone /\ ~turns.reused
    => Paired(messages)

\* Nobody but the system speaks twice in a row.
Alternate(messages) ==
  \A j \in 1..(Len(messages) - 1) :
    messages[j].role \in {"system", messages[j + 1].role} => messages[j].role = "system"

(* Claude and Gemini, also behind Antigravity, take turns of user and         *)
(* assistant, none of them empty; a result sent twice may empty one.          *)
TakeTurns == {"claude", "gemini", "antigravity"}

TurnsAlternate(t, messages) ==
  t \in TakeTurns =>
    /\ Alternate(messages)
    /\ \A j \in DOMAIN messages : messages[j].parts # <<>> \/ turns.again \/ turns.reused

\* Claude reads the results of its calls before anything else of the turn.
ResultsComeFirst(t, messages) ==
  t = "claude" =>
    \A j \in DOMAIN messages : \A p, q \in DOMAIN messages[j].parts :
      messages[j].parts[p].kind = "result" /\ messages[j].parts[q].kind # "result" => p < q

\* Claude gets no two results of one call, however often a client sent it, once
\* there is more than one message.
ResultsAreSingle(t, messages) ==
  t = "claude" /\ Len(messages) > 1 =>
    \A j \in DOMAIN messages : \A p \in DOMAIN messages[j].parts :
      messages[j].parts[p].kind = "result" =>
        \A k \in 1..j : \A q \in DOMAIN messages[k].parts :
          LET b == messages[k].parts[q]
          IN  b.kind = "result" /\ b.id = messages[j].parts[p].id => j = k /\ p = q

(* Anthropic itself and those that check signatures as it does get no thought *)
(* that is not signed.  When the model is to think about what the user says,  *)
(* they and DeepSeek get a thought with every message that calls.             *)
ThoughtsFit(provider, messages) ==
  \A j \in DOMAIN messages :
    /\ provider # "deepseek" => 0 \notin Ids("thought", messages[j].parts)
    /\ HasPart("call", messages[j].parts) /\ Last(messages).role = "user"
       => HasPart("thought", messages[j].parts)

ThoughtsAreSigned(t) ==
  t = "claude" =>
    \A provider \in {"claude", "compatible", "deepseek"} :
      ThoughtsFit(provider, TranslateRequest(source, t, body, provider, TRUE).messages)

(* A request that did not fit is sent again without its oldest turns. Its     *)
(* calls still have their results, its turns still alternate from the user's  *)
(* on, the turn that is being answered is whole, the instructions are there,  *)
(* and it fits but for the notice, unless there is nothing more to drop.      *)
(* Ollama's bodies have no ids, and calls may be parted from their results.   *)
Kind(t) ==
  CASE t \in {"openai", "claude"} -> "messages"
    [] t \in {"gemini", "antigravity"} -> "contents"
    [] t = "responses" -> "input"
    [] t = "ollama" -> "ollama"

LastTurn(messages) ==
  LET users == {j \in DOMAIN messages : messages[j].role = "user"}
  IN  IF users = {} THEN messages ELSE SubSeq(messages, Max(users), Len(messages))

StartsWithUser(messages) ==
  LET dialogue == Dialogue(messages, {"system", "developer"})
  IN  dialogue # <<>> /\ dialogue[1].role = "user"

IsStillAccepted(t, messages, trim, window) ==
  /\ Paired(trim.messages)
  /\ t \in TakeTurns => Alternate(trim.messages) /\ StartsWithUser(trim.messages)
  /\ IsSuffix(LastTurn(messages), trim.messages)
  /\ Instructions(trim.messages, {"system", "developer"})
       = Instructions(messages, {"system", "developer"})
  /\ \/ Tokens(trim.messages) + trim.output + Margin <= window + Tokens(<<TrimNotice>>)
     \/ trim.exhausted

TrimmedIsAccepted(t, messages) ==
  t # "ollama" /\ ~turns.reused /\ Paired(messages) =>
    \A window \in Windows, output \in Outputs :
      LET trim == TrimToFit(messages, Kind(t), window, output)
      IN  IsSentAgain(trim, window, output) => IsStillAccepted(t, messages, trim, window)

IsAccepted(t, messages) ==
  /\ CallsAreAnswered(t, messages) /\ TurnsAlternate(t, messages)
  /\ ResultsComeFirst(t, messages) /\ ResultsAreSingle(t, messages)
  /\ ThoughtsAreSigned(t)
  /\ TrimmedIsAccepted(t, messages)

(* Whatever was said so far, the provider accepts the request.                *)
RequestsAreAccepted ==
  Sendable => \A t \in Targets : Translated(t) => IsAccepted(t, Sent(t).messages)

-----------------------------------------------------------------------------
(* What was said, and by whom: the words of texts and results in their order, *)
(* a word said twice counted once.                                            *)
Quotes(m) ==
  LET said == SelectSeq(m.parts, LAMBDA b : b.kind \in {"text", "result"} /\ b.word > Blank)
  IN  [j \in DOMAIN said |->
         <<IF said[j].kind = "result" THEN "tool" ELSE m.role, said[j].word>>]

Once(quotes) ==
  FlattenSeq([j \in DOMAIN quotes |->
    IF \E k \in 1..(j - 1) : quotes[k][2] = quotes[j][2] THEN <<>> ELSE <<quotes[j]>>])

\* What of a client's message a translation keeps, and who says it: a Gemini
\* content with results is its first result, an Antigravity content with
\* results is continued by the assistant, Claude reads no text after a call,
\* and what a Claude client's system says between the messages, the user says.
Kept(m, t) ==
  CASE t # source /\ source = "gemini" /\ HasPart("result", m.parts) ->
         [m EXCEPT !.parts = <<Of("result", @)[1]>>]
    [] t # source /\ source = "antigravity" /\ HasPart("result", m.parts) -> [m EXCEPT !.role = "assistant"]
    [] source = "claude" /\ m.role = "system" /\ t # "claude" -> [m EXCEPT !.role = "user"]
    [] source = "claude" /\ t = "claude" -> NoTextAfterCalls(m)
    [] OTHER -> m

Dialogued == Dialogue(body.messages, IF source = "claude" THEN {} ELSE {"system", "developer"})

\* The instructions that reach the provider: developers are not heard by Claude
\* and Gemini, Gemini takes the last instruction and Responses the first.
InstructionsHeard(t) ==
  LET roles == IF t \in {"claude", "gemini", "antigravity"} THEN {"system"} ELSE {"system", "developer"}
      said  == (IF body.system = Blank THEN <<>> ELSE <<body.system>>)
               \o (IF source = "claude" THEN <<>> ELSE Instructions(body.messages, roles))
  IN  CASE said = <<>> -> <<>>
        [] said # <<>> /\ t = "gemini" -> <<Last(said)>>
        [] said # <<>> /\ t = "responses" -> <<said[1]>>
        [] OTHER -> said

\* The same history, in the same order unless a result was sent twice; Gemini
\* is told the results in the order of the calls.
Alike(said, heard, t) ==
  LET ordered(quotes) == Once(SelectSeq(quotes, LAMBDA q : t # "gemini" \/ q[1] # "tool"))
  IN  ToSet(said) = ToSet(heard) /\ (turns.again \/ ordered(said) = ordered(heard))

IsKept(t, sent) ==
  LET roles == IF source = "claude" /\ t = "claude" THEN {} ELSE {"system", "developer"}
  IN  /\ sent.system \o Instructions(sent.messages, roles) = InstructionsHeard(t)
      /\ Alike(FlatMap(LAMBDA m : Quotes(Kept(m, t)), Dialogued),
               FlatMap(Quotes, Dialogue(sent.messages, roles)), t)

(* A provider hears what everyone has said, in order and from who said it:    *)
(* merging, splitting and moving messages loses and mixes up nothing beyond   *)
(* what the definitions above name.                                           *)
HistoryIsKept ==
  Sendable /\ Quotes(Last(body.messages)) # <<>> => \A t \in Targets :
    Translated(t) /\ ~turns.reused => IsKept(t, Sent(t))

(* The provider accepts the request, and hears what was said.                 *)
RequestsAreFaithful == RequestsAreAccepted /\ HistoryIsKept
===============================================================================
