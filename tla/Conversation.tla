----------------------------- MODULE Conversation -----------------------------
(***************************************************************************)
(* Conversations as clients send them and providers receive them, in one   *)
(* notation for all formats: a body is a sequence of messages, a message a *)
(* role and a sequence of parts.  A Gemini content and a Responses input   *)
(* item are messages too; the top-level instructions of a body (system,    *)
(* systemInstruction, instructions) are kept beside its messages.          *)
(***************************************************************************)
EXTENDS Integers, SequencesExt

Blank  == 0     \* a text or a tool result without content
MadeUp == -1    \* content the router puts in a tool result itself

TextPart(w)      == [kind |-> "text", id |-> 0, word |-> w]
CallPart(i)      == [kind |-> "call", id |-> i, word |-> Blank]
ResultPart(i, w) == [kind |-> "result", id |-> i, word |-> w]
\* A thought, signed (1) by Claude or not (0).
ThoughtPart(s)   == [kind |-> "thought", id |-> s, word |-> Blank]

Turn(role, parts) == [role |-> role, parts |-> parts]
ToolMessage(i, w) == Turn("tool", <<ResultPart(i, w)>>)

\* The elements of which P holds, in their order.
Where(s, P(_)) == FlattenSeq([j \in DOMAIN s |-> IF P(s[j]) THEN <<s[j]>> ELSE <<>>])

Of(kind, parts) == Where(parts, LAMBDA b : b.kind = kind)
But(kind, parts) == Where(parts, LAMBDA b : b.kind # kind)
HasPart(kind, parts) == \E j \in DOMAIN parts : parts[j].kind = kind

\* The words of text parts that say something.
Wordy(parts) == Where(parts, LAMBDA b : b.kind = "text" /\ b.word # Blank)

Ids(kind, parts) == {b.id : b \in {c \in ToSet(parts) : c.kind = kind}}

\* The messages that f makes of each message, in order.
FlatMap(f(_), messages) == FlattenSeq([j \in DOMAIN messages |-> f(messages[j])])

-----------------------------------------------------------------------------
(* Tool calls that nobody answered.                                           *)

CallIds(m) == IF m.role = "assistant" THEN Ids("call", m.parts) ELSE {}

\* Mutant: any message of the client counts as the answer.
AnyToolResults(m, ids) == m.role \in {"tool", "user"}

HasToolResults(m, ids) ==
  m.role \in {"tool", "user"} /\ Ids("result", m.parts) \cap ids # {}

Unanswered(messages, j) ==
  /\ CallIds(messages[j]) # {}
  /\ j < Len(messages) /\ ~HasToolResults(messages[j + 1], CallIds(messages[j]))

(* Before a body of messages is translated, an assistant message none of      *)
(* whose calls is answered in the next message gets an empty answer to each:  *)
(* a message of role tool, whatever the format of the body.                   *)
FixMissingToolResponses(messages) ==
  FlattenSeq([j \in DOMAIN messages |->
    IF ~Unanswered(messages, j) THEN <<messages[j]>>
    ELSE LET asked == Of("call", messages[j].parts)
         IN  <<messages[j]>> \o [c \in DOMAIN asked |-> ToolMessage(asked[c].id, Blank)]])

\* Mutant: calls are taken for answered when the first of them is.
MissingIfAllAre(messages, j) ==
  IF messages[j].role = "tool" THEN <<>>
  ELSE IF j < Len(messages) /\ messages[j + 1].role = "tool" THEN <<>>
  ELSE Of("call", messages[j].parts)

\* The calls that are still to be answered after message j of an OpenAI body,
\* where j ends the run of tool messages that follows an assistant message.
MissingAfter(messages, j) ==
  LET asker == Max({0} \cup {k \in 1..j : messages[k].role # "tool"})
      run   == SubSeq(messages, asker + 1, j)
  IN  IF asker = 0 \/ messages[asker].role # "assistant"
         \/ (j < Len(messages) /\ messages[j + 1].role = "tool")
      THEN <<>>
      ELSE Where(Of("call", messages[asker].parts),
                 LAMBDA c : \A k \in DOMAIN run : run[k].parts[1].id # c.id)

(* What came from Claude is looked at again in OpenAI form: every call that   *)
(* the tool messages right after it leave open gets an answer.                *)
FixMissingToolResponsesOpenAI(messages) ==
  FlattenSeq([j \in DOMAIN messages |->
    LET missing == MissingAfter(messages, j)
    IN  <<messages[j]>> \o [c \in DOMAIN missing |-> ToolMessage(missing[c].id, MadeUp)]])
===============================================================================
