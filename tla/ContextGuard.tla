----------------------------- MODULE ContextGuard -----------------------------
(***************************************************************************)
(* The context guard.  When a provider says that a request does not fit    *)
(* its window, the oldest turns are dropped from the translated body until *)
(* it should, and the request is sent once more.  A message weighs one for *)
(* each part and one for itself; the provider's count is taken for ours.   *)
(***************************************************************************)
EXTENDS Conversation, TLC

CONSTANTS
  MaxTrimPasses,  \* 8 in the code
  MinOutput,      \* output below which a limit is not lowered, 256 in the code
  Margin          \* part of the window that is left free

Tokens(messages) ==
  Len(messages) + Len(FlattenSeq([j \in DOMAIN messages |-> messages[j].parts]))

\* The messages but those at some positions.
Without(messages, at) ==
  FlattenSeq([j \in DOMAIN messages |-> IF j \in at THEN <<>> ELSE <<messages[j]>>])

\* What the input may weigh when the request asks for some output; 0 stands for
\* a request that names no limit, and for a window nothing fits in.
InputBudget(window, output) == Max({0, window - Margin - Min({output, window - Margin})})

-----------------------------------------------------------------------------
(* What must stay: instructions, Responses reasoning, and the turn that is    *)
(* being answered, from the last message of the user on.                      *)
IsPinned(m, kind) ==
  \/ m.role \in {"system", "developer"}
  \/ kind = "input" /\ HasPart("thought", m.parts)

IsUserTurn(m) == m.role = "user"

\* Mutant: the turn that is answered starts after the user's message.
ProtectedAfter(messages) ==
  LET users == {j \in DOMAIN messages : IsUserTurn(messages[j])}
  IN  IF users = {} THEN 1 ELSE Max(users) + 1

ProtectedFrom(messages) ==
  LET users == {j \in DOMAIN messages : IsUserTurn(messages[j])}
  IN  IF users = {} THEN 1 ELSE Max(users)

\* Mutant: only calls bind.
CallingIds(m, kind) == Ids("call", m.parts)

\* The ids that bind messages together: of calls and of their results.  Ollama's
\* messages have none.
BindingIds(m, kind) ==
  IF kind = "ollama" THEN {} ELSE Ids("call", m.parts) \cup Ids("result", m.parts)

(* A candidate goes with every message that one of its ids binds to it, and   *)
(* those bound to them; not at all when one of these must stay.               *)
ClosureOf(messages, kind, start, removed, blocked) ==
  LET bound(group) ==
        {k \in DOMAIN messages \ removed :
           \E j \in group :
             BindingIds(messages[j], kind) \cap BindingIds(messages[k], kind) # {}}
      grown[n \in 0..Len(messages)] ==
        IF n = 0 THEN {start} ELSE LET g == grown[n - 1] IN g \cup bound(g)
      group == grown[Len(messages)]
  IN  IF \E j \in group \ {start} : \/ j >= ProtectedFrom(messages) \/ j \in blocked
                                    \/ IsPinned(messages[j], kind)
      THEN {} ELSE group

\* One pass: the oldest message that may go, with its group, or nothing more.
Pass(messages, kind, budget, s) ==
  LET candidates == {j \in 1..(ProtectedFrom(messages) - 1) :
                       j \notin s.removed \cup s.blocked /\ ~IsPinned(messages[j], kind)}
      group == ClosureOf(messages, kind, Min(candidates), s.removed, s.blocked)
  IN  IF s.exhausted \/ s.left <= budget THEN s
      ELSE IF candidates = {} THEN [s EXCEPT !.exhausted = TRUE]
      ELSE IF group = {} THEN [s EXCEPT !.blocked = @ \cup {Min(candidates)}]
      ELSE [s EXCEPT !.removed = @ \cup group, !.left = Tokens(Without(messages, s.removed \cup group))]

\* A conversation that no longer starts with the user gets a user's notice.
TrimNotice == Turn("user", <<TextPart(MadeUp)>>)

\* Mutant: no notice is put in.
WithoutNotice(messages, kind) == messages

WithNotice(messages, kind) ==
  LET moving == {j \in DOMAIN messages : ~IsPinned(messages[j], kind)}
  IN  IF moving = {} \/ IsUserTurn(messages[Min(moving)]) THEN messages
      ELSE InsertAt(messages, Min(moving), TrimNotice)

(* planAndApplyTrim.  When nothing more may go and it is still too much, the  *)
(* limit of the output is lowered, if there is one.                           *)
TrimToFit(messages, kind, window, output) ==
  LET budget == InputBudget(window, output)
      after[n \in 0..MaxTrimPasses] ==
        IF n = 0 THEN [removed |-> {}, blocked |-> {}, exhausted |-> FALSE, left |-> Tokens(messages)]
        ELSE LET s == after[n - 1] IN Pass(messages, kind, budget, s)
      passes == after[MaxTrimPasses]
      final  == WithNotice(Without(messages, passes.removed), kind)
      target == window - Tokens(final) - Margin
      over   == passes.exhausted /\ Tokens(final) > budget
      clamps == over /\ target >= MinOutput /\ output > target
  IN  [messages  |-> final,
       output    |-> IF clamps THEN target ELSE output,
       changed   |-> passes.removed # {} \/ clamps,
       exhausted |-> passes.exhausted]

(* tryRecoverContextOverflow: what is sent again, if anything is.             *)
IsSentAgain(trim, window, output) == InputBudget(window, output) > 0 /\ trim.changed
===============================================================================
