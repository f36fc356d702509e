---------------------------- MODULE MCTranslation ----------------------------
(* Everything the router translates: responses as they stream back, requests  *)
(* on their way out, and the thinking these ask for.  The three share no      *)
(* state; a behaviour is one of a stream, a conversation or a client that     *)
(* changes its mind about thinking.  Every provider format with every client  *)
(* format it is translated for, and models of every thinking format.          *)
EXTENDS TranslatedStream, TranslatedRequest, ThinkingEffort

MCMaxEvents   == [openai |-> 5, claude |-> 12, gemini |-> 5, ollama |-> 5, responses |-> 8]
MCMaxMessages == [openai |-> 4, claude |-> 4, gemini |-> 4, antigravity |-> 4, responses |-> 5]

M(f, canDisable, most, ceiling) ==
  [format |-> f, canDisable |-> canDisable, most |-> most, ceiling |-> ceiling]

\* Budgets no client asks for: a model whose range is not limited.
Unlimited == 1000000

MCModels ==
  {M(f, d, Unlimited, 64000) : d \in BOOLEAN, 
     f \in {"openai", "claude-adaptive", "claude-budget", "qwen", "deepseek", "kimi"}}
  \cup {M("claude-budget", TRUE, Unlimited, 128000), M("gemini-level", FALSE, Unlimited, 65536),
        M("gemini-budget", TRUE, 24576, 65536), M("zai", TRUE, Unlimited, 64000),
        M("minimax", FALSE, Unlimited, 131072), M("hunyuan", TRUE, Unlimited, 64000),
        M("step", TRUE, Unlimited, 65536)}

\* Who asks for nothing.
MCNobody == CHOOSE r \in Asks : r.client = "openai" /\ ExtractThinking(r) = Unasked /\ r.limit = 0 /\ ~r.tools

VARIABLE part

StreamIsIdle   == format = "openai" /\ client = "claude"
RequestIsIdle  == source = "openai"
ThinkingIsIdle == model = (CHOOSE m \in Models : TRUE) /\ request = MCNobody

TranslationInit ==
  \/ part = "stream" /\ RequestIsIdle /\ ThinkingIsIdle /\ Init /\ RequestInit /\ ThinkingInit
  \/ part = "request" /\ StreamIsIdle /\ ThinkingIsIdle /\ Init /\ RequestInit /\ ThinkingInit
  \/ part = "thinking" /\ StreamIsIdle /\ RequestIsIdle /\ Init /\ RequestInit /\ ThinkingInit

TranslationNext ==
  \/ part = "stream" /\ Next /\ UNCHANGED <<part, requestVars, thinkingVars>>
  \/ part = "request" /\ RequestNext /\ UNCHANGED <<part, vars, thinkingVars>>
  \/ part = "thinking" /\ AskAgain /\ UNCHANGED <<part, vars, requestVars>>

TranslationSpec ==
  TranslationInit /\ [][TranslationNext]_<<part, vars, requestVars, thinkingVars>>
===============================================================================
