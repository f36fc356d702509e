---------------------------- MODULE ThinkingEffort ----------------------------
(***************************************************************************)
(* How deep a model is to think.  Clients ask for it by a level or a       *)
(* budget of tokens, in fields of their format or in the name of the       *)
(* model; providers take one or the other, in a format the model's         *)
(* capabilities name, and want the output limit to leave room for it.      *)
(***************************************************************************)
EXTENDS Integers, Sequences, FiniteSets

CONSTANTS
  Models,   \* models looked at: their format, whether thinking can be switched
            \* off, the range of their budgets and their output ceiling
  Budgets,  \* budgets a client may ask for
  Limits    \* output limits a client may ask for; 0 for none

Levels == {"minimal", "low", "medium", "high", "xhigh", "max"}

LevelToBudget ==
  [minimal |-> 512, low |-> 1024, medium |-> 8192, high |-> 24576, xhigh |-> 32768, max |-> 128000]

BudgetToLevel(budget) ==
  CASE budget <= 768 -> "minimal"
    [] budget > 768 /\ budget <= 4096 -> "low"
    [] budget > 4096 /\ budget <= 16384 -> "medium"
    [] budget > 16384 /\ budget <= 28672 -> "high"
    [] budget > 28672 -> "xhigh"

BudgetFormats == {"claude-budget", "gemini-budget", "hunyuan", "qwen"}

ThinkingFormats ==
  BudgetFormats \cup {"openai", "claude-adaptive", "gemini-level", "zai", "deepseek", "kimi",
                      "minimax", "step"}

DefaultMaxTokens == 64000
DefaultMinTokens == 32000

\* capabilities.js: the models with a budget range are gemini-2.5, which may
\* answer with more than the largest budget and than the default limit; those
\* with gemini's levels, gemini-3, cannot stop thinking.
ASSUME ThinkingAssumption ==
  /\ Models \subseteq [format : ThinkingFormats, canDisable : BOOLEAN, most : Nat \ {0}, ceiling : Nat]
  /\ Budgets \subseteq Nat \ {0}
  /\ Limits \subseteq Nat
  /\ \A m \in Models :
       /\ m.format \in {"claude-budget", "claude-adaptive"} => m.ceiling > 1024
       /\ m.format = "gemini-level" => ~m.canDisable
       /\ m.format = "gemini-budget" =>
            m.most < 65535 /\ m.most < m.ceiling /\ DefaultMaxTokens <= m.ceiling

VARIABLES
  model,    \* the model a client talks to
  request,  \* what it asks in this request
  wanted,   \* the intent that is found in it
  outgoing  \* what leaves for the provider: what it is told of thinking, and the limit

thinkingVars == <<model, request, wanted, outgoing>>

-----------------------------------------------------------------------------
(* What a client asks.  In a field for a level, "absent" stands for no field; *)
(* in one for a budget, Absent for no field, AutoBudget for no or any.        *)
Absent     == -2
AutoBudget == -1

\* An intent: a level, a budget, or one of none, auto and unasked.
Intent(mode, level, budget) == [mode |-> mode, level |-> level, budget |-> budget]
Unasked == Intent("unasked", "absent", 0)

Named(level) ==
  CASE level = "absent" -> Unasked
    [] level \in {"none", "auto"} -> Intent(level, "absent", 0)
    [] OTHER -> Intent("level", level, 0)

Budgeted(budget) ==
  CASE budget = Absent -> Unasked
    [] budget = AutoBudget -> Intent("auto", "absent", 0)
    [] budget = 0 -> Intent("none", "absent", 0)
    [] budget > 0 -> Intent("budget", "absent", budget)

\* Claude's thinking is forgotten when the user has not spoken last.
NormalizeThinkingConfig(r) == IF r.userIsLast THEN r ELSE [r EXCEPT !.thinking = Absent]

Else(first, second) == IF first.mode = "unasked" THEN second ELSE first

\* The first of the fields that says something counts; the model's name goes
\* before all of them.
ExtractThinking(r) ==
  LET n == NormalizeThinkingConfig(r)
  IN  Else(Named(n.suffix),
           Else(Named(n.effort),
                Else(Budgeted(n.thinking), Else(Named(n.reasoning), Budgeted(n.thinkingBudget)))))

-----------------------------------------------------------------------------
(* What a provider is sent: thinking off, a level, a budget, thinking on      *)
(* without either, or nothing.                                                *)
Off     == Intent("off", "absent", 0)
On      == Intent("on", "absent", 0)
Nothing == Intent("nothing", "absent", 0)

ToBudget(intent, most) ==
  LET budget == IF intent.mode = "level" THEN LevelToBudget[intent.level] ELSE intent.budget
  IN  IF budget > most THEN most ELSE budget

ToLevel(intent) ==
  CASE intent.mode = "level" -> intent.level
    [] intent.mode = "budget" -> BudgetToLevel(intent.budget)
    [] intent.mode = "auto" -> "auto"

\* Mutant: the deepest level is sent as it is.
LevelAsIs(format, level) ==
  CASE format = "deepseek" -> IF level \in {"xhigh", "max"} THEN "max" ELSE "high"
    [] format = "gemini-level" /\ level = "auto" -> "high"
    [] OTHER -> level

\* The level a format has for a level, where it is not the same.
LevelFor(format, level) ==
  CASE format = "openai" /\ level = "max" -> "xhigh"
    [] format = "claude-adaptive" /\ level = "xhigh" -> "high"
    [] format = "gemini-level" /\ level \in {"xhigh", "max", "auto"} -> "high"
    [] format = "deepseek" -> IF level \in {"xhigh", "max"} THEN "max" ELSE "high"
    [] format = "kimi" /\ level = "auto" -> "high"
    [] format = "kimi" /\ level = "minimal" -> "low"
    [] format = "kimi" /\ level = "xhigh" -> "max"
    [] format = "step" /\ level \in {"xhigh", "max"} -> "high"
    [] OTHER -> level

\* A model that cannot stop thinking thinks minimally instead.
ApplyFormat(m, intent) ==
  LET none  == intent.mode = "none"
      stops == none /\ m.canDisable /\ m.format # "gemini-level"
      eff   == IF none THEN Named("minimal") ELSE intent
      level == LevelFor(m.format, ToLevel(eff))
      sends == CASE m.format \in {"zai", "minimax"} -> On
                 [] m.format \in BudgetFormats ->
                      IF eff.mode = "auto" THEN On ELSE Intent("budget", "absent", ToBudget(eff, m.most))
                 [] m.format = "openai" /\ level = "auto" -> Nothing
                 [] OTHER -> Intent("level", level, 0)
  IN  IF ~stops THEN sends ELSE IF m.format = "step" THEN Nothing ELSE Off

-----------------------------------------------------------------------------
(* The output limit.                                                          *)

\* At least the minimum when there are tools, and over the budget that is asked.
AdjustMaxTokens(limit, tools, budget, ceiling) ==
  LET asked == IF limit = 0 THEN DefaultMaxTokens ELSE limit
      roomy == IF tools /\ asked < DefaultMinTokens THEN DefaultMinTokens ELSE asked
      over  == IF budget > 0 /\ roomy <= budget THEN budget + 1024 ELSE roomy
  IN  IF over > ceiling THEN ceiling ELSE over

\* Mutant: the budget is not looked at once the limit is at the ceiling.
CapOnly(limit, budget, ceiling) ==
  [limit |-> IF limit > ceiling THEN ceiling ELSE limit, budget |-> budget]

\* For Claude the limit is raised over the budget; where the ceiling is in the
\* way the budget is lowered.
ReconcileBudget(limit, budget, ceiling) ==
  LET capped == IF limit > ceiling THEN ceiling ELSE limit
      raised == IF budget >= capped THEN (IF budget + 1024 > ceiling THEN ceiling ELSE budget + 1024)
                ELSE capped
      fits   == IF budget >= raised THEN (IF raised - 1024 < 1024 THEN 1024 ELSE raised - 1024)
                ELSE budget
  IN  [limit |-> raised, budget |-> fits]

GeminiLevelOutputFloor(level) ==
  CASE level = "minimal" -> 4096
    [] level = "low" -> 8192
    [] level = "medium" -> 16384
    [] OTHER -> 65535

GeminiBudgetOutputFloor(budget) ==
  CASE budget <= 1024 -> 8192
    [] budget > 1024 /\ budget <= 8192 -> 16384
    [] budget > 8192 /\ budget <= 24576 -> 32768
    [] budget > 24576 -> 65535

EnsureGeminiOutputFloor(limit, floor, ceiling) ==
  LET target == IF floor > ceiling THEN ceiling ELSE floor
  IN  IF limit < target THEN target ELSE limit

\* What the provider is told of an intent.
Told(m, intent) == IF intent = Unasked THEN Nothing ELSE ApplyFormat(m, intent)

\* The format a model is served in, by its maker.
TargetOf(m) ==
  CASE m.format \in {"claude-budget", "claude-adaptive"} -> "claude"
    [] m.format \in {"gemini-budget", "gemini-level"} -> "gemini"
    [] OTHER -> "openai"

\* The limit after translation, by way of OpenAI's format; a client that speaks
\* the model's format is not translated.
LimitOf(m, r) ==
  LET openai == IF r.client = "openai" \/ r.limit = 0 THEN r.limit
                ELSE AdjustMaxTokens(r.limit, r.tools, NormalizeThinkingConfig(r).thinking, DefaultMaxTokens)
  IN  CASE r.client = TargetOf(m) -> r.limit
        [] r.client # TargetOf(m) /\ TargetOf(m) = "claude" ->
             AdjustMaxTokens(openai, r.tools, Absent, m.ceiling)
        [] OTHER -> openai

\* The request as it leaves: what it says of thinking, and its limit.
Dispatch(m, r, intent) ==
  LET told   == Told(m, intent)
      limit  == LimitOf(m, r)
      claude == ReconcileBudget(limit, told.budget, m.ceiling)
      floor  == CASE told.mode = "level" -> GeminiLevelOutputFloor(told.level)
                  [] told.mode = "budget" -> GeminiBudgetOutputFloor(told.budget)
                  [] told.mode = "on" -> 32768
                  [] OTHER -> 0
  IN  CASE TargetOf(m) = "claude" ->
             [thinking |-> IF told.mode = "budget" THEN [told EXCEPT !.budget = claude.budget] ELSE told,
              limit |-> claude.limit]
        [] TargetOf(m) = "gemini" ->
             [thinking |-> told, limit |-> EnsureGeminiOutputFloor(limit, floor, m.ceiling)]
        [] OTHER -> [thinking |-> told, limit |-> limit]

-----------------------------------------------------------------------------
Efforts == {"absent", "none", "auto"} \cup Levels
AnyBudget == {Absent, AutoBudget, 0} \cup Budgets

Requests(clients, suffixes, efforts, thinkings, reasonings, budgets, said, limits, tools) ==
  [client : clients, suffix : suffixes, effort : efforts, thinking : thinkings,
   reasoning : reasonings, thinkingBudget : budgets, userIsLast : said, limit : limits, tools : tools]

\* What clients ask: an OpenAI client with or without tools, a Claude client
\* that has set a limit, a Gemini client.
Asks ==
  LET no == {"absent"}
  IN  Requests({"openai"}, {"absent", "none", "high"}, no, {Absent}, Efforts, {Absent}, {TRUE}, Limits, BOOLEAN)
      \cup Requests({"claude"}, no, Efforts, AnyBudget, no, {Absent}, BOOLEAN, Limits \ {0}, {FALSE})
      \cup Requests({"gemini"}, no, no, {Absent}, no, AnyBudget, {TRUE}, Limits, {FALSE})

ThinkingInit ==
  /\ model \in Models /\ request \in Asks
  /\ wanted = ExtractThinking(request)
  /\ outgoing = Dispatch(model, request, wanted)

\* The next request asks for another depth.
AskAgain ==
  /\ \E r \in Asks : /\ <<r.client, r.limit, r.tools>> = <<request.client, request.limit, request.tools>>
                    /\ request' = r
  /\ wanted' = ExtractThinking(request')
  /\ outgoing' = Dispatch(model, request', wanted')
  /\ UNCHANGED model

ThinkingSpec == ThinkingInit /\ [][AskAgain]_thinkingVars

-----------------------------------------------------------------------------
\* How deep an intent is, or what is sent: 0 for off and for nothing said.
Depth(i) ==
  CASE i.mode = "level" -> LevelToBudget[i.level]
    [] i.mode = "budget" -> i.budget
    [] i.mode = "on" -> 1
    [] OTHER -> 0

\* Whether one intent asks a model for no less than another.  A budget over that
\* of the deepest level is the level below it for a provider that takes levels,
\* and a model that cannot stop thinking is given the least level for none.
AsksNoLess(m, i, j) ==
  /\ {i.mode, j.mode} \subseteq {"none", "level", "budget"}
  /\ Depth(i) <= Depth(j)
  /\ i.level = "max" => j.mode = "level"
  /\ i.mode = "none" /\ j.mode = "budget" => m.canDisable \/ j.budget >= LevelToBudget["minimal"]

(* Who asks for more is not given less, whether in levels or budgets and      *)
(* whatever the provider takes, but for the room Claude's answer needs: a     *)
(* budget that reaches the ceiling is lowered under it, one that does not is  *)
(* left as it is.                                                             *)
NoShallower ==
  AsksNoLess(model, wanted, wanted') =>
    \/ Depth(outgoing.thinking) <= Depth(outgoing'.thinking)
    \/ /\ model.format = "claude-budget"
       /\ ToBudget(wanted', model.most) >= model.ceiling
       /\ Depth(outgoing'.thinking) >= model.ceiling - 1024

(* Claude and Gemini get a limit over the budget, and no limit over the       *)
(* ceiling that was not asked for.                                            *)
RoomToAnswer ==
  model.format \in {"claude-budget", "claude-adaptive", "gemini-budget"} =>
    /\ outgoing.thinking.mode = "budget" => outgoing.thinking.budget < outgoing.limit
    /\ outgoing.limit <= model.ceiling \/ outgoing.limit = request.limit

\* The levels each format has.
LevelsOf(format) ==
  CASE format = "openai" -> Levels \ {"max"}
    [] format = "claude-adaptive" -> {"low", "medium", "high", "max"}
    [] format = "gemini-level" -> {"minimal", "low", "medium", "high"}
    [] format = "deepseek" -> {"high", "max"}
    [] format = "kimi" -> {"low", "medium", "high", "max"}
    [] format = "step" -> {"low", "medium", "high"}

(* A provider gets a level it has, but for claude-adaptive and step, which    *)
(* are sent auto and minimal as well.                                         *)
LevelIsKnown ==
  outgoing.thinking.mode = "level" =>
    outgoing.thinking.level \in LevelsOf(model.format)
      \cup IF model.format \in {"claude-adaptive", "step"} THEN {"auto", "minimal"} ELSE {}

\* A model that can stop thinking does when it is asked to.
NoneIsNone ==
  wanted.mode = "none" /\ model.canDisable => outgoing.thinking.mode \in {"off", "nothing"}

(* The depth a client asks for is honoured, step by step.                     *)
ThinkingIsHonoured ==
  [][NoShallower /\ RoomToAnswer' /\ LevelIsKnown' /\ NoneIsNone']_thinkingVars
===============================================================================
