SPECIFICATION TranslationSpec
CONSTANTS
  MaxEvents <- MCMaxEvents
  Formats = {"openai", "claude", "gemini", "ollama", "responses"}
  Clients = {"openai", "claude", "responses"}
  Sources = {"openai", "claude", "gemini", "antigravity", "responses"}
  Targets = {"openai", "claude", "gemini", "antigravity", "responses", "ollama"}
  MaxMessages <- MCMaxMessages
  MaxCalls = 2
  MaxTrimPasses = 8
  MinOutput = 1
  Margin = 1
  Windows = {7}
  Outputs = {0, 2}
  Models <- MCModels
  Budgets = {100, 600, 5000, 63999, 200000}
  Limits = {0, 1000, 64000}
INVARIANTS ClientReadsWhatWasSaid RequestsAreFaithful
PROPERTIES ClaudeMessages ThinkingIsHonoured
CHECK_DEADLOCK FALSE
