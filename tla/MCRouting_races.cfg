SPECIFICATION MCLoopSpec
CONSTANTS
  Conn = {c1, c2}
  Model = {m1}
  AccountKey = all
  NoConn = none
  Req = {r1, r2}
  Probe = {}
  Asked = {m1}
  Pins = {none}
  Editable = {}
  Failures <- MCFixed
  BaseCooldown = 1
  MaxCooldown = 2
  MaxLevel = 1
  ResetCap = 2
  MaxAttempts = 3
  Deadline = 0
  Account = {1, 2}
  Selection = {s1, s2}
  Limit = 2
  Spaced = TRUE
  Affinity = TRUE
  NoAccount = 0
  Parts = {"loop"}
INVARIANTS DistinctAttempts
PROPERTIES NoEarlyGiveUp EveryRequestAnswered AccountsRecover ImplementsFailover
