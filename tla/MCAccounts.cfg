SPECIFICATION MCSpec
CONSTANTS
  Conn = {c1, c2}
  Account = {1, 2}
  Model = {m1, m2}
  AccountKey = all
  NoConn = none
  Req = {r1}
  Probe = {}
  Asked = {m1, m2}
  Pins = {none}
  Editable = {c1}
  Failures <- MCFailures
  BaseCooldown = 1
  MaxCooldown = 2
  MaxLevel = 2
  ResetCap = 2
  MaxAttempts = 3
  Deadline = 1
  Selection = {s1, s2}
  Limit = 2
  Spaced = TRUE
  Affinity = TRUE
  NoAccount = 0
  Parts = {"loop", "sticky"}
INVARIANTS TypeOK RunsAreLimited
PROPERTIES LocksAreEarned HealIsExact CountersArrive
