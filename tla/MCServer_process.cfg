SPECIFICATION MCSpec
CONSTANTS
  Scenes = {"usage", "details", "latency", "quota", "project", "mcp", "ping", "checkin"}
  MaxRestarts = 1
  Call = {u1, u2}
  Event <- MCEvent
  Detail = {d1, d2}
  Batch = 2
  MaxRows = 1
  Conn = {c1, c2, c3}
  MaxEntries = 2
  MaxSamples = 3
  QuotaKey = {k1, k2}
  MaxQuotaEntries = 1
  MaxLoads = 3
  Account = {a1}
  MaxAttempts = 2
  MaxFetches = 3
  Session = {s1, s2, s3}
  MaxChildren = 3
  Target = {t1}
  Window = 3
  Ahead = 1
  FarPoll = 2
  Cooldown = 2
  MinPing = 2
  Day = 6
  IdleStatus = 2
INVARIANTS TakenIsWritten WorkIsShared JobsDoTheirWork
PROPERTIES NewerStays WaitsEnd PingsAreNeeded
CHECK_DEADLOCK FALSE
