SPECIFICATION FairSpec
CONSTANTS
  Job = {j1, j2}
  MaxToken = 2
  TTL = 2
  MaxTries = 2
  Executor = {oauth, codex, workbuddy}
  SelfLocking = {codex}
  Direct = {workbuddy}
  NoJob = none
  Absent = absent
  Pending = pending
  Null = null
  Denied = denied
PROPERTIES RefreshAttemptEnds
