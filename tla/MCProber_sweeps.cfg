SPECIFICATION FairProber
CONSTANTS
  Conn = {c1, c2}
  Model = {m1}
  AccountKey = all
  NoConn = none
  Req = {u1, p1}
  Probe = {p1}
  ProbeSlot = p1
  Asked = {m1}
  Pins = {none}
  Editable = {}
  Failures <- LongestReset
  BaseCooldown = 1
  MaxCooldown = 2
  MaxLevel = 1
  ResetCap = 2
  MaxAttempts = 1
  Deadline = 0
  Lead = 2
  NoTarget = idle
PROPERTIES SweepsEnd UnlocksFollowSuccess
