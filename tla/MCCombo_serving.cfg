SPECIFICATION MCSpec
CONSTANTS
  a = a
  b = b
  c = c
  d = d
  Req = {r1}
  Models <- MCTwo
  Key = {a, b}
  Resolved <- MCPlain
  StickyLimit = 2
  RoundRobin = TRUE
  Fits <- MCFits
  Retries = {0, 1, 2}
  Slack = 3
  Window = 2
  Threshold = 2
  BaseThrottle = 1
  Factor = 2
  MaxThrottle = 2
  TopLevel = 2
  Decay = 2
  Panel <- MCFour
  Judge = d
  MinPanel = 2
  Grace = 2
  HardTimeout = 4
  NoModel = none
INVARIANTS BalancedLeads NoModelLost JudgedInTime
PROPERTIES CooldownsRunOut EveryComboAnswers
