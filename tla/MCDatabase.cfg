SPECIFICATION DatabaseSpec
CONSTANTS
  Req = {r1, r2}
  Records <- MCRecords
  FirstRow <- MCFirstRow
  Budget = 1
  Rpm = 1
  Window = 2
  KeyTtl = 2
  SpendTtl = 1
  MaxNow = 3
  Latest = 2
  Keep = 2
  MaxBoots = 3
  Legacies = {"none", "good", "short", "broken"}
  Loader = {l1, l2}
  Writer = {w1, w2}
  MaxRead = 2
  MaxWrites = 2
  Node = {n1, n2}
  FirstNode = n1
  MaxUrl = 2
  Pool = {p1}
  Combo = {b1}
  MaxConn = 3
  Editor = {e1, e2}
  MaxOps = 3
INVARIANTS PolicyBites RateIsCapped StartIsSafe ReadersSeeWrites ConfigurationHangsTogether
SYMMETRY MCSymmetry
CHECK_DEADLOCK FALSE
