SPECIFICATION StartSpec
CONSTANTS
  Latest = 2
  Keep = 2
  MaxBoots = 3
  Legacies = {"none", "good", "short", "broken"}
INVARIANT AbortedImportIsRetried
CHECK_DEADLOCK FALSE
