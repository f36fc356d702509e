SPECIFICATION Spec
CONSTANTS
  Request = {r1, r2}
  Streaming = {r1}
  Urls = 2
  Limit = 1
  RateLimitedRetries = 0
  ServerErrorRetries = 1
  NetworkRetries = 2
INVARIANTS CallsAreBounded CountedDownOnce PendingIsOwed ServedIsRecorded
PROPERTY EveryStreamEnds
CHECK_DEADLOCK FALSE
