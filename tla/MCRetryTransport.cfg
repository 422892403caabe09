SPECIFICATION FairTransportSpec
CONSTANTS
  Requests = {r1, r2}
  WithBody = {r1}
  MaxRetries = 2
  BaseBackoff = 1
  MaxBackoff = 2
  JitterPct = 50
  Burst = 1
  Rate = 1
  Hints = {2}
  NoHint = NoHint
  WordBits = 13
  MaxTicks = 3
INVARIANTS RateLimitHolds BodyIsWhole
CHECK_DEADLOCK FALSE
PROPERTIES CallsReturn
