SPECIFICATION Spec
CONSTANTS
  Callers = {c1, c2}
  TokenCounts = {2}
  ReqLimits = {2}
  TokLimits = {0, 2}
  Minute = 2
  TTL = 4
  CallTimeout = 1
  MaxSkew = 1
  MaxTime = 4
  MaxStray = 1
INVARIANTS TypeOK NothingElseCounts
PROPERTIES ImplementsQuota
