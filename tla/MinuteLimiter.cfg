SPECIFICATION Spec
CONSTANTS
  Callers = {c1, c2}
  TokenCounts = {1, 2}
  ReqLimits = {0, 2}
  TokLimits = {0, 3}
  MaxMinute = 1
  MaxRuns = 2
  ClockMayStepBack = TRUE
INVARIANTS TypeOK
PROPERTIES ImplementsQuota DeniedForCause
