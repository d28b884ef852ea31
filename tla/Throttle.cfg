SPECIFICATION Spec
CONSTANTS
  Ids = {1, 2}
  NoRow = no_row
  Requests <- MCRequests
  Times <- MCTimes
  Limits = {0, 1, 3}
INVARIANTS TypeOK MultiplierAsWritten ThrottledWithinLimit
