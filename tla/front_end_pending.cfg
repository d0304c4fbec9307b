SPECIFICATION Spec
CONSTANTS
  MaxTransactions = 2
  MaxIntrusions = 0
  MaxLate = 0
PROPERTIES
  PendingEnds
\* The user may do nothing.
CHECK_DEADLOCK FALSE
