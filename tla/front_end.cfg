SPECIFICATION Spec
CONSTANTS
  MaxTransactions = 2
  MaxIntrusions = 1
  MaxLate = 1
INVARIANTS
  ActiveViewIsNotClosed
PROPERTIES
  WaitingEnds
\* The user may do nothing.
CHECK_DEADLOCK FALSE
