SPECIFICATION Spec
CONSTANTS
  Fields = {"bpdBalance"}
  Listeners = {l1, l2}
  MaxBlock = 2
  MaxFetches = 3
  HasMulticall = TRUE
  ReadsMayFail = TRUE
INVARIANTS
  StateIsOfItsBlock
  NotificationsHaveNoGaps
PROPERTIES
  BlocksUpdateState
  FetchesEnd
  NewestBlockIsFetched
\* A client that is stopped waits for its user.
CHECK_DEADLOCK FALSE
