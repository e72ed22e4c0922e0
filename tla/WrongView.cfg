\* Expected violation: a failed notification is shown as a failed order.
SPECIFICATION ViewSpec
CONSTANTS
  o1 = o1
  Orders = {o1}
  MaxRetries = 0
  MaxCreations = 1
  MaxCrashes = 0
  MaxApplying = 2
  MaxLosses = 0
INVARIANTS
  CompletedIsNotShownFailed
CHECK_DEADLOCK FALSE
