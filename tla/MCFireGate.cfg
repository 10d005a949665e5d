SPECIFICATION Spec
CONSTANTS
  Timing <- MCTiming
  InvalidWords = {2}
  Start = 10
  LineCap = 1
  MaxChanges = 2
INVARIANTS BackedUnlessTorn
PROPERTIES FollowsStatus
CHECK_DEADLOCK FALSE
