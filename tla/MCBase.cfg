SPECIFICATION BaseSpec
CONSTANTS
  Thread = {t1, t2, t3}
  Calls = 2
  N = 3
  Delayed = {2}
  MaxTimers = 2
  EventThread = {e1, e2}
  MaxPosts = 3
  MaxInvokes = 2
INVARIANTS  HandledInOrder
PROPERTIES LockSpec 
CHECK_DEADLOCK FALSE
