SPECIFICATION Spec
CONSTANTS
  g = g b1 = b1 b2 = b2 c2 = c2 c3 = c3 n1 = n1 n2 = n2 n3 = n3 d1 = d1 d2 = d2
  NoPeer = NoPeer NoBlock = NoBlock
INVARIANTS SchedConsistent BusyIsPending FollowsChain
PROPERTIES Spreads
CHECK_DEADLOCK FALSE
