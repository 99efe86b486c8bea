SPECIFICATION Spec
CONSTANTS
  Block <- Blocks
  Genesis = 0
  Origin = {0, 13}
  Prev <- BlockPrev
  Ref <- BlockRef
  Trust <- BlockTrust
  Vacant = {24}
  Tx = {"t1", "t2"}
  Txs <- BlockTxs
  HeightBase = 10
  None = None
  nNeedVerifyCount = 2
  MaxFault = 1
  MaxLost = 2
  
PROPERTY StoreSpec
CHECK_DEADLOCK FALSE
