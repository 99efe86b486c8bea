SPECIFICATION DispatcherSpec
CONSTANTS
  Tx <- MCTx
  Address = {"p", "q"}
  Block <- MCBlock
  NoAddress = "none"
  From <- MCFrom
  To <- MCTo
  Nonce <- MCNonce
  Cert = {"e"}
  LowPrice = {"p1x"}
  Genesis = "g"
  Prev <- MCPrev
  Height <- MCHeight
  Trust <- MCTrust
  BlockTx <- MCBlockTx
  MaxPush = 5
  INIT_TX_SEQUENCE_NUMBER = 1
  MAX_TX_SEQUENCE_NUMBER = 3
  MAX_CACHE_MISSING_PREV_TX_COUNT = 2
  CONSENSUS_ENROLL_INTERVAL = 1
INVARIANTS
  TypeOK
  PoolIndexed
  NonceOrder
  PooledNotStored
  BlockFollowsChain
PROPERTY SubscriptionsSettle
