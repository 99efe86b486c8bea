SPECIFICATION GossipSpec
CONSTANTS
  Block = {1, 2, 3, 4, 5}
  Stored = {5}
  Prev <- MCPrev
  Valid = {1, 3, 4}
  Size <- MCSize
  Fork = {}
  Peer = {1}
  MAX_CACHE_CHN_BLOCK_COUNT = 2
  MAX_CACHE_CHN_BLOCK_SIZE = 2
  MaxEvents = 2
INVARIANTS  BlocksPassOn
CHECK_DEADLOCK FALSE
