SPECIFICATION FairSpec
CONSTANTS
  g0 = g0 r1 = r1 r2 = r2 s0 = s0 s1 = s1 s2 = s2 p1 = p1 p2 = p2 primary = primary sub = sub
  Peer = {p1, p2}
  Block <- MixBlocks
  Fork = {primary, sub}
  Genesis = {g0, s0}
  ForkOf <- MixForkOf
  Prev <- MixPrev
  Ref <- MixRef
  Height <- MixHeight
  Valid = {r1, s1, s2}
  Repeat = {s2}
  Premature = {}
  OffCheckPoint = {}
  NoProof = {}
  Has <- MixHas
  Steady = {p1}
  MayExpire = {}
  MayMint = {s1}
  MaxGetFail = 1
  NoPeer = NoPeer
  NoBlock = NoBlock
  MAX_INV_COUNT = 4
  MAX_PEER_BLOCK_INV_COUNT = 4
  MAX_REGETDATA_COUNT = 2
  MAX_REPEAT_BLOCK_COUNT = 2
  nMaxCount = 2
INVARIANTS TypeOK IndexConsistent NotWedged ReceivedIsSubmitted
PROPERTY Synchronises
