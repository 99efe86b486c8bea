SPECIFICATION TrieSpec
CONSTANTS
  Nibble = {1, 2, 3}
  IndexWidth = 256
  Zero = Zero
  NoValue = NoValue
  Values <- SharedValues
  MaxBatch = 4
  MaxWritten = 4
  MaxFail = 0
INVARIANT AddedIsRetrieved
CHECK_DEADLOCK FALSE
