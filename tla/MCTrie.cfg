SPECIFICATION PartSpec
CONSTANTS
  Nibble = {0, 1, 2, 3, 4}
  IndexWidth = 256
  Zero = Zero
  NoValue = NoValue
  Values <- MCValues
  MaxBatch = 2
  MaxWritten = 4
  MaxFail = 0
INVARIANT TriesHoldMaps
CHECK_DEADLOCK FALSE
