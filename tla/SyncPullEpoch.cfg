CONSTANTS
  likes = likes
  tracks = tracks
  plays = plays
  Client = {d1}
  Table <- MCTable
  Library <- MCLibrary
  Key <- MCPair
  Removable <- MCRemovable
  TableOf <- MCTableOf
  Streams <- BothStreams
  MaxSeq = 2
  MaxBatch = 2
  MaxLimit = 1
  MaxEpoch = 2
SPECIFICATION FairSpec
INVARIANTS
  CursorWithinHead
PROPERTIES
  Converges
CHECK_DEADLOCK FALSE
