CONSTANTS
  likes = likes
  tracks = tracks
  plays = plays
  Client = {d1}
  Table <- MCTable
  Library <- MCLibrary
  Key <- MCKey
  Removable <- MCRemovable
  TableOf <- MCTableOf
  Streams <- AnyStreams
  MaxSeq = 3
  MaxBatch = 2
  MaxLimit = 2
  MaxEpoch = 1
SPECIFICATION Spec
INVARIANTS
  NoLostRow
  QuietMeansCurrent
CHECK_DEADLOCK FALSE
