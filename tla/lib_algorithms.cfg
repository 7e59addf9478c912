SPECIFICATION Spec
CONSTANTS
  Chunk = 4
  LenBytes = 2
  Bits = 4
  MaxTotal = 10
  Inputs <- SmallArrays
  FirstCap = 4
  MaxU32 = 20
  Requests = {1, 2, 4}
  Values = {1, 2, 3, 4, 5}
  StackCap = 4
  MaxLost = 1
  PathMax = 16
  BlockSize = 40
  Strings = {2, 12}
  Width <- Widths
  MaxPath = 4
  PATH_MAX = 16
  Cwds <- Homes
  Dirs <- Trees
  TargetNames <- DirNames
INVARIANTS Streamed Padded HeapForest SortedTail Room SortedSet Disjoint CleanLeads JoinKeepsAll ArgsApart TargetNamed
PROPERTY SortEnds
CHECK_DEADLOCK FALSE
