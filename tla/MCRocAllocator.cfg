SPECIFICATION Spec
CONSTANTS
  Ids = {o1, o2, o3}
  UsizeBits = 5
  WordSize = 2
  MallocAlign = 4
  MemTop = 23
  MaxLength = 8
  Alignments = {1, 4, 8}
  Lengths = {0, 3, 6, 30}
SYMMETRY Symmetry
INVARIANTS TypeOK ChunksOwned MetadataFaithful PointersAligned
PROPERTY ImplementsRocHeap
CHECK_DEADLOCK FALSE
