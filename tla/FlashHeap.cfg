SPECIFICATION Spec
CONSTANTS
  HeapSize = 24
  Lens = {4, 16, 17}
  Vectors <- MCVectors
  Behind <- MCBehind
INVARIANTS
  PacketsFillHeap
  DataKept
PROPERTIES
  OneWriteDecides
CONSTRAINT
  WhileIntact
