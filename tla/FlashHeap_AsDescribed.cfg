SPECIFICATION Spec
CONSTANTS
  HeapSize = 24
  Lens = {4, 5, 20}
  Vectors <- MCVectors
  Behind <- MCBehind
INVARIANT
  HeapAsDescribed
