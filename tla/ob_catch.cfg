SPECIFICATION Spec
CONSTANTS
  MaxBytes = 3
  MaxStarts = 2
  MaxDepth = 2
  MaxPrints = 0
  MaxDiags = 0
  MaxInPlace = 1
  Programs <- Catching
INVARIANT AllBytesKept
