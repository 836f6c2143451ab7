SPECIFICATION FairSpec
CONSTANTS
  MaxBytes = 2
  MaxStarts = 2
  MaxDepth = 2
  MaxPrints = 1
  MaxDiags = 1
  MaxInPlace = 1
  Programs <- AnyProgram
INVARIANTS TypeOK InOrder BytesKept FailedIsTransparent
PROPERTIES LeavesByItsOwnOperation FlushEnds
