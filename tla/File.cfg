SPECIFICATION FairSpec
CONSTANTS
  SECTOR = 2
  U32 = 12
  I64 = 32
  ExtentLists <- SmallFiles
  Counts <- McCounts
  Seeks <- SmallSeeks
INVARIANTS TypeOK CursorInside BufferFaithful
PROPERTIES ImplementsFlatFile ReadReturns
