SPECIFICATION Spec
CONSTANTS
  SECTOR = 2
  U32 = 6
  I64 = 32
  ExtentLists <- LongFiles
  Counts <- McCounts
  Seeks <- NoSeeks
INVARIANT SizeCoversReads
