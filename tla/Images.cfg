CONSTANTS
  None = None
  Names <- Names4
  Counts = {0, 2}
  Seeks <- CallSeeks
  I64 = 4096
  Images <- MCImages
  MAX_CHUNK = 120
  MAX_BLOCKS = 2
SPECIFICATION Spec
INVARIANTS TypeOK OpensDataTrack
PROPERTY ImplementsStream
\* A caller whose `open` failed makes no calls.
CHECK_DEADLOCK FALSE
