\* two songs; the array is full, the counters overflow
CONSTANTS
  Pools <- TwoPools
  b1 = b1
  b2 = b2
  b3 = b3
  b4 = b4
  Blocks <- SomeBlocks
  MIN_MBLOCK_SIZE = 8
  ADDRALIGN = 2
  Sizes = {1, 9}
  Channels = {1}
  NoteCount = 2
  Samples <- ThreeSamples
  Shape <- Shapes
  Instrument <- TwoInstruments
  Kit <- Drums
  Step <- Ratio
  FRACTION = 2
  MIN_LOOPLEN = 3
  MIXLEN = 2
  SPLEN_T_MAX = 31
  CACHE_DATA_LEN = 11
  None = None
  Word = 16
  hash_entry_pool = "hash_entry"
  ENTRY = 2
  SAMPLE = 4
  POINTER = 2
  Voices = {1}
  Gaps = {0, 5}
  MaxEvents <- Songs
  MaxOthers = 1
SYMMETRY BlockSymmetry
\* the run ends after its songs
CHECK_DEADLOCK FALSE
SPECIFICATION CacheSpec
INVARIANTS OneOwner SegmentsApart Reachable DataIntact CountsSounding
