SPECIFICATION FairSpec
CONSTANTS
  mem_start_brk = 8
  MAX_HEAP = 72
  WORD = 512
  CHUNKSIZE = 16
  Ids = {1, 2}
  Sizes = {0, 4, 12, 20, 300}
  Junk = {5}
  MaxPasses = 2
INVARIANTS
  TypeOK
  HeapTiled
  Coalesced
  FreeListExact
  NothingLost
  PayloadsSafe
  PayloadsIntact
  GrowsOnlyWhenNeeded
  IInv
PROPERTIES
  RestartForgets
  SearchEnds
  ImplementsAllocator
