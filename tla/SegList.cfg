SPECIFICATION Spec
CONSTANTS
  mem_start_brk = 8
  MAX_HEAP = 112
  WORD = 512
  CHUNKSIZE = 16
  GROUPSIZE = 6
  BYTE = 256
  Ids = {2, 3, 4}
  Sizes = {4, 12, 20}
  Types = {"a", "f"}
  MaxOps = 5
  MaxTraces = 1
  Passes = {"util"}
  Junk = {5}
INVARIANTS
  NeverFaulted
  ReplaySucceeds
  ListsExact
  NeighboursMerged
CHECK_DEADLOCK FALSE
