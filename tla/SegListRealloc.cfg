SPECIFICATION Spec
CONSTANTS
  mem_start_brk = 8
  MAX_HEAP = 112
  WORD = 512
  CHUNKSIZE = 16
  GROUPSIZE = 6
  BYTE = 256
  Ids = {0, 3}
  Sizes = {4, 12, 20}
  Types = {"a", "r", "f"}
  MaxOps = 4
  MaxTraces = 1
  Passes = {}
  Junk = {5}
INVARIANTS
  ListsExact
CHECK_DEADLOCK FALSE
