SPECIFICATION Spec
CONSTANTS
  mem_start_brk = 8
  MAX_HEAP = 120
  WORD = 1024
  MAX_ALLOC_LOG2 = 8
  MIN_ALLOC_LOG2 = 4
  BYTE = 256
  Ids = {2, 3, 4}
  Sizes = {8, 20, 40}
  Types = {"a", "r", "f"}
  MaxOps = 2
  MaxTraces = 1
  Passes = {"util"}
  Junk = {5}
INVARIANTS
  TreeStartsSmall
CHECK_DEADLOCK FALSE
