SPECIFICATION Spec
CONSTANTS
  mem_start_brk = 8
  MAX_HEAP = 72
  WORD = 512
  CHUNKSIZE = 16
  BYTE = 256
  Ids = {3, 130}
  Sizes = {4, 12}
  Types = {"a", "r", "f"}
  MaxOps = 3
  MaxTraces = 1
  Passes = {}
  Junk = {5}
INVARIANTS
  DataBlameFair
CHECK_DEADLOCK FALSE
