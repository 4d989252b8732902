SPECIFICATION Spec
CONSTANTS
  mem_start_brk = 8
  MAX_HEAP = 80
  WORD = 512
  CHUNKSIZE = 16
  BYTE = 256
  Ids = {2, 3}
  Sizes = {4, 20}
  Types = {"a", "r", "f"}
  MaxOps = 6
  MaxTraces = 1
  Passes = {"util", "speed"}
  Junk = {5}
INVARIANTS
  NeverFaulted
  ReplaySucceeds
  ListExact
CHECK_DEADLOCK FALSE
