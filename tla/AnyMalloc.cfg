SPECIFICATION Spec
CONSTANTS
  mem_start_brk = 40
  MAX_HEAP = 40
  WORD = 256
  BYTE = 256
  Places = {40, 44, 48, 64}
  Incrs = {0, 24, 40, 41, 200}
  Ids = {2, 3}
  Sizes = {8, 17}
  Types = {"a", "r", "f"}
  MaxOps = 3
  MaxTraces = 2
  Passes = {"util"}
  Junk = {5}
INVARIANTS
  BreakInRegion
  RangesMatchBlocks
  AcceptedInHeap
  DataBlameFair
PROPERTIES
  HeapNeverShrinks
CHECK_DEADLOCK FALSE
