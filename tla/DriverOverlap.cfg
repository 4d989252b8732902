SPECIFICATION Spec
CONSTANTS
  mem_start_brk = 40
  MAX_HEAP = 40
  WORD = 256
  BYTE = 256
  Places = {40, 48, 56}
  Incrs = {40}
  Ids = {2, 3}
  Sizes = {8, 24}
  Types = {"a", "r", "f"}
  MaxOps = 3
  MaxTraces = 1
  Passes = {}
  Junk = {5}
INVARIANTS
  OverlapsDetected
CHECK_DEADLOCK FALSE
