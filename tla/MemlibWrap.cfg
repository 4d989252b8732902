SPECIFICATION Spec
CONSTANTS
  mem_start_brk = 144
  MAX_HEAP = 40
  WORD = 256
  BYTE = 256
  Places = {144, 152}
  Incrs = {0, 24, 120}
  Ids = {2, 3}
  Sizes = {8}
  Types = {"a", "r", "f"}
  MaxOps = 2
  MaxTraces = 1
  Passes = {}
  Junk = {5}
PROPERTIES
  HeapNeverShrinks
CHECK_DEADLOCK FALSE
