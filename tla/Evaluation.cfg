SPECIFICATION FairSpec
CONSTANTS
  MaxId = 9
  Rounds = {1, 2, 3}
  MaxLines = 3
  RecordedIds = {0, 1}
  TraceLists <- MCTraceLists
  Packages = {"fcyc", "itimer", "gettod"}
  Utils = {50, 100}
  AVG_LIBC_THRUPUT = 1
  HALF = 8
  Starts = {62}
  PERIOD = 6
  TICK = 6
  Chunks = {2, 4}
  CHUNKS = 2
  THRESHOLD = 2
  RECORDTHRESH = 4
  NEVENT = 2
  kbest = 2
  maxsamples = 3
  EPS = 10
  RUNS = 2
  Laps = {0, 1, 3, 5}
  USEC = 4
  MAX_ETIME = 2
INVARIANTS
  GeneratedAccepted
  BalancedEndsEmpty
  LoadedReplayable
  BestKept
  MeasuredExactly
  CompensationBounds
  ReportMatchesRuns
PROPERTIES
  HeaderStaysRight
  EvaluationEnds
CHECK_DEADLOCK FALSE
