SPECIFICATION FairSpec
CONSTANTS
  NItems = 2
  Titles = {"t1", "t2"}
  Repos = {"r1"}
  Criteria = {"c1"}
  MaxLines = 3
  IdeasMaxLines = 2
  Overlap = 1
  MaxOpen = 2
  MaxSources = 1
  MaxRuns = 2
  MaxConcurrent = 1
  Results = {"patch", "asking"}
  Scenarios <- MCScenarios
INVARIANTS ItemsSound RunsSound
PROPERTIES RunsForward RunEnds
CHECK_DEADLOCK FALSE
