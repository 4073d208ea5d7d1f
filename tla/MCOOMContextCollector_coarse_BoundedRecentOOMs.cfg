CONSTANTS
  Pids <- MCPids
  KeepOOMs = 2
  MaxTime = 6
  StrictClock = FALSE
  MemValues <- MCMemValues
SPECIFICATION Spec
INVARIANT BoundedRecentOOMs
