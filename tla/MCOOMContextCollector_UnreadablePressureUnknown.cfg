CONSTANTS
  Pids <- MCPids
  KeepOOMs = 2
  MaxTime = 6
  StrictClock = TRUE
  MemValues <- MCMemValues
SPECIFICATION Spec
INVARIANT UnreadablePressureUnknown
