CONSTANTS
  Bases <- MCBases
  CmdLines <- MCCmdLines
SPECIFICATION Spec
\* IsJvm and IsPerfmapDumpSupported are pure: each behaviour is one
\* inspection of one command line, after which nothing is left to do.
CHECK_DEADLOCK FALSE
INVARIANTS
  VersionedLaunchersDetected
