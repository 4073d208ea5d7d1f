CONSTANTS
  CmdLines <- MCCmdLinesInit
  EnvValues <- MCEnvValuesInit
  ParserVariant = "unnamed"
SPECIFICATION Spec
INVARIANT InitialHeapMatchesSpec
