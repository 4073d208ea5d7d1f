CONSTANTS
  CmdLines <- MCCmdLinesZero
  EnvValues <- MCEnvValuesZero
  ParserVariant = "unnamed"
SPECIFICATION Spec
INVARIANTS
  MaxHeapMatchesSpec
