CONSTANTS
  CmdLines <- MCCmdLines
  EnvValues <- MCEnvValues
  ParserVariant = "containers"
SPECIFICATION Spec
INVARIANT InitialHeapMatchesSpec
