CONSTANTS
  CmdLines <- MCCmdLines
  EnvValues <- MCEnvValues
  ParserVariant = "unnamed"
SPECIFICATION Spec
INVARIANTS
  TypeOK
  MaxHeapMatchesSpec
  InitialHeapMatchesSpec
  CommandLineOverridesEnvironment
