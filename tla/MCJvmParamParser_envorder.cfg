CONSTANTS
  CmdLines <- MCCmdLinesOrder
  EnvValues <- MCEnvValuesOrder
  ParserVariant = "unnamed"
SPECIFICATION Spec
INVARIANT EnvPrecedenceAsCommented
