CONSTANT JVMs <- MCJVMs
SPECIFICATION Spec
INVARIANTS
  TypeOK
  CommandLineFallbackRightmost
PROPERTIES
  ResolverRefinement
