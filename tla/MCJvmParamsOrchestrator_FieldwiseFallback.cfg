CONSTANT JVMs <- MCJVMs
SPECIFICATION Spec
INVARIANT FieldwiseFallback
