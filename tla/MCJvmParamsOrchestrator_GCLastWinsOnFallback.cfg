CONSTANT JVMs <- MCJVMs
SPECIFICATION Spec
INVARIANT GCLastWinsOnFallback
