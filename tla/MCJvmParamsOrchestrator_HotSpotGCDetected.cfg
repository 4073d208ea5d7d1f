CONSTANT JVMs <- MCJVMs
SPECIFICATION Spec
INVARIANT HotSpotGCDetected
