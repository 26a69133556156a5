CONSTANTS
    NULL = NULL
    MaxBuf = 3
    MaxDepth = 3
SPECIFICATION Spec
INVARIANT ThrowsToInnermost
