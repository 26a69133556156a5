SPECIFICATION Spec
CONSTANTS
  g = g
  a = a
  b = b
  c = c
  s = s
  NULL = NULL
  Pmcs <- MCPmcs
  Bufs = {}
  Globals = g
  Regs <- MCRegs
  PmcInit = 4
  MaxRefs = 3
  MaxEarly = 1
  UintMod = 8
  EarlyNested = TRUE
SYMMETRY MCSymmetry
INVARIANT ReachableKept

