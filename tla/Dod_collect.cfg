SPECIFICATION Spec
CONSTANTS
  g = g
  a = a
  b = b
  c = c
  s = s
  NULL = NULL
  Pmcs <- MCPmcs
  Bufs = {s}
  Globals = g
  Regs <- MCRegs
  PmcInit = 4
  MaxRefs = 2
  MaxEarly = 2
  UintMod = 8
  EarlyNested = FALSE
SYMMETRY MCSymmetry
INVARIANTS TypeOK MarkInvariant EarlyCounted ReachableKept
PROPERTIES SweepPrecise Timely ImplementsHeap
