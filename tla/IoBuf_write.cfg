SPECIFICATION Spec
CONSTANTS
  BufSize = 3
  File <- MCFile
  Hole = 0
  ReadLens = {1, 2, 4}
  Writes <- MCWrites
  MaxOffset = 5
  Uses = {"cross"}
INVARIANTS WriteArrives
