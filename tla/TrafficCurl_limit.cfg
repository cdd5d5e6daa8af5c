SPECIFICATION Spec
CONSTANTS
  MaxSize = 4
  MaxChunk = 3
  MaxBytes = 7
INVARIANT StopsAtLimit
