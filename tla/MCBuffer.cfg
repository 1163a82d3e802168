SPECIFICATION Spec
CONSTANTS
  Capacity = 5
  Garbage = Garbage
  MaxChunk = 2
  MaxBytes = 8
INVARIANT TypeOK
INVARIANT OneMove
PROPERTY FifoWhileFits
