SPECIFICATION Spec
CONSTANTS
  Size = 8
  Fifo = 3
  MaxBytes = 11
INVARIANTS
  ReadsWhatCame KeepsNewest
