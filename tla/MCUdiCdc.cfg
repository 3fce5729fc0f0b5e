SPECIFICATION Spec
CONSTANTS
  Size = 2
  Frames = 2
  ZlpFrames = 2
  Uses = {"read", "getc", "write", "putc", "signal"}
  MaxIn = 4
  MaxOut = 4
  MaxSignals = 2
  MaxSessions = 2
INVARIANTS
  ReadsInOrder RxServed TxInOrder
PROPERTIES
  Flushed StateAnnounced
