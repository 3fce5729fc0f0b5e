SPECIFICATION PowerSpec
CONSTANTS
  Word = 6
  MaxEdges = 7
\* A count that has overflowed lets the CPU sleep where nothing wakes it.
CHECK_DEADLOCK FALSE
INVARIANTS
  IdleExact TimersRun
PROPERTIES
  UsbFollowsCable
