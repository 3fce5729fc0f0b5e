SPECIFICATION SafetySpec
CONSTANTS
  First = 4
  Last = 14
  Item = 3
  Page = 4
  QueueLen = 2
  Window = 3
  MaxStamp = 5
  MaxResets = 2
INVARIANTS
  FlagImpliesPosted
PROPERTIES
  DurableSpec SkipsOnlyPosted
