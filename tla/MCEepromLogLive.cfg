SPECIFICATION Spec
CONSTANTS
  First = 4
  Last = 17
  Item = 3
  Page = 32
  QueueLen = 2
  Window = 9
  MaxStamp = 3
  MaxResets = 1
PROPERTIES
  EveryRecordPosted
