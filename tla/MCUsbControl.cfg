SPECIFICATION Spec
CONSTANTS
  Packet = 2
  MaxLen = 3
  Sizes = {2, 3}
  CodingSize = 3
  Address = 1
  Settings = {0, 1}
  Targets = {"data"}
  MaxGiveUps = 1
INVARIANTS
  NoFalseStall WholeAnswer AddressAgreed ConfigurationWhole
PROPERTIES
  TransferEnds
