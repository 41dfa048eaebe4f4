\* A power loss inside write or rm, then boot and further writes.
SPECIFICATION Spec
CONSTANTS
  NInodes = 3
  SlotsPerSector = 2
  NDirect = 1
  NIndirect = 0
  BlockSize = 2
  TotalBlocks = 13
  Names = {"a", "b"}
  Stored <- Cut
  NoName = NoName
  Texts = {"x"}
  NoText = NoText
  PayloadLens = {0, 1}
  Interruptible = {"rm", "write"}
  NoMemory = FALSE
INVARIANTS
  BlocksExclusive
