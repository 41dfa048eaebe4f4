\* Payloads of several blocks, index block included, on a disk that fills up; mkfs may lose power.
SPECIFICATION Spec
CONSTANTS
  NInodes = 2
  SlotsPerSector = 1
  NDirect = 1
  NIndirect = 2
  BlockSize = 1
  TotalBlocks = 15
  Names = {"a", "b"}
  Stored <- Cut
  NoName = NoName
  Texts = {"x", "y"}
  NoText = NoText
  PayloadLens = {2, 3}
  Interruptible = {"mkfs"}
  NoMemory = FALSE
INVARIANTS
  BlocksExclusive
  ShortWriteMeansFull
PROPERTIES
  ImplementsFileStore
  OpTerminates
