\* Every fault at once, and names that lose their end.
SPECIFICATION Spec
CONSTANTS
  NInodes = 3
  SlotsPerSector = 2
  NDirect = 1
  NIndirect = 0
  BlockSize = 2
  TotalBlocks = 13
  Names = {"a", "p", "r"}
  Stored <- Cut
  NoName = NoName
  Texts = {"x"}
  NoText = NoText
  PayloadLens = {1, 3}
  Interruptible = {"mkfs", "rm", "write"}
  NoMemory = TRUE
INVARIANTS
  TypeOK
  NoLeakUnlessCutOff
  TreeSoundUnlessAdrift
  PwdReachesRootUnlessAdrift
  UniqueNamesUnlessCut
  DirtyUnlessReformatted
