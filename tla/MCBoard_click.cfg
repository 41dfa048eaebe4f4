\* The panic button against the message it prints: two packets, handlers nested by two.
SPECIFICATION Spec
CHECK_DEADLOCK FALSE
CONSTANTS
  Parts = {"desktop"}
  PageSize = 4
  Reserve = 2
  Capacity = 10
  ByteBits = 2
  Word = 64
  Kilo = 2
  Upper = 2
  Infos <- BootInfos
  Seconds = 3
  Minutes = 2
  MaxTicks = 2
  TraceMax = 3
  Events = {e1, e2, e3}
  Width = 20
  Height = 14
  Byte = 64
  WinX = 5
  WinY = 4
  WinW = 10
  TitleH = 1
  Margin = 1
  ButtonTop = 3
  ButtonEnd = 9
  Moves <- SomeMoves
  MaxPackets = 2
  MaxNest = 2
  Rows = 3
  Cols = 2
  ByteBase = 4
  MaxLength = 5
PROPERTY
  PanicIsAClick
