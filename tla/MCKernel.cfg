\* Fifteen bytes of heap with headers of two: up to five blocks that hold bytes.  Four programs,
\* and a heap that is one allocation short of what they need.  Lines of up to two characters,
\* two of them remembered; every command and the GUI.
SPECIFICATION Spec
CONSTANTS
  Parts = {"heap", "sched", "shell"}
  HeapSize = 15
  Header = 2
  Slack = 1
  Word = 32
  Requests <- Asked
  MaxTasks = 4
  MemUnits = 13
  MaxWork = 3
  m = m
  q = q
  nul = nul
  Cap = 3
  GuiCap = 2
  MaxHistory = 2
  Chars = {m, q}
  Nul = nul
  Quit = q
  Monitor <- MonitorText
  Vgamode <- VgamodeText
  Exec <- ExecText
  Panic <- PanicText
INVARIANTS
  Tiled
  HeldIsBacked
  RefusedMeansNoFit
  Coalesced
  Accounted
  SchedInv
  RunnableHasCode
  ShellInv
  EnteredIsShown
  HistoryIsRecent
PROPERTIES
  HeldIsKept
  ExecReturnsOrStops
  MainKeepsRunning
  PromptReturns
