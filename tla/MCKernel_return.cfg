\* One program and more than enough memory, on either boot.
SPECIFICATION Spec
CONSTANTS
  Parts = {"sched"}
  HeapSize = 15
  Header = 2
  Slack = 1
  Word = 32
  Requests <- Asked
  MaxTasks = 1
  MemUnits = 20
  MaxWork = 1
  m = m
  q = q
  nul = nul
  Cap = 3
  GuiCap = 2
  MaxHistory = 2
  Chars = {m, q}
  Nul = nul
  Quit = q
  Monitor <- MonitorText
  Vgamode <- VgamodeText
  Exec <- ExecText
  Panic <- PanicText
PROPERTY
  ExecReturns
