\* Two programs and more than enough memory: only a tick inside task_create is left.
SPECIFICATION Spec
CONSTANTS
  Parts = {"sched"}
  HeapSize = 15
  Header = 2
  Slack = 1
  Word = 32
  Requests <- Asked
  MaxTasks = 2
  MemUnits = 20
  MaxWork = 2
  m = m
  q = q
  nul = nul
  Cap = 3
  GuiCap = 2
  MaxHistory = 2
  Chars = {m, q}
  Nul = nul
  Quit = q
  Monitor <- MonitorText
  Vgamode <- VgamodeText
  Exec <- ExecText
  Panic <- PanicText
INVARIANT
  NeverWild
