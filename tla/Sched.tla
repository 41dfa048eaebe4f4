-------------------------------- MODULE Sched --------------------------------
(***************************************************************************)
(* Programs under NewrexOS: the exec command (rexfs_exec in                *)
(* kernel/rexfs.c), the round-robin scheduler and the system calls         *)
(* (kernel/sched.c), and the timer interrupt that drives it.               *)
(*                                                                         *)
(* Task 0 is the kernel thread.  It runs one exec at a time, step by step, *)
(* and the timer may strike between any two steps.  Interrupt handlers and *)
(* system calls run with interrupts disabled and are one action each.      *)
(* A machine that follows or writes through a null pointer is "wild", one  *)
(* that ends in default_isr_handler is "locked"; neither does anything     *)
(* more that the model describes.                                          *)
(***************************************************************************)
EXTENDS Integers, FiniteSetsExt

CONSTANTS
  MaxTasks,   \* how many programs are started at most
  MemUnits,   \* the heap, counted in allocations
  MaxWork     \* how many steps a program that ends computes at most

ASSUME SchedAssumption == MaxTasks \in Nat \ {0} /\ MemUnits \in Nat /\ MaxWork \in Nat

Main    == 0
Tasks   == 0 .. MaxTasks      \* a task is named by its pid
Null    == -1
Forever == -1                 \* the work of a program that does not end
NotNEX  == -2                 \* a file that is no valid program
Files   == {NotNEX, Forever} \cup 0 .. MaxWork

States == {"RUNNING", "READY", "SUSPENDED", "none"}
Runnable == {"RUNNING", "READY"}

VARIABLES
  paging,     \* did kernel_main turn paging on
  machine,    \* "up", "locked" or "wild"
  active,     \* scheduler_active
  current,    \* current_task
  next,       \* next of each task
  state,      \* state of each task
  next_pid,
  mem,        \* what is left of the heap
  stage,         \* where in rexfs_exec the kernel thread is
  job,        \* the file being executed: what the program has left to do
  code        \* the task whose program is in code_buffer

schedVars == <<paging, machine, active, current, next, state, next_pid, mem, stage, job, code>>
sched == <<active, current, next, state, next_pid>>

Up == machine = "up"
MainAt(l) == Up /\ current = Main /\ stage = l
-----------------------------------------------------------------------------
\* kernel_main: paging is turned on if the boot loader is a Multiboot one.
SchedInit ==
  /\ paging \in BOOLEAN /\ machine = "up"
  /\ active = FALSE /\ current = Main /\ next_pid = 0
  /\ next = [t \in Tasks |-> Null] /\ state = [t \in Tasks |-> "none"]
  /\ mem = MemUnits /\ stage = "prompt" /\ job = 0 /\ code = Null

\* An unchecked kmalloc failed and its result is written through.
NullWrite == machine' = "wild" /\ UNCHANGED <<paging, sched, mem, stage, job, code>>

\* The file is read into a buffer on the heap; the first pid goes to the kernel
\* thread itself.
Load(f) ==
  /\ MainAt("prompt") /\ mem > 0
  /\ next_pid <= MaxTasks     \* bound
  /\ mem' = mem - 1 /\ job' = f /\ stage' = "loaded"
  /\ UNCHANGED <<paging, machine, sched, code>>

Reject ==
  /\ MainAt("loaded") /\ job = NotNEX
  /\ mem' = mem + 1 /\ job' = 0 /\ stage' = "prompt"
  /\ UNCHANGED <<paging, machine, sched, code>>

\* scheduler_active is set last: a tick before that finds no scheduler.
init_scheduler ==
  /\ MainAt("loaded") /\ job # NotNEX /\ ~active
  /\ IF mem = 0 THEN NullWrite ELSE
       /\ mem' = mem - 1
       /\ next_pid' = next_pid + 1
       /\ state' = [state EXCEPT ![Main] = "RUNNING"]
       /\ next' = [next EXCEPT ![Main] = Main]
       /\ active' = TRUE
       /\ UNCHANGED <<paging, machine, current, stage, job, code>>

\* task_create up to the queue: the task structure and its two stacks.
BuildTask ==
  /\ MainAt("loaded") /\ job # NotNEX /\ active
  /\ IF mem < 3 THEN NullWrite ELSE
       /\ mem' = mem - 3
       /\ state' = [state EXCEPT ![next_pid] = "READY"]
       /\ code' = next_pid
       /\ next_pid' = next_pid + 1
       /\ stage' = "link"
       /\ UNCHANGED <<paging, machine, active, current, next, job>>

NewTask == next_pid - 1
LastTask == CHOOSE t \in Tasks : next[t] = Main

\* Mutant: the last task is taken to be the one that runs.
LinkAfterCurrent ==
  /\ MainAt("link")
  /\ next' = [next EXCEPT ![current] = NewTask]
  /\ stage' = "close"
  /\ UNCHANGED <<paging, machine, active, current, state, next_pid, mem, job, code>>

\* curr->next = t
LinkTask ==
  /\ MainAt("link")
  /\ next' = [next EXCEPT ![LastTask] = NewTask]
  /\ stage' = "close"
  /\ UNCHANGED <<paging, machine, active, current, state, next_pid, mem, job, code>>

\* t->next = task_queue
CloseRing ==
  /\ MainAt("close")
  /\ next' = [next EXCEPT ![NewTask] = Main]
  /\ stage' = "wait"
  /\ UNCHANGED <<paging, machine, active, current, state, next_pid, mem, job, code>>

\* Mutant: exec waits only until the program is not running.
ReturnEarly ==
  /\ MainAt("wait") /\ state[NewTask] # "RUNNING"
  /\ mem' = mem + 1 /\ code' = Null /\ job' = 0 /\ stage' = "prompt"
  /\ UNCHANGED <<paging, machine, sched>>

\* The loop around hlt sees the program suspended; the buffer is freed.
ExecReturn ==
  /\ MainAt("wait") /\ state[NewTask] = "SUSPENDED"
  /\ mem' = mem + 1 /\ code' = Null /\ job' = 0 /\ stage' = "prompt"
  /\ UNCHANGED <<paging, machine, sched>>

ExecStep == Reject \/ init_scheduler \/ BuildTask \/ LinkTask \/ CloseRing \/ ExecReturn
-----------------------------------------------------------------------------
\* The i-th task behind the current one, Null from where the list breaks off.
Behind ==
  LET b[i \in 0 .. (MaxTasks + 1)] ==
        IF i = 0 THEN current
        ELSE IF b[i - 1] = Null THEN Null ELSE next[b[i - 1]]
  IN  b

\* Where the walk of task_switch ends: at a runnable task, back at the current
\* one, or at a null pointer.
Stops(t, st) == t = Null \/ t = current \/ st[t] \in Runnable

Chosen(st) == Behind[Min({i \in 1 .. (MaxTasks + 1) : Stops(Behind[i], st)})]

\* The states after a switch to n.
Switched(st, n) ==
  [t \in Tasks |-> IF t = n THEN "RUNNING"
                   ELSE IF t = current /\ st[t] = "RUNNING" THEN "READY"
                   ELSE st[t]]

\* task_switch, where st are the states of the tasks as it finds them
task_switch(st) ==
  LET n == Chosen(st)
  IN  IF n = Null THEN machine' = "wild" /\ UNCHANGED <<current, state>>
      ELSE current' = n /\ state' = Switched(st, n) /\ UNCHANGED machine

\* Mutant: the timer interrupts only the kernel thread.
TickKernelOnly ==
  /\ Up /\ active /\ current = Main
  /\ task_switch(state)
  /\ UNCHANGED <<paging, active, next, next_pid, mem, stage, job, code>>

\* timer_isr_handler
TimerTick ==
  /\ Up /\ active
  /\ task_switch(state)
  /\ UNCHANGED <<paging, active, next, next_pid, mem, stage, job, code>>

InProgram == Up /\ current # Main
WorkLeft == IF job = Forever THEN Forever ELSE job - 1

\* Without a user bit in the page tables no instruction of Ring 3 can run: the
\* first page fault ends in default_isr_handler.
PageFault ==
  /\ InProgram /\ paging
  /\ machine' = "locked"
  /\ UNCHANGED <<paging, sched, mem, stage, job, code>>

\* The program computes, or prints with system call 2.
Compute ==
  /\ InProgram /\ ~paging /\ job > 0
  /\ job' = WorkLeft
  /\ UNCHANGED <<paging, machine, sched, mem, stage, code>>

\* System call 3
Yield ==
  /\ InProgram /\ ~paging /\ job # 0
  /\ job' = WorkLeft
  /\ task_switch(state)
  /\ UNCHANGED <<paging, active, next, next_pid, mem, stage, code>>

\* Mutant: the task is made READY rather than SUSPENDED.
ExitReady ==
  /\ InProgram /\ ~paging /\ job = 0
  /\ task_switch([state EXCEPT ![current] = "READY"])
  /\ UNCHANGED <<paging, active, next, next_pid, mem, stage, job, code>>

\* System call 1, from the program or from the trampoline it returns to
Exit ==
  /\ InProgram /\ ~paging /\ job = 0
  /\ task_switch([state EXCEPT ![current] = "SUSPENDED"])
  /\ UNCHANGED <<paging, active, next, next_pid, mem, stage, job, code>>

UserStep == PageFault \/ Compute \/ Yield \/ Exit

SchedNext == (\E f \in Files : Load(f)) \/ ExecStep \/ UserStep \/ TimerTick

\* The timer keeps ticking; the kernel thread waits for nothing but the program;
\* and a slice of 55 ms is long enough for whoever has it to run an instruction.
\* A program that does not end need never call the system.
SchedFairness ==
  WF_schedVars(TimerTick) /\ WF_schedVars(ExecStep) /\ SF_schedVars(job # Forever /\ UserStep)

SchedSpec == SchedInit /\ [][SchedNext]_schedVars /\ SchedFairness
-----------------------------------------------------------------------------
(* Properties. *)

\* Tasks, the heap and the locals of rexfs_exec have their types, and the kernel
\* thread can always run: it is never suspended.
SchedTypeOK ==
  /\ paging \in BOOLEAN /\ machine \in {"up", "locked", "wild"}
  /\ active \in BOOLEAN /\ current \in Tasks /\ next_pid \in 0 .. (MaxTasks + 1)
  /\ next \in [Tasks -> Tasks \cup {Null}] /\ state \in [Tasks -> States]
  /\ mem \in 0 .. MemUnits /\ stage \in {"prompt", "loaded", "link", "close", "wait"}
  /\ job \in Files /\ code \in Tasks \cup {Null}
  /\ active => state[Main] \in Runnable

\* Whenever task_create is not in the middle of the queue, the list is one ring
\* through every task ever created, in the order of creation.
RingClosed ==
  active /\ stage \notin {"link", "close"} =>
    \A t \in 0 .. (next_pid - 1) : next[t] = (t + 1) % next_pid

\* Once the scheduler is active exactly one task is RUNNING, the current one.
OneRunning == active => \A t \in Tasks : state[t] = "RUNNING" <=> t = current

\* exec frees the code of a program only when no switch can go to it any more.
RunnableHasCode ==
  \A t \in Tasks \ {Main} : state[t] \in Runnable => code = t

\* Once its task is in the ring, a program that ends gives the prompt back.
ExecReturns == stage = "wait" /\ job # Forever ~> stage = "prompt"

\* The page fault that stops the machine for good; only a Multiboot boot, which turns
\* paging on, can end so.
Stopped == paging /\ machine = "locked"

\* Once its task is in the ring, a program that ends gives the prompt back on a boot
\* without paging; with paging it does so or stops the machine, and nothing else can
\* keep exec waiting: no tick is lost, no turn is skipped, the exit is seen.
ExecReturnsOrStops == stage = "wait" /\ job # Forever ~> stage = "prompt" \/ Stopped

\* A program that never ends does not keep the kernel thread from running: the
\* timer takes the processor away from it, unless the machine has stopped for good.
MainKeepsRunning == stage = "wait" ~> current = Main \/ Stopped

\* Starting a program never makes the kernel follow or write through a null
\* pointer.
NeverWild == machine # "wild"

\* Between the steps of task_create every switch finds a sound queue: the types, one
\* ring, and one RUNNING task, the current one, after any series of programs that end,
\* are preempted or are never left, with a tick at any moment.
SchedInv == SchedTypeOK /\ RingClosed /\ OneRunning
=============================================================================
