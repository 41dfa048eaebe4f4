# A TLA+ model of NewrexOS

NewrexOS is a small 32-bit x86 kernel: one kernel thread that runs a shell, interrupt
handlers for timer, keyboard, mouse and network card, a first-fit heap, a round-robin
scheduler for Ring 3 programs, and RexFS, a file system of its own on an ATA disk. This
directory holds TLA+ modules of its parts, TLC configurations that check them, and proofs
checked by TLAPS. Every definition that stands for code is listed in `PROJECT.json` under
`map` with the lines it stands for.

## 1. The system

| Part | State | Operations | Talks to |
|---|---|---|---|
| RexFS (`kernel/rexfs.c`) | on disk: superblock, 64 inodes, block bitmap, data blocks; in memory: `fs_mounted`, `current_dir_id`, a copy of the superblock | mkfs, mount, unmount, boot, touch, mkdir, cd, pwd, ls, rm, write, writehex, cat, exec | ATA driver, heap (writehex, exec), scheduler (exec) |
| Heap (`kernel.c` 90-207) | a list of blocks that tile one megabyte | kmalloc, kfree, statistics | everything that allocates |
| Scheduler (`sched.c`, timer handler) | ring of tasks, `current_task`, task states | init, create, switch, system calls exit, print and yield | timer interrupt, exec, heap |
| Shell (`kernel.c` main loop, history; `keyboard.c`) | `command_buffer`, `command_length`, `command_ready`, history ring, GUI input line | keystrokes (interrupt), main loop (thread), every command | all of the above |
| GUI, mouse | window, mouse packet, pointer, `frame_ready`, `vga_active` | mouse interrupt (re-entrant), timer, desktop loop | shell |
| Network (`rtl8139.c`, `pci.c`) | transmit index and descriptors, receive offset and ring, ARP cache, one TCP connection | look for the card, send, receive interrupt, ARP, ICMP, UDP, TCP | shell (netinfo, ping, udpsend), console |
| Memory (`pmm.c`, `vmm.c`) | frame bitmap, identity page table | init from the Multiboot map, alloc, free, enable paging | boot |
| Console | cursor, start of the input line, drawing place of monitor and watch | print, scroll, clear | everything that prints, interrupts included |
| Clock, event rings | CMOS registers and their copies; ring, index, count | read and decode; append and list | shell |
| Descriptor tables, ATA, boot | hardware tables and registers | set up, programmed I/O | all |

What is hard. The file system has no journal: an operation is a series of sector writes,
and power can fail between any two. The kernel has no locks: interrupt handlers share the
command buffer, the task ring, the cursor, the ARP cache and the transmit index with the
thread they interrupt, and the mouse handler even with itself. The network loses, repeats
and reorders.
Several operations fail half-way (no memory, full disk, payload too large) after they
have already changed the disk. Counters, rings and tables are small and fixed. The list of
hazards in `PROJECT.json` names each at its line.

What makes each part correct:

- RexFS: a block belongs to at most one file and is marked while it does; no block leaks;
  the directory tree and the current directory are sound; names are unique in a
  directory; a mounted disk is marked dirty; what is read is what was written.
- Heap: the blocks tile the heap, live allocations are disjoint and large enough, free
  neighbours are merged.
- Scheduler: the ring is closed whenever a switch walks it; one task runs; a task that
  exited never runs again; exec returns once its program has exited.
- Shell: indices stay inside the buffers, strings stay terminated; an Enter that was
  accepted is executed; handlers never wait.
- Network: a descriptor is reused only after it was sent; driver and card agree on where
  the next record starts and each frame is copied once; frames go to the host they are
  for; what is acknowledged was received and printed.
- Desktop, console, clock, events, memory: positions stay on the screen whatever
  interrupts whom; the bytes of a packet belong together; the time shown was the time;
  listings show the latest events; every frame handed out is memory and nobody else's.

Not all of this is so. Section 3 lists the runs in which it fails, and the properties of the
passing runs say how far it holds.

## 2. Modules

| Module | Stands for |
|---|---|
| `FileStore` | what RexFS promises: entries with contents of their own |
| `RexFS` | `kernel/rexfs.c` and the shell's raw `write` |
| `MCRexFS` | the values TLC uses |
| `RexFSProofs` | theorems about `RexFS`, the refinement of `FileStore` among them |
| `Heap`, `HeapProofs` | `kmalloc`, `kfree` and the heap statistics of `kernel.c`; theorems |
| `Sched`, `SchedProofs` | `kernel/sched.c`, the timer interrupt, and `rexfs_exec` as their user; theorems |
| `Shell`, `ShellProofs` | `drivers/keyboard.c`, the history, the GUI's input line and the main loop of `kernel.c`; theorems |
| `MCKernel` | `Heap`, `Sched` and `Shell`, with the values TLC uses |
| `Pci` | `drivers/pci.c` and `rtl8139_probe` |
| `Nic`, `MCNic`, `NicProofs` | `rtl8139.c`: start-up, sending, the receive interrupt, and the card; TLC's values; theorems about `Pci` and `Nic` |
| `Arp`, `Tcp`, `MCNet` | the protocols of `rtl8139.c` with the machines at the other end |
| `NetProofs` | theorems about `Arp`, `Tcp` and `Checksum` |
| `Checksum` | `ip_checksum` |
| `Pmm` | `mm/pmm.c` |
| `Clock` | `read_rtc` of `kernel.c` and the CMOS clock |
| `Trace` | `sys_trace` and `trace` of `kernel.c`, `kernel_trace` of `kernel/trace.c` |
| `Desktop` | the mouse handler, the window and the loop of vgamode of `kernel.c` |
| `Console` | `print_char_color`, `check_scroll` and their users in `kernel.c` |
| `MCBoard` | `Checksum`, `Pmm`, `Clock`, `Trace`, `Desktop`, `Console`, with the values TLC uses |
| `BoardProofs` | theorems about `Pmm`, `Clock`, `Trace`, `Desktop` and `Console` |
| `SetInduction` | induction over numbers and sums over sets, for the proofs |

The modules share no variables. They meet at a few places, each an abstraction of one in
the other: `Sched` counts heap allocations where `Heap` has blocks; what `Sched` loads is
what `Cat` of `RexFS` reads; a command that `Shell` runs is one step, where `RexFS` and
`Sched` have its steps; a frame that `Nic` hands to a protocol or sends for one is a step of
`Arp` or `Tcp`. This is sound because there is one kernel thread: no two commands overlap,
the interrupt handlers touch neither the heap nor the disk, and the receive handler runs
with interrupts off. `MCKernel`, `MCNet` and `MCBoard` check several modules in one run, in which
the initial state chooses the part that moves (`part`, out of `Parts`) and the others stand still;
a property of a part is checked where that part moves and holds trivially elsewhere.

### RexFS

`sb`, `itable`, `bitmap` and `data` are the disk; `mounted` and `cwd` are `fs_mounted` and
`current_dir_id`; `pc`, `cur`, `work`, `pay`, `k` and `blk` are the position and the locals
of the operation in progress. The shell runs one operation at a time. An operation with one
sector write (`Mount`, `Unmount`, `Create`, `RmDir`, `RawWrite`, the `cd`s) is one action.
`mkfs`, `rm`, `write` and `writehex` are one action per sector write: `Mkfs`,
`MkfsInodes` and `MkfsBitmap`; `RmFile`, `FreeBlock` and `RmInode`; `Write`, `FreeBlock`,
`BeginFill`, `AllocBlock`, `WriteData`, `AllocIndex`, `ZeroIndex`, `LinkIndex` and
`CommitInode`, with the early returns `HexNoMemory` and `TooLarge`. `write` and `writehex`
differ only in how they parse and in `HexNoMemory`, so they share their actions and start
at `wr_free` and `hex_free`. `PowerLoss` stops the machine between commands, and during the
operations of `Interruptible`; `Boot` is `rexfs_init`. mkfs may be typed at any time, mounted
or not and in any directory, as in the code.

Three variables are not in the code. `reformatted`: mkfs was typed since the file system was
mounted. `adrift`: the last mkfs was typed below the root, or lost power. `leaky`: since the last
whole mkfs, one lost power, or a write did after it had freed the old blocks. They name exactly
the cases in which the dirty mark, the tree and blocks are lost, which section 3 shows (`below`
and the list behind the runs); the properties that end in `UnlessReformatted`, `UnlessAdrift` and
`UnlessCutOff` hold in all others.

Abstractions. A payload is a text with a length; a data block records which text it holds
and from which block of it on. The file system is unable to look inside a text, with one
exception: after a fault an inode can name, as its index block, a block that has since
received text, and the code would take the text for block numbers. Runs and theorems that
admit such faults therefore use payloads that need no index block (`FaultsAssumption`).
The shell itself cannot type larger ones: a command line is 255 characters, half a block.
Payloads that need index blocks are the contract of the functions, not of the keyboard.
`Stored` is the cut to 27 characters; in the runs it is `Cut`, which maps two long names to
their common beginning, itself a name. A free slot is shown cleared; the code only sets its
id to 0 and clears the rest when the slot is used again. Left out: names with spaces (which
`touch` accepts and `write` cannot address) and disks of fewer than 12 sectors.

`FileStore` says: every entry has a content; a write or removal makes its entry unreadable
while it runs, and ends with the payload, a first part of it, or nothing; nothing else
changes. The refinement mapping reads an entry with `Cat`, the translation of `rexfs_cat`.

### Heap

`heap` maps an address to the block header there, if there is one; `held` is what the
callers hold. A call is one action per list element it looks at (`Skip`, `Take`, `Refuse`;
`Merge`, `Advance`, `Done`), so that the invariants are checked inside calls too. Sizes are
counted modulo `Word` where the code's 32-bit sum can wrap around. Callers free only what
they hold, and only once; the shell's `kfree` of an arbitrary address is left out, together
with the other debug commands. A header is a cell of its own, not bytes: that a caller
stays inside what it was given is the caller's affair.

### Sched

A task is named by its pid; task 0 is the kernel thread, which is in `rexfs_exec` at `stage`.
`Load`, `Reject`, `init_scheduler`, `BuildTask`, `LinkTask`, `CloseRing` and `ExecReturn`
are its steps: `task_create` is cut where a tick makes a difference, around the two
assignments that enqueue the task (the object file in the repository keeps their order).
`init_scheduler` is one step because it sets `scheduler_active` last. `TimerTick`, `Yield` and
`Exit` contain the whole of `task_switch`. A file is `NotNEX` (wrong size, magic or entry
point), a number of steps the program computes, or `Forever`. Memory is a number of
allocations. Where the code would write through or follow a null pointer, the machine is
`wild`: what memory at address 0 makes it do is not modelled. `paging` is chosen by the
boot loader's magic number: it is on after every Multiboot boot, and then the first
instruction in Ring 3 faults and the machine is `locked` (`PageFault`). Left out: tasks in
Ring 0 and `task_yield`, which have no caller, and exec refused before it allocates, which
changes nothing.

### Shell

The buffers are arrays of characters with their real end conditions, the main loop copies
and clears them byte by byte, and a key can strike between any two bytes. (The object file
copies four bytes at a time in one of the loops; a single byte is the finest it could be.)
`line`, `raced`, `torn` and `recent` are not in the code: they record what the screen
shows, whether a key came before the prompt was back, and what was entered. An arrow key's
two scancodes are one action, the shift key and the layout tables only choose the
character. The bytes that `add_to_history` reads behind the GUI's buffer are arbitrary.
Recognising a command and carrying it out is one step, except for monitor, watch and
vgamode, which wait for keys; exec, which waits with hlt until its program has ended
(`ExecLook`), and which the program can stop by an exception (`ProgramFaults`); and panic, which
never returns (`kernel_panic`). Typed in the GUI, in the keyboard interrupt, those that wait
leave the machine `stuck`.

### Pmm

`memory_bitmap` is the set of frames whose bit is set. `PmmInit` is `pmm_init_from_mmap` for
any account of memory in `Infos`: that the regions are marked in turn appears as "the last
region that covers a frame decides". Without a map, `TotalBytes` is the code's sum of the
lower memory, the upper memory and one megabyte, in which the lower memory is counted twice:
what is free then lies within that sum (`OnlyCountedIsFree`), and its last part need not be
memory. Sums are taken modulo `Word`, as in the code. Callers
free what they hold; the kernel itself has no caller yet. Left out: `pmm_init`, which is
never called, and a boot without Multiboot information, where the bitmap stays empty.

### Pci and Nic

`pci_scan_devices` is an operator on what is on the bus: which functions the loops visit and
which fit on the list. `Nic` has the kernel thread at `pc` and the receive handler at `isr`.
Sending is cut where an interrupt makes a difference: reading `tx_index` (once: the compiled
function keeps it in a register), waiting, each half of the copy, handing the descriptor
over, storing the index. The handler's own sending, `Answer`, is a single step because the
handler has interrupts off. The interrupt line is level-triggered, so the thread does not
move while a status bit is set. The card is external, modelled from its data sheet as far
as the driver relies on it: `Transmit` takes the descriptors in turn, `Arrive` writes a
record at `cbr` if it fits between `cbr` and `capr`, and with the WRAP bit, which
`rtl8139_init` sets, it does not split a frame at the end of the ring. `Faithful` compares
the addresses the driver takes a frame's bytes from with those the card put them at; a
frame that was not copied faithfully may make the handler do either. `netinfo` runs
`rtl8139_probe` again, which forgets the card for a moment. `due`, `raced` and `whole` are
not in the code: they compare what leaves with what was handed over. Left out: the timeout
bits and error bits, which the driver ignores.

### Arp, Tcp and Checksum

In `Arp` the handlers are one action per frame, and `ping` and `udpsend` are steps on the
thread: looking the address up, copying each half of it, waiting, sending. A hardware
address is the host and how often it has changed, so that a torn copy shows; `Movers` are the
hosts that change theirs. `heard` records
what each host last announced. `PollTimeout` may come at any time, because the wait counts
instructions. `Tcp` is `handle_tcp_packet` against a client with up to `window` pieces of data
under way, each of which it sends again until it is acknowledged; it may crash, and then opens
another connection from another port, with another initial number (`isn`, out of `Isns`), whose
numbers may overlap with the old ones. A piece has `DataLen` bytes, of which the responder
prints the first `PrintLimit`, as its loop does with 128; `printed` is the set of bytes that it
has printed. The initial number of the responder is 2000, as in the code. `Checksum` sums headers of up to five bytes step by step and compares the result
with RFC 1071 as a formula.

### Clock, Trace, Desktop, Console

`Clock` reads one register per step while `Announce` and `Update` let the clock go on; it has
all four register formats. `Trace` is both rings, which record in the same way, and the
listing of the trace command. (`dump_trace_log` in `trace.c` goes through its ring too, but the
statement that prints is a comment.)

In `Desktop` `active` is the stack of mouse handlers: the handler says `sti` first, so the next
byte's interrupt can come inside it. Every access to shared memory is a step of its own, in the
order of the object file in the repository, which loads `mouse_cycle`, the bytes of the
packet and the pointer into registers, adds before it clips, and tests the window against the copies it has
loaded; a handler has these registers in its record. Bytes have the values that the mouse
sends: one of a movement can have bit 3 and pass for a first byte. `mouse_byte` has three
elements, and `mouse_cycle` lies behind it in memory: a fourth byte is stored there, and one
further on makes the machine `wild`, of which nothing is claimed. `nested` records that a handler
has run inside another, `crossed` that the latest packet was applied inside the application of
another. The timer's task switch inside a mouse handler is not modelled.

`Console` follows the
compiled function too: one load of the cursor, one store, and scrolling decided by the value
stored; the interrupts that print in between are whole steps. `DrawHere` and `DrawAgain` are
the saved cursor of monitor and watch.

## 3. Runs

| Run | Admits | Checks |
|---|---|---|
| `big` | 1 direct and 2 indirect pointers, 4 blocks, files of 2 and 3 blocks, power loss inside mkfs | `BlocksExclusive`, `ShortWriteMeansFull`, `ImplementsFileStore`, `OpTerminates` |
| `faults` | 3 inodes in 2 sectors, 2 blocks, power loss everywhere, no memory, payloads too large, names that are cut | `TypeOK`, `NoLeakUnlessCutOff`, `TreeSoundUnlessAdrift`, `PwdReachesRootUnlessAdrift`, `UniqueNamesUnlessCut`, `DirtyUnlessReformatted` |
| `powerloss` | power loss inside write and rm | `BlocksExclusive` fails |
| `below` | mkfs in a subdirectory | `PwdReachesRoot` fails |
| `kernel` | heap: 15 bytes, headers of 2, requests of 0, 1, 3 and one that wraps around | `Tiled`, `HeldIsBacked`, `RefusedMeansNoFit`, `Coalesced`, `Accounted`, `HeldIsKept` |
| | sched: 4 programs that end or not, memory for 3, ticks anywhere, paging on or off | `SchedInv` (types, `RingClosed`, `OneRunning`), `RunnableHasCode`, `ExecReturnsOrStops`, `MainKeepsRunning` |
| | shell: 2 characters, lines of 2, 2 lines of history, GUI lines of 1 | `ShellInv` (types, `Terminated`, `GuiLineWhole`), `EnteredIsShown`, `HistoryIsRecent`, `PromptReturns` |
| `exec_return` | sched: paging on or off | `ExecReturns` fails |
| `exec_race` | sched: enough memory | `NeverWild` fails |
| `nic` | a ring of 28 bytes, frames of 8 and 9, 2 descriptors, 6 buses, interrupts anywhere | `NicInv` (types, `CardIsFound`, `RxInStep`), `WholeFramesAreRead`, `SentAsHanded`, `NicProgress` (`FramesHandled`, `CommandsEnd`) |
| `tx_race` | the same | `CopiesIntoFree` fails |
| `net` | arp: 3 hosts for 2 cache entries, one of them may change its address | `ArpInv` (types, `OneEntryEach`, `HeardIsKept`), `AddressedToTarget` |
| | tcp: 2 connections with numbers apart or overlapping, 1 or 2 pieces under way, one byte of each over the limit, 2 losses | `TcpInv` (types, `AcksFollowPrints`, `LastAckedIsPrinted`, `AckedIsPrinted`, `PrintedWithoutGaps`), `ConnectionCompletes` |
| `board` | see below | `PmmInv` (types, `HeldIsMarked`, `Counted`, `OnlyRamIsFree`, `OnlyCountedIsFree`, `RefusedMeansFull`); `ClockInv` (types, `TimeWasRightUnlessTwelve`); `TraceInv` (types, `RingKeepsRecent`); `DesktopInv` (types, `BytesInStep`, `PointerOnScreen`, `GripKept`, `GrippedByTitle`), `PointerIsDrawn`; `ConsoleInv` (types, `WritesOnScreen`); `ChecksumIsRfc` |
| `click` | desktop: mouse handlers nested by two | `PanicIsAClick` fails |

Bounds. Three inodes in two sectors allow a directory in a directory with a file in it, slot
reuse and a table cleared half-way. Two names (in `faults` a short one, a long one and what the
disk keeps of it) make every search ambiguous that can be. One direct and two indirect pointers reach every branch of the
write loop, with one, two and no block missing. No counter of RexFS is
capped: the state spaces are finite as they are. The heap is large enough for three blocks
between two free ones, so that both neighbours of a freed block can be free, and one byte
too small for a split that leaves a header. In part sched of `kernel`, `MaxTasks` caps the programs ever
started; four is two more than a ring needs to hold a suspended task before and behind the
running one, and the memory is chosen so that the fourth does not fit. In part shell the line
is full after two keys, the history after two commands, and the GUI's buffer is one
shorter than the shell's, so that every limit is met, in both orders where there are two.

In `nic` records take 12 or 16 bytes of a ring of 28, so that frames start at every aligned
offset and end before, in, at and behind the last four bytes. Two descriptors are enough
for one in use and one free, and for the index to come round. The buses hold a card behind a
device of several functions, one that the list has no room for, no card, a card without I/O
ports alone and before a usable one, and a function 1 without a function 0. In part arp of `net` two cache
entries for three hosts fill the cache, and one change of address tears a copy. In part tcp the
first connection's numbers wrap around at 16, and those of the second are apart from them or
overlap; two pieces of data are the least that can leave a gap, and a piece of two bytes with a
limit of one is the least of which a part is not printed. `MaxWire`, `MaxFlight` and `MaxLosses` bound what
is under way or lost. In `board` there are 10 frames, 2 of them reserved, and 8 boot loaders'
accounts of memory, four with a map; minutes of 3 seconds and hours of 2 minutes, with 24 hours, and
at most 2 updates (`MaxTicks`) while a call reads, so that each pair of registers can be
torn; a ring of 3 events; a screen of 20 by 14 points, on which the window can be dragged to
the edge, four movements in bytes of 64 values (the least that hold the flags), among them one
whose byte has bit 3 and one that the signed type turns round, and two packets (`MaxPackets`),
the least that can be mixed up, with one handler inside another (`MaxNest`); a text screen of 3 rows
of 2; and all strings of up to 5 bytes of 4 values (`MaxLength`), which make more carries
than real headers do.

Fairness. `Spec` has weak fairness on `OpStep`, the next step of the running operation:
it runs on the only kernel thread and waits for nothing but the disk, which is assumed to
answer. No command is ever assumed to be typed. `Sched` and `Shell` have it on the timer and on the kernel
thread's steps; `Sched` adds strong fairness on the steps of a program that ends, because a
slice is 55 ms and a tick does not come before an instruction was run. `Tick` and the keyboard
handlers are always enabled, because no handler leaves interrupts off; where one does (the
GUI's commands), and after a panic or a program's exception, the model is `stuck`. `MCKernel` requires each fairness in its own part only. A wild, locked or
stuck machine has no next step; `kernel` therefore lets the parts sched and shell stutter, and
checks the heap for deadlock.

`Nic` has weak fairness on the thread, the handler and the card's sending: the processor
runs one of the first two whenever it is not halted, and the card sends what it was given.
No frame is assumed to arrive and no command to be typed. `Tcp` has it on
the handler and on the client's timer and receiving, and bounds losses: that a connection
completes says something only of a network that lets something through. `Desktop`
has it on the handlers, the timer and the loop. The others have none: what is checked of
them is safety.

The failing runs are disagreements between code and documentation that the modelling met;
`findings` in `PROJECT.json` quotes both sides. In short: an overwrite cut off by a power
loss leaves an inode with blocks that are free, and mount does not look (`powerloss`); mkfs does not
reset the current directory (`below`); programs fault at once under paging (`exec_return`); the
task ring is open for a moment (`exec_race`); a descriptor can be picked twice (`tx_race`); dragging
can press the panic button (`click`).

Further ones, that a change of a configuration shows:

- `below` with `DirtyWhileMounted`: mkfs typed while mounted sets clean_shutdown to 1 (`rexfs.c` 98)
  and leaves the file system mounted, so that a power loss from then on gives no warning.
  `NEWREX_CONTEXT.md` 119 has the flag at 0 from mount to unmount.
- `below` with `Names = {"p", "q"}` and `UniqueNames`: a name of 28 characters is stored cut to 27
  (`rexfs.c` 264, 463) and compared in full (242), so that it is never found and can be made again
  and again. The comment on the check (236) is "Check if name already exists in current directory".
- `powerloss` with `Interruptible = {"mkfs"}` and `MountFindsTree`: mkfs writes a valid superblock
  first (`rexfs.c` 100), and mount compares magic and version only (122): after a power loss in between it
  accepts entries whose directory has been cleared. `NEWREX_CONTEXT.md` 176 says that mount "runs
  consistency checks".
- `click` with `Parts = {"desktop"}` and `PacketIsFull`: the mouse handler enables interrupts (`kernel.c` 766)
  before it has counted its byte (774); one that interrupts it there makes the driver apply bytes of two
  packets as one. The comment at 786 speaks of "a full packet".
- `click` with `Parts = {"clock"}` and `TimeWasRight`: twelve noon is shown as 0 and twelve midnight
  as 12 (`kernel.c` 486); the copy in `rtc.c` 83 calls the statement "Convert to 24-hour time".
- `click` with `Parts = {"trace"}` and `TraceListsRecent`: the comparison that chooses where the list
  starts (`kernel.c` 1080) is the wrong way round: before the ring is full the list of "RECENT INTERNAL
  KERNEL EVENTS" (1079) starts behind the last event, afterwards at entry 0.
- `powerloss` with `Interruptible = {}` and `NoMemory = TRUE`: writehex gives up after it
  has freed the file's blocks (`rexfs.c` 843).
- `kernel` with `NeverWild`, also without a tick at the wrong moment: exec frees only the code buffer (`rexfs.c` 1056), not the
  task structure and the stacks, so that after about 126 programs task_create writes
  through the null pointer that kmalloc returned (`sched.c` 38). `NEWREX_CONTEXT.md` 144
  says that the loader cleans up.
- `big` with `NoLeak`: a data block for which no index block is left stays marked without an
  owner (`rexfs.c` 671). `BlocksExclusive` and the refinement hold all the same.
- `monitor` asks for a 'Q' (`kernel.c` 1105) that the keyboard handler drops once 255
  characters are in the line (`keyboard.c` 92).

Others the models contain, in states or cases that a property names:

- A command of the GUI that waits with hlt runs inside the keyboard interrupt with interrupts
  off (`kernel.c` 644) and freezes the machine (`Shell`, `stuck`).
- After the race of `tx_race` a descriptor can have been handed over out of its turn; the
  handler may then wait for one that the card will never send, with interrupts off
  (`raced` in `FramesHandled`). Four descriptors do not help.
- An interrupt while netinfo has cleared the I/O base acknowledges nothing and comes again at
  once: the thread never gets to set the base (`Blind` in `FramesHandled`).
- A frame of which only the checksum lies across the end of the ring gives the second copy a
  negative length (`RunsAway`, in `WholeFramesAreRead`); and because the WRAP bit is set, the card writes a
  frame that crosses the end on behind the 8192 + 16 bytes of the buffer, while the driver
  reads it from the ring's start.
- A host that is first heard of when the ARP cache is full is never entered
  (`HeardIsKept`), and pings to it time out.
- TCP. What is acknowledged is not always printed: a segment is printed up to its 128th byte
  and acknowledged to its end (`rtl8139.c` 652, 659), which is why `IsPrinted` speaks of the
  bytes below the limit; a segment behind a lost one is acknowledged, and a client that sends
  ahead takes that for the lost one as well (`window = 1` in `StopAndWait`); and once a
  connection is open neither port nor sequence number of a segment is looked at, so that
  what is left of an earlier connection can be acknowledged in the present one
  (`NumbersApart`). TLC refutes `AckedIsPrinted` without either of the two, and
  `LastAckedIsPrinted` without the second. `AcksFollowPrints` needs neither. No document of the
  repository promises more of the responder.
- TCP also: a late SYN of an earlier connection takes the responder over (`TakenOver`); data
  that comes again is printed again; the data of the segment that completes the handshake is
  dropped, and the client has to send it again; a FIN with data is acknowledged as if it had none.
- `mouse_byte` is a signed char: a step of one to the left or down travels 257 points, and a
  long step to the right goes left (`Travel`). Every ordinary step down in a drag is therefore
  long enough to reach the panic button.
- A packet that is applied inside the application of another uses places that the outer
  handler is about to change, and the outer one goes on with places that are gone: the window can slip out
  of its grip (`crossed` in `GripKept`) until the next packet.
- Without a memory map, the lower memory is counted twice (`pmm.c` 111), and regions of a map
  that do not end at a page are rounded outwards (`mark_frames`): the last frames of either can be
  no memory. `OnlyCountedIsFree` and `OfWholePages` say what remains.
- Keys that are pressed between Enter and the next prompt can be lost, become part of the command
  that runs, or tear the line that goes into the history (`raced` and `torn` in
  `EnteredIsShown` and `HistoryIsRecent`). The indices and the ends of the strings hold even then (`ShellInv`).

## 4. Proofs

Every invariant and action property that a passing run checks, and the refinement, is also a
theorem: for every size, every number of hosts, tasks or frames, every set of payloads or
requests, instead of the small ones of section 3. Each theorem is listed with its property
under `theorems` in `PROJECT.json`.

What is only model-checked is liveness, which the proof system does not reach:
`OpTerminates`, `ExecReturnsOrStops`, `MainKeepsRunning`, `PromptReturns`, `NicProgress`,
`ConnectionCompletes` and `PointerIsDrawn`.

Induction. The library's induction theorems take the predicate as an operator, which the
provers cannot instantiate. `SetInduction` has a set in its place: `LeastElement`,
`GreatestElement` and `Climb` (what contains 0, and n + 1 with n, contains all up to m), all
from the well-foundedness of the natural numbers. With them a recursive function over
numbers is shown to exist and to have the value it is meant to have (`PwdWalk` of `RexFS`, the walk
of `task_switch`). `FoldExists` and `FoldSums` do the same for the library's folds over sets:
the function exists, and the order in which `CHOOSE` takes the elements makes no difference.

### RexFSProofs

| Theorem | States | Assumes |
|---|---|---|
| `TypeCorrect` | `[]TypeOK` | the module's assumptions |
| `NamesUnique` | `[]UniqueNamesUnlessCut` | the same |
| `CrashIsVisible` | `[]DirtyUnlessReformatted` | the same |
| `TreeIsSound` | `[]TreeSoundUnlessAdrift` | the same |
| `PwdFindsRoot` | `[]PwdReachesRootUnlessAdrift` | the same |
| `BlocksAreExclusive` | `[]BlocksExclusive` | rm and write are not interrupted, memory suffices, payloads fit |
| `RexFSIsAFileStore` | `ImplementsFileStore` | the same as `BlocksAreExclusive` |
| `NoBlockLeaks` | `[]NoLeakUnlessCutOff` | payloads fit the direct pointers or are refused |
| `ShortWriteMeansDiskFull` | `[]ShortWriteMeansFull` | the module's assumptions |

The first five admit every fault at once, mkfs at any time, and any way of cutting names; what
their properties leave open (a name that is cut, a mkfs under a mounted file system, a mkfs below
the root or cut off) is refuted, as section 3 shows.
`BlocksAreExclusive` and the refinement are false without any one of their assumptions, as
section 3 shows.
`NoBlockLeaks` admits every fault too: its property says nothing after a power loss in mkfs, or in a
write that has begun to allocate, until the next whole mkfs. Its assumption is about the index block: a write that gets a data block and then no index block for it
leaves the data block marked. The shell can type no such payload.

`TypeOK` is not inductive: the steps of an operation need to know that `cur` is a slot,
that `blk` is a data block when it is written, that `k` is below the loop's bound. `OpOK`
adds that, per phase. `TreeInv` says of the running operation that `cur` is not a
directory in use, and of mkfs that it runs at the root. It holds unless `adrift`; while mkfs runs
nothing need hold of the tree, and `MkfsInv` says that the sectors it has passed are empty, so that
the tree is sound again when it ends.

`Acyclic`: a number can be given to every inode such that it decreases from an entry to its
parent. mkdir gives the new slot a larger one than all others; rm of a directory needs it to be
empty, so no entry points to a slot when it is used again. pwd's walk can then not meet an entry
twice, and with one step per inode it must have met the root (pigeonhole).

`BlockInv` speaks of `R(i, j)`, the block that reference j of inode i counts as owning:
for the inode an operation works on, the references not yet freed, or those already
written into the operation's copy. `Marked` and `Distinct` are the two halves of
`BlocksExclusive` over `R`; `Pending` says that the block just allocated is marked and not
yet referenced. The step that needs the most care is `FreeBlock`, where a reference leaves
`R` in the same step in which its block leaves the bitmap, and `AllocBlock`, where a block
outside the bitmap must be outside `R`, which is `Marked`.

`LeakInv` is the converse: every marked block is owned by an inode (`AllOwned`), where the
running operation owns through its copy in memory or through the inode on disk, depending on
its phase (`CopyInStep`). It need not hold while `leaky`, which only a mkfs that is done resets
(`OnlyMkfsForgets`), when it has emptied the bitmap. A power loss while blocks are freed loses none:
the inode on disk still has all the pointers that the copy has.

`SizeInv` counts the bytes written per phase of a write; a write that commits with fewer than
it was given comes from a search of the bitmap that found nothing.

The refinement needs `BlockInv`, so that a write touches no other file's blocks; `FillInv`,
which says where the blocks of the payload lie that have been written so far (`Laid`: behind
the direct pointers, in the index block, or just written and not yet referenced); `Committed`,
the three ways in which a write ends; and `SizesFit`, so that `Cat` reads the committed pointers
and no others. `StoreStep` is the step of `FileStore`; there is one lemma per kind of action.

### HeapProofs

| Theorem | States |
|---|---|
| `HeapIsTiled` | `[]Tiled` |
| `AllocationsAreBacked` | `[]HeldIsBacked` |
| `FreeBlocksCoalesce` | `[]Coalesced` |
| `RefusalIsJustified` | `[]RefusedMeansNoFit` |
| `PointersStayGood` | `HeldIsKept`, an action property |
| `FiguresAddUp` | `[]Accounted` |

The only assumption on the constants that is not about types is that the heap, a header and
the slack together are smaller than 2^32. `HeapInv` adds two facts about a call in
progress. `Scanned`: no free block before kmalloc's position fits; at the end of the list
this is `RefusedMeansNoFit`. `Swept`: before kfree's position, and everywhere outside
kfree, no two neighbours are free; a merge keeps the position, so the merged block is
looked at again before the position passes it. Tiling needs `Tiled` alone, which relates
each block to its neighbour and orders all pairs. `Accounted` follows from `Tiled`: below
every boundary between blocks the sizes and headers add up to the boundary (`FiguresAdd`), by
induction over the boundaries.

### SchedProofs

`SchedInvInvariant` and `RunnableHasCodeInvariant` hold for any number of programs and any
memory, with a tick between any two steps of exec. `IndInv` says what the list looks like in
each part of `task_create` (`Listed`: closed without the new task, open with it, closed
with it) and that the program exec waits for is the only one not suspended (`OneProgram`).
`task_switch` is a walk over `next`: it ends at a null pointer, at the task that it leaves, or
at one that can run, because the list leads to the kernel thread, which always can, or breaks
off (`ChosenCanRun`). It breaks off only between the two assignments, where a tick makes the machine
wild, as `exec_race` shows.

### ShellProofs

`ShellInvInvariant`, `EnteredIsShownInvariant` and `HistoryIsRecentInvariant` hold for every
length of line and history; `ShellAssumption` wants the GUI's line no longer than the
shell's and the words of the commands told apart to be different. `Ended` is what keeps the loops that look
for a null inside the buffers: the last cell of every line is null, also half-way through a
copy, because both lines end there. A line from the GUI can have anything in its last cell,
but then nothing is copied byte by byte any more (`InPlace`: vgamode is never left). `Shown`
relates the screen to the buffer up to the cursor. `Remembered` relates the history to the
commands entered while `add_to_history` copies cell after cell: `Before(l)` puts together what
line l was when the copying began, from the cells that have moved to the next line and those that
have not. A key in the middle of all that sets `raced`, or `torn` when it changes a line
that is being copied; the two properties say nothing then, as nothing holds.

### NicProofs

`NicInvariant`, `WholeFramesAreReadInvariant` and `SentAsHandedInvariant` hold for every
bus, ring, frame size and number of descriptors, with interrupts anywhere. The ring's size is a
multiple of 4 and larger than any frame with its header, as in the code. `Chain`: the records
follow one another from where the driver reads to where the card writes, which is what
makes `rx_offset`, kept without asking the card, the right place. `Sent`: until an interrupt
has sent inside the thread's sending, the descriptors the card owns are the next ones in its
turn and hold what was handed over. For the search, the first card on the list of
`pci_scan_devices` is shown to be the card of `CardIsFound`, for any set of functions on the bus
(`CardIsUsable`, `UsableIsCard`).

### NetProofs

`ArpInvInvariant` and `AddressedToTargetInvariant` hold for any number of hosts, cache
entries, changes of address and frames under way. `HeardIsKept` needs `OneSlot`;
`AddressedToTarget` needs that the slot the thread copies from stays its target's
(`ThreadSound`), which is so because an entry is never given to another host, and that
addresses are never ahead of the host (`NoFutureAddress`).

`TcpInvInvariant` holds for any number of connections, pieces of data and pieces under way, any
length of data and any printing limit, with losses, repetitions and reordering. What each part of
`TcpInv` presupposes is in its formula: `AcksFollowPrints` nothing, `LastAckedIsPrinted` that the
numbers of the connections do not overlap (`NumbersApart`), `AckedIsPrinted` and
`PrintedWithoutGaps` also that the client sends one piece at a time (`StopAndWait`). The code
ensures none of this, and section 3 says what happens otherwise. `SegmentSound` and
`ReplySound` say of everything under way what it presupposes: an acknowledgement on the wire
is the number behind something printed, and a segment of a client that waits comes when all
before it has been printed.

`ChecksumInvariant` holds for strings of any length and any base of bytes. `StandsFor(n)`: the
driver's sum, low byte first, times the base is the network's sum of the first n bytes plus a
multiple of `WordBase - 1`, and one is zero exactly if the other is. Words, the odd byte and folding
keep this; swapping the bytes of a word is multiplying by the base, up to such a multiple. The
code's sum has 32 bits, which suffice for 128 KB; frames are smaller.

### BoardProofs

| Theorem | Assumes, of the constants | Argument |
|---|---|---|
| `ConsoleInvariant` | a screen of at least one cell | the cursor that the thread has loaded is on the screen, whatever interrupts do to the shared one |
| `TraceInvariant` | a ring of at least one entry | `TraceIndInv` says where each of the latest events is, before and after the ring is full |
| `PmmInvariant` | sizes and bases fit a word; a word is a number of pages | the count changes with the bitmap; what is free lies between reserve and bound (`FreeInBounds`); that only RAM is free is stated for maps of whole pages (`OfWholePages`), and without a map for the code's own sum |
| `DesktopInvariant` | screen and byte are not empty, a byte holds the flags, the button lies below the title bar | `StackSound` and `InStep`: without nesting the one handler knows which byte of which packet it has; `ClipsAhead`: a pointer off the screen has a handler that is about to clip it; `GrabsTitle`: what a handler grabs it has found on its own copy of the title bar; `GripHeld`: as long as one packet is applied at a time, the registers of its handler agree with the window (`Knows`) |
| `ClockInvariant` | fewer seconds pass during a call than a minute has | `ReadInTurn`: the registers of the last and of this reading are those of moments in order; if they agree, the seconds are the same less than a minute apart, so it is one moment |

`MaxTicks < Seconds` of the clock is what the code relies on when it compares two readings:
a call that took a minute could see one second twice.

## 5. Not modelled

- The ATA register protocol: a sector write is one step, and the disk always answers.
- ls, fsinfo, lspci, mem and the other commands that only print.
- The virtual FAT of link (an append-only table of 16 entries), and the debug commands (peek,
  poke, inject, run, daemon, dump), which read, write and run arbitrary memory by design: no
  property of the kernel survives them.
- The set-up of GDT, IDT and page tables: straight-line writes of constant tables. What the
  other models take from them is stated there: handlers run with interrupts off, Ring 3 has
  no pages.
- The date of the clock, which is read and decoded like the time; the layout of the network
  headers; what a received datagram or echo reply prints.
- The agent on the host, which is not part of the kernel.

## 6. Plan

Modelled: RexFS, the heap, the scheduler with exec, the command line, the network, the
desktop, the console, the clock, the event rings and the frame bitmap. Proved: every safety
property of a passing run, and the refinement. What is left:

1. weaker assumptions where the code justifies them: `NoBlockLeaks` for files with index
   blocks on a disk that does not become full;
2. theorems about what is true after the faults that the violation runs show: which blocks an
   interrupted write can endanger, and which files it cannot;
3. for the liveness properties, the safety half of their arguments: measures that decrease with
   every step of an operation.
